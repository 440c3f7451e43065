------------------------- MODULE LPADVerifierProofs -------------------------
(***************************************************************************)
(* Proofs about LPADVerifier, for any number of threads and operations:    *)
(* type correctness, that an atomic store is never accused and never       *)
(* blocks the enclave (HonestStoreAccepted), and that the history is the   *)
(* longest gap-free run of finished puts (HistoryIsPrefix).                *)
(***************************************************************************)
EXTENDS LPADVerifier, NatLemmas, TLAPS

\* Threads that own an id: it is theirs from allocId to the second call.
Owners == {t \in Threads : pc[t] \in {"pre_file", "store", "post_time",
                                      "post_put", "post_get"}}

\* Ids are distinct, and pending_list holds those of the filed operations.
IdsInv ==
    /\ \A t \in Threads : id[t] <= g_id
    /\ \A t, u \in Owners : id[t] = id[u] => t = u
    /\ DOMAIN pending_list = {id[t] : t \in Filed}

\* Only post_put threads of puts, and post_get threads of gets.
KindInv ==
    /\ \A t \in Threads : pc[t] = "post_put" => kind[t] = "put"
    /\ \A t \in Threads : pc[t] = "post_get" => kind[t] = "get"

\* No time lies in the future.
ClockInv ==
    /\ \A t \in Threads : time[t] <= g_timer
    /\ \A i \in DOMAIN pending_list : pending_list[i].start <= g_timer
    /\ \A n \in DOMAIN completed_list : completed_list[n].start <= g_timer
    /\ history.start <= g_timer

\* Where the sequence numbers of the store are.
PlaceInv ==
    /\ history.ts <= last_sequence
    /\ \A n \in DOMAIN completed_list :
          n > history.ts + 1 /\ n <= last_sequence /\ completed_list[n].ts = n
    /\ \A t \in InFlight : /\ seq[t] > history.ts /\ seq[t] <= last_sequence
                           /\ seq[t] \notin DOMAIN completed_list
    /\ \A t, u \in InFlight : seq[t] = seq[u] => t = u
    /\ \A n \in Nat : history.ts < n /\ n <= last_sequence =>
          n \in DOMAIN completed_list \/ \E t \in InFlight : seq[t] = n

\* An operation began before any operation with a later timestamp ended.
OrderInv ==
    /\ \A n, m \in DOMAIN completed_list :
          n < m => completed_list[n].start < completed_list[m].end
    /\ \A m \in DOMAIN completed_list : history.start < completed_list[m].end
    /\ \A m \in DOMAIN completed_list : \A u \in InFlight :
          seq[u] < m => pending_list[id[u]].start < completed_list[m].end
    /\ \A t \in InFlight : pc[t] = "post_put" =>
          /\ history.start < time[t]
          /\ \A n \in DOMAIN completed_list :
                n < seq[t] => completed_list[n].start < time[t]
          /\ \A u \in InFlight :
                seq[u] < seq[t] => pending_list[id[u]].start < time[t]

IInv == /\ TypeOK /\ IdsInv /\ KindInv /\ ClockInv /\ PlaceInv /\ OrderInv
        /\ HonestStoreAccepted

-----------------------------------------------------------------------------
(* The invariant holds initially *)

\* The initial state: empty lists and a history of nothing.
LEMMA InitIInv == Init => IInv
<1> SUFFICES ASSUME Init PROVE IInv
  OBVIOUS
<1>1. DOMAIN pending_list = {} /\ DOMAIN completed_list = {}
  BY DEF Init, EmptyMap
<1>2. TypeOK
  <2>1. history \in OpType
    BY DEF Init, OpRecord, OpType
  <2>2. error_detected \in BOOLEAN
    BY DEF Init
  <2>3. ops \in [Threads -> 0 .. MaxOps]
    BY MaxOpsAssumption DEF Init
  <2>4. /\ pc \in [Threads -> PCs] /\ kind \in [Threads -> {"put", "get"}]
        /\ time \in [Threads -> Nat] /\ id \in [Threads -> Nat]
        /\ seq \in [Threads -> Nat]
    BY DEF Init, PCs
  <2>5. QED
    BY <1>1, <2>1, <2>2, <2>3, <2>4 DEF Init, TypeOK
<1>3. IdsInv
  BY <1>1 DEF Init, IdsInv, Owners, Filed
<1>4. KindInv /\ ClockInv
  BY <1>1 DEF Init, KindInv, ClockInv, OpRecord
<1>5. PlaceInv
  BY <1>1 DEF Init, PlaceInv, InFlight, OpRecord
<1>6. OrderInv
  BY <1>1 DEF Init, OrderInv, InFlight, OpRecord
<1>7. HonestStoreAccepted
  BY ThreadsAssumption DEF Init, HonestStoreAccepted
<1>8. QED
  BY <1>2, <1>3, <1>4, <1>5, <1>6, <1>7 DEF IInv

-----------------------------------------------------------------------------
(* Steps that leave the lists alone *)

\* preput and preget draw the start time: it is past every time handed out before.
LEMMA PreTimeStep ==
    ASSUME IInv, NEW t \in Threads, PreTime(t)
    PROVE  IInv'
<1> USE DEF IInv
<1>1. TypeOK'
  BY KindsAssumption, MaxOpsAssumption DEF TypeOK, PreTime, PCs
<1>2. Owners' = Owners /\ Filed' = Filed /\ InFlight' = InFlight
  BY DEF Owners, Filed, InFlight, PreTime, TypeOK
<1>3. IdsInv'
  BY <1>2 DEF IdsInv, PreTime
<1>4. KindInv'
  BY DEF KindInv, PreTime, TypeOK
<1>5. ClockInv'
  BY DEF ClockInv, PreTime, TypeOK, OpType
<1>6. PlaceInv'
  BY <1>2 DEF PlaceInv, PreTime
<1>7. OrderInv'
  BY <1>2 DEF OrderInv, PreTime, TypeOK, InFlight
<1>8. HonestStoreAccepted'
  BY DEF HonestStoreAccepted, PreTime, TypeOK
<1>9. QED
  BY <1>1, <1>3, <1>4, <1>5, <1>6, <1>7, <1>8

\* They draw an id that no open operation has.
LEMMA PreIdStep ==
    ASSUME IInv, NEW t \in Threads, PreId(t)
    PROVE  IInv'
<1> USE DEF IInv
<1>1. TypeOK'
  BY DEF TypeOK, PreId, AllocId, PCs
<1>2. Filed' = Filed /\ InFlight' = InFlight
  BY DEF Filed, InFlight, PreId, TypeOK
<1>3. IdsInv'
  <2>1. Owners' = Owners \cup {t} /\ t \notin Owners /\ t \notin Filed
    BY DEF Owners, Filed, PreId, TypeOK
  <2>2. \A u \in Threads : u /= t => id'[u] = id[u]
    BY DEF PreId, TypeOK
  <2>3. {id'[u] : u \in Filed} = {id[u] : u \in Filed}
    BY <2>1, <2>2 DEF Filed
  <2>4. id'[t] = g_id + 1 /\ g_id' = g_id + 1
    BY DEF PreId, AllocId, TypeOK
  <2>5. \A u \in Threads : id'[u] <= g_id'
    BY <2>2, <2>4 DEF IdsInv, TypeOK
  <2>6. \A u, v \in Owners' : id'[u] = id'[v] => u = v
    BY <2>1, <2>2, <2>4 DEF IdsInv, TypeOK, Owners
  <2>7. DOMAIN pending_list' = {id'[u] : u \in Filed'}
    BY <1>2, <2>3 DEF IdsInv, PreId
  <2>8. QED
    BY <2>5, <2>6, <2>7 DEF IdsInv
<1>4. KindInv'
  BY DEF KindInv, PreId, TypeOK
<1>5. ClockInv'
  BY DEF ClockInv, PreId, TypeOK
<1>6. PlaceInv'
  BY <1>2 DEF PlaceInv, PreId
<1>7. OrderInv'
  BY <1>2 DEF OrderInv, PreId, TypeOK, InFlight
<1>8. HonestStoreAccepted'
  BY DEF HonestStoreAccepted, PreId, TypeOK
<1>9. QED
  BY <1>1, <1>3, <1>4, <1>5, <1>6, <1>7, <1>8

-----------------------------------------------------------------------------
(* Filing an operation, and the store *)

\* They file the operation in pending_list under g_mutex.
LEMMA PreFileStep ==
    ASSUME IInv, NEW t \in Threads, PreFile(t)
    PROVE  IInv'
<1> USE DEF IInv
<1> DEFINE rec == OpRecord(time[t], 0, IF kind[t] = "get" THEN history.ts ELSE 0)
<1>1. rec \in OpType /\ rec.start = time[t]
  BY DEF OpRecord, OpType, TypeOK
<1>2. t \in Owners /\ t \notin Filed /\ Filed \subseteq Owners
  BY DEF Owners, Filed, PreFile, TypeOK
<1>3. id[t] \notin DOMAIN pending_list
  BY <1>2 DEF IdsInv
<1> HIDE DEF rec
<1>4. pending_list' = Insert(pending_list, id[t], rec)
  BY DEF PreFile, rec
<1>5. /\ DOMAIN pending_list' = DOMAIN pending_list \cup {id[t]}
      /\ pending_list'[id[t]] = rec
      /\ \A x \in DOMAIN pending_list : pending_list'[x] = pending_list[x]
  BY <1>3, <1>4 DEF Insert
<1>6. Owners' = Owners /\ Filed' = Filed \cup {t} /\ InFlight' = InFlight
  BY DEF Owners, Filed, InFlight, PreFile, TypeOK
<1>7. \A u \in InFlight : /\ id[u] \in DOMAIN pending_list
                          /\ pending_list'[id[u]] = pending_list[id[u]]
  BY <1>5 DEF InFlight, Filed, IdsInv
<1>8. TypeOK'
  BY <1>1, <1>5 DEF TypeOK, PreFile, PCs
<1>9. IdsInv'
  BY <1>5, <1>6 DEF IdsInv, PreFile
<1>10. KindInv'
  BY DEF KindInv, PreFile, TypeOK
<1>11. ClockInv'
  BY <1>1, <1>5 DEF ClockInv, PreFile
<1>12. PlaceInv'
  BY <1>6 DEF PlaceInv, PreFile
<1>13. OrderInv'
  BY <1>6, <1>7 DEF OrderInv, PreFile, TypeOK, InFlight
<1>14. HonestStoreAccepted'
  BY DEF HonestStoreAccepted, PreFile, TypeOK
<1>15. QED
  BY <1>8, <1>9, <1>10, <1>11, <1>12, <1>13, <1>14

\* The store gives a put its number between its start and its end time.
LEMMA SUWriteStep ==
    ASSUME IInv, NEW t \in Threads, SUWrite(t)
    PROVE  IInv'
<1> USE DEF IInv
<1>1. Owners' = Owners /\ Filed' = Filed
  BY DEF Owners, Filed, SUWrite, StoreReturns, TypeOK
<1>2. /\ InFlight' = InFlight \cup {t} /\ t \notin InFlight
      /\ seq'[t] = last_sequence + 1 /\ last_sequence' = last_sequence + 1
      /\ \A u \in Threads : u /= t => seq'[u] = seq[u] /\ pc'[u] = pc[u]
      /\ pc'[t] = "post_time"
      /\ UNCHANGED <<history, completed_list, pending_list, time, id>>
  BY DEF InFlight, SUWrite, StoreReturns, TypeOK, enclaveVars
<1>3. TypeOK'
  BY DEF TypeOK, SUWrite, StoreReturns, PCs, enclaveVars
<1>4. IdsInv'
  BY <1>1 DEF IdsInv, SUWrite, StoreReturns, enclaveVars
<1>5. KindInv'
  BY DEF KindInv, SUWrite, StoreReturns, TypeOK
<1>6. ClockInv'
  BY DEF ClockInv, SUWrite, StoreReturns, enclaveVars
<1>7. PlaceInv'
  <2>1. \A u \in InFlight : u \in Threads /\ seq[u] \in Nat
    BY DEF InFlight, TypeOK
  <2>2. \A u \in InFlight : seq'[u] = seq[u]
    BY <1>2, <2>1
  <2>3. history.ts \in Nat /\ last_sequence \in Nat
    BY DEF TypeOK, OpType
  <2>4. \A n \in Nat : history.ts < n /\ n <= last_sequence' =>
          n \in DOMAIN completed_list \/ \E u \in InFlight' : seq'[u] = n
    BY <1>2, <2>2, <2>3 DEF PlaceInv
  <2>5. \A u \in InFlight' :
          /\ seq'[u] > history.ts /\ seq'[u] <= last_sequence'
          /\ seq'[u] \notin DOMAIN completed_list
    BY <1>2, <2>1, <2>2, <2>3 DEF PlaceInv, TypeOK
  <2>6. \A u, v \in InFlight' : seq'[u] = seq'[v] => u = v
    BY <1>2, <2>1, <2>2, <2>3 DEF PlaceInv
  <2>7. QED
    BY <1>2, <2>3, <2>4, <2>5, <2>6 DEF PlaceInv, TypeOK
<1>8. OrderInv'
  <2>1. \A u \in InFlight : u \in Threads /\ seq[u] \in Nat /\ seq'[u] = seq[u]
                            /\ pc'[u] = pc[u]
    BY <1>2 DEF InFlight, TypeOK
  <2>2. \A n \in DOMAIN completed_list : ~(seq'[t] < n)
    BY <1>2 DEF PlaceInv, TypeOK
  <2>3. \A u \in InFlight : ~(seq'[t] < seq'[u])
    BY <1>2, <2>1 DEF PlaceInv, TypeOK
  <2>4. QED
    BY <1>2, <2>1, <2>2, <2>3 DEF OrderInv
<1>9. HonestStoreAccepted'
  BY DEF HonestStoreAccepted, SUWrite, StoreReturns, TypeOK, enclaveVars
<1>10. QED
  BY <1>3, <1>4, <1>5, <1>6, <1>7, <1>8, <1>9

\* The store gives the puts G their numbers in one step, in any order; nothing else changes.
SUWriteGroup(G) ==
    /\ last_sequence' \in Nat /\ last_sequence <= last_sequence'
    /\ pc' \in [Threads -> PCs] /\ seq' \in [Threads -> Nat]
    /\ \A t \in G : /\ t \in Threads /\ kind[t] = "put" /\ pc[t] = "store" /\ pc'[t] = "post_time"
                    /\ seq'[t] \in last_sequence + 1 .. last_sequence'
    /\ \A t, u \in G : seq'[t] = seq'[u] => t = u
    /\ \A n \in last_sequence + 1 .. last_sequence' : \E t \in G : seq'[t] = n
    /\ \A t \in Threads \ G : pc'[t] = pc[t] /\ seq'[t] = seq[t]
    /\ UNCHANGED <<enclaveVars, kind, ops, time, id>>

\* A group of puts that get their numbers together, as a group commit gives them: they overlap
\* in real time, so any order among them is one the verifier accepts.
LEMMA SUWriteGroupStep ==
    ASSUME IInv, NEW G, SUWriteGroup(G)
    PROVE  IInv'
<1> USE DEF IInv
<1>0. /\ UNCHANGED <<g_timer, g_id, g_mutex, pending_list, completed_list, history, error_detected,
                     kind, ops, time, id>>
      /\ last_sequence \in Nat /\ last_sequence' \in Nat /\ last_sequence <= last_sequence'
      /\ G \subseteq Threads
      /\ \A t \in G : /\ t \in Threads /\ kind[t] = "put" /\ pc[t] = "store" /\ pc'[t] = "post_time"
                      /\ seq'[t] \in last_sequence + 1 .. last_sequence'
      /\ \A t \in Threads \ G : pc'[t] = pc[t] /\ seq'[t] = seq[t]
      /\ pc' \in [Threads -> PCs] /\ seq' \in [Threads -> Nat]
  BY DEF SUWriteGroup, enclaveVars, TypeOK
<1>1. Owners' = Owners /\ Filed' = Filed
  BY <1>0 DEF Owners, Filed
<1>2. InFlight' = InFlight \cup G /\ \A t \in G : t \notin InFlight
  BY <1>0 DEF InFlight
<1>3. TypeOK'
  BY <1>0 DEF TypeOK
<1>4. IdsInv'
  BY <1>0, <1>1 DEF IdsInv
<1>5. KindInv'
  BY <1>0 DEF KindInv
<1>6. ClockInv'
  BY <1>0 DEF ClockInv
<1>a. /\ \A u \in InFlight : /\ u \in Threads /\ seq[u] \in Nat /\ seq'[u] = seq[u] /\ pc'[u] = pc[u]
                             /\ seq[u] <= last_sequence
      /\ \A u \in G : seq'[u] \in Nat /\ seq'[u] > last_sequence /\ seq'[u] <= last_sequence'
  BY <1>0, <1>2 DEF InFlight, TypeOK, PlaceInv
<1>7. PlaceInv'
  <2>3. history.ts \in Nat /\ last_sequence \in Nat /\ history.ts <= last_sequence
    BY DEF TypeOK, OpType, PlaceInv
  <2>4. ASSUME NEW n \in Nat, history.ts < n, n <= last_sequence'
        PROVE  n \in DOMAIN completed_list \/ \E u \in InFlight' : seq'[u] = n
    <3>1. CASE n <= last_sequence
      BY <1>2, <1>a, <2>4, <3>1 DEF PlaceInv
    <3>2. CASE n > last_sequence
      <4>1. n \in last_sequence + 1 .. last_sequence'
        BY <1>0, <2>4, <3>2
      <4>2. QED
        BY <1>2, <4>1 DEF SUWriteGroup
    <3>3. QED
      BY <1>0, <3>1, <3>2
  <2>5. ASSUME NEW u \in InFlight'
        PROVE  /\ seq'[u] > history.ts /\ seq'[u] <= last_sequence'
               /\ seq'[u] \notin DOMAIN completed_list
    <3>1. CASE u \in InFlight
      BY <1>0, <1>a, <2>3, <3>1 DEF PlaceInv, TypeOK
    <3>2. CASE u \in G
      BY <1>0, <1>a, <2>3, <3>2 DEF PlaceInv, TypeOK
    <3>3. QED
      BY <1>2, <3>1, <3>2
  <2>6. \A u, v \in InFlight' : seq'[u] = seq'[v] => u = v
    <3>1. \A u, v \in InFlight : seq'[u] = seq'[v] => u = v
      BY <1>a DEF PlaceInv
    <3>2. \A u, v \in G : seq'[u] = seq'[v] => u = v
      BY DEF SUWriteGroup
    <3>3. \A u \in InFlight, v \in G : seq'[u] # seq'[v]
      BY <1>0, <1>a
    <3>4. QED
      BY <1>2, <3>1, <3>2, <3>3
  <2>7. /\ history.ts <= last_sequence'
        /\ \A n \in DOMAIN completed_list :
              n > history.ts + 1 /\ n <= last_sequence' /\ completed_list[n].ts = n
    BY <1>0, <2>3 DEF PlaceInv, TypeOK
  <2>8. QED
    BY <1>0, <2>4, <2>5, <2>6, <2>7 DEF PlaceInv
<1>8. OrderInv'
  <2>2. \A t \in G : \A n \in DOMAIN completed_list : ~(seq'[t] < n)
    BY <1>0, <1>a DEF PlaceInv, TypeOK
  <2>3. \A t \in G : \A u \in InFlight : ~(seq'[t] < seq'[u])
    BY <1>0, <1>a
  <2>4. \A t \in G : pc'[t] # "post_put"
    BY <1>0
  <2>5. QED
    BY <1>0, <1>2, <1>a, <2>2, <2>3, <2>4 DEF OrderInv
<1>9. HonestStoreAccepted'
  BY <1>0 DEF HonestStoreAccepted, TypeOK
<1>10. QED
  BY <1>3, <1>4, <1>5, <1>6, <1>7, <1>8, <1>9

\* The store answers a get with a number some put already has.
LEMMA SUGetStep ==
    ASSUME IInv, NEW t \in Threads, SUGet(t)
    PROVE  IInv'
<1> USE DEF IInv
<1>1. PICK tw \in 0 .. last_sequence : StoreReturns(t, tw)
  BY DEF SUGet
<1>2. Owners' = Owners /\ Filed' = Filed /\ InFlight' = InFlight
  BY <1>1 DEF Owners, Filed, InFlight, SUGet, StoreReturns, TypeOK
<1>3. /\ \A u \in InFlight : seq'[u] = seq[u] /\ pc'[u] = pc[u]
      /\ UNCHANGED <<history, completed_list, pending_list, time, id,
                     last_sequence>>
  BY <1>1 DEF InFlight, SUGet, StoreReturns, TypeOK, enclaveVars
<1>4. TypeOK'
  BY <1>1 DEF TypeOK, SUGet, StoreReturns, PCs, enclaveVars
<1>5. IdsInv'
  BY <1>1, <1>2 DEF IdsInv, StoreReturns, enclaveVars
<1>6. KindInv'
  BY <1>1 DEF KindInv, StoreReturns, TypeOK
<1>7. ClockInv'
  BY <1>1 DEF ClockInv, StoreReturns, enclaveVars
<1>8. PlaceInv'
  BY <1>2, <1>3 DEF PlaceInv
<1>9. OrderInv'
  BY <1>2, <1>3 DEF OrderInv
<1>10. HonestStoreAccepted'
  BY <1>1 DEF HonestStoreAccepted, StoreReturns, TypeOK, enclaveVars
<1>11. QED
  BY <1>4, <1>5, <1>6, <1>7, <1>8, <1>9, <1>10

-----------------------------------------------------------------------------
(* The second enclave call *)

\* The end time is drawn after every start time that counts.
LEMMA PostTimeStep ==
    ASSUME IInv, NEW t \in Threads, PostTime(t)
    PROVE  IInv'
<1> USE DEF IInv
<1>1. Owners' = Owners /\ Filed' = Filed /\ InFlight' = InFlight
  BY DEF Owners, Filed, InFlight, PostTime, TypeOK
<1>2. /\ time'[t] = g_timer + 1 /\ g_timer' = g_timer + 1
      /\ \A u \in Threads : u /= t => time'[u] = time[u] /\ pc'[u] = pc[u]
      /\ UNCHANGED <<history, completed_list, pending_list, id, seq,
                     last_sequence>>
  BY DEF PostTime, TypeOK
<1>3. TypeOK'
  BY DEF TypeOK, PostTime, PCs
<1>4. IdsInv'
  BY <1>1 DEF IdsInv, PostTime
<1>5. KindInv'
  BY DEF KindInv, PostTime, TypeOK
<1>6. ClockInv'
  BY <1>2 DEF ClockInv, TypeOK, OpType
<1>7. PlaceInv'
  BY <1>1, <1>2 DEF PlaceInv
<1>8. OrderInv'
  <2>1. \A u \in InFlight : u \in Threads /\ id[u] \in DOMAIN pending_list
    BY DEF InFlight, Filed, IdsInv
  <2>2. /\ history.start < time'[t]
        /\ \A n \in DOMAIN completed_list : completed_list[n].start < time'[t]
        /\ \A u \in InFlight : pending_list[id[u]].start < time'[t]
    BY <1>2, <2>1 DEF ClockInv, TypeOK, OpType
  <2>3. QED
    BY <1>1, <1>2, <2>1, <2>2 DEF OrderInv
<1>9. HonestStoreAccepted'
  BY DEF HonestStoreAccepted, PostTime, TypeOK
<1>10. QED
  BY <1>3, <1>4, <1>5, <1>6, <1>7, <1>8, <1>9

\* Taking an operation out of pending_list leaves those of the others.
LEMMA ErasePending ==
    ASSUME IInv, NEW t \in Filed
    PROVE  /\ DOMAIN Erase(pending_list, {id[t]}) = {id[u] : u \in Filed \ {t}}
           /\ \A x \in {id[u] : u \in Filed \ {t}} :
                 /\ x \in DOMAIN pending_list
                 /\ Erase(pending_list, {id[t]})[x] = pending_list[x]
<1>1. /\ DOMAIN Erase(pending_list, {id[t]}) = DOMAIN pending_list \ {id[t]}
      /\ \A x \in DOMAIN pending_list \ {id[t]} :
            Erase(pending_list, {id[t]})[x] = pending_list[x]
  BY DEF Erase, Restrict
<1>2. \A u \in Filed : id[u] = id[t] => u = t
  BY DEF IInv, IdsInv, Owners, Filed
<1>3. DOMAIN pending_list \ {id[t]} = {id[u] : u \in Filed \ {t}}
  BY <1>2 DEF IInv, IdsInv
<1>4. QED
  BY <1>1, <1>3

\* postget takes its operation out of pending_list and leaves the history alone.
LEMMA PostGetStep ==
    ASSUME IInv, NEW t \in Threads, PostGet(t)
    PROVE  IInv'
<1> USE DEF IInv
<1>1. t \in Filed /\ t \notin InFlight
  BY DEF Filed, InFlight, PostGet, KindInv
<1>2. /\ Owners' = Owners \ {t} /\ Filed' = Filed \ {t} /\ InFlight' = InFlight
  BY DEF Owners, Filed, InFlight, PostGet, TypeOK, KindInv
<1>3. /\ DOMAIN pending_list' = {id[u] : u \in Filed'}
      /\ DOMAIN pending_list' \subseteq DOMAIN pending_list
      /\ \A x \in DOMAIN pending_list' : pending_list'[x] = pending_list[x]
  <2>1. pending_list' = Erase(pending_list, {id[t]})
    BY DEF PostGet
  <2>2. QED
    BY <1>1, <1>2, <2>1, ErasePending
<1>4. \A u \in InFlight : pending_list'[id[u]] = pending_list[id[u]]
                          /\ pc'[u] = pc[u]
  <2> TAKE u \in InFlight
  <2>1. u # t /\ u \in Threads /\ u \in Filed'
    BY <1>1, <1>2 DEF InFlight, Filed
  <2>2. pending_list'[id[u]] = pending_list[id[u]]
    BY <1>3, <2>1
  <2>3. pc'[u] = pc[u]
    BY <2>1 DEF PostGet, TypeOK
  <2>4. QED
    BY <2>2, <2>3
<1>5. UNCHANGED <<g_timer, g_id, history, completed_list, id, seq, time,
                  last_sequence, kind, error_detected>>
  BY DEF PostGet
<1>6. TypeOK'
  BY <1>3 DEF TypeOK, PostGet, PCs
<1>7. IdsInv'
  BY <1>2, <1>3, <1>5 DEF IdsInv
<1>8. KindInv'
  BY DEF KindInv, PostGet, TypeOK
<1>9. ClockInv'
  BY <1>3, <1>5 DEF ClockInv
<1>10. PlaceInv'
  BY <1>2, <1>5 DEF PlaceInv
<1>11. OrderInv'
  BY <1>2, <1>4, <1>5 DEF OrderInv
<1>12. HonestStoreAccepted'
  BY ThreadsAssumption DEF HonestStoreAccepted, PostGet, TypeOK
<1>13. QED
  BY <1>6, <1>7, <1>8, <1>9, <1>10, <1>11, <1>12

\* What enclave_postput adds to completed_list.
LEMMA CompletedGains ==
    ASSUME IInv, NEW t \in Threads, pc[t] = "post_put"
    PROVE  /\ t \in InFlight /\ t \in Filed
           /\ DOMAIN Completed(t) = DOMAIN completed_list \cup {seq[t]}
           /\ \A n \in DOMAIN completed_list : Completed(t)[n] = completed_list[n]
           /\ Completed(t)[seq[t]] =
                 OpRecord(pending_list[id[t]].start, time[t], seq[t])
           /\ seq[t] \notin DOMAIN completed_list
           /\ pending_list[id[t]] \in OpType
           /\ pending_list[id[t]].start <= g_timer
<1> USE DEF IInv
<1>1. t \in InFlight /\ t \in Filed
  BY DEF InFlight, Filed, KindInv
<1>2. seq[t] \notin DOMAIN completed_list
  BY <1>1 DEF PlaceInv
<1>3. id[t] \in DOMAIN pending_list
  BY <1>1 DEF IdsInv
<1>4. pending_list[id[t]] \in OpType /\ pending_list[id[t]].start <= g_timer
  BY <1>3 DEF TypeOK, ClockInv
<1>5. QED
  BY <1>1, <1>2, <1>4 DEF Completed, Insert, EndTime

\* completed_list with the operation of t added keeps the order of OrderInv,
\* so that check finds nothing and try_merge accepts the run.
LEMMA CompletedFacts ==
    ASSUME IInv, NEW t \in Threads, pc[t] = "post_put",
           NEW comp, comp = Completed(t)
    PROVE  /\ DOMAIN comp \subseteq Nat
           /\ \A n \in DOMAIN comp :
                 /\ comp[n] \in OpType /\ comp[n].ts = n
                 /\ comp[n].start <= g_timer
                 /\ history.ts < n /\ n <= last_sequence
                 /\ history.start < comp[n].end
           /\ \A n, m \in DOMAIN comp : n < m => comp[n].start < comp[m].end
           /\ \A u \in InFlight : u /= t =>
                 /\ seq[u] \notin DOMAIN comp
                 /\ \A m \in DOMAIN comp :
                       seq[u] < m => pending_list[id[u]].start < comp[m].end
                 /\ pc[u] = "post_put" =>
                       \A n \in DOMAIN comp : n < seq[u] => comp[n].start < time[u]
<1> USE DEF IInv
<1>1. /\ t \in InFlight
      /\ DOMAIN comp = DOMAIN completed_list \cup {seq[t]}
      /\ \A n \in DOMAIN completed_list : comp[n] = completed_list[n]
      /\ comp[seq[t]] = OpRecord(pending_list[id[t]].start, time[t], seq[t])
      /\ seq[t] \notin DOMAIN completed_list
      /\ pending_list[id[t]] \in OpType
      /\ pending_list[id[t]].start <= g_timer
  BY CompletedGains
<1>2. /\ comp[seq[t]] \in OpType /\ comp[seq[t]].ts = seq[t]
      /\ comp[seq[t]].start = pending_list[id[t]].start
      /\ comp[seq[t]].end = time[t]
      /\ seq[t] \in Nat
  BY <1>1 DEF OpRecord, OpType, TypeOK
<1>3. /\ history.ts < seq[t] /\ seq[t] <= last_sequence
      /\ history.start < time[t]
  BY <1>1 DEF PlaceInv, OrderInv, TypeOK, OpType
<1>4. DOMAIN comp \subseteq Nat
  BY <1>1, <1>2 DEF TypeOK
<1>5. ASSUME NEW n \in DOMAIN comp
      PROVE  /\ comp[n] \in OpType /\ comp[n].ts = n
             /\ comp[n].start <= g_timer
             /\ history.ts < n /\ n <= last_sequence
             /\ history.start < comp[n].end
  <2>1. CASE n = seq[t]
    BY <2>1, <1>1, <1>2, <1>3
  <2>2. CASE n \in DOMAIN completed_list
    <3>1. comp[n] = completed_list[n] /\ comp[n] \in OpType /\ n \in Nat
      BY <2>2, <1>1 DEF TypeOK
    <3>2. history.ts \in Nat
      BY DEF TypeOK, OpType
    <3>3. QED
      BY <2>2, <3>1, <3>2 DEF PlaceInv, OrderInv, ClockInv
  <2>3. QED
    BY <1>1, <2>1, <2>2
<1>6. ASSUME NEW n \in DOMAIN comp, NEW m \in DOMAIN comp, n < m
      PROVE  comp[n].start < comp[m].end
  <2>1. CASE n = seq[t]
    <3>1. m \in DOMAIN completed_list
      BY <2>1, <1>1, <1>2, <1>6
    <3>2. pending_list[id[t]].start < completed_list[m].end
      BY <3>1, <2>1, <1>1, <1>6 DEF OrderInv
    <3>3. QED
      BY <3>1, <3>2, <2>1, <1>1, <1>2
  <2>2. CASE n \in DOMAIN completed_list /\ m = seq[t]
    <3>1. completed_list[n].start < time[t]
      BY <2>2, <1>1, <1>6 DEF OrderInv
    <3>2. QED
      BY <3>1, <2>2, <1>1, <1>2
  <2>3. CASE n \in DOMAIN completed_list /\ m \in DOMAIN completed_list
    BY <2>3, <1>1, <1>6 DEF OrderInv
  <2>4. QED
    BY <1>1, <2>1, <2>2, <2>3
<1>7. ASSUME NEW u \in InFlight, u /= t
      PROVE  /\ seq[u] \notin DOMAIN comp
             /\ \A m \in DOMAIN comp :
                   seq[u] < m => pending_list[id[u]].start < comp[m].end
             /\ pc[u] = "post_put" =>
                   \A n \in DOMAIN comp : n < seq[u] => comp[n].start < time[u]
  <2>1. seq[u] \notin DOMAIN comp
    BY <1>1, <1>7 DEF PlaceInv
  <2>2. ASSUME NEW m \in DOMAIN comp, seq[u] < m
        PROVE  pending_list[id[u]].start < comp[m].end
    <3>1. CASE m = seq[t]
      BY <3>1, <1>1, <1>2, <2>2 DEF OrderInv
    <3>2. CASE m \in DOMAIN completed_list
      BY <3>2, <1>1, <2>2 DEF OrderInv
    <3>3. QED
      BY <3>1, <3>2, <1>1
  <2>3. ASSUME pc[u] = "post_put", NEW n \in DOMAIN comp, n < seq[u]
        PROVE  comp[n].start < time[u]
    <3>1. CASE n = seq[t]
      BY <3>1, <1>1, <1>2, <2>3 DEF OrderInv
    <3>2. CASE n \in DOMAIN completed_list
      BY <3>2, <1>1, <2>3 DEF OrderInv
    <3>3. QED
      BY <3>1, <3>2, <1>1
  <2>4. QED
    BY <2>1, <2>2, <2>3
<1>8. QED
  BY <1>4, <1>5, <1>6, <1>7

\* What truncate takes is an interval that begins after the history, and what
\* it leaves begins after a gap.
LEMMA TruncatedRun ==
    ASSUME NEW comp, NEW h \in Nat, NEW b \in Nat,
           DOMAIN comp \subseteq Nat,
           \A n \in DOMAIN comp : h < n /\ n <= b,
           NEW acl, acl = Truncated(comp, h + 1), acl /= {}
    PROVE  \E l \in acl :
              /\ \A m \in acl : m <= l
              /\ h + 1 \in acl
              /\ \A n \in h + 1 .. l : n \in acl
              /\ \A n \in DOMAIN comp : n \in acl \/ n > l + 1
<1>1. acl \in SUBSET Nat /\ \A n \in acl : n <= b
  BY DEF Truncated
<1>2. PICK l \in acl : \A m \in acl : m <= l
  BY <1>1, GreatestNat
<1>3. l \in Nat /\ h + 1 <= l /\ \A m \in h + 1 .. l : m \in DOMAIN comp
  BY <1>1, <1>2 DEF Truncated
<1>4. ASSUME NEW n \in h + 1 .. l
      PROVE  n \in acl
  <2>1. n \in DOMAIN comp /\ n >= h + 1
    BY <1>3
  <2>2. \A m \in h + 1 .. n : m \in DOMAIN comp
    BY <1>3
  <2>3. QED
    BY <2>1, <2>2 DEF Truncated
<1>5. ASSUME NEW n \in DOMAIN comp, n \notin acl
      PROVE  n > l + 1
  <2>1. n \in Nat /\ n > h
    OBVIOUS
  <2>2. n > l
    BY <1>3, <1>4, <1>5, <2>1
  <2>3. n /= l + 1
    <3>1. SUFFICES ASSUME n = l + 1 PROVE FALSE
      OBVIOUS
    <3>2. \A m \in h + 1 .. n : m \in DOMAIN comp
      BY <1>3, <3>1
    <3>3. n \in acl
      BY <2>1, <3>2 DEF Truncated
    <3>4. QED
      BY <3>3, <1>5
  <2>4. QED
    BY <1>3, <2>1, <2>2, <2>3
<1>6. QED
  BY <1>2, <1>3, <1>4, <1>5

\* enclave_postput appends an interval of numbers to the history, up to l, and
\* completed_list keeps what lies beyond the next gap.  Nothing is refused.
LEMMA PostPutEffect ==
    ASSUME IInv, NEW t \in Threads, PostPut(t),
           NEW comp, comp = Completed(t)
    PROVE  /\ ~error_detected' /\ error_detected' \in BOOLEAN
           /\ g_mutex' = g_mutex
           /\ \E l \in Nat :
                 /\ history.ts <= l /\ l <= last_sequence
                 /\ history'.ts = l
                 /\ \/ l = history.ts /\ history' = history
                    \/ l \in DOMAIN comp /\ history' = comp[l]
                 /\ \A n \in history.ts + 1 .. l : n \in DOMAIN comp
                 /\ DOMAIN completed_list' = {n \in DOMAIN comp : n > l}
                 /\ \A n \in DOMAIN comp : n > l =>
                       n > l + 1 /\ completed_list'[n] = comp[n]
<1> USE DEF IInv
<1> DEFINE from == history.ts + 1
           acl  == Truncated(comp, from)
<1>1. /\ completed_list' = Erase(comp, acl)
      /\ error_detected' = (error_detected \/ OutOfOrder(comp, acl))
      /\ g_mutex' = IF MayMerge(comp, acl, from) THEN g_mutex ELSE t
      /\ history' = IF acl = {} \/ ~MayMerge(comp, acl, from)
                    THEN history ELSE LastOf(comp, acl)
  BY DEF PostPut
<1>2. /\ DOMAIN comp \subseteq Nat
      /\ \A n \in DOMAIN comp :
            /\ comp[n] \in OpType /\ comp[n].ts = n
            /\ history.ts < n /\ n <= last_sequence
            /\ history.start < comp[n].end
      /\ \A n, m \in DOMAIN comp : n < m => comp[n].start < comp[m].end
  BY CompletedFacts DEF PostPut
<1>3. /\ history \in OpType /\ history.ts \in Nat /\ history.start \in Nat
      /\ last_sequence \in Nat /\ history.ts <= last_sequence
  BY DEF TypeOK, OpType, PlaceInv
<1>4. acl \subseteq DOMAIN comp
  BY DEF Truncated
<1>5. /\ DOMAIN completed_list' = DOMAIN comp \ acl
      /\ \A n \in DOMAIN comp \ acl : completed_list'[n] = comp[n]
  BY <1>1 DEF Erase, Restrict
<1>6. acl /= {} =>
        \E l \in acl : /\ \A m \in acl : m <= l
                       /\ from \in acl
                       /\ \A n \in from .. l : n \in acl
                       /\ \A n \in DOMAIN comp : n \in acl \/ n > l + 1
  BY <1>2, <1>3, TruncatedRun
<1>7. ~OutOfOrder(comp, acl)
  <2>1. ASSUME NEW i \in acl, NEW j \in acl, i < j
        PROVE  ~(comp[j].end <= comp[i].start)
    <3>1. comp[i].start < comp[j].end
      BY <1>2, <1>4, <2>1
    <3>2. comp[i].start \in Nat /\ comp[j].end \in Nat
      BY <1>2, <1>4 DEF OpType
    <3>3. QED
      BY <3>1, <3>2
  <2>2. QED
    BY <2>1 DEF OutOfOrder
<1>8. MayMerge(comp, acl, from)
  <2>1. acl /= {} => history.start < comp[from].end /\ comp[from].end \in Nat
    BY <1>2, <1>4, <1>6 DEF OpType
  <2>2. QED
    BY <1>3, <2>1 DEF MayMerge
<1>9. ~error_detected' /\ error_detected' \in BOOLEAN /\ g_mutex' = g_mutex
  BY <1>1, <1>7, <1>8 DEF HonestStoreAccepted
<1>10. CASE acl = {}
  <2>1. from \notin DOMAIN comp
    BY <1>3, <1>10 DEF Truncated
  <2>2. history' = history
    BY <1>1, <1>10
  <2>3. \A n \in DOMAIN comp : n > history.ts + 1
    BY <1>2, <1>3, <2>1
  <2>4. \A n \in history.ts + 1 .. history.ts : n \in DOMAIN comp
    BY <1>3
  <2>5. DOMAIN completed_list' = {n \in DOMAIN comp : n > history.ts}
    BY <1>2, <1>5, <1>10
  <2>6. QED
    BY <1>3, <1>5, <1>9, <1>10, <2>2, <2>3, <2>4, <2>5
<1>11. CASE acl /= {}
  <2> DEFINE l == CHOOSE n \in acl : \A m \in acl : m <= n
  <2>1. PICK k \in acl : /\ \A m \in acl : m <= k
                         /\ from \in acl
                         /\ \A n \in from .. k : n \in acl
                         /\ \A n \in DOMAIN comp : n \in acl \/ n > k + 1
    BY <1>6, <1>11
  <2>2. l \in acl /\ \A m \in acl : m <= l
    BY <2>1
  <2>3. history' = comp[l]
    BY <1>1, <1>8, <1>11 DEF LastOf
  <2> HIDE DEF l
  <2>4. l = k
    BY <1>2, <1>4, <2>1, <2>2
  <2>5. k \in DOMAIN comp /\ k \in Nat /\ history.ts <= k /\ k <= last_sequence
    BY <1>2, <1>3, <1>4
  <2>6. history'.ts = k /\ history' = comp[k]
    BY <1>2, <2>3, <2>4, <2>5
  <2>7. DOMAIN comp \ acl = {n \in DOMAIN comp : n > k}
    BY <1>2, <1>4, <2>1, <2>5
  <2>8. \A n \in DOMAIN comp : n > k => n > k + 1 /\ n \notin acl
    BY <1>2, <1>4, <2>1, <2>5
  <2>9. \A n \in history.ts + 1 .. k : n \in DOMAIN comp
    BY <1>4, <2>1
  <2>10. QED
    BY <1>5, <1>9, <2>5, <2>6, <2>7, <2>8, <2>9
<1>12. QED
  BY <1>10, <1>11

\* enclave_postput preserves the invariant.
LEMMA PostPutStep ==
    ASSUME IInv, NEW t \in Threads, PostPut(t)
    PROVE  IInv'
<1> USE DEF IInv
<1> DEFINE comp == Completed(t)
<1>1. /\ t \in InFlight /\ t \in Filed
      /\ DOMAIN comp = DOMAIN completed_list \cup {seq[t]}
  BY CompletedGains DEF PostPut
<1>2. /\ DOMAIN comp \subseteq Nat
      /\ \A n \in DOMAIN comp :
            /\ comp[n] \in OpType /\ comp[n].ts = n
            /\ comp[n].start <= g_timer
            /\ history.ts < n /\ n <= last_sequence
            /\ history.start < comp[n].end
      /\ \A n, m \in DOMAIN comp : n < m => comp[n].start < comp[m].end
      /\ \A u \in InFlight : u /= t =>
            /\ seq[u] \notin DOMAIN comp
            /\ \A m \in DOMAIN comp :
                  seq[u] < m => pending_list[id[u]].start < comp[m].end
            /\ pc[u] = "post_put" =>
                  \A n \in DOMAIN comp : n < seq[u] => comp[n].start < time[u]
  BY CompletedFacts DEF PostPut
<1>3. /\ ~error_detected' /\ error_detected' \in BOOLEAN /\ g_mutex' = g_mutex
      /\ \E l \in Nat :
            /\ history.ts <= l /\ l <= last_sequence
            /\ history'.ts = l
            /\ \/ l = history.ts /\ history' = history
               \/ l \in DOMAIN comp /\ history' = comp[l]
            /\ \A n \in history.ts + 1 .. l : n \in DOMAIN comp
            /\ DOMAIN completed_list' = {n \in DOMAIN comp : n > l}
            /\ \A n \in DOMAIN comp : n > l =>
                  n > l + 1 /\ completed_list'[n] = comp[n]
  BY PostPutEffect
<1> HIDE DEF comp
<1>4. PICK l \in Nat :
        /\ history.ts <= l /\ l <= last_sequence
        /\ history'.ts = l
        /\ \/ l = history.ts /\ history' = history
           \/ l \in DOMAIN comp /\ history' = comp[l]
        /\ \A n \in history.ts + 1 .. l : n \in DOMAIN comp
        /\ DOMAIN completed_list' = {n \in DOMAIN comp : n > l}
        /\ \A n \in DOMAIN comp : n > l => n > l + 1 /\ completed_list'[n] = comp[n]
  BY <1>3
<1>5. /\ pending_list' = Erase(pending_list, {id[t]})
      /\ UNCHANGED <<g_timer, g_id, kind, ops, time, id, seq, last_sequence>>
  BY DEF PostPut
<1>6. /\ Owners' = Owners \ {t} /\ Filed' = Filed \ {t}
      /\ InFlight' = InFlight \ {t}
      /\ \A u \in Threads : u /= t => pc'[u] = pc[u]
  BY DEF Owners, Filed, InFlight, PostPut, TypeOK
<1>7. /\ DOMAIN pending_list' = {id[u] : u \in Filed'}
      /\ DOMAIN pending_list' \subseteq DOMAIN pending_list
      /\ \A x \in DOMAIN pending_list' : pending_list'[x] = pending_list[x]
  BY <1>1, <1>5, <1>6, ErasePending
<1>8. \A u \in InFlight' : /\ u \in InFlight /\ u \in Threads /\ u /= t
                           /\ pending_list'[id[u]] = pending_list[id[u]]
                           /\ pc'[u] = pc[u] /\ seq[u] \in Nat
                           /\ seq[u] > l
  <2>1. ASSUME NEW u \in InFlight'
        PROVE  /\ u \in InFlight /\ u \in Threads /\ u /= t
               /\ id[u] \in DOMAIN pending_list' /\ seq[u] \in Nat
    BY <1>6, <1>7 DEF InFlight, Filed, TypeOK
  <2>2. ASSUME NEW u \in InFlight'
        PROVE  seq[u] > l
    <3>1. seq[u] \notin DOMAIN comp /\ seq[u] > history.ts
      BY <1>2, <2>1 DEF PlaceInv
    <3>2. history.ts \in Nat
      BY DEF TypeOK, OpType
    <3>3. QED
      BY <1>4, <2>1, <3>1, <3>2
  <2>3. QED
    BY <1>6, <1>7, <2>1, <2>2
<1>9. history' \in OpType /\ history'.start <= g_timer
  BY <1>2, <1>4 DEF TypeOK, ClockInv
<1>10. TypeOK'
  <2>1. pc' \in [Threads -> PCs]
    BY DEF PostPut, TypeOK, PCs
  <2>2. /\ DOMAIN completed_list' \subseteq Nat
        /\ \A n \in DOMAIN completed_list' : completed_list'[n] \in OpType
    BY <1>2, <1>4
  <2>3. /\ DOMAIN pending_list' \subseteq Nat
        /\ \A n \in DOMAIN pending_list' : pending_list'[n] \in OpType
    BY <1>7 DEF TypeOK
  <2>4. QED
    BY <1>3, <1>5, <1>9, <2>1, <2>2, <2>3 DEF TypeOK
<1>11. IdsInv'
  BY <1>5, <1>6, <1>7 DEF IdsInv
<1>12. KindInv'
  BY DEF KindInv, PostPut, TypeOK
<1>13. ClockInv'
  BY <1>2, <1>4, <1>5, <1>7, <1>9 DEF ClockInv
<1>14. PlaceInv'
  <2>1. \A n \in DOMAIN completed_list' :
           n > l + 1 /\ n <= last_sequence /\ completed_list'[n].ts = n
    BY <1>2, <1>4
  <2>2. \A u \in InFlight' : /\ seq[u] > l /\ seq[u] <= last_sequence
                             /\ seq[u] \notin DOMAIN completed_list'
    BY <1>2, <1>4, <1>8 DEF PlaceInv
  <2>3. \A u, v \in InFlight' : seq[u] = seq[v] => u = v
    BY <1>8 DEF PlaceInv
  <2>4. ASSUME NEW n \in Nat, l < n, n <= last_sequence
        PROVE  n \in DOMAIN completed_list' \/ \E u \in InFlight' : seq[u] = n
    <3>1. history.ts \in Nat
      BY DEF TypeOK, OpType
    <3>2. n \in DOMAIN completed_list \/ \E u \in InFlight : seq[u] = n
      BY <1>4, <2>4, <3>1 DEF PlaceInv
    <3>3. CASE n \in DOMAIN completed_list
      BY <1>1, <1>4, <2>4, <3>3
    <3>4. CASE \E u \in InFlight : seq[u] = n
      BY <1>1, <1>4, <1>6, <2>4, <3>4
    <3>5. QED
      BY <3>2, <3>3, <3>4
  <2>5. QED
    BY <1>4, <1>5, <2>1, <2>2, <2>3, <2>4 DEF PlaceInv
<1>15. OrderInv'
  <2>1. \A n, m \in DOMAIN completed_list' :
           n < m => completed_list'[n].start < completed_list'[m].end
    BY <1>2, <1>4
  <2>2. \A m \in DOMAIN completed_list' : history'.start < completed_list'[m].end
    BY <1>2, <1>4
  <2>3. \A m \in DOMAIN completed_list' : \A u \in InFlight' :
           seq[u] < m => pending_list'[id[u]].start < completed_list'[m].end
    BY <1>2, <1>4, <1>8
  <2>4. ASSUME NEW u \in InFlight', pc'[u] = "post_put"
        PROVE  /\ history'.start < time[u]
               /\ \A n \in DOMAIN completed_list' :
                     n < seq[u] => completed_list'[n].start < time[u]
               /\ \A v \in InFlight' :
                     seq[v] < seq[u] => pending_list'[id[v]].start < time[u]
    <3>1. pc[u] = "post_put" /\ u \in InFlight /\ u /= t /\ l < seq[u]
      BY <1>8, <2>4
    <3>2. history'.start < time[u]
      BY <1>2, <1>4, <3>1 DEF OrderInv
    <3>3. \A n \in DOMAIN completed_list' :
             n < seq[u] => completed_list'[n].start < time[u]
      BY <1>2, <1>4, <3>1
    <3>4. \A v \in InFlight' :
             seq[v] < seq[u] => pending_list'[id[v]].start < time[u]
      BY <1>8, <3>1 DEF OrderInv
    <3>5. QED
      BY <3>2, <3>3, <3>4
  <2>5. QED
    BY <1>5, <2>1, <2>2, <2>3, <2>4 DEF OrderInv
<1>16. HonestStoreAccepted'
  BY <1>3, ThreadsAssumption DEF HonestStoreAccepted, PostPut, TypeOK
<1>17. QED
  BY <1>10, <1>11, <1>12, <1>13, <1>14, <1>15, <1>16

-----------------------------------------------------------------------------
(* The theorems *)

\* A step that changes no variable preserves the invariant.
LEMMA Stutter == IInv /\ UNCHANGED vars => IInv'
BY DEF IInv, TypeOK, IdsInv, KindInv, ClockInv, PlaceInv, OrderInv,
       HonestStoreAccepted, Owners, Filed, InFlight, vars, enclaveVars, clientVars

\* IInv is inductive.
LEMMA Inductive == IInv /\ [Next]_vars => IInv'
<1> SUFFICES ASSUME IInv, [Next]_vars PROVE IInv'
  OBVIOUS
<1>1. CASE UNCHANGED vars
  BY <1>1, Stutter
<1>2. CASE Finished
  BY <1>2, Stutter DEF Finished
<1>3. ASSUME NEW t \in Threads, PreTime(t) \/ EnclaveCall(t) \/ Store(t)
      PROVE  IInv'
  <2>1. CASE PreTime(t)
    BY <2>1, PreTimeStep
  <2>2. CASE EnclaveCall(t)
    BY <2>2, PreIdStep, PreFileStep, PostTimeStep, PostPutStep, PostGetStep,
       Stutter DEF EnclaveCall, LpadVerifyLoops
  <2>3. CASE Store(t)
    BY <2>3, SUWriteStep, SUGetStep DEF Store
  <2>4. QED
    BY <1>3, <2>1, <2>2, <2>3
<1>4. QED
  BY <1>1, <1>2, <1>3 DEF Next

\* IInv holds in every reachable state.
THEOREM Invariance == Spec => []IInv
<1>1. QED
  BY InitIInv, Inductive, PTL DEF Spec

\* Type correctness of the enclave's counters, lists and locks.
THEOREM TypeCorrect == Spec => []TypeOK
<1>1. IInv => TypeOK
  BY DEF IInv
<1>2. QED
  BY <1>1, Invariance, PTL

\* check and try_merge of Enclave/cc.cpp never accuse a store whose writes
\* take effect between preput and postput, and no postput leaves g_mutex locked.
THEOREM HonestStoreNeverAccused == Spec => []HonestStoreAccepted
<1>1. IInv => HonestStoreAccepted
  BY DEF IInv
<1>2. QED
  BY <1>1, Invariance, PTL

\* truncate and try_merge keep the history the longest gap-free run of
\* finished puts; no write is lost and none is counted twice.
THEOREM HistoryIsLongestPrefix == Spec => []HistoryIsPrefix
<1>1. IInv => HistoryIsPrefix
  <2> SUFFICES ASSUME IInv PROVE HistoryIsPrefix
    OBVIOUS
  <2>1. history.ts \in Nat /\ last_sequence \in Nat
    BY DEF IInv, TypeOK, OpType
  <2>2. DOMAIN completed_list \subseteq Nat /\ \A t \in InFlight : seq[t] \in Nat
    BY DEF IInv, TypeOK, InFlight
  <2>3. ASSUME NEW n \in 1 .. last_sequence, n <= history.ts
        PROVE  n \notin DOMAIN completed_list /\ \A t \in InFlight : seq[t] /= n
    BY <2>1, <2>2, <2>3 DEF IInv, PlaceInv
  <2>4. ASSUME NEW n \in 1 .. last_sequence, n > history.ts
        PROVE  \/ n \in DOMAIN completed_list /\ \A t \in InFlight : seq[t] /= n
               \/ n \notin DOMAIN completed_list /\ \E t \in InFlight : seq[t] = n
    BY <2>1, <2>2, <2>4 DEF IInv, PlaceInv
  <2>5. history.ts + 1 \notin DOMAIN completed_list /\ history.ts <= last_sequence
    BY <2>1, <2>2 DEF IInv, PlaceInv
  <2>6. QED
    BY <2>1, <2>3, <2>4, <2>5 DEF HistoryIsPrefix
<1>2. QED
  BY <1>1, Invariance, PTL

\* pending_list holds exactly the operations between their two enclave calls,
\* each under an id of its own.
THEOREM PendingNeverLeaks == Spec => []PendingAreOpen
<1>1. IInv => PendingAreOpen
  BY DEF IInv, IdsInv, PendingAreOpen, Owners, Filed
<1>2. QED
  BY <1>1, Invariance, PTL
=============================================================================
