---------------------------- MODULE LPADVerifier ----------------------------
(***************************************************************************)
(* The verifier LPAD runs inside the SGX enclave (Enclave/cc.cpp, op.h).   *)
(*                                                                         *)
(* Every put and get of a client is bracketed by two enclave calls:        *)
(*      enclave_preput;  DB::SUWrite;  enclave_postput                     *)
(*      enclave_preget;  DB::SUGet;    enclave_postget                     *)
(* The first call stamps the operation with a start time and files it in   *)
(* pending_list.  The second stamps a put with its end time and with the   *)
(* sequence number the store reported, moves it to completed_list, takes   *)
(* from there the run of operations whose timestamps continue the history  *)
(* (truncate), looks for operations ordered against real time (check,      *)
(* try_merge) and appends the run to the history.                          *)
(*                                                                         *)
(* The store is outside: SUWrite and SUGet are modelled by an atomic store *)
(* that takes effect at one instant between the two calls, the behaviour   *)
(* AtomicWrites specifies.  LPADBench puts the real write path here.       *)
(*                                                                         *)
(* Each of time_mutex, id_mutex and g_mutex protects one action.  g_mutex  *)
(* is a variable because two paths return, and one loops, without          *)
(* releasing it.                                                           *)
(*                                                                         *)
(* Definitions named Fault_... are wrong variants of the definition that   *)
(* follows them; the specification does not use them.                      *)
(***************************************************************************)
EXTENDS Integers, FiniteSets, Functions

CONSTANTS Threads,      \* client threads of db_bench
          Kinds,        \* operations they issue: a subset of {"put", "get"}
          MaxOps,       \* bound: operations of one thread
          NoThread

ASSUME ThreadsAssumption == NoThread \notin Threads
ASSUME KindsAssumption   == Kinds \subseteq {"put", "get"}
ASSUME MaxOpsAssumption  == MaxOps \in Nat

VARIABLES
    g_timer, g_id,      \* the counters behind getTime and allocId
    g_mutex,            \* holder of g_mutex
    pending_list,       \* Opid -> Op
    completed_list,     \* Timestamp -> Op
    history,            \* HistoryW::current, the last Op of the history
    error_detected,     \* check has reported an error
    pc, kind, ops,      \* the client: program counter, operation, count
    time, id,           \* locals of the enclave calls; id is kept by the client
    seq,                \* what the store returned: seq of a put, tw of a get
    last_sequence       \* the store: number of writes that took effect

enclaveVars == <<g_timer, g_id, g_mutex, pending_list, completed_list, history,
                 error_detected>>
clientVars  == <<pc, kind, ops, time, id, seq>>
vars == <<enclaveVars, clientVars, last_sequence>>

-----------------------------------------------------------------------------
(* std::map *)

\* map::insert: an entry that is already there stays.
Insert(map, k, v) ==
    IF k \in DOMAIN map THEN map
    ELSE [x \in DOMAIN map \cup {k} |-> IF x = k THEN v ELSE map[x]]

Erase(map, K) == Restrict(map, DOMAIN map \ K)

EmptyMap == [x \in {} |-> 0]

\* class Op; ts is ts_att: Tr of a get, Ts of a put.
OpRecord(start, end, ts) == [start |-> start, end |-> end, ts |-> ts]

-----------------------------------------------------------------------------
(* enclave_preput, enclave_preget *)

\* getTime() at the start of either call.
PreTime(t) ==
    /\ pc[t] = "idle" /\ ops[t] < MaxOps
    /\ \E k \in Kinds : kind' = [kind EXCEPT ![t] = k]
    /\ ops' = [ops EXCEPT ![t] = @ + 1]
    /\ g_timer' = g_timer + 1
    /\ time' = [time EXCEPT ![t] = g_timer + 1]
    /\ pc' = [pc EXCEPT ![t] = "pre_id"]
    /\ UNCHANGED <<g_id, g_mutex, pending_list, completed_list, history,
                   error_detected, id, seq, last_sequence>>

\* allocId().
Fault_CountsDown == g_id - 1
Fault_NotAdvanced == g_id
AllocId == g_id + 1

PreId(t) ==
    /\ pc[t] = "pre_id"
    /\ g_id' = AllocId
    /\ id' = [id EXCEPT ![t] = AllocId]
    /\ pc' = [pc EXCEPT ![t] = "pre_file"]
    /\ UNCHANGED <<g_timer, g_mutex, pending_list, completed_list, history,
                   error_detected, kind, ops, time, seq, last_sequence>>

\* The rest, under g_mutex; a get also remembers the latest timestamp, its Tr.
PreFile(t) ==
    /\ pc[t] = "pre_file"
    /\ g_mutex = NoThread
    /\ pending_list' = Insert(pending_list, id[t],
           OpRecord(time[t], 0, IF kind[t] = "get" THEN history.ts ELSE 0))
    /\ pc' = [pc EXCEPT ![t] = "store"]
    /\ UNCHANGED <<g_timer, g_id, g_mutex, completed_list, history,
                   error_detected, kind, ops, time, id, seq, last_sequence>>

-----------------------------------------------------------------------------
(* The store *)

\* DB::SUWrite or DB::SUGet returns the number s to thread t.
StoreReturns(t, s) ==
    /\ pc[t] = "store"
    /\ seq' = [seq EXCEPT ![t] = s]
    /\ pc' = [pc EXCEPT ![t] = "post_time"]
    /\ UNCHANGED <<enclaveVars, kind, ops, time, id>>

\* SUWrite of a batch with one entry.
SUWrite(t) ==
    /\ kind[t] = "put"
    /\ last_sequence' = last_sequence + 1
    /\ StoreReturns(t, last_sequence + 1)

\* SUGet of a key: tw is the sequence number of the version found, and is left
\* uninitialised in ReadRandom (here: any number in range) if there is none.
SUGet(t) ==
    /\ kind[t] = "get"
    /\ UNCHANGED last_sequence
    /\ \E tw \in 0 .. last_sequence : StoreReturns(t, tw)

-----------------------------------------------------------------------------
(* enclave_postput *)

PostTime(t) ==
    /\ pc[t] = "post_time"
    /\ g_timer' = g_timer + 1
    /\ time' = [time EXCEPT ![t] = g_timer + 1]
    /\ pc' = [pc EXCEPT ![t] = IF kind[t] = "put" THEN "post_put" ELSE "post_get"]
    /\ UNCHANGED <<g_id, g_mutex, pending_list, completed_list, history,
                   error_detected, kind, ops, id, seq, last_sequence>>

\* truncate: the timestamps that continue the history without a gap.
Truncated(comp, from) ==
    {n \in DOMAIN comp : n >= from /\ \A m \in from .. n : m \in DOMAIN comp}

\* check: an operation of the run ended before an earlier one of it began.
OutOfOrder(comp, acl) ==
    \E i, j \in acl : i < j /\ comp[j].end <= comp[i].start

\* try_merge: the run may be appended to the history.
MayMerge(comp, acl, from) == acl = {} \/ comp[from].end >= history.start

LastOf(comp, acl) == comp[CHOOSE n \in acl : \A m \in acl : m <= n]

\* The end time of the operation, stamped by Op::setEnd.
Fault_EndIsStart(t) == pending_list[id[t]].start
EndTime(t) == time[t]

Fault_OpLost(t) == completed_list
Completed(t) ==
    Insert(completed_list, seq[t],
           OpRecord(pending_list[id[t]].start, EndTime(t), seq[t]))

PostPut(t) ==
    /\ pc[t] = "post_put"
    /\ g_mutex = NoThread
    /\ LET comp == Completed(t)
           from == history.ts + 1
           acl  == Truncated(comp, from)
       IN  /\ pending_list' = Erase(pending_list, {id[t]})
           /\ completed_list' = Erase(comp, acl)
           /\ error_detected' = (error_detected \/ OutOfOrder(comp, acl))
           \* A refused run: return without unlocking g_mutex.
           /\ g_mutex' = IF MayMerge(comp, acl, from) THEN g_mutex ELSE t
           /\ history' = IF acl = {} \/ ~MayMerge(comp, acl, from)
                         THEN history ELSE LastOf(comp, acl)
    /\ pc' = [pc EXCEPT ![t] = "idle"]
    /\ UNCHANGED <<g_timer, g_id, kind, ops, time, id, seq, last_sequence>>

-----------------------------------------------------------------------------
(* enclave_postget *)

\* nmt: a version newer than the history at the start of the get needs no
\* proof.  For any other lpad_verify is called, whose inner loop
\*     for (int j=0;i<pf[i];j++)
\* tests variables it does not change; SUGet always sets pf[0] = 13, so the
\* loop is entered with i = 0 and does not end.  g_mutex stays held.
NewerThanHistory(t) == seq[t] > pending_list[id[t]].ts

PostGet(t) ==
    /\ pc[t] = "post_get"
    /\ g_mutex = NoThread
    /\ pending_list' = Erase(pending_list, {id[t]})
    /\ \/ /\ NewerThanHistory(t)
          /\ pc' = [pc EXCEPT ![t] = "idle"]
          /\ UNCHANGED g_mutex
       \/ /\ ~NewerThanHistory(t)
          /\ pc' = [pc EXCEPT ![t] = "verify"]
          /\ g_mutex' = t
    /\ UNCHANGED <<g_timer, g_id, completed_list, history, error_detected, kind,
                   ops, time, id, seq, last_sequence>>

LpadVerifyLoops(t) == pc[t] = "verify" /\ UNCHANGED vars

-----------------------------------------------------------------------------
Init ==
    /\ g_timer = 0 /\ g_id = 0 /\ g_mutex = NoThread
    /\ pending_list = EmptyMap /\ completed_list = EmptyMap
    /\ history = OpRecord(0, 0, 0)
    /\ error_detected = FALSE
    /\ pc = [t \in Threads |-> "idle"]
    /\ kind = [t \in Threads |-> "put"]
    /\ ops = [t \in Threads |-> 0]
    /\ time = [t \in Threads |-> 0]
    /\ id = [t \in Threads |-> 0]
    /\ seq = [t \in Threads |-> 0]
    /\ last_sequence = 0

EnclaveCall(t) ==
    \/ PreId(t) \/ PreFile(t) \/ PostTime(t) \/ PostPut(t) \/ PostGet(t)
    \/ LpadVerifyLoops(t)

Store(t) == SUWrite(t) \/ SUGet(t)

Finished == (\A t \in Threads : pc[t] = "idle" /\ ops[t] = MaxOps)
            /\ UNCHANGED vars

Next ==
    \/ \E t \in Threads : PreTime(t) \/ EnclaveCall(t) \/ Store(t)
    \/ Finished

\* A call that was begun goes on: the enclave and the store are scheduled.
Fairness == \A t \in Threads : WF_vars(EnclaveCall(t) \/ Store(t))

Spec == Init /\ [][Next]_vars /\ Fairness

-----------------------------------------------------------------------------
(* Properties *)

PCs == {"idle", "pre_id", "pre_file", "store", "post_time", "post_put",
        "post_get", "verify"}
OpType == [start : Nat, end : Nat, ts : Nat]

\* Type invariant of the verifier and its clients.
TypeOK ==
    /\ g_timer \in Nat /\ g_id \in Nat /\ g_mutex \in Threads \cup {NoThread}
    /\ DOMAIN pending_list \subseteq Nat
    /\ \A i \in DOMAIN pending_list : pending_list[i] \in OpType
    /\ DOMAIN completed_list \subseteq Nat
    /\ \A n \in DOMAIN completed_list : completed_list[n] \in OpType
    /\ history \in OpType
    /\ error_detected \in BOOLEAN
    /\ pc \in [Threads -> PCs]
    /\ kind \in [Threads -> {"put", "get"}]
    /\ ops \in [Threads -> 0 .. MaxOps]
    /\ time \in [Threads -> Nat] /\ id \in [Threads -> Nat]
    /\ seq \in [Threads -> Nat]
    /\ last_sequence \in Nat

\* Puts that took effect in the store and wait for their enclave_postput.
InFlight == {t \in Threads : kind[t] = "put" /\ pc[t] \in {"post_time", "post_put"}}
Filed    == {t \in Threads : pc[t] \in {"store", "post_time", "post_put", "post_get"}}

\* A store that takes effect between the two calls is never accused: check
\* reports no error, and no postput returns with g_mutex locked after a
\* refused merge, whatever the delays between getTime and g_mutex.
HonestStoreAccepted ==
    /\ ~error_detected
    /\ \A t \in Threads : g_mutex = t => pc[t] = "verify"

\* The history is the longest gap-free run of finished puts: each write the
\* store made is exactly once in the history, in completed_list or in flight,
\* and completed_list holds no write that could be appended.
HistoryIsPrefix ==
    /\ \A n \in 1 .. last_sequence :
          \/ n <= history.ts /\ n \notin DOMAIN completed_list
                             /\ \A t \in InFlight : seq[t] /= n
          \/ n > history.ts /\ n \in DOMAIN completed_list
                            /\ \A t \in InFlight : seq[t] /= n
          \/ n > history.ts /\ n \notin DOMAIN completed_list
                            /\ \E t \in InFlight : seq[t] = n
    /\ history.ts <= last_sequence
    /\ history.ts + 1 \notin DOMAIN completed_list

\* pending_list holds exactly the operations between their two enclave calls,
\* under distinct ids: no entry leaks and none is taken by another thread.
PendingAreOpen ==
    /\ DOMAIN pending_list = {id[t] : t \in Filed}
    /\ \A t, u \in Filed : id[t] = id[u] => t = u

\* Every get returns to its client.
EveryGetReturns ==
    \A t \in Threads : pc[t] /= "idle" /\ kind[t] = "get" ~> pc[t] = "idle"
=============================================================================
