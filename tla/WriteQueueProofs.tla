-------------------------- MODULE WriteQueueProofs --------------------------
(***************************************************************************)
(* Proofs about WriteQueue, for any number of clients, requests, calls,    *)
(* limits and failures: at most one thread logs and inserts and its group  *)
(* is the head of the queue (SingleLogger), a sleeping writer is signalled *)
(* exactly when it may go on (NoLostWakeup), what Write reports is true    *)
(* (AnswersHonest), what is stored is numbered once and, up to             *)
(* LastSequence, in whole batches (EntriesExact), and each batch takes     *)
(* effect at one instant of its call or never (ImplementsAtomicWrites).    *)
(***************************************************************************)
EXTENDS WriteQueue, NatLemmas, TLAPS

\* A leader that has released mutex_ to log and insert its group.
Committing == {"append", "sync", "insert", "relock"}

\* A Writer of client t is on the queue.
InQueue(t) == \E j \in DOMAIN writers_ : writers_[j] = t

\* A client inside a call has made one, with one of its requests.
CallInv == \A t \in Writers : pc[t] # "idle" => calls[t] >= 1 /\ req[t] \in AllRequests

\* The queue holds each waiting client once and the leader first: who leads or waits is on
\* it, who was completed or is not writing is not.
QueueInv ==
    /\ \A i, j \in DOMAIN writers_ : writers_[i] = writers_[j] => i = j
    /\ \A t \in Writers : InQueue(t) <=> pc[t] \in Leading \/ (pc[t] = "wait" /\ ~w[t].done)
    /\ \A t \in Writers : pc[t] \in Leading => writers_[1] = t

\* Between two actions mutex_ is held by a leader that makes room or builds its group.
MutexInv == \A t \in Writers : pc[t] \in {"room", "build"} <=> mutex_ = t

\* While a leader commits, its group is the head of the queue, no sync write follows a leader
\* that does not sync, and none of the group began after a background error.
GroupInv ==
    \A t \in Writers :
        LET group == loc[t].group
        IN  IF pc[t] \in Committing
            THEN /\ group # <<>> /\ Len(group) <= Len(writers_)
                 /\ \A j \in 1 .. Len(group) : group[j] = writers_[j]
                 /\ req[t].batch
                 /\ pc[t] # "relock" => loc[t].status = "ok"
                 /\ \A j \in 1 .. Len(group) :
                       (req[group[j]].sync => req[t].sync) /\ ~entered[group[j]].err
            ELSE group = <<>>

\* Only sleepers are signalled, and a writer exactly when its loop condition lets it go on.
WakeInv ==
    \A t \in Writers :
        /\ signalled[t] => pc[t] \in {"wait", "bgwait", "flushwait"}
        /\ pc[t] = "wait" => (signalled[t] <=> w[t].done \/ writers_[1] = t)

\* From the group's record being built to the answer: every batch of the group is in the
\* record, and once a sync leader inserts, all of them are synced.
SyncInv ==
    /\ \A t \in Writers : pc[t] \in {"append", "sync"} =>
          \A j \in 1 .. Len(loc[t].group) : req[loc[t].group[j]].batch =>
              \E e \in loc[t].updates : e.op = MyOp(loc[t].group[j])
    /\ \A t \in Writers :
          pc[t] = "insert" \/ (pc[t] = "relock" /\ loc[t].status = "ok") =>
              (req[t].sync => \A j \in 1 .. Len(loc[t].group) :
                  req[loc[t].group[j]].batch => MyOp(loc[t].group[j]) \in synced)
    /\ \A t \in Writers : pc[t] = "wait" /\ w[t].done /\ w[t].status = "ok" =>
          (req[t].sync => MyOp(t) \in synced)
    /\ \A t \in Writers : pc[t] \in {"flush", "flushwait"} => ~req[t].batch
    /\ SyncedWhenAcknowledged

\* A background error a call saw when it began is still there; a leader that found room saw
\* none, so nobody it completes with OK did.
ErrInv ==
    /\ \A t \in Writers : entered[t].err => bg_error_
    /\ \A t \in Writers : pc[t] = "build" /\ loc[t].status = "ok" => ~bg_error_
    /\ \A t \in Writers : pc[t] = "wait" /\ w[t].done /\ w[t].status = "ok" => ~entered[t].err
    /\ \A t \in Writers : pc[t] \in {"flush", "flushwait"} => ~entered[t].err
    /\ ErrorIsSticky

\* A leader with entries still to insert; those entries; and all that is not published.
Writing == {"append", "sync", "insert"}
Pend == UNION {loc[t].updates : t \in {u \in Writers : pc[u] \in Writing}}
Fresh == {e \in Stored : e.seq > last_sequence} \cup Pend

\* The entries of the group are numbered above LastSequence, up to the number the leader
\* will publish.
SeqInv ==
  /\ \A t \in Writers : pc[t] \in Committing => last_sequence <= loc[t].seq
  /\ \A t \in Writers : pc[t] \in Writing =>
        /\ loc[t].updates # {}
        /\ \A e \in loc[t].updates : last_sequence < e.seq /\ e.seq <= loc[t].seq
        /\ \A e, f \in loc[t].updates : e.seq = f.seq => e = f
  /\ SequencesDistinct

\* What is published, and what the group will publish, is closed under batches; a client's
\* next call is not in any table yet.
BatchInv ==
  /\ \A e \in Stored \cup Pend : e.op[2] <= calls[e.op[1]]
  /\ BatchesAtomic
  /\ \A e \in Fresh : \A i \in 1 .. req[e.op[1]].count : calls[e.op[1]] = e.op[2] =>
         \E f \in Fresh : f.op = e.op /\ f.i = i /\ f.seq = e.seq - e.i + i

\* Without an imm_ there are no entries in it.
ImmInv == has_imm \/ imm_ = {}

\* The inductive invariant of the write path.
WInv == /\ TypeOK /\ CallInv /\ QueueInv /\ MutexInv /\ GroupInv /\ WakeInv /\ SyncInv /\ ErrInv
        /\ SeqInv /\ BatchInv /\ ImmInv
-----------------------------------------------------------------------------
(* The operators of BuildBatchGroup *)

\* CountTo adds up the batches from the front of the queue.
LEMMA CountLemma ==
    ASSUME writers_ \in Seq(Writers), \A t \in Writers : req[t].count \in Nat
    PROVE  \E F \in [Nat -> Nat] :
               /\ F[0] = 0
               /\ \A k \in 1 .. Len(writers_) : F[k] = F[k - 1] + req[writers_[k]].count
               /\ \A j, k \in Nat : j <= k => F[j] <= F[k]
               /\ \A n \in 0 .. Len(writers_) : CountTo(n) = F[n]
<1> DEFINE x == [k \in Nat |-> IF k \in 1 .. Len(writers_) THEN req[writers_[k]].count ELSE 0]
<1>1. x \in [Nat -> Nat] /\ \A k \in 1 .. Len(writers_) : x[k] = req[writers_[k]].count
  <2>1. \A k \in 1 .. Len(writers_) : writers_[k] \in Writers /\ k \in Nat
    OBVIOUS
  <2>2. QED
    BY <2>1
<1> HIDE DEF x
<1>2. PICK F \in [Nat -> Nat] :
          /\ \A k \in Nat : F[k] = IF k = 0 THEN 0 ELSE F[k - 1] + x[k]
          /\ \A j, k \in Nat : j <= k => F[j] <= F[k]
  BY <1>1, PartialSums
<1>3. ASSUME NEW n \in 0 .. Len(writers_)
      PROVE  CountTo(n) = F[n]
  <2> DEFINE A(f) == [k \in 0 .. n |-> IF k = 0 THEN 0 ELSE f[k - 1] + req[writers_[k]].count]
             s == CHOOSE f : f = A(f)
             g == [k \in 0 .. n |-> F[k]]
  <2>1. CountTo(n) = s[n]
    BY DEF CountTo
  <2>2. \A k \in 0 .. n : k \in Nat /\ (k # 0 => k - 1 \in 0 .. n /\ k \in 1 .. Len(writers_))
    OBVIOUS
  <2>3. g = A(g)
    BY <1>1, <1>2, <2>2
  <2>4. s = A(s)
    <3>1. \E f : f = A(f)
      <4> HIDE DEF A, g
      <4>1. QED
        BY <2>3
    <3> HIDE DEF A
    <3>2. QED
      BY <3>1, Zenon
  <2>5. \A k \in 0 .. n : s[k] = IF k = 0 THEN 0 ELSE s[k - 1] + x[k]
    <3> HIDE DEF s
    <3>1. \A k \in 0 .. n : s[k] = A(s)[k]
      <4> HIDE DEF A
      <4>1. QED
        BY <2>4
    <3>2. \A k \in 0 .. n :
              A(s)[k] = IF k = 0 THEN 0 ELSE s[k - 1] + req[writers_[k]].count
      OBVIOUS
    <3> HIDE DEF A
    <3>3. QED
      BY <1>1, <2>2, <3>1, <3>2
  <2> HIDE DEF s
  <2>6. s[n] = F[n]
    <3> DEFINE T == {k \in 0 .. n : s[k] # F[k]}
    <3> SUFFICES ASSUME T # {}
                 PROVE  FALSE
      <4>1. n \in 0 .. n
        OBVIOUS
      <4>2. QED
        BY <4>1
    <3>1. T \in SUBSET Nat
      OBVIOUS
    <3>2. PICK k \in T : \A y \in T : k <= y
      BY <3>1, LeastNat
    <3>3. k \in 0 .. n /\ s[k] = IF k = 0 THEN 0 ELSE s[k - 1] + x[k]
      BY <2>5
    <3>4. k # 0
      BY <1>2, <3>3
    <3>5. k - 1 \in 0 .. n /\ k - 1 \notin T
      <4>1. k - 1 \in 0 .. n /\ ~(k <= k - 1)
        BY <3>3, <3>4
      <4> HIDE DEF T
      <4>2. QED
        BY <3>2, <4>1
    <3>6. s[k] = F[k]
      BY <1>2, <3>3, <3>4, <3>5
    <3>7. QED
      BY <3>6
  <2>7. QED
    BY <2>1, <2>6
<1>4. F[0] = 0
  BY <1>2
<1>5. ASSUME NEW k \in 1 .. Len(writers_)
      PROVE  F[k] = F[k - 1] + req[writers_[k]].count
  <2>1. k \in Nat /\ k # 0
    OBVIOUS
  <2>2. QED
    BY <1>1, <1>2, <2>1
<1>6. QED
  BY <1>2, <1>3, <1>4, <1>5

\* Max of a non-empty bounded set of naturals is its greatest element.
LEMMA MaxLemma ==
    ASSUME NEW T \in SUBSET Nat, T # {}, NEW b \in Nat, \A x \in T : x <= b
    PROVE  Max(T) \in T /\ \A x \in T : x <= Max(T)
<1>1. \E x \in T : \A y \in T : y <= x
  BY GreatestNat
<1>2. \E x : x \in T /\ \A y \in T : x >= y
  BY <1>1
<1>3. QED
  BY <1>2 DEF Max

\* The group is a prefix of the queue with the leader in it, and takes a sync write only
\* under a leader that syncs.
LEMMA GroupLemma ==
    ASSUME writers_ \in Seq(Writers), writers_ # <<>>
    PROVE  /\ BuildBatchGroup \in Seq(Writers) /\ BuildBatchGroup # <<>>
           /\ Len(BuildBatchGroup) \in 1 .. Len(writers_)
           /\ \A j \in 1 .. Len(BuildBatchGroup) : BuildBatchGroup[j] = writers_[j]
           /\ \A j \in 1 .. Len(BuildBatchGroup) :
                 req[writers_[j]].sync => req[writers_[1]].sync
<1> DEFINE T == {n \in 1 .. Len(writers_) : \A j \in 2 .. n : Joins(j)}
           m == Max(T)
<1>1. 1 \in T /\ T \in SUBSET Nat /\ \A n \in T : n <= Len(writers_)
  OBVIOUS
<1>2. m \in T
  <2> HIDE DEF T
  <2>1. Len(writers_) \in Nat
    OBVIOUS
  <2>2. QED
    BY <1>1, <2>1, MaxLemma
<1>3. m \in 1 .. Len(writers_) /\ \A j \in 2 .. m : Joins(j)
  BY <1>2
<1>4. BuildBatchGroup = SubSeq(writers_, 1, m)
  BY DEF BuildBatchGroup
<1> HIDE DEF T, m
<1>5. /\ BuildBatchGroup \in Seq(Writers) /\ Len(BuildBatchGroup) = m
      /\ \A j \in 1 .. m : BuildBatchGroup[j] = writers_[j]
  BY <1>3, <1>4
<1>6. ASSUME NEW j \in 1 .. m, req[writers_[j]].sync
      PROVE  req[writers_[1]].sync
  <2>1. CASE j = 1
    BY <1>6, <2>1
  <2>2. CASE j # 1
    <3>1. j \in 2 .. m
      BY <1>3, <2>2
    <3>2. QED
      BY <1>3, <1>6, <3>1 DEF Joins
  <2>3. QED
    BY <2>1, <2>2
<1>7. QED
  BY <1>3, <1>5, <1>6

\* The sequence number stored in a writer is a number.
LEMMA FollowerSeqLemma ==
    ASSUME NEW t \in Writers, NEW group \in Seq(Writers), NEW sequence \in Nat, w[t].seq \in Nat
    PROVE  FollowerSeq(t, group, sequence) \in Nat
<1> DEFINE js == {j \in 2 .. Len(group) : group[j] = t}
<1>1. FollowerSeq(t, group, sequence) = IF js = {} THEN w[t].seq ELSE sequence + Max(js) - 1
  BY DEF FollowerSeq
<1>2. js # {} => Max(js) \in Nat /\ Max(js) >= 2
  <2> SUFFICES ASSUME js # {}
               PROVE  Max(js) \in Nat /\ Max(js) >= 2
    OBVIOUS
  <2>1. js \in SUBSET Nat /\ Len(group) \in Nat /\ \A j \in js : j <= Len(group) /\ j >= 2
    OBVIOUS
  <2> HIDE DEF js
  <2>2. Max(js) \in js
    BY <2>1, MaxLemma
  <2>3. QED
    BY <2>1, <2>2
<1> HIDE DEF js
<1>3. QED
  BY <1>1, <1>2

\* The entries of a group of n writers: whose they are, their numbers, and that no two
\* share one.
LEMMA UpdatesLemma ==
    ASSUME writers_ \in Seq(Writers), \A t \in Writers : req[t].count \in Nat,
           NEW n \in 1 .. Len(writers_), NEW last \in Nat,
           \A i, j \in DOMAIN writers_ : writers_[i] = writers_[j] => i = j
    PROVE  LET new == Updates(n, last) IN
           /\ CountTo(n) \in Nat
           /\ \A e \in new :
                 /\ e.i \in Nat /\ e.seq \in Nat /\ last < e.seq /\ e.seq <= last + CountTo(n)
                 /\ \E j \in 1 .. n : e.op = MyOp(writers_[j])
                 /\ e = [op |-> e.op, i |-> e.i, seq |-> e.seq]
           /\ \A e, f \in new : e.seq = f.seq => e = f
           /\ \A j \in 1 .. n : req[writers_[j]].count > 0 =>
                 \E e \in new : e.op = MyOp(writers_[j])
           /\ \A e \in new : \A i \in 1 .. req[e.op[1]].count :
                 \E f \in new : f.op = e.op /\ f.i = i /\ f.seq = e.seq - e.i + i
<1> DEFINE new == Updates(n, last)
           C(j) == req[writers_[j]].count
           E(j, i) == [op |-> MyOp(writers_[j]), i |-> i, seq |-> last + CountTo(j - 1) + i]
<1>1. PICK F \in [Nat -> Nat] :
          /\ F[0] = 0
          /\ \A k \in 1 .. Len(writers_) : F[k] = F[k - 1] + req[writers_[k]].count
          /\ \A j, k \in Nat : j <= k => F[j] <= F[k]
          /\ \A k \in 0 .. Len(writers_) : CountTo(k) = F[k]
  BY CountLemma
<1>2. \A e : e \in new <=> \E j \in 1 .. n : \E i \in 1 .. C(j) : e = E(j, i)
  <2>1. new = UNION {{E(j, i) : i \in 1 .. C(j)} : j \in 1 .. n}
    BY DEF Updates
  <2> HIDE DEF new, E, C
  <2>2. ASSUME NEW e \in new
        PROVE  \E j \in 1 .. n : \E i \in 1 .. C(j) : e = E(j, i)
    <3>1. PICK S \in {{E(j, i) : i \in 1 .. C(j)} : j \in 1 .. n} : e \in S
      BY <2>1
    <3>2. PICK j \in 1 .. n : S = {E(j, i) : i \in 1 .. C(j)}
      BY <3>1
    <3>3. QED
      BY <3>1, <3>2
  <2>3. ASSUME NEW j \in 1 .. n, NEW i \in 1 .. C(j)
        PROVE  E(j, i) \in new
    <3> DEFINE S == {E(j, k) : k \in 1 .. C(j)}
    <3>1. E(j, i) \in S /\ S \in {{E(m, k) : k \in 1 .. C(m)} : m \in 1 .. n}
      OBVIOUS
    <3> HIDE DEF S
    <3>2. QED
      BY <2>1, <3>1
  <2>4. QED
    BY <2>2, <2>3
<1>3. ASSUME NEW j \in 1 .. n
      PROVE  /\ j \in Nat /\ j \in 1 .. Len(writers_) /\ j - 1 \in 0 .. Len(writers_)
             /\ j - 1 \in Nat /\ F[j - 1] \in Nat /\ F[j] \in Nat /\ C(j) \in Nat
             /\ CountTo(j - 1) = F[j - 1] /\ F[j] = F[j - 1] + C(j) /\ F[j] <= F[n]
             /\ writers_[j] \in Writers /\ n \in Nat /\ CountTo(n) = F[n] /\ F[n] \in Nat
  <2>1. /\ j \in Nat /\ j \in 1 .. Len(writers_) /\ j - 1 \in 0 .. Len(writers_)
        /\ j - 1 \in Nat /\ n \in Nat /\ j <= n
        /\ n \in 0 .. Len(writers_)
    <3>1. \A m \in Nat : n \in 1 .. m =>
              /\ j \in Nat /\ j \in 1 .. m /\ j - 1 \in 0 .. m
              /\ j - 1 \in Nat /\ n \in Nat /\ j <= n /\ n \in 0 .. m
      OBVIOUS
    <3>2. Len(writers_) \in Nat
      OBVIOUS
    <3>3. QED
      BY <3>1, <3>2
  <2>2. writers_[j] \in Writers
    BY <2>1
  <2>3. QED
    BY <1>1, <2>1, <2>2
<1> HIDE DEF new
<1>4. ASSUME NEW j \in 1 .. n, NEW i \in 1 .. C(j)
      PROVE  LET e == E(j, i) IN
             /\ e.op = MyOp(writers_[j]) /\ e.op[1] = writers_[j] /\ e.i = i
             /\ e.seq = last + F[j - 1] + i
             /\ e.i \in Nat /\ e.seq \in Nat /\ last < e.seq /\ e.seq <= last + F[j]
             /\ i \in Nat /\ i > 0 /\ i <= C(j)
  <2> DEFINE a == F[j - 1]
             b == F[j]
             c == C(j)
  <2>1. a \in Nat /\ b \in Nat /\ c \in Nat /\ b = a + c
    BY <1>3
  <2>2. i \in 1 .. c
    OBVIOUS
  <2>3. CountTo(j - 1) = a
    BY <1>3
  <2> HIDE DEF a, b, c
  <2>4. i \in Nat /\ i > 0 /\ i <= c
    BY <2>1, <2>2
  <2>5. /\ last + a + i \in Nat /\ last < last + a + i /\ last + a + i <= last + b
    BY <2>1, <2>4
  <2>6. /\ E(j, i).op = <<writers_[j], calls[writers_[j]]>> /\ E(j, i).i = i
        /\ E(j, i).seq = last + a + i
    BY <2>3 DEF MyOp
  <2>7. E(j, i).op[1] = writers_[j] /\ E(j, i).op = MyOp(writers_[j])
    BY <2>6 DEF MyOp
  <2> HIDE DEF E
  <2>8. QED
    BY <2>4, <2>5, <2>6, <2>7 DEF a, b, c
<1> HIDE DEF E
<1>5. CountTo(n) \in Nat
  <2>1. n \in 1 .. n
    OBVIOUS
  <2>2. CountTo(n) = F[n] /\ F[n] \in Nat
    BY <1>3, <2>1
  <2>3. QED
    BY <2>2
<1>6. ASSUME NEW e \in new
      PROVE  /\ e.i \in Nat /\ e.seq \in Nat /\ last < e.seq /\ e.seq <= last + CountTo(n)
             /\ \E j \in 1 .. n : e.op = MyOp(writers_[j])
             /\ e = [op |-> e.op, i |-> e.i, seq |-> e.seq]
  <2>1. PICK j \in 1 .. n : \E i \in 1 .. C(j) : e = E(j, i)
    BY <1>2
  <2>2. PICK i \in 1 .. C(j) : e = E(j, i)
    BY <2>1
  <2>3. e.i \in Nat /\ e.seq \in Nat /\ last < e.seq /\ e.seq <= last + F[j]
    BY <1>4, <2>2
  <2>4. e = [op |-> e.op, i |-> e.i, seq |-> e.seq]
    BY <2>2 DEF E
  <2>5. e.op = MyOp(writers_[j])
    BY <1>4, <2>2
  <2>6. e.seq <= last + CountTo(n)
    <3> DEFINE a == F[j]
               b == F[n]
               q == e.seq
    <3>1. a \in Nat /\ b \in Nat /\ a <= b /\ q \in Nat /\ q <= last + a
      BY <1>3, <2>3
    <3> HIDE DEF a, b, q
    <3>2. q <= last + b
      BY <3>1
    <3>3. QED
      BY <1>3, <3>2 DEF q, b
  <2>7. QED
    BY <2>3, <2>4, <2>5, <2>6
<1>7. ASSUME NEW e \in new, NEW f \in new, e.seq = f.seq
      PROVE  e = f
  <2>1. PICK j \in 1 .. n : \E i \in 1 .. C(j) : e = E(j, i)
    BY <1>2
  <2>2. PICK i \in 1 .. C(j) : e = E(j, i)
    BY <2>1
  <2>3. PICK k \in 1 .. n : \E l \in 1 .. C(k) : f = E(k, l)
    BY <1>2
  <2>4. PICK l \in 1 .. C(k) : f = E(k, l)
    BY <2>3
  <2> DEFINE a == F[j - 1]
             b == F[j]
             c == F[k - 1]
             d == F[k]
             q == e.seq
  <2>5. /\ q = last + a + i /\ q = last + c + l /\ q <= last + b /\ q <= last + d
    BY <1>4, <1>7, <2>2, <2>4
  <2>6. /\ i \in Nat /\ l \in Nat /\ i > 0 /\ l > 0 /\ j \in Nat /\ k \in Nat
        /\ a \in Nat /\ b \in Nat /\ c \in Nat /\ d \in Nat
    BY <1>3, <1>4
  <2>7. j < k => b <= c
    <3> SUFFICES ASSUME j < k
                 PROVE  b <= c
      OBVIOUS
    <3>1. j <= k - 1 /\ k - 1 \in Nat
      BY <2>6
    <3>2. QED
      BY <1>1, <2>6, <3>1
  <2>8. k < j => d <= a
    <3> SUFFICES ASSUME k < j
                 PROVE  d <= a
      OBVIOUS
    <3>1. k <= j - 1 /\ j - 1 \in Nat
      BY <2>6
    <3>2. QED
      BY <1>1, <2>6, <3>1
  <2>9. j = k => a = c
    OBVIOUS
  <2> HIDE DEF a, b, c, d, q
  <2>10. j = k
    BY <2>5, <2>6, <2>7, <2>8
  <2>11. i = l
    <3>1. a = c
      BY <2>9, <2>10
    <3>2. last + a + i = last + a + l
      BY <2>5, <3>1
    <3> HIDE DEF C
    <3>3. QED
      BY <2>6, <3>2
  <2>12. QED
    BY <2>2, <2>4, <2>10, <2>11
<1>8. ASSUME NEW j \in 1 .. n, req[writers_[j]].count > 0
      PROVE  \E e \in new : e.op = MyOp(writers_[j])
  <2>1. 1 \in 1 .. C(j)
    <3> DEFINE c == C(j)
    <3>1. c \in Nat /\ c > 0
      BY <1>3, <1>8
    <3> HIDE DEF c
    <3>2. 1 \in 1 .. c
      BY <3>1
    <3>3. QED
      BY <3>2 DEF c
  <2>2. E(j, 1) \in new
    BY <1>2, <2>1
  <2>3. QED
    BY <1>4, <2>1, <2>2
<1>9. ASSUME NEW e \in new, NEW i \in 1 .. req[e.op[1]].count
      PROVE  \E f \in new : f.op = e.op /\ f.i = i /\ f.seq = e.seq - e.i + i
  <2>1. PICK j \in 1 .. n : \E l \in 1 .. C(j) : e = E(j, l)
    BY <1>2
  <2>2. PICK l \in 1 .. C(j) : e = E(j, l)
    BY <2>1
  <2>3. e.op = MyOp(writers_[j]) /\ e.op[1] = writers_[j] /\ e.i = l
        /\ e.seq = last + F[j - 1] + l
    BY <1>4, <2>2
  <2>4. i \in 1 .. C(j)
    BY <2>3
  <2>5. E(j, i) \in new
    BY <1>2, <2>4
  <2>6. E(j, i).op = e.op /\ E(j, i).i = i /\ E(j, i).seq = last + F[j - 1] + i
    BY <1>4, <2>3, <2>4
  <2>7. last + F[j - 1] + i = e.seq - e.i + i
    <3> DEFINE a == F[j - 1]
    <3>1. a \in Nat /\ i \in Nat /\ l \in Nat /\ e.seq = last + a + l
      BY <1>3, <1>4, <2>3, <2>4
    <3> HIDE DEF a
    <3>2. last + a + i = (last + a + l) - l + i
      BY <3>1
    <3>3. QED
      BY <2>3, <3>1, <3>2 DEF a
  <2>8. QED
    BY <2>5, <2>6, <2>7
<1>10. QED
  BY <1>5, <1>6, <1>7, <1>8, <1>9 DEF new

-----------------------------------------------------------------------------
(* Facts of the invariant that most steps use *)

\* The type invariant, instance by instance.
LEMMA Types ==
    ASSUME TypeOK
    PROVE  /\ writers_ \in Seq(Writers) /\ last_sequence \in Nat /\ bg_error_ \in BOOLEAN
           /\ \A t \in Writers :
                 /\ pc[t] \in Leading \cup {"idle", "wait", "flush", "flushwait"}
                 /\ calls[t] \in 0 .. MaxWrites /\ calls[t] \in Nat
                 /\ req[t] \in ReqType /\ req[t].count \in Nat /\ req[t].size \in Nat
                 /\ req[t].batch \in BOOLEAN /\ req[t].sync \in BOOLEAN
                 /\ req[t].sync => req[t].batch
                 /\ req[t].batch <=> req[t].count > 0
                 /\ loc[t] \in LocalsType /\ loc[t].group \in Seq(Writers)
                 /\ loc[t].updates \subseteq EntryType /\ loc[t].seq \in Nat
                 /\ loc[t].status \in Statuses /\ loc[t].sync_error \in BOOLEAN
                 /\ w[t] \in [done : BOOLEAN, status : Statuses, seq : Nat]
                 /\ w[t].done \in BOOLEAN /\ w[t].status \in Statuses /\ w[t].seq \in Nat
                 /\ signalled[t] \in BOOLEAN
                 /\ entered[t] \in [seq : Nat, err : BOOLEAN] /\ entered[t].err \in BOOLEAN
<1>1. /\ AllRequests \subseteq ReqType
      /\ \A r \in AllRequests : r.batch <=> r.count > 0
      /\ \A r \in AllRequests : ~r.batch => ~r.sync /\ r.size = 0
      /\ MaxWrites \in Nat
  BY ConstantsAssumption
<1>2. NoRequest \in ReqType /\ ~NoRequest.batch /\ ~NoRequest.sync /\ NoRequest.count = 0
  BY DEF NoRequest, ReqType
<1>3. ASSUME NEW t \in Writers
      PROVE  /\ req[t] \in ReqType /\ req[t].count \in Nat /\ req[t].size \in Nat
             /\ req[t].batch \in BOOLEAN /\ req[t].sync \in BOOLEAN
             /\ req[t].sync => req[t].batch
             /\ req[t].batch <=> req[t].count > 0
  <2>1. req[t] \in AllRequests \cup {NoRequest}
    BY DEF TypeOK
  <2>2. req[t] \in ReqType
    BY <1>1, <1>2, <2>1
  <2>3. (req[t].sync => req[t].batch) /\ (req[t].batch <=> req[t].count > 0)
    BY <1>1, <1>2, <2>1
  <2>4. QED
    BY <2>2, <2>3 DEF ReqType
<1>4. ASSUME NEW t \in Writers
      PROVE  /\ pc[t] \in Leading \cup {"idle", "wait", "flush", "flushwait"}
             /\ calls[t] \in 0 .. MaxWrites /\ calls[t] \in Nat
             /\ loc[t] \in LocalsType /\ signalled[t] \in BOOLEAN
             /\ w[t] \in [done : BOOLEAN, status : Statuses, seq : Nat]
             /\ entered[t] \in [seq : Nat, err : BOOLEAN]
  BY <1>1 DEF TypeOK
<1>5. ASSUME NEW t \in Writers
      PROVE  /\ loc[t].group \in Seq(Writers)
             /\ loc[t].updates \subseteq EntryType /\ loc[t].seq \in Nat
             /\ loc[t].status \in Statuses /\ loc[t].sync_error \in BOOLEAN
             /\ w[t].done \in BOOLEAN /\ w[t].status \in Statuses /\ w[t].seq \in Nat
             /\ entered[t].err \in BOOLEAN
  BY <1>4 DEF LocalsType
<1>6. writers_ \in Seq(Writers) /\ last_sequence \in Nat /\ bg_error_ \in BOOLEAN
  BY DEF TypeOK
<1>7. QED
  BY <1>3, <1>4, <1>5, <1>6

\* There is at most one leader, it owns the front Writer, and no thread of the queue but
\* it is anywhere else than asleep.
LEMMA Leaders ==
    ASSUME TypeOK, QueueInv, NEW t \in Writers, pc[t] \in Leading
    PROVE  /\ writers_ # <<>> /\ writers_[1] = t /\ 1 \in DOMAIN writers_ /\ Head(writers_) = t
           /\ \A u \in Writers : pc[u] \in Leading => u = t
           /\ \A j \in DOMAIN writers_ :
                 /\ writers_[j] \in Writers
                 /\ j # 1 => writers_[j] # t /\ pc[writers_[j]] = "wait" /\ ~w[writers_[j]].done
<1>1. writers_ \in Seq(Writers)
  BY DEF TypeOK
<1>2. PICK j \in DOMAIN writers_ : writers_[j] = t
  BY DEF QueueInv, InQueue
<1>3. writers_ # <<>> /\ 1 \in DOMAIN writers_ /\ writers_[1] = t /\ Head(writers_) = t
  BY <1>1, <1>2 DEF QueueInv
<1>4. \A u \in Writers : pc[u] \in Leading => u = t
  BY <1>3 DEF QueueInv
<1>5. ASSUME NEW k \in DOMAIN writers_, k # 1
      PROVE  writers_[k] \in Writers /\ writers_[k] # t /\ pc[writers_[k]] = "wait" /\ ~w[writers_[k]].done
  <2>1. writers_[k] \in Writers
    BY <1>1
  <2>2. writers_[k] # t
    BY <1>3, <1>5 DEF QueueInv
  <2>3. InQueue(writers_[k])
    BY DEF InQueue
  <2>4. QED
    BY <1>4, <2>1, <2>2, <2>3 DEF QueueInv
<1>6. QED
  BY <1>1, <1>3, <1>4, <1>5

\* While the leader makes room, everything that is stored is published.
LEMMA AllPublished ==
    ASSUME WInv, \A t \in Writers : pc[t] \notin {"insert", "relock"}
    PROVE  \A e \in Stored : e.seq \in Nat /\ e.seq <= last_sequence
<1>1. \A e \in Stored : e.seq \in Nat
  BY DEF WInv, TypeOK, Stored, EntryType
<1>2. last_sequence \in Nat
  BY DEF WInv, TypeOK
<1>3. QED
  BY <1>1, <1>2 DEF WInv, SeqInv, SequencesDistinct

-----------------------------------------------------------------------------
(* Steps of a leader *)

\* A leader that stays one changes its own place and locals, and nothing that the other
\* threads' parts of the invariant are about: what is left to show is its own part.
LEMMA LeaderFrame ==
    ASSUME WInv, NEW t \in Writers, NEW p \in Leading, NEW l \in LocalsType, pc[t] \in Leading,
           pc' = [pc EXCEPT ![t] = p], loc' = [loc EXCEPT ![t] = l],
           calls' = calls, req' = req, writers_' = writers_, entered' = entered,
           returned' = returned, bg_error_' = bg_error_, synced \subseteq synced',
           \A u \in Writers : w'[u].done = w[u].done /\ w'[u].status = w[u].status,
           signalled' \in {signalled, [signalled EXCEPT ![t] = FALSE]},
           p = "bgwait" \/ ~signalled'[t],
           mutex_' = IF p \in {"room", "build"} THEN t ELSE Nobody,
           p \notin Committing => l.group = <<>>,
           p \in Committing =>
             /\ l.group # <<>> /\ Len(l.group) <= Len(writers_)
             /\ \A j \in 1 .. Len(l.group) : l.group[j] = writers_[j]
             /\ req[t].batch
             /\ p # "relock" => l.status = "ok"
             /\ \A j \in 1 .. Len(l.group) :
                   (req[l.group[j]].sync => req[t].sync) /\ ~entered[l.group[j]].err,
           p \in {"append", "sync"} =>
              \A j \in 1 .. Len(l.group) : req[l.group[j]].batch =>
                  \E e \in l.updates : e.op = MyOp(l.group[j]),
           p = "insert" \/ (p = "relock" /\ l.status = "ok") =>
              (req[t].sync => \A j \in 1 .. Len(l.group) :
                  req[l.group[j]].batch => MyOp(l.group[j]) \in synced'),
           p = "build" /\ l.status = "ok" => ~bg_error_
    PROVE  CallInv' /\ QueueInv' /\ MutexInv' /\ GroupInv' /\ WakeInv' /\ SyncInv' /\ ErrInv'
<1>1. /\ pc'[t] = p /\ loc'[t] = l
      /\ \A u \in Writers \ {t} : pc'[u] = pc[u] /\ loc'[u] = loc[u]
      /\ pc'[t] # "idle" /\ pc'[t] # "wait" /\ pc'[t] \notin {"flush", "flushwait"}
  BY DEF WInv, TypeOK, Leading
<1>2. \A u \in Writers \ {t} : pc[u] \notin Leading /\ pc[u] \notin Committing
                               /\ pc[u] \notin {"room", "build", "append", "sync", "insert", "relock"}
  BY Leaders DEF WInv, Leading, Committing
<1>3. CallInv'
  BY <1>1 DEF WInv, CallInv, Leading
<1>4. QueueInv'
  <2>1. \A u \in Writers : InQueue(u)' <=> InQueue(u)
    BY DEF InQueue
  <2>2. \A u \in Writers : (pc'[u] \in Leading <=> pc[u] \in Leading)
                           /\ (pc'[u] = "wait" <=> pc[u] = "wait")
    BY <1>1 DEF Leading
  <2>3. QED
    BY <2>1, <2>2 DEF WInv, QueueInv
<1>5. MutexInv'
  BY <1>1, <1>2, ConstantsAssumption DEF MutexInv
<1>6. GroupInv'
  <2> SUFFICES ASSUME NEW u \in Writers
               PROVE  LET group == loc'[u].group
                      IN  IF pc'[u] \in Committing
                          THEN /\ group # <<>> /\ Len(group) <= Len(writers_)
                               /\ \A j \in 1 .. Len(group) : group[j] = writers_[j]
                               /\ req[u].batch
                               /\ pc'[u] # "relock" => loc'[u].status = "ok"
                               /\ \A j \in 1 .. Len(group) :
                                     (req[group[j]].sync => req[u].sync) /\ ~entered[group[j]].err
                          ELSE group = <<>>
    BY DEF GroupInv
  <2>1. CASE u = t
    BY <1>1, <2>1
  <2>2. CASE u # t
    BY <1>1, <1>2, <2>2 DEF WInv, GroupInv
  <2>3. QED
    BY <2>1, <2>2
<1>7. WakeInv'
  <2> SUFFICES ASSUME NEW u \in Writers
               PROVE  /\ signalled'[u] => pc'[u] \in {"wait", "bgwait", "flushwait"}
                      /\ pc'[u] = "wait" => (signalled'[u] <=> w'[u].done \/ writers_'[1] = u)
    BY DEF WakeInv
  <2>1. u # t => signalled'[u] = signalled[u]
    BY DEF WInv, TypeOK
  <2>2. CASE u = t
    BY <1>1, <2>2
  <2>3. CASE u # t
    BY <1>1, <2>1, <2>3 DEF WInv, WakeInv
  <2>4. QED
    BY <2>2, <2>3
<1>8. \A u \in Writers : MyOp(u)' = MyOp(u)
  BY DEF MyOp
<1>9. SyncInv'
  <2>1. ASSUME NEW u \in Writers, pc'[u] \in {"append", "sync"},
               NEW j \in 1 .. Len(loc'[u].group), req'[loc'[u].group[j]].batch
        PROVE  \E e \in loc'[u].updates : e.op = MyOp(loc[u].group[j])'
    <3>1. u = t
      BY <1>1, <1>2, <2>1
    <3>2. p \in {"append", "sync"} /\ j \in 1 .. Len(l.group) /\ req[l.group[j]].batch
      BY <1>1, <2>1, <3>1
    <3>3. \E e \in l.updates : e.op = MyOp(l.group[j])
      BY <3>2
    <3>4. MyOp(loc[u].group[j])' = MyOp(l.group[j])
      BY <1>1, <3>1 DEF MyOp
    <3>5. QED
      BY <1>1, <3>1, <3>3, <3>4
  <2>2. ASSUME NEW u \in Writers, pc'[u] = "insert" \/ (pc'[u] = "relock" /\ loc'[u].status = "ok"),
               req'[u].sync, NEW j \in 1 .. Len(loc'[u].group), req'[loc'[u].group[j]].batch
        PROVE  MyOp(loc[u].group[j])' \in synced'
    <3>1. u = t
      BY <1>1, <1>2, <2>2
    <3>2. QED
      BY <1>1, <2>2, <3>1 DEF MyOp
  <2>3. ASSUME NEW u \in Writers, pc'[u] = "wait" /\ w'[u].done /\ w'[u].status = "ok", req'[u].sync
        PROVE  MyOp(u)' \in synced'
    <3>1. u # t /\ pc[u] = "wait"
      BY <1>1, <2>3
    <3>2. QED
      BY <1>8, <2>3, <3>1 DEF WInv, SyncInv
  <2>4. \A u \in Writers : pc'[u] \in {"flush", "flushwait"} => ~req'[u].batch
    BY <1>1 DEF WInv, SyncInv
  <2>5. SyncedWhenAcknowledged'
    BY DEF WInv, SyncInv, SyncedWhenAcknowledged
  <2>6. QED
    BY <2>1, <2>2, <2>3, <2>4, <2>5 DEF SyncInv
<1>10. ErrInv'
  <2>1. \A u \in Writers : pc'[u] = "build" /\ loc'[u].status = "ok" => ~bg_error_'
    BY <1>1, <1>2
  <2>2. \A u \in Writers : pc'[u] = "wait" /\ w'[u].done /\ w'[u].status = "ok" => ~entered'[u].err
    BY <1>1 DEF WInv, ErrInv
  <2>3. \A u \in Writers : pc'[u] \in {"flush", "flushwait"} => ~entered'[u].err
    BY <1>1 DEF WInv, ErrInv
  <2>4. (\A u \in Writers : entered[u].err => bg_error_)' /\ ErrorIsSticky'
    BY DEF WInv, ErrInv, ErrorIsSticky
  <2>5. QED
    BY <2>1, <2>2, <2>3, <2>4 DEF ErrInv
<1>11. QED
  BY <1>3, <1>4, <1>5, <1>6, <1>7, <1>9, <1>10

-----------------------------------------------------------------------------
(* What is stored *)

\* A step that moves entries between the memtables and the tables, and leaves a group that
\* is being written as it is.
LEMMA DataFrame ==
    ASSUME WInv, Stored' = Stored, last_sequence' = last_sequence, calls' = calls, req' = req,
           \A u \in Writers : pc'[u] \in Writing <=> pc[u] \in Writing,
           \A u \in Writers : pc'[u] \in Committing <=> pc[u] \in Committing,
           \A u \in Writers : pc[u] \in {"insert", "relock"} => pc'[u] \in {"insert", "relock"},
           \A u \in Writers : pc[u] \in Committing => loc'[u] = loc[u],
           mem_ \subseteq mem_' \/ \A u \in Writers : pc[u] \notin {"insert", "relock"}
    PROVE  SeqInv' /\ BatchInv'
<1>1. Writing \subseteq Committing /\ {"insert", "relock"} \subseteq Committing
  BY DEF Writing, Committing
<1>2. SequencesDistinct'
  <2>1. \A e, f \in Stored' : e.seq = f.seq => e = f
    BY DEF WInv, SeqInv, SequencesDistinct
  <2>2. ASSUME NEW e \in Stored', e.seq > last_sequence'
        PROVE  \E t \in Writers : /\ pc'[t] \in {"insert", "relock"}
                                  /\ e \in mem_' /\ e.seq <= loc'[t].seq
                                  /\ \A f \in loc'[t].updates : e.seq < f.seq
    <3>1. PICK t \in Writers : /\ pc[t] \in {"insert", "relock"}
                               /\ e \in mem_ /\ e.seq <= loc[t].seq
                               /\ \A f \in loc[t].updates : e.seq < f.seq
      BY <2>2 DEF WInv, SeqInv, SequencesDistinct
    <3>2. QED
      BY <1>1, <3>1
  <2>3. QED
    BY <2>1, <2>2 DEF SequencesDistinct
<1>3. SeqInv'
  <2>1. \A t \in Writers : pc'[t] \in Committing => last_sequence' <= loc'[t].seq
    BY DEF WInv, SeqInv
  <2>2. ASSUME NEW t \in Writers, pc'[t] \in Writing
        PROVE  /\ loc'[t].updates # {}
               /\ \A e \in loc'[t].updates : last_sequence' < e.seq /\ e.seq <= loc'[t].seq
               /\ \A e, f \in loc'[t].updates : e.seq = f.seq => e = f
    <3>1. pc[t] \in Writing /\ loc'[t] = loc[t]
      BY <1>1, <2>2
    <3>2. QED
      BY <3>1 DEF WInv, SeqInv
  <2>3. QED
    BY <1>2, <2>1, <2>2 DEF SeqInv
<1>4. Pend' = Pend
  <2>1. {u \in Writers : pc'[u] \in Writing} = {u \in Writers : pc[u] \in Writing}
    OBVIOUS
  <2>2. \A u \in {v \in Writers : pc[v] \in Writing} : loc'[u] = loc[u]
    BY <1>1
  <2>3. QED
    BY <2>1, <2>2 DEF Pend
<1>5. Fresh' = Fresh
  BY <1>4 DEF Fresh
<1>6. BatchesAtomic'
  BY DEF WInv, BatchInv, BatchesAtomic
<1>7. BatchInv'
  <2>1. \A e \in Stored' \cup Pend' : e.op[2] <= calls'[e.op[1]]
    BY <1>4 DEF WInv, BatchInv
  <2>2. \A e \in Fresh' : \A i \in 1 .. req'[e.op[1]].count : calls'[e.op[1]] = e.op[2] =>
            \E f \in Fresh' : f.op = e.op /\ f.i = i /\ f.seq = e.seq - e.i + i
    BY <1>5 DEF WInv, BatchInv
  <2>3. QED
    BY <1>6, <2>1, <2>2 DEF BatchInv
<1>8. QED
  BY <1>3, <1>7

\* A group whose record could not be logged or synced is dropped: none of it is stored.
LEMMA DropFrame ==
    ASSUME WInv, NEW t \in Writers, pc[t] \in {"append", "sync"}, NEW l \in LocalsType,
           Stored' = Stored, last_sequence' = last_sequence, calls' = calls, req' = req,
           pc' = [pc EXCEPT ![t] = "relock"], loc' = [loc EXCEPT ![t] = l], l.seq = loc[t].seq
    PROVE  SeqInv' /\ BatchInv'
<1>1. /\ pc'[t] = "relock" /\ loc'[t] = l
      /\ \A u \in Writers \ {t} : pc'[u] = pc[u] /\ loc'[u] = loc[u]
  BY DEF WInv, TypeOK
<1>2. \A u \in Writers \ {t} : pc[u] \notin Leading /\ pc[u] \notin Committing /\ pc[u] \notin Writing
                               /\ pc[u] \notin {"insert", "relock"}
  BY Leaders DEF WInv, Leading, Committing, Writing
<1>3. \A e \in Stored : e.seq \in Nat /\ e.seq <= last_sequence
  BY <1>2, AllPublished
<1>4. \A u \in Writers : pc'[u] \notin Writing
  BY <1>1, <1>2 DEF Writing
<1>5. last_sequence \in Nat /\ \A e \in Stored : ~(e.seq > last_sequence)
  BY <1>3 DEF WInv, TypeOK
<1>6. SequencesDistinct'
  BY <1>5 DEF WInv, SeqInv, SequencesDistinct
<1>7. \A u \in Writers : pc'[u] \in Committing => last_sequence' <= loc'[u].seq
  BY <1>1, <1>2 DEF WInv, SeqInv, Committing
<1>8. SeqInv'
  BY <1>4, <1>6, <1>7 DEF SeqInv
<1>9. Pend' = {} /\ Fresh' = {}
  BY <1>4, <1>5 DEF Pend, Fresh
<1>10. BatchInv'
  <2>1. BatchesAtomic'
    BY DEF WInv, BatchInv, BatchesAtomic
  <2>2. \A e \in Stored' \cup Pend' : e.op[2] <= calls'[e.op[1]]
    BY <1>9 DEF WInv, BatchInv
  <2>3. QED
    BY <1>9, <2>1, <2>2 DEF BatchInv
<1>11. QED
  BY <1>8, <1>10

-----------------------------------------------------------------------------
(* MakeRoomForWrite *)

\* A step of the loop: the leader stays in it or leaves it, and has no group yet.
LEMMA RoomFrame ==
    ASSUME WInv, NEW t \in Writers, NEW p \in {"room", "sleep", "bgwait", "build"},
           NEW l \in LocalsType, pc[t] \in {"room", "sleep", "bgwait"}, RoomUnchanged,
           pc' = [pc EXCEPT ![t] = p], loc' = [loc EXCEPT ![t] = l], l.group = <<>>,
           signalled' \in {signalled, [signalled EXCEPT ![t] = FALSE]},
           p = "bgwait" \/ ~signalled'[t],
           mutex_' = IF p \in {"room", "build"} THEN t ELSE Nobody,
           p = "build" /\ l.status = "ok" => ~bg_error_,
           Stored' = Stored, mem_' \subseteq EntryType, imm_' \subseteq EntryType,
           tables' \subseteq EntryType, has_imm' \in BOOLEAN, bg_scheduled' \in BOOLEAN,
           has_imm' \/ imm_' = {}, faults' \in 0 .. MaxFaults
    PROVE  WInv'
<1>1. /\ calls' = calls /\ req' = req /\ w' = w /\ writers_' = writers_ /\ synced' = synced
      /\ last_sequence' = last_sequence /\ bg_error_' = bg_error_ /\ bgpc' = bgpc
      /\ bgin' = bgin /\ l0' = l0 /\ entered' = entered /\ returned' = returned
  BY DEF RoomUnchanged
<1>2. /\ pc'[t] = p /\ loc'[t] = l
      /\ \A u \in Writers \ {t} : pc'[u] = pc[u] /\ loc'[u] = loc[u]
  BY DEF WInv, TypeOK
<1>3. p \in Leading /\ pc[t] \in Leading /\ p \notin Committing /\ pc[t] \notin Committing
      /\ p \notin Writing /\ pc[t] \notin Writing
      /\ p \notin {"append", "sync", "insert", "relock"}
      /\ pc[t] \notin {"insert", "relock"}
  BY DEF Leading, Committing, Writing
<1>4. \A u \in Writers \ {t} : pc[u] \notin Leading /\ pc[u] \notin {"insert", "relock"}
  BY <1>3, Leaders DEF WInv, Leading
<1>5. CallInv' /\ QueueInv' /\ MutexInv' /\ GroupInv' /\ WakeInv' /\ SyncInv' /\ ErrInv'
  BY <1>1, <1>3, LeaderFrame
<1>6. SeqInv' /\ BatchInv'
  <2>1. /\ \A u \in Writers : pc'[u] \in Writing <=> pc[u] \in Writing
        /\ \A u \in Writers : pc'[u] \in Committing <=> pc[u] \in Committing
        /\ \A u \in Writers : pc[u] \notin {"insert", "relock"}
        /\ \A u \in Writers : pc[u] \in Committing => loc'[u] = loc[u]
    BY <1>2, <1>3, <1>4
  <2>2. QED
    BY <1>1, <2>1, DataFrame
<1>7. TypeOK'
  <2>1. mutex_' \in Writers \cup {Nobody}
    OBVIOUS
  <2>2. pc' \in [Writers -> Leading \cup {"idle", "wait", "flush", "flushwait"}]
    BY <1>3 DEF WInv, TypeOK
  <2>3. loc' \in [Writers -> LocalsType]
    BY DEF WInv, TypeOK
  <2>4. signalled' \in [Writers -> BOOLEAN]
    BY DEF WInv, TypeOK
  <2>5. QED
    BY <1>1, <2>1, <2>2, <2>3, <2>4 DEF WInv, TypeOK
<1>8. QED
  BY <1>5, <1>6, <1>7 DEF WInv, ImmInv

\* What a leader in its loop has: it holds mutex_, is not signalled, and has no group.
LEMMA InRoomFacts ==
    ASSUME WInv, NEW t \in Writers, pc[t] = "room"
    PROVE  /\ mutex_ = t /\ ~signalled[t] /\ loc[t] \in LocalsType /\ loc[t].group = <<>>
           /\ pc = [pc EXCEPT ![t] = "room"] /\ loc = [loc EXCEPT ![t] = loc[t]]
           /\ mem_ \subseteq EntryType /\ imm_ \subseteq EntryType /\ tables \subseteq EntryType
           /\ has_imm \in BOOLEAN /\ bg_scheduled \in BOOLEAN /\ faults \in 0 .. MaxFaults
           /\ has_imm \/ imm_ = {}
<1>1. loc[t] \in LocalsType /\ pc = [pc EXCEPT ![t] = "room"] /\ loc = [loc EXCEPT ![t] = loc[t]]
  BY DEF WInv, TypeOK
<1>2. mutex_ = t
  BY DEF WInv, MutexInv
<1>3. ~signalled[t]
  BY DEF WInv, WakeInv
<1>4. loc[t].group = <<>>
  BY DEF WInv, GroupInv, Committing
<1>5. QED
  BY <1>1, <1>2, <1>3, <1>4 DEF WInv, TypeOK, ImmInv

\* Every branch of MakeRoomForWrite keeps the invariant.
LEMMA MakeRoomStep ==
    ASSUME WInv, NEW t \in Writers, MakeRoomForWrite(t)
    PROVE  WInv'
<1> USE DEF LocalsType, Statuses
<1>1. CASE RoomError(t)
  <2> DEFINE l == [loc[t] EXCEPT !.status = "error"]
  <2>1. /\ pc[t] = "room" /\ mutex_' = t /\ pc' = [pc EXCEPT ![t] = "build"]
        /\ loc' = [loc EXCEPT ![t] = l] /\ RoomUnchanged /\ signalled' = signalled
        /\ mem_' = mem_ /\ imm_' = imm_ /\ has_imm' = has_imm /\ tables' = tables
        /\ bg_scheduled' = bg_scheduled /\ faults' = faults
    BY <1>1 DEF RoomError, InRoom, Holds
  <2>2. l \in LocalsType /\ l.group = <<>> /\ l.status = "error"
    BY <2>1, InRoomFacts
  <2> HIDE DEF l
  <2>3. Stored' = Stored
    BY <2>1 DEF Stored
  <2>4. QED
    BY <2>1, <2>2, <2>3, InRoomFacts, RoomFrame
<1>2. CASE RoomDelay(t)
  <2> DEFINE l == [loc[t] EXCEPT !.allow_delay = FALSE]
  <2>1. /\ pc[t] = "room" /\ mutex_' = Nobody /\ pc' = [pc EXCEPT ![t] = "sleep"]
        /\ loc' = [loc EXCEPT ![t] = l] /\ RoomUnchanged /\ signalled' = signalled
        /\ mem_' = mem_ /\ imm_' = imm_ /\ has_imm' = has_imm /\ tables' = tables
        /\ bg_scheduled' = bg_scheduled /\ faults' = faults
    BY <1>2 DEF RoomDelay, InRoom, Releases
  <2>2. l \in LocalsType /\ l.group = <<>>
    BY <2>1, InRoomFacts
  <2> HIDE DEF l
  <2>3. Stored' = Stored
    BY <2>1 DEF Stored
  <2>4. QED
    BY <2>1, <2>2, <2>3, InRoomFacts, RoomFrame
<1>3. CASE RoomOk(t)
  <2>1. /\ pc[t] = "room" /\ mutex_' = t /\ pc' = [pc EXCEPT ![t] = "build"]
        /\ loc' = loc /\ RoomUnchanged /\ signalled' = signalled /\ ~bg_error_
        /\ mem_' = mem_ /\ imm_' = imm_ /\ has_imm' = has_imm /\ tables' = tables
        /\ bg_scheduled' = bg_scheduled /\ faults' = faults
    BY <1>3 DEF RoomOk, InRoom, Holds
  <2>2. Stored' = Stored /\ loc' = [loc EXCEPT ![t] = loc[t]]
    BY <2>1, InRoomFacts DEF Stored
  <2>3. QED
    BY <2>1, <2>2, InRoomFacts, RoomFrame
<1>4. CASE RoomWait(t)
  <2>1. /\ pc[t] = "room" /\ mutex_' = Nobody /\ pc' = [pc EXCEPT ![t] = "bgwait"]
        /\ loc' = loc /\ RoomUnchanged /\ signalled' = signalled
        /\ mem_' = mem_ /\ imm_' = imm_ /\ has_imm' = has_imm /\ tables' = tables
        /\ bg_scheduled' = bg_scheduled /\ faults' = faults
    BY <1>4 DEF RoomWait, InRoom, Releases
  <2>2. Stored' = Stored /\ loc' = [loc EXCEPT ![t] = loc[t]]
    BY <2>1, InRoomFacts DEF Stored
  <2>3. QED
    BY <2>1, <2>2, InRoomFacts, RoomFrame
<1>5. CASE RoomSwitch(t)
  <2> DEFINE l == [loc[t] EXCEPT !.force = FALSE]
  <2>1. /\ pc[t] = "room" /\ mutex_' = t /\ pc' = pc
        /\ loc' = [loc EXCEPT ![t] = l] /\ RoomUnchanged /\ signalled' = signalled
        /\ mem_' = {} /\ imm_' = mem_ /\ has_imm' = TRUE /\ tables' = tables
        /\ faults' = faults /\ bg_scheduled' = TRUE /\ ~has_imm /\ ~bg_error_
    BY <1>5 DEF RoomSwitch, RoomMaySwitch, InRoom, Holds, MaybeScheduleCompaction, WInv, TypeOK
  <2>2. l \in LocalsType /\ l.group = <<>> /\ pc' = [pc EXCEPT ![t] = "room"]
    BY <2>1, InRoomFacts
  <2> HIDE DEF l
  <2>3. Stored' = Stored
    BY <2>1, InRoomFacts DEF Stored
  <2>4. QED
    BY <2>1, <2>2, <2>3, InRoomFacts, RoomFrame
<1>6. CASE RoomSwitchFails(t)
  <2> DEFINE l == [loc[t] EXCEPT !.status = "error"]
  <2>1. /\ pc[t] = "room" /\ mutex_' = t /\ pc' = [pc EXCEPT ![t] = "build"]
        /\ loc' = [loc EXCEPT ![t] = l] /\ RoomUnchanged /\ signalled' = signalled
        /\ mem_' = mem_ /\ imm_' = imm_ /\ has_imm' = has_imm /\ tables' = tables
        /\ bg_scheduled' = bg_scheduled /\ faults' = faults + 1 /\ faults < MaxFaults
    BY <1>6 DEF RoomSwitchFails, RoomMaySwitch, InRoom, Holds, EnvFails
  <2>2. l \in LocalsType /\ l.group = <<>> /\ l.status = "error"
    BY <2>1, InRoomFacts
  <2>3. faults' \in 0 .. MaxFaults
    <3>1. faults \in 0 .. MaxFaults /\ MaxFaults \in Nat
      BY ConstantsAssumption DEF WInv, TypeOK
    <3>2. QED
      BY <2>1, <3>1
  <2> HIDE DEF l
  <2>4. Stored' = Stored
    BY <2>1 DEF Stored
  <2>5. QED
    BY <2>1, <2>2, <2>3, <2>4, InRoomFacts, RoomFrame
<1>7. CASE RoomAgain(t)
  <2>1. /\ pc[t] \in {"sleep", "bgwait"} /\ mutex_' = t /\ pc' = [pc EXCEPT ![t] = "room"]
        /\ loc' = loc /\ RoomUnchanged /\ signalled' = [signalled EXCEPT ![t] = FALSE]
        /\ mem_' = mem_ /\ imm_' = imm_ /\ has_imm' = has_imm /\ tables' = tables
        /\ bg_scheduled' = bg_scheduled /\ faults' = faults
    BY <1>7 DEF RoomAgain, Locked
  <2>2. /\ Stored' = Stored /\ loc' = [loc EXCEPT ![t] = loc[t]] /\ ~signalled'[t]
        /\ loc[t] \in LocalsType /\ mem_ \subseteq EntryType /\ imm_ \subseteq EntryType
        /\ tables \subseteq EntryType /\ has_imm \in BOOLEAN /\ bg_scheduled \in BOOLEAN
        /\ faults \in 0 .. MaxFaults /\ (has_imm \/ imm_ = {})
    BY <2>1 DEF Stored, WInv, TypeOK, ImmInv
  <2>3. loc[t].group = <<>>
    BY <2>1 DEF WInv, GroupInv, Committing
  <2>4. QED
    BY <2>1, <2>2, <2>3, RoomFrame
<1>8. QED
  BY <1>1, <1>2, <1>3, <1>4, <1>5, <1>6, <1>7 DEF MakeRoomForWrite

-----------------------------------------------------------------------------
(* Build, AddRecord, Sync and InsertInto *)

\* The leader fixes its group, its entries and their sequence numbers.
LEMMA BuildStep ==
    ASSUME WInv, NEW t \in Writers, Build(t)
    PROVE  WInv'
<1> DEFINE group == BuildBatchGroup
           n == Len(group)
           new == Updates(n, last_sequence)
           l == [loc[t] EXCEPT !.group = group, !.updates = new,
                               !.seq = last_sequence + CountTo(n)]
<1>1. /\ pc[t] = "build" /\ loc[t].status = "ok" /\ req[t].batch /\ mutex_' = Nobody
      /\ loc' = [loc EXCEPT ![t] = l] /\ pc' = [pc EXCEPT ![t] = "append"]
      /\ w' = [u \in Writers |-> [w[u] EXCEPT !.seq = FollowerSeq(u, group, last_sequence)]]
      /\ calls' = calls /\ req' = req /\ writers_' = writers_ /\ signalled' = signalled
      /\ mem_' = mem_ /\ imm_' = imm_ /\ has_imm' = has_imm /\ tables' = tables
      /\ synced' = synced /\ last_sequence' = last_sequence
      /\ l0' = l0 /\ bg_error_' = bg_error_ /\ bg_scheduled' = bg_scheduled /\ bgpc' = bgpc
      /\ bgin' = bgin /\ faults' = faults /\ entered' = entered /\ returned' = returned
  BY DEF Build, Releases, dataVars, bgVars
<1>2. /\ pc[t] \in Leading /\ "append" \in Leading /\ "append" \in Committing
      /\ "append" \in Writing /\ pc[t] \notin {"insert", "relock"}
  BY <1>1 DEF Leading, Committing, Writing
<1>3. /\ writers_ \in Seq(Writers) /\ writers_ # <<>> /\ writers_[1] = t
      /\ \A u \in Writers \ {t} : pc[u] \notin Leading
      /\ \A i, j \in DOMAIN writers_ : writers_[i] = writers_[j] => i = j
  BY <1>2, Leaders DEF WInv, TypeOK, QueueInv
<1>4. /\ group \in Seq(Writers) /\ group # <<>> /\ n \in 1 .. Len(writers_)
      /\ \A j \in 1 .. n : group[j] = writers_[j] /\ (req[group[j]].sync => req[t].sync)
  BY <1>3, GroupLemma
<1>5. /\ last_sequence \in Nat /\ \A u \in Writers : req[u].count \in Nat
      /\ \A u \in Writers : req[u].batch <=> req[u].count > 0
  BY Types DEF WInv
<1> HIDE DEF group, n
<1>6. /\ CountTo(n) \in Nat
      /\ \A e \in new :
            /\ e.i \in Nat /\ e.seq \in Nat /\ last_sequence < e.seq
            /\ e.seq <= last_sequence + CountTo(n)
            /\ \E j \in 1 .. n : e.op = MyOp(writers_[j])
            /\ e = [op |-> e.op, i |-> e.i, seq |-> e.seq]
      /\ \A e, f \in new : e.seq = f.seq => e = f
      /\ \A j \in 1 .. n : req[writers_[j]].count > 0 =>
            \E e \in new : e.op = MyOp(writers_[j])
      /\ \A e \in new : \A i \in 1 .. req[e.op[1]].count :
            \E f \in new : f.op = e.op /\ f.i = i /\ f.seq = e.seq - e.i + i
  BY <1>3, <1>4, <1>5, UpdatesLemma
<1> HIDE DEF new
<1>7. ASSUME NEW j \in 1 .. n
      PROVE  /\ writers_[j] \in Writers /\ MyOp(writers_[j]) \in Op
             /\ MyOp(writers_[j])[1] = writers_[j] /\ MyOp(writers_[j])[2] = calls[writers_[j]]
             /\ ~entered[writers_[j]].err
  <2>1. j \in DOMAIN writers_ /\ writers_[j] \in Writers
    BY <1>3, <1>4
  <2>2. pc[writers_[j]] # "idle"
    BY <1>1, <1>2, <2>1, Leaders DEF WInv
  <2>3. calls[writers_[j]] \in 1 .. MaxWrites
    <3>1. calls[writers_[j]] \in 0 .. MaxWrites /\ calls[writers_[j]] >= 1 /\ MaxWrites \in Nat
      BY <2>1, <2>2, ConstantsAssumption DEF WInv, TypeOK, CallInv
    <3>2. QED
      BY <3>1
  <2>4. ~entered[writers_[j]].err
    BY <1>1, <2>1 DEF WInv, ErrInv
  <2>5. QED
    BY <2>1, <2>3, <2>4 DEF MyOp, Op
<1>8. new \subseteq EntryType
  <2> SUFFICES ASSUME NEW e \in new
               PROVE  e \in EntryType
    OBVIOUS
  <2>1. e.op \in Op /\ e.i \in Nat /\ e.seq \in Nat /\ e = [op |-> e.op, i |-> e.i, seq |-> e.seq]
    BY <1>6, <1>7
  <2>2. QED
    BY <2>1 DEF EntryType
<1>9. /\ l \in LocalsType /\ l.group = group /\ l.updates = new
      /\ l.seq = last_sequence + CountTo(n) /\ l.seq \in Nat /\ l.status = "ok"
      /\ Len(l.group) = n
  <2>1. last_sequence + CountTo(n) \in Nat
    BY <1>5, <1>6
  <2>2. loc[t] \in LocalsType
    BY DEF WInv, TypeOK
  <2>3. QED
    BY <1>1, <1>4, <1>8, <2>1, <2>2 DEF LocalsType, n
<1> HIDE DEF l
<1>10. /\ w' \in [Writers -> [done : BOOLEAN, status : Statuses, seq : Nat]]
       /\ \A u \in Writers : w'[u].done = w[u].done /\ w'[u].status = w[u].status
  <2>1. \A u \in Writers : FollowerSeq(u, group, last_sequence) \in Nat
    BY <1>4, <1>5, FollowerSeqLemma DEF WInv, TypeOK
  <2>2. \A u \in Writers : w[u] \in [done : BOOLEAN, status : Statuses, seq : Nat]
    BY DEF WInv, TypeOK
  <2>3. QED
    BY <1>1, <2>1, <2>2
<1>11. ~signalled[t]
  BY <1>1 DEF WInv, WakeInv
<1>12. CallInv' /\ QueueInv' /\ MutexInv' /\ GroupInv' /\ WakeInv' /\ SyncInv' /\ ErrInv'
  <2>1. /\ l.group # <<>> /\ Len(l.group) <= Len(writers_)
        /\ \A j \in 1 .. Len(l.group) : l.group[j] = writers_[j]
        /\ \A j \in 1 .. Len(l.group) :
              (req[l.group[j]].sync => req[t].sync) /\ ~entered[l.group[j]].err
    BY <1>4, <1>7, <1>9
  <2>2. \A j \in 1 .. Len(l.group) : req[l.group[j]].batch =>
            \E e \in l.updates : e.op = MyOp(l.group[j])
    BY <1>4, <1>5, <1>6, <1>7, <1>9
  <2>3. QED
    BY <1>1, <1>2, <1>9, <1>10, <1>11, <2>1, <2>2, LeaderFrame
<1>13. /\ pc'[t] = "append" /\ loc'[t] = l
       /\ \A u \in Writers \ {t} : pc'[u] = pc[u] /\ loc'[u] = loc[u]
  BY <1>1 DEF WInv, TypeOK
<1>14. \A u \in Writers \ {t} : pc'[u] \notin Committing /\ pc'[u] \notin Writing
                                 /\ pc[u] \notin {"insert", "relock"}
  BY <1>3, <1>13 DEF Leading, Committing, Writing
<1>15. \A e \in Stored : e.seq \in Nat /\ ~(e.seq > last_sequence) /\ e.seq <= last_sequence
  <2>1. \A e \in Stored : e.seq \in Nat /\ e.seq <= last_sequence
    BY <1>2, <1>14, AllPublished
  <2>2. QED
    BY <1>5, <2>1
<1>16. Stored' = Stored
  BY <1>1 DEF Stored
<1>17. SeqInv'
  <2>1. SequencesDistinct'
    BY <1>1, <1>15, <1>16 DEF WInv, SeqInv, SequencesDistinct
  <2>2. last_sequence <= l.seq
    BY <1>5, <1>6, <1>9
  <2>3. new # {}
    <3>1. 1 \in 1 .. n /\ req[writers_[1]].count > 0
      BY <1>1, <1>3, <1>4, <1>5
    <3>2. QED
      BY <1>6, <3>1
  <2>4. QED
    BY <1>1, <1>6, <1>9, <1>13, <1>14, <2>1, <2>2, <2>3 DEF SeqInv
<1>18. Pend' = new /\ Fresh' = new
  <2>1. {u \in Writers : pc'[u] \in Writing} = {t}
    BY <1>2, <1>13, <1>14
  <2>2. Pend' = new
    BY <1>9, <1>13, <2>1 DEF Pend
  <2>3. QED
    BY <1>1, <1>15, <1>16, <2>2 DEF Fresh
<1>19. BatchInv'
  <2>1. BatchesAtomic'
    BY <1>1, <1>16 DEF WInv, BatchInv, BatchesAtomic
  <2>2. \A e \in Stored' \cup Pend' : e.op[2] <= calls'[e.op[1]]
    <3>1. \A e \in Stored : e.op[2] <= calls[e.op[1]]
      BY DEF WInv, BatchInv
    <3>2. ASSUME NEW e \in new
          PROVE  e.op[2] <= calls[e.op[1]]
      <4>1. PICK j \in 1 .. n : e.op = MyOp(writers_[j])
        BY <1>6
      <4>2. e.op[2] = calls[e.op[1]] /\ e.op[1] \in Writers
        BY <1>7, <4>1
      <4>3. calls[e.op[1]] \in Nat
        BY <4>2, Types DEF WInv
      <4>4. QED
        BY <4>2, <4>3
    <3>3. QED
      BY <1>1, <1>16, <1>18, <3>1, <3>2
  <2>3. QED
    BY <1>1, <1>6, <1>18, <2>1, <2>2 DEF BatchInv
<1>20. TypeOK'
  <2>1. mutex_' \in Writers \cup {Nobody}
    BY <1>1
  <2>2. pc' \in [Writers -> Leading \cup {"idle", "wait", "flush", "flushwait"}]
    BY <1>1, <1>2 DEF WInv, TypeOK
  <2>3. loc' \in [Writers -> LocalsType]
    BY <1>1, <1>9 DEF WInv, TypeOK
  <2>4. QED
    BY <1>1, <1>10, <2>1, <2>2, <2>3 DEF WInv, TypeOK
<1>21. QED
  BY <1>1, <1>12, <1>17, <1>19, <1>20 DEF WInv, ImmInv

\* What the unlocked steps leave alone, and what they know of their group.
LEMMA UnlockedFacts ==
    ASSUME WInv, NEW t \in Writers, pc[t] \in Committing
    PROVE  /\ pc[t] \in Leading /\ mutex_ # t /\ (pc[t] # "insert" => ~signalled[t])
           /\ ~signalled[t] /\ loc[t] \in LocalsType /\ loc = [loc EXCEPT ![t] = loc[t]]
           /\ loc[t].group # <<>> /\ Len(loc[t].group) <= Len(writers_)
           /\ \A j \in 1 .. Len(loc[t].group) : loc[t].group[j] = writers_[j]
           /\ req[t].batch
           /\ pc[t] # "relock" => loc[t].status = "ok"
           /\ \A j \in 1 .. Len(loc[t].group) :
                 (req[loc[t].group[j]].sync => req[t].sync) /\ ~entered[loc[t].group[j]].err
           /\ \A u \in Writers \ {t} : pc[u] \notin Committing /\ pc[u] \notin Writing
                                        /\ pc[u] \notin {"room", "build"}
<1>1. pc[t] \in Leading /\ pc[t] \notin {"room", "build", "wait", "bgwait", "flushwait"}
  BY DEF Committing, Leading
<1>2. \A u \in Writers \ {t} : pc[u] \notin Leading
  BY <1>1, Leaders DEF WInv
<1>3. \A u \in Writers \ {t} : pc[u] \notin Committing /\ pc[u] \notin Writing
                                /\ pc[u] \notin {"room", "build"}
  BY <1>2 DEF Leading, Committing, Writing
<1>4. mutex_ # t /\ ~signalled[t]
  BY <1>1 DEF WInv, MutexInv, WakeInv
<1>5. loc[t] \in LocalsType /\ loc = [loc EXCEPT ![t] = loc[t]]
  BY DEF WInv, TypeOK
<1>6. QED
  BY <1>1, <1>3, <1>4, <1>5 DEF WInv, GroupInv

\* mutex_ may be held by nobody else while a group is written, except to wait or to join.
LEMMA UnlockedMutex ==
    ASSUME WInv, NEW t \in Writers, pc[t] \in Committing
    PROVE  mutex_ = Nobody
<1>1. \A u \in Writers : mutex_ # u
  BY UnlockedFacts DEF WInv, MutexInv
<1>2. QED
  BY <1>1 DEF WInv, TypeOK

\* The record of the group is appended to the log, or the append fails.
LEMMA AddRecordStep ==
    ASSUME WInv, NEW t \in Writers, AddRecord(t)
    PROVE  WInv'
<1> USE DEF Statuses
<1>1. /\ pc[t] = "append" /\ mutex_' = mutex_ /\ calls' = calls /\ req' = req /\ w' = w
      /\ writers_' = writers_ /\ signalled' = signalled /\ last_sequence' = last_sequence
      /\ imm_' = imm_ /\ has_imm' = has_imm /\ tables' = tables /\ mem_' = mem_
      /\ synced' = synced /\ l0' = l0 /\ bg_error_' = bg_error_
      /\ bg_scheduled' = bg_scheduled /\ bgpc' = bgpc /\ bgin' = bgin /\ entered' = entered
      /\ returned' = returned
  BY DEF AddRecord, UnlockedUnchanged, bgVars
<1>2. /\ pc[t] \in Committing /\ pc[t] \in Leading /\ mutex_ = Nobody /\ ~signalled[t]
      /\ {"sync", "insert", "relock"} \subseteq Leading
      /\ {"sync", "insert", "relock"} \subseteq Committing
      /\ pc[t] \in Writing /\ {"sync", "insert"} \subseteq Writing
  BY <1>1, UnlockedFacts, UnlockedMutex DEF Committing, Leading, Writing
<1>3. Stored' = Stored
  BY <1>1 DEF Stored
<1>4. CASE /\ pc' = [pc EXCEPT ![t] = IF req[t].sync THEN "sync" ELSE "insert"]
           /\ loc' = loc /\ faults' = faults
  <2> DEFINE p == IF req[t].sync THEN "sync" ELSE "insert"
  <2>1. /\ p \in Leading /\ p \in Committing /\ p \in Writing
        /\ p \in {"sync", "insert"} /\ (p = "insert" => ~req[t].sync)
    BY <1>2
  <2> HIDE DEF p
  <2>2. pc' = [pc EXCEPT ![t] = p]
    BY <1>4 DEF p
  <2>3. \A j \in 1 .. Len(loc[t].group) : req[loc[t].group[j]].batch =>
            \E e \in loc[t].updates : e.op = MyOp(loc[t].group[j])
    BY <1>1 DEF WInv, SyncInv
  <2>4. CallInv' /\ QueueInv' /\ MutexInv' /\ GroupInv' /\ WakeInv' /\ SyncInv' /\ ErrInv'
    <3>1. p \notin {"room", "build", "relock", "bgwait"}
      BY <2>1
    <3>2. loc' = [loc EXCEPT ![t] = loc[t]] /\ mutex_' = Nobody
      BY <1>1, <1>2, <1>4, UnlockedFacts
    <3>3. QED
      BY <1>1, <1>2, <2>1, <2>2, <2>3, <3>1, <3>2, UnlockedFacts, LeaderFrame
  <2>5. pc'[t] = p /\ \A u \in Writers \ {t} : pc'[u] = pc[u]
    BY <2>2 DEF WInv, TypeOK
  <2>6. SeqInv' /\ BatchInv'
    <3>1. /\ \A u \in Writers : pc'[u] \in Writing <=> pc[u] \in Writing
          /\ \A u \in Writers : pc'[u] \in Committing <=> pc[u] \in Committing
          /\ \A u \in Writers : pc[u] \in {"insert", "relock"} => pc'[u] \in {"insert", "relock"}
      BY <1>1, <1>2, <2>1, <2>5
    <3>2. QED
      BY <1>1, <1>3, <1>4, <3>1, DataFrame
  <2>7. TypeOK'
    <3>1. pc' \in [Writers -> Leading \cup {"idle", "wait", "flush", "flushwait"}]
      BY <2>1, <2>2 DEF WInv, TypeOK
    <3>2. QED
      BY <1>1, <1>4, <3>1 DEF WInv, TypeOK
  <2>8. QED
    BY <1>1, <2>4, <2>6, <2>7 DEF WInv, ImmInv
<1>5. CASE /\ EnvFails /\ pc' = [pc EXCEPT ![t] = "relock"]
           /\ loc' = [loc EXCEPT ![t].status = "error"]
  <2> DEFINE l == [loc[t] EXCEPT !.status = "error"]
  <2>1. /\ l \in LocalsType /\ l.group = loc[t].group /\ l.seq = loc[t].seq
        /\ l.status = "error"
    BY <1>2, UnlockedFacts DEF LocalsType
  <2>2. loc' = [loc EXCEPT ![t] = l]
    BY <1>5
  <2> HIDE DEF l
  <2>3. CallInv' /\ QueueInv' /\ MutexInv' /\ GroupInv' /\ WakeInv' /\ SyncInv' /\ ErrInv'
    <3>1. mutex_' = Nobody /\ "relock" \in Leading /\ synced \subseteq synced'
      BY <1>1, <1>2, <1>5
    <3>2. /\ l.group # <<>> /\ Len(l.group) <= Len(writers_)
          /\ \A j \in 1 .. Len(l.group) : l.group[j] = writers_[j]
          /\ req[t].batch
          /\ \A j \in 1 .. Len(l.group) :
                (req[l.group[j]].sync => req[t].sync) /\ ~entered[l.group[j]].err
      BY <1>2, <2>1, UnlockedFacts
    <3>3. QED
      BY <1>1, <1>2, <1>5, <2>1, <2>2, <3>1, <3>2, LeaderFrame
  <2>4. SeqInv' /\ BatchInv'
    BY <1>1, <1>3, <1>5, <2>1, <2>2, DropFrame
  <2>5. faults' \in 0 .. MaxFaults
    <3>1. faults \in 0 .. MaxFaults /\ MaxFaults \in Nat /\ faults < MaxFaults /\ faults' = faults + 1
      BY <1>5, ConstantsAssumption DEF EnvFails, WInv, TypeOK
    <3>2. QED
      BY <3>1
  <2>6. TypeOK'
    <3>1. pc' \in [Writers -> Leading \cup {"idle", "wait", "flush", "flushwait"}]
      BY <1>2, <1>5 DEF WInv, TypeOK
    <3>2. loc' \in [Writers -> LocalsType]
      BY <2>1, <2>2 DEF WInv, TypeOK
    <3>3. QED
      BY <1>1, <2>5, <3>1, <3>2 DEF WInv, TypeOK
  <2>7. QED
    BY <1>1, <2>3, <2>4, <2>6 DEF WInv, ImmInv
<1>6. QED
  BY <1>4, <1>5 DEF AddRecord

\* The log is synced, or the Sync fails.
LEMMA SyncStep ==
    ASSUME WInv, NEW t \in Writers, Sync(t)
    PROVE  WInv'
<1> USE DEF Statuses
<1>1. /\ pc[t] = "sync" /\ mutex_' = mutex_ /\ calls' = calls /\ req' = req /\ w' = w
      /\ writers_' = writers_ /\ signalled' = signalled /\ last_sequence' = last_sequence
      /\ imm_' = imm_ /\ has_imm' = has_imm /\ tables' = tables /\ mem_' = mem_
      /\ l0' = l0 /\ bg_error_' = bg_error_
      /\ bg_scheduled' = bg_scheduled /\ bgpc' = bgpc /\ bgin' = bgin /\ entered' = entered
      /\ returned' = returned
  BY DEF Sync, UnlockedUnchanged, bgVars
<1>2. /\ pc[t] \in Committing /\ pc[t] \in Leading /\ mutex_ = Nobody /\ ~signalled[t]
      /\ {"insert", "relock"} \subseteq Leading
      /\ {"insert", "relock"} \subseteq Committing
      /\ pc[t] \in Writing /\ "insert" \in Writing
  BY <1>1, UnlockedFacts, UnlockedMutex DEF Committing, Leading, Writing
<1>3. Stored' = Stored
  BY <1>1 DEF Stored
<1>4. CASE /\ pc' = [pc EXCEPT ![t] = "insert"] /\ loc' = loc /\ faults' = faults
           /\ synced' = synced \cup {e.op : e \in loc[t].updates}
  <2>1. \A j \in 1 .. Len(loc[t].group) : req[loc[t].group[j]].batch =>
            MyOp(loc[t].group[j]) \in synced'
    BY <1>1, <1>4 DEF WInv, SyncInv
  <2>2. CallInv' /\ QueueInv' /\ MutexInv' /\ GroupInv' /\ WakeInv' /\ SyncInv' /\ ErrInv'
    <3>1. loc' = [loc EXCEPT ![t] = loc[t]] /\ mutex_' = Nobody /\ synced \subseteq synced'
      BY <1>1, <1>2, <1>4, UnlockedFacts
    <3>2. QED
      BY <1>1, <1>2, <1>4, <2>1, <3>1, UnlockedFacts, LeaderFrame
  <2>3. pc'[t] = "insert" /\ \A u \in Writers \ {t} : pc'[u] = pc[u]
    BY <1>4 DEF WInv, TypeOK
  <2>4. SeqInv' /\ BatchInv'
    <3>1. /\ \A u \in Writers : pc'[u] \in Writing <=> pc[u] \in Writing
          /\ \A u \in Writers : pc'[u] \in Committing <=> pc[u] \in Committing
          /\ \A u \in Writers : pc[u] \in {"insert", "relock"} => pc'[u] \in {"insert", "relock"}
      BY <1>1, <1>2, <2>3
    <3>2. QED
      BY <1>1, <1>3, <1>4, <3>1, DataFrame
  <2>5. TypeOK'
    <3>1. pc' \in [Writers -> Leading \cup {"idle", "wait", "flush", "flushwait"}]
      BY <1>2, <1>4 DEF WInv, TypeOK
    <3>2. synced' \subseteq Op
      <4>1. synced \subseteq Op /\ loc[t].updates \subseteq EntryType
        BY Types DEF WInv, TypeOK
      <4>2. QED
        BY <1>4, <4>1 DEF EntryType
    <3>3. QED
      BY <1>1, <1>4, <3>1, <3>2 DEF WInv, TypeOK
  <2>6. QED
    BY <1>1, <2>2, <2>4, <2>5 DEF WInv, ImmInv
<1>5. CASE /\ EnvFails /\ pc' = [pc EXCEPT ![t] = "relock"]
           /\ loc' = [loc EXCEPT ![t].status = "error", ![t].sync_error = TRUE]
           /\ synced' = synced
  <2> DEFINE l == [loc[t] EXCEPT !.status = "error", !.sync_error = TRUE]
  <2>1. /\ l \in LocalsType /\ l.group = loc[t].group /\ l.seq = loc[t].seq
        /\ l.status = "error"
    BY <1>2, UnlockedFacts DEF LocalsType
  <2>2. loc' = [loc EXCEPT ![t] = l]
    BY <1>5 DEF WInv, TypeOK
  <2> HIDE DEF l
  <2>3. CallInv' /\ QueueInv' /\ MutexInv' /\ GroupInv' /\ WakeInv' /\ SyncInv' /\ ErrInv'
    <3>1. mutex_' = Nobody /\ "relock" \in Leading /\ synced \subseteq synced'
      BY <1>1, <1>2, <1>5
    <3>2. /\ l.group # <<>> /\ Len(l.group) <= Len(writers_)
          /\ \A j \in 1 .. Len(l.group) : l.group[j] = writers_[j]
          /\ req[t].batch
          /\ \A j \in 1 .. Len(l.group) :
                (req[l.group[j]].sync => req[t].sync) /\ ~entered[l.group[j]].err
      BY <1>2, <2>1, UnlockedFacts
    <3>3. QED
      BY <1>1, <1>2, <1>5, <2>1, <2>2, <3>1, <3>2, LeaderFrame
  <2>4. SeqInv' /\ BatchInv'
    BY <1>1, <1>3, <1>5, <2>1, <2>2, DropFrame
  <2>5. faults' \in 0 .. MaxFaults
    <3>1. faults \in 0 .. MaxFaults /\ MaxFaults \in Nat /\ faults < MaxFaults /\ faults' = faults + 1
      BY <1>5, ConstantsAssumption DEF EnvFails, WInv, TypeOK
    <3>2. QED
      BY <3>1
  <2>6. TypeOK'
    <3>1. pc' \in [Writers -> Leading \cup {"idle", "wait", "flush", "flushwait"}]
      BY <1>2, <1>5 DEF WInv, TypeOK
    <3>2. loc' \in [Writers -> LocalsType]
      BY <2>1, <2>2 DEF WInv, TypeOK
    <3>3. QED
      BY <1>1, <1>5, <2>5, <3>1, <3>2 DEF WInv, TypeOK
  <2>7. QED
    BY <1>1, <2>3, <2>4, <2>6 DEF WInv, ImmInv
<1>6. QED
  BY <1>4, <1>5 DEF Sync

\* One entry of the group goes into the memtable, the lowest number first.
LEMMA InsertStep ==
    ASSUME WInv, NEW t \in Writers, InsertInto(t)
    PROVE  WInv'
<1> DEFINE U == loc[t].updates
           e == CHOOSE x \in U : \A f \in U : x.seq <= f.seq
           p == IF U = {e} THEN "relock" ELSE "insert"
           l == [loc[t] EXCEPT !.updates = U \ {e}]
<1>1. /\ pc[t] = "insert" /\ mutex_' = mutex_ /\ calls' = calls /\ req' = req /\ w' = w
      /\ writers_' = writers_ /\ signalled' = signalled /\ last_sequence' = last_sequence
      /\ imm_' = imm_ /\ has_imm' = has_imm /\ tables' = tables
      /\ synced' = synced /\ faults' = faults /\ l0' = l0 /\ bg_error_' = bg_error_
      /\ bg_scheduled' = bg_scheduled /\ bgpc' = bgpc /\ bgin' = bgin /\ entered' = entered
      /\ returned' = returned
      /\ mem_' = mem_ \cup {e} /\ loc' = [loc EXCEPT ![t] = l] /\ pc' = [pc EXCEPT ![t] = p]
  BY DEF InsertInto, LastUpdate, UnlockedUnchanged, bgVars
<1>2. /\ pc[t] \in Committing /\ pc[t] \in Leading /\ mutex_ = Nobody /\ ~signalled[t]
      /\ {"insert", "relock"} \subseteq Leading
      /\ {"insert", "relock"} \subseteq Committing
      /\ pc[t] \in Writing /\ "insert" \in Writing /\ "relock" \notin Writing
  BY <1>1, UnlockedFacts, UnlockedMutex DEF Committing, Leading, Writing
<1>3. /\ U # {} /\ U \subseteq EntryType /\ last_sequence \in Nat /\ loc[t].seq \in Nat
      /\ \A x \in U : last_sequence < x.seq /\ x.seq <= loc[t].seq /\ x.seq \in Nat
      /\ \A x, y \in U : x.seq = y.seq => x = y
  BY <1>2, Types DEF WInv, SeqInv, EntryType
<1>4. e \in U /\ \A f \in U : e.seq <= f.seq
  <2>1. PICK m \in {x.seq : x \in U} : \A k \in {x.seq : x \in U} : m <= k
    <3>1. {x.seq : x \in U} \in SUBSET Nat /\ {x.seq : x \in U} # {}
      BY <1>3
    <3>2. QED
      BY <3>1, LeastNat
  <2>2. \E x \in U : \A f \in U : x.seq <= f.seq
    BY <2>1
  <2> HIDE DEF U
  <2>3. QED
    BY <2>2
<1>5. p \in {"insert", "relock"} /\ p \in Leading /\ p \in Committing
  BY <1>2
<1>6. /\ l \in LocalsType /\ l.group = loc[t].group /\ l.seq = loc[t].seq
      /\ l.status = "ok" /\ l.updates = U \ {e}
  BY <1>1, <1>2, <1>3, UnlockedFacts DEF LocalsType
<1>7. \A f \in U \ {e} : e.seq < f.seq
  BY <1>3, <1>4
<1>8. (p = "insert" <=> U \ {e} # {}) /\ (p = "relock" <=> U \ {e} = {})
  BY <1>4
<1> HIDE DEF e, p, l, U
<1>9. CallInv' /\ QueueInv' /\ MutexInv' /\ GroupInv' /\ WakeInv' /\ SyncInv' /\ ErrInv'
  <2>1. mutex_' = Nobody /\ synced \subseteq synced' /\ p \notin {"room", "build", "append", "sync", "bgwait"}
    BY <1>1, <1>2, <1>5
  <2>2. /\ l.group # <<>> /\ Len(l.group) <= Len(writers_)
        /\ \A j \in 1 .. Len(l.group) : l.group[j] = writers_[j]
        /\ req[t].batch
        /\ \A j \in 1 .. Len(l.group) :
              (req[l.group[j]].sync => req[t].sync) /\ ~entered[l.group[j]].err
    BY <1>2, <1>6, UnlockedFacts
  <2>3. req[t].sync => \A j \in 1 .. Len(l.group) :
            req[l.group[j]].batch => MyOp(l.group[j]) \in synced'
    BY <1>1, <1>6 DEF WInv, SyncInv
  <2>4. QED
    BY <1>1, <1>2, <1>5, <1>6, <2>1, <2>2, <2>3, LeaderFrame
<1>10. /\ pc'[t] = p /\ loc'[t] = l
       /\ \A u \in Writers \ {t} : pc'[u] = pc[u] /\ loc'[u] = loc[u]
  BY <1>1 DEF WInv, TypeOK
<1>11. \A u \in Writers \ {t} : /\ pc[u] \notin Committing /\ pc[u] \notin Writing
                                 /\ pc'[u] \notin Committing /\ pc'[u] \notin Writing
                                 /\ pc[u] \notin {"insert", "relock"}
  BY <1>2, <1>10, UnlockedFacts
<1>12. Stored' = Stored \cup {e}
  BY <1>1 DEF Stored
<1>13. ASSUME NEW x \in Stored
       PROVE  /\ x.seq \in Nat
              /\ x.seq > last_sequence => /\ x \in mem_ /\ x.seq <= loc[t].seq
                                          /\ \A f \in U : x.seq < f.seq
  <2>1. x.seq \in Nat
    BY DEF WInv, TypeOK, Stored, EntryType
  <2>2. QED
    BY <1>11, <2>1 DEF WInv, SeqInv, SequencesDistinct, U
<1>14. \A x \in Stored : x.seq # e.seq
  BY <1>3, <1>4, <1>13
<1>15. SequencesDistinct'
  <2>1. \A x, y \in Stored' : x.seq = y.seq => x = y
    BY <1>12, <1>14 DEF WInv, SeqInv, SequencesDistinct
  <2>2. ASSUME NEW x \in Stored', x.seq > last_sequence'
        PROVE  \E u \in Writers : /\ pc'[u] \in {"insert", "relock"}
                                  /\ x \in mem_' /\ x.seq <= loc'[u].seq
                                  /\ \A f \in loc'[u].updates : x.seq < f.seq
    <3>1. CASE x \in Stored
      <4>1. x \in mem_ /\ x.seq <= loc[t].seq /\ \A f \in U : x.seq < f.seq
        BY <1>1, <1>13, <2>2, <3>1
      <4>2. QED
        BY <1>1, <1>5, <1>6, <1>10, <4>1
    <3>2. CASE x = e
      BY <1>1, <1>3, <1>4, <1>5, <1>6, <1>7, <1>10, <3>2
    <3>3. QED
      BY <1>12, <3>1, <3>2
  <2>3. QED
    BY <2>1, <2>2 DEF SequencesDistinct
<1>16. SeqInv'
  <2>1. \A u \in Writers : pc'[u] \in Committing => last_sequence' <= loc'[u].seq
    BY <1>1, <1>2, <1>6, <1>10, <1>11 DEF WInv, SeqInv
  <2>2. ASSUME NEW u \in Writers, pc'[u] \in Writing
        PROVE  /\ loc'[u].updates # {}
               /\ \A x \in loc'[u].updates : last_sequence' < x.seq /\ x.seq <= loc'[u].seq
               /\ \A x, y \in loc'[u].updates : x.seq = y.seq => x = y
    <3>1. u = t
      BY <1>11, <2>2
    <3>2. loc'[u].updates = U \ {e} /\ loc'[u].seq = loc[t].seq /\ p = "insert"
      BY <1>2, <1>5, <1>6, <1>10, <2>2, <3>1
    <3>3. QED
      BY <1>1, <1>3, <1>8, <3>2
  <2>3. QED
    BY <1>15, <2>1, <2>2 DEF SeqInv
<1>17. Fresh' = Fresh /\ Pend \subseteq Fresh /\ Pend' \subseteq Pend /\ e \in Pend
  <2>1. Pend = U
    <3>1. {u \in Writers : pc[u] \in Writing} = {t}
      BY <1>2, <1>11
    <3>2. QED
      BY <3>1 DEF Pend, U
  <2>2. Pend' = U \ {e}
    <3>1. CASE p = "insert"
      <4>1. {u \in Writers : pc'[u] \in Writing} = {t}
        BY <1>2, <1>10, <1>11, <3>1
      <4>2. QED
        BY <1>6, <1>10, <4>1 DEF Pend
    <3>2. CASE p = "relock"
      <4>1. {u \in Writers : pc'[u] \in Writing} = {}
        BY <1>2, <1>10, <1>11, <3>2
      <4>2. QED
        BY <1>8, <3>2, <4>1 DEF Pend
    <3>3. QED
      BY <1>5, <3>1, <3>2
  <2>3. e.seq > last_sequence
    BY <1>3, <1>4
  <2>4. Fresh' = Fresh
    BY <1>1, <1>4, <1>12, <2>1, <2>2, <2>3 DEF Fresh
  <2>5. QED
    BY <1>4, <2>1, <2>2, <2>4 DEF Fresh
<1>18. BatchInv'
  <2>1. BatchesAtomic'
    <3> SUFFICES ASSUME NEW x \in Stored', x.seq <= last_sequence,
                        NEW i \in 1 .. req[x.op[1]].count, calls[x.op[1]] = x.op[2]
                 PROVE  \E f \in Stored' : f.op = x.op /\ f.i = i /\ f.seq = x.seq - x.i + i
      BY <1>1 DEF BatchesAtomic
    <3>1. x \in Stored
      BY <1>3, <1>4, <1>12
    <3>2. \E f \in Stored : f.op = x.op /\ f.i = i /\ f.seq = x.seq - x.i + i
      BY <3>1 DEF WInv, BatchInv, BatchesAtomic
    <3>3. QED
      BY <1>12, <3>2
  <2>2. \A x \in Stored' \cup Pend' : x.op[2] <= calls'[x.op[1]]
    BY <1>1, <1>12, <1>17 DEF WInv, BatchInv
  <2>3. QED
    BY <1>1, <1>17, <2>1, <2>2 DEF WInv, BatchInv
<1>19. TypeOK'
  <2>1. pc' \in [Writers -> Leading \cup {"idle", "wait", "flush", "flushwait"}]
    BY <1>1, <1>5 DEF WInv, TypeOK
  <2>2. loc' \in [Writers -> LocalsType]
    BY <1>1, <1>6 DEF WInv, TypeOK
  <2>3. mem_' \subseteq EntryType
    BY <1>1, <1>3, <1>4 DEF WInv, TypeOK
  <2>4. QED
    BY <1>1, <2>1, <2>2, <2>3 DEF WInv, TypeOK
<1>20. QED
  BY <1>1, <1>9, <1>16, <1>18, <1>19 DEF WInv, ImmInv

-----------------------------------------------------------------------------
(* Joining the queue *)

\* The initial locals of a leader.
LEMMA NoLocalsType == NoLocals \in LocalsType /\ NoLocals.group = <<>> /\ NoLocals.status = "ok"
<1>1. <<>> \in Seq(Writers) /\ {} \in SUBSET EntryType /\ "ok" \in Statuses
  BY DEF Statuses
<1>2. QED
  BY <1>1 DEF NoLocals, LocalsType

\* A call begins: its Writer goes to the end of the queue.
LEMMA EnterStep ==
    ASSUME WInv, NEW t \in Writers, NEW r \in Requests[t], Enter(t, r)
    PROVE  WInv'
<1> DEFINE p == IF writers_ = <<>> THEN "room" ELSE "wait"
           l == [NoLocals EXCEPT !.force = ~r.batch, !.allow_delay = r.batch]
<1>1. /\ pc[t] = "idle" /\ calls[t] < MaxWrites /\ calls' = [calls EXCEPT ![t] = @ + 1]
      /\ req' = [req EXCEPT ![t] = r] /\ w' = [w EXCEPT ![t] = NoWriter]
      /\ writers_' = Append(writers_, t)
      /\ entered' = [entered EXCEPT ![t] = [seq |-> last_sequence, err |-> bg_error_]]
      /\ signalled' = signalled /\ mem_' = mem_ /\ imm_' = imm_ /\ has_imm' = has_imm
      /\ tables' = tables /\ synced' = synced /\ last_sequence' = last_sequence
      /\ l0' = l0 /\ bg_error_' = bg_error_ /\ bg_scheduled' = bg_scheduled /\ bgpc' = bgpc
      /\ bgin' = bgin /\ faults' = faults /\ returned' = returned
      /\ mutex_ = Nobody /\ mutex_' = IF writers_ = <<>> THEN t ELSE Nobody
      /\ pc' = [pc EXCEPT ![t] = p]
      /\ writers_ = <<>> => loc' = [loc EXCEPT ![t] = l]
      /\ writers_ # <<>> => loc' = loc
  BY DEF Enter, LeadsAtOnce, Locked, Briefly, dataVars, bgVars
<1>2. /\ r \in AllRequests /\ r \in ReqType /\ r.batch \in BOOLEAN
  BY ConstantsAssumption DEF AllRequests, ReqType
<1>3. l \in LocalsType /\ l.group = <<>>
  BY <1>2, NoLocalsType DEF LocalsType
<1>4. writers_ \in Seq(Writers) /\ calls[t] \in Nat /\ MaxWrites \in Nat
  BY Types, ConstantsAssumption DEF WInv
<1> HIDE DEF l
<1>5. /\ writers_' \in Seq(Writers) /\ Len(writers_') = Len(writers_) + 1
      /\ DOMAIN writers_' = DOMAIN writers_ \cup {Len(writers_) + 1}
      /\ writers_'[Len(writers_) + 1] = t
      /\ \A j \in DOMAIN writers_ : writers_'[j] = writers_[j] /\ j # Len(writers_) + 1
  BY <1>1, <1>4
<1>6. /\ ~InQueue(t) /\ ~signalled[t] /\ pc[t] \notin Leading /\ pc[t] \notin Committing
      /\ \A j \in DOMAIN writers_ : writers_[j] # t
  <2>1. pc[t] \notin Leading /\ pc[t] \notin Committing /\ pc[t] # "wait"
        /\ pc[t] \notin {"bgwait", "flushwait"}
    BY <1>1 DEF Leading, Committing
  <2>2. ~InQueue(t) /\ ~signalled[t]
    BY <2>1 DEF WInv, QueueInv, WakeInv
  <2>3. QED
    BY <2>1, <2>2 DEF InQueue
<1>7. /\ pc'[t] = p /\ req'[t] = r /\ w'[t] = NoWriter /\ ~w'[t].done /\ calls'[t] = calls[t] + 1
      /\ entered'[t].err = bg_error_ /\ loc'[t].group = <<>>
      /\ \A u \in Writers \ {t} : /\ pc'[u] = pc[u] /\ req'[u] = req[u] /\ w'[u] = w[u]
                                   /\ calls'[u] = calls[u] /\ entered'[u] = entered[u]
                                   /\ loc'[u] = loc[u] /\ MyOp(u)' = MyOp(u)
  <2>1. loc[t].group = <<>>
    BY <1>6 DEF WInv, GroupInv
  <2>2. QED
    BY <1>1, <1>3, <2>1 DEF WInv, TypeOK, NoWriter, MyOp
<1>8. /\ p \in {"room", "wait"} /\ p \notin Committing /\ p \notin Writing
      /\ p \notin {"idle", "append", "sync", "insert", "relock", "build", "flush", "flushwait", "bgwait"}
      /\ p \in Leading \cup {"idle", "wait", "flush", "flushwait"}
      /\ (p = "room" <=> writers_ = <<>>) /\ (p = "room" <=> p \in Leading)
      /\ pc[t] \notin Writing /\ pc[t] \notin {"room", "build"}
  BY <1>1 DEF Committing, Writing, Leading
<1> HIDE DEF p
<1>9. CallInv'
  <2>1. calls'[t] >= 1
    BY <1>4, <1>7
  <2>2. QED
    BY <1>2, <1>7, <2>1 DEF WInv, CallInv
<1>10. QueueInv'
  <2>1. \A i, j \in DOMAIN writers_' : writers_'[i] = writers_'[j] => i = j
    BY <1>5, <1>6 DEF WInv, QueueInv
  <2>2. \A u \in Writers : InQueue(u)' <=> InQueue(u) \/ u = t
    BY <1>5 DEF InQueue
  <2>3. p \in Leading \/ p = "wait"
    BY <1>8 DEF Leading
  <2>4. \A u \in Writers : InQueue(u)' <=> pc'[u] \in Leading \/ (pc'[u] = "wait" /\ ~w'[u].done)
    BY <1>6, <1>7, <2>2, <2>3 DEF WInv, QueueInv
  <2>5. ASSUME NEW u \in Writers, pc'[u] \in Leading
        PROVE  writers_'[1] = u
    <3>1. CASE u = t
      <4>1. writers_ = <<>>
        BY <1>7, <1>8, <2>5, <3>1 DEF Leading
      <4>2. Len(writers_) = 0
        BY <4>1
      <4>3. QED
        BY <1>5, <3>1, <4>2
    <3>2. CASE u # t
      <4>1. pc[u] \in Leading
        BY <1>7, <2>5, <3>2
      <4>2. 1 \in DOMAIN writers_ /\ writers_[1] = u
        BY <4>1, Leaders DEF WInv
      <4>3. QED
        BY <1>5, <4>2
    <3>3. QED
      BY <3>1, <3>2
  <2>6. QED
    BY <2>1, <2>4, <2>5 DEF QueueInv
<1>11. MutexInv'
  <2>1. \A u \in Writers : pc[u] \notin {"room", "build"}
    BY <1>1, ConstantsAssumption DEF WInv, MutexInv
  <2>2. QED
    BY <1>1, <1>7, <1>8, <2>1, ConstantsAssumption DEF MutexInv
<1>12. ASSUME NEW u \in Writers, pc'[u] \in Committing
       PROVE  /\ u # t /\ pc[u] \in Committing /\ Len(loc[u].group) \in Nat
              /\ Len(loc[u].group) <= Len(writers_)
              /\ \A j \in 1 .. Len(loc[u].group) :
                    /\ j \in DOMAIN writers_ /\ loc[u].group[j] = writers_[j]
                    /\ writers_'[j] = writers_[j] /\ loc[u].group[j] \in Writers \ {t}
  <2>1. u # t /\ pc[u] \in Committing
    BY <1>7, <1>8, <1>12
  <2>2. Len(loc[u].group) \in Nat /\ Len(loc[u].group) <= Len(writers_)
        /\ \A j \in 1 .. Len(loc[u].group) : loc[u].group[j] = writers_[j]
    BY <2>1, Types DEF WInv, GroupInv
  <2>3. \A j \in 1 .. Len(loc[u].group) : j \in DOMAIN writers_
    BY <1>4, <2>2
  <2>4. QED
    BY <1>4, <1>5, <1>6, <2>1, <2>2, <2>3
<1>13. GroupInv'
  <2> SUFFICES ASSUME NEW u \in Writers
               PROVE  LET group == loc'[u].group
                      IN  IF pc'[u] \in Committing
                          THEN /\ group # <<>> /\ Len(group) <= Len(writers_')
                               /\ \A j \in 1 .. Len(group) : group[j] = writers_'[j]
                               /\ req'[u].batch
                               /\ pc'[u] # "relock" => loc'[u].status = "ok"
                               /\ \A j \in 1 .. Len(group) :
                                     (req'[group[j]].sync => req'[u].sync) /\ ~entered'[group[j]].err
                          ELSE group = <<>>
    BY DEF GroupInv
  <2>1. CASE pc'[u] \in Committing
    <3>1. loc'[u] = loc[u] /\ req'[u] = req[u] /\ pc'[u] = pc[u]
      BY <1>7, <1>12, <2>1
    <3>2. Len(loc[u].group) <= Len(writers_')
      BY <1>4, <1>5, <1>12, <2>1
    <3>3. QED
      BY <1>7, <1>12, <2>1, <3>1, <3>2 DEF WInv, GroupInv
  <2>2. CASE pc'[u] \notin Committing
    BY <1>7, <2>2 DEF WInv, GroupInv
  <2>3. QED
    BY <2>1, <2>2
<1>14. WakeInv'
  <2> SUFFICES ASSUME NEW u \in Writers
               PROVE  /\ signalled'[u] => pc'[u] \in {"wait", "bgwait", "flushwait"}
                      /\ pc'[u] = "wait" => (signalled'[u] <=> w'[u].done \/ writers_'[1] = u)
    BY DEF WakeInv
  <2>1. writers_ # <<>> => 1 \in DOMAIN writers_ /\ writers_'[1] = writers_[1]
    BY <1>4, <1>5
  <2>2. CASE u = t
    <3>1. ~signalled'[u]
      BY <1>1, <1>6, <2>2
    <3>2. pc'[u] = "wait" => writers_'[1] # t
      BY <1>6, <1>7, <1>8, <2>1, <2>2
    <3>3. QED
      BY <1>7, <2>2, <3>1, <3>2
  <2>3. CASE u # t
    <3>1. pc[u] = "wait" /\ writers_ = <<>> => w[u].done
      BY <1>4 DEF WInv, QueueInv, InQueue
    <3>2. QED
      BY <1>1, <1>7, <2>1, <2>3, <3>1 DEF WInv, WakeInv
  <2>4. QED
    BY <2>2, <2>3
<1>15. SyncInv'
  <2>1. ASSUME NEW u \in Writers, pc'[u] \in {"append", "sync"},
               NEW j \in 1 .. Len(loc'[u].group), req'[loc'[u].group[j]].batch
        PROVE  \E e \in loc'[u].updates : e.op = MyOp(loc[u].group[j])'
    <3>1. pc'[u] \in Committing
      BY <2>1 DEF Committing
    <3>2. loc'[u] = loc[u] /\ pc'[u] = pc[u] /\ loc[u].group[j] \in Writers \ {t}
      BY <1>7, <1>12, <3>1
    <3>3. MyOp(loc[u].group[j])' = MyOp(loc[u].group[j])
      BY <1>7, <3>2 DEF MyOp
    <3>4. QED
      BY <1>7, <2>1, <3>2, <3>3 DEF WInv, SyncInv
  <2>2. ASSUME NEW u \in Writers, pc'[u] = "insert" \/ (pc'[u] = "relock" /\ loc'[u].status = "ok"),
               req'[u].sync, NEW j \in 1 .. Len(loc'[u].group), req'[loc'[u].group[j]].batch
        PROVE  MyOp(loc[u].group[j])' \in synced'
    <3>1. pc'[u] \in Committing
      BY <2>2 DEF Committing
    <3>2. /\ loc'[u] = loc[u] /\ pc'[u] = pc[u] /\ req'[u] = req[u]
          /\ loc[u].group[j] \in Writers \ {t}
      BY <1>7, <1>12, <3>1
    <3>3. MyOp(loc[u].group[j])' = MyOp(loc[u].group[j])
      BY <1>7, <3>2 DEF MyOp
    <3>4. QED
      BY <1>1, <1>7, <2>2, <3>2, <3>3 DEF WInv, SyncInv
  <2>3. \A u \in Writers : pc'[u] = "wait" /\ w'[u].done /\ w'[u].status = "ok" =>
            (req'[u].sync => MyOp(u)' \in synced')
    BY <1>1, <1>7 DEF WInv, SyncInv
  <2>4. \A u \in Writers : pc'[u] \in {"flush", "flushwait"} => ~req'[u].batch
    BY <1>7, <1>8 DEF WInv, SyncInv
  <2>5. SyncedWhenAcknowledged'
    BY <1>1 DEF WInv, SyncInv, SyncedWhenAcknowledged
  <2>6. QED
    BY <2>1, <2>2, <2>3, <2>4, <2>5 DEF SyncInv
<1>16. ErrInv'
  <2>1. \A u \in Writers : entered'[u].err => bg_error_'
    BY <1>1, <1>7 DEF WInv, ErrInv
  <2>2. \A u \in Writers : pc'[u] = "build" /\ loc'[u].status = "ok" => ~bg_error_'
    BY <1>1, <1>7, <1>8 DEF WInv, ErrInv
  <2>3. \A u \in Writers : pc'[u] = "wait" /\ w'[u].done /\ w'[u].status = "ok" => ~entered'[u].err
    BY <1>7 DEF WInv, ErrInv
  <2>4. \A u \in Writers : pc'[u] \in {"flush", "flushwait"} => ~entered'[u].err
    BY <1>7, <1>8 DEF WInv, ErrInv
  <2>5. ErrorIsSticky'
    BY <1>1 DEF WInv, ErrInv, ErrorIsSticky
  <2>6. QED
    BY <2>1, <2>2, <2>3, <2>4, <2>5 DEF ErrInv
<1>17. Stored' = Stored /\ Pend' = Pend /\ Fresh' = Fresh /\ Pend \subseteq EntryType
       /\ Stored \subseteq EntryType
  <2>1. Stored' = Stored /\ Stored \subseteq EntryType
    BY <1>1 DEF Stored, WInv, TypeOK
  <2>2. \A u \in Writers : /\ pc'[u] \in Writing <=> pc[u] \in Writing
                           /\ pc[u] \in Writing => loc'[u] = loc[u]
    BY <1>7, <1>8
  <2>3. Pend' = Pend
    BY <2>2 DEF Pend
  <2>4. Pend \subseteq EntryType
    BY Types DEF Pend, WInv
  <2>5. QED
    BY <1>1, <2>1, <2>3, <2>4 DEF Fresh
<1>18. SeqInv'
  <2>1. SequencesDistinct'
    <3>1. \A e \in Stored : e.seq > last_sequence =>
              \E u \in Writers : /\ pc'[u] \in {"insert", "relock"}
                                 /\ e \in mem_ /\ e.seq <= loc'[u].seq
                                 /\ \A f \in loc'[u].updates : e.seq < f.seq
      <4>1. \A u \in Writers : pc[u] \in {"insert", "relock"} => pc'[u] = pc[u] /\ loc'[u] = loc[u]
        BY <1>1, <1>7
      <4>2. QED
        BY <4>1 DEF WInv, SeqInv, SequencesDistinct
    <3>2. QED
      BY <1>1, <1>17, <3>1 DEF WInv, SeqInv, SequencesDistinct
  <2>2. \A u \in Writers : pc'[u] \in Committing \/ pc'[u] \in Writing => pc[u] = pc'[u] /\ loc'[u] = loc[u]
    BY <1>7, <1>8
  <2>3. QED
    BY <1>1, <2>1, <2>2 DEF WInv, SeqInv
<1>19. BatchInv'
  <2>1. ASSUME NEW e \in Stored \cup Pend
        PROVE  /\ e.op[2] <= calls'[e.op[1]]
               /\ calls'[e.op[1]] = e.op[2] => e.op[1] \in Writers \ {t}
    <3>1. e.op[1] \in Writers /\ e.op[2] \in Nat
      BY <1>4, <1>17 DEF EntryType, Op
    <3>2. e.op[2] <= calls[e.op[1]]
      BY DEF WInv, BatchInv
    <3>3. CASE e.op[1] = t
      BY <1>4, <1>7, <3>1, <3>2, <3>3
    <3>4. CASE e.op[1] # t
      BY <1>7, <3>1, <3>2, <3>4
    <3>5. QED
      BY <3>3, <3>4
  <2>2. \A e \in Stored' \cup Pend' : e.op[2] <= calls'[e.op[1]]
    BY <1>17, <2>1
  <2>3. BatchesAtomic'
    <3> SUFFICES ASSUME NEW e \in Stored, e.seq <= last_sequence,
                        NEW i \in 1 .. req'[e.op[1]].count, calls'[e.op[1]] = e.op[2]
                 PROVE  \E f \in Stored : f.op = e.op /\ f.i = i /\ f.seq = e.seq - e.i + i
      BY <1>1, <1>17 DEF BatchesAtomic
    <3>1. e.op[1] \in Writers \ {t}
      BY <2>1
    <3>2. req'[e.op[1]] = req[e.op[1]] /\ calls'[e.op[1]] = calls[e.op[1]]
      BY <1>7, <3>1
    <3>3. i \in 1 .. req[e.op[1]].count /\ calls[e.op[1]] = e.op[2]
      BY <3>2
    <3>4. QED
      BY <3>3 DEF WInv, BatchInv, BatchesAtomic
  <2>4. ASSUME NEW e \in Fresh', NEW i \in 1 .. req'[e.op[1]].count, calls'[e.op[1]] = e.op[2]
        PROVE  \E f \in Fresh' : f.op = e.op /\ f.i = i /\ f.seq = e.seq - e.i + i
    <3>1. e.op[1] \in Writers \ {t} /\ e \in Fresh
      BY <1>17, <2>1, <2>4 DEF Fresh
    <3>2. req'[e.op[1]] = req[e.op[1]] /\ calls'[e.op[1]] = calls[e.op[1]]
      BY <1>7, <3>1
    <3>3. i \in 1 .. req[e.op[1]].count /\ calls[e.op[1]] = e.op[2]
      BY <2>4, <3>2
    <3>4. QED
      BY <1>17, <3>1, <3>3 DEF WInv, BatchInv
  <2>5. QED
    BY <2>2, <2>3, <2>4 DEF BatchInv
<1>20. TypeOK'
  <2>1. calls' \in [Writers -> 0 .. MaxWrites]
    <3>1. calls[t] + 1 \in 0 .. MaxWrites
      BY <1>1, <1>4
    <3>2. QED
      BY <1>1, <3>1 DEF WInv, TypeOK
  <2>2. req' \in [Writers -> AllRequests \cup {NoRequest}]
    BY <1>1, <1>2 DEF WInv, TypeOK
  <2>3. w' \in [Writers -> [done : BOOLEAN, status : Statuses, seq : Nat]]
    BY <1>1 DEF WInv, TypeOK, NoWriter, Statuses
  <2>4. entered' \in [Writers -> [seq : Nat, err : BOOLEAN]]
    BY <1>1 DEF WInv, TypeOK
  <2>5. pc' \in [Writers -> Leading \cup {"idle", "wait", "flush", "flushwait"}]
    BY <1>1, <1>8 DEF WInv, TypeOK
  <2>6. loc' \in [Writers -> LocalsType]
    BY <1>1, <1>3 DEF WInv, TypeOK
  <2>7. mutex_' \in Writers \cup {Nobody}
    BY <1>1
  <2>8. QED
    BY <1>1, <1>5, <2>1, <2>2, <2>3, <2>4, <2>5, <2>6, <2>7 DEF WInv, TypeOK
<1>21. QED
  BY <1>1, <1>9, <1>10, <1>11, <1>13, <1>14, <1>15, <1>16, <1>18, <1>19, <1>20 DEF WInv, ImmInv

\* A writer wakes as the new head of the queue.
LEMMA WakeLeaderStep ==
    ASSUME WInv, NEW t \in Writers, WakeLeader(t)
    PROVE  WInv'
<1> DEFINE l == [NoLocals EXCEPT !.force = ~req[t].batch, !.allow_delay = req[t].batch]
<1>1. /\ pc[t] = "wait" /\ signalled[t] /\ ~w[t].done /\ Head(writers_) = t
      /\ mutex_ = Nobody /\ mutex_' = t /\ signalled' = [signalled EXCEPT ![t] = FALSE]
      /\ pc' = [pc EXCEPT ![t] = "room"] /\ loc' = [loc EXCEPT ![t] = l]
      /\ calls' = calls /\ req' = req /\ w' = w /\ writers_' = writers_ /\ mem_' = mem_
      /\ imm_' = imm_ /\ has_imm' = has_imm /\ tables' = tables /\ synced' = synced
      /\ last_sequence' = last_sequence /\ l0' = l0 /\ bg_error_' = bg_error_
      /\ bg_scheduled' = bg_scheduled /\ bgpc' = bgpc /\ bgin' = bgin /\ faults' = faults
      /\ entered' = entered /\ returned' = returned
  BY DEF WakeLeader, Locked, dataVars, bgVars
<1>2. l \in LocalsType /\ l.group = <<>>
  BY NoLocalsType, Types DEF LocalsType, WInv
<1> HIDE DEF l
<1>3. InQueue(t) /\ writers_ \in Seq(Writers) /\ 1 \in DOMAIN writers_ /\ writers_[1] = t
  <2>1. InQueue(t) /\ writers_ \in Seq(Writers)
    BY <1>1 DEF WInv, QueueInv, TypeOK
  <2>2. QED
    BY <1>1, <2>1 DEF InQueue
<1>4. \A u \in Writers : pc[u] \notin Leading
  <2>1. "wait" \notin Leading
    BY DEF Leading
  <2>2. QED
    BY <1>1, <1>3, <2>1 DEF WInv, QueueInv
<1>5. /\ pc'[t] = "room" /\ loc'[t] = l /\ ~signalled'[t]
      /\ \A u \in Writers \ {t} : pc'[u] = pc[u] /\ loc'[u] = loc[u] /\ signalled'[u] = signalled[u]
  BY <1>1 DEF WInv, TypeOK
<1>6. /\ "room" \in Leading /\ "room" \notin Committing /\ "room" \notin Writing
      /\ \A u \in Writers : pc[u] \notin Committing /\ pc[u] \notin Writing
                             /\ pc[u] \notin {"room", "build", "append", "sync", "insert", "relock"}
  BY <1>4 DEF Leading, Committing, Writing
<1>7. CallInv'
  BY <1>1, <1>5 DEF WInv, CallInv
<1>8. QueueInv'
  <2>1. \A u \in Writers : InQueue(u)' <=> InQueue(u)
    BY <1>1 DEF InQueue
  <2>2. QED
    BY <1>1, <1>3, <1>4, <1>5, <1>6, <2>1 DEF WInv, QueueInv
<1>9. MutexInv'
  BY <1>1, <1>5, <1>6 DEF MutexInv
<1>10. GroupInv'
  BY <1>1, <1>2, <1>5, <1>6 DEF WInv, GroupInv
<1>11. WakeInv'
  BY <1>1, <1>5 DEF WInv, WakeInv
<1>12. SyncInv'
  <2>1. \A u \in Writers : pc'[u] \notin {"append", "sync", "insert", "relock"}
    BY <1>5, <1>6
  <2>2. \A u \in Writers : MyOp(u)' = MyOp(u)
    BY <1>1 DEF MyOp
  <2>3. SyncedWhenAcknowledged'
    BY <1>1 DEF WInv, SyncInv, SyncedWhenAcknowledged
  <2>4. QED
    BY <1>1, <1>5, <2>1, <2>2, <2>3 DEF WInv, SyncInv
<1>13. ErrInv'
  <2>1. ErrorIsSticky'
    BY <1>1 DEF WInv, ErrInv, ErrorIsSticky
  <2>2. QED
    BY <1>1, <1>5, <2>1 DEF WInv, ErrInv
<1>14. SeqInv' /\ BatchInv'
  <2>1. Stored' = Stored
    BY <1>1 DEF Stored
  <2>2. QED
    BY <1>1, <1>5, <1>6, <2>1, DataFrame
<1>15. TypeOK'
  <2>1. pc' \in [Writers -> Leading \cup {"idle", "wait", "flush", "flushwait"}]
    BY <1>1, <1>6 DEF WInv, TypeOK
  <2>2. loc' \in [Writers -> LocalsType]
    BY <1>1, <1>2 DEF WInv, TypeOK
  <2>3. signalled' \in [Writers -> BOOLEAN] /\ mutex_' \in Writers \cup {Nobody}
    BY <1>1 DEF WInv, TypeOK
  <2>4. QED
    BY <1>1, <2>1, <2>2, <2>3 DEF WInv, TypeOK
<1>16. QED
  BY <1>1, <1>7, <1>8, <1>9, <1>10, <1>11, <1>12, <1>13, <1>14, <1>15 DEF WInv, ImmInv

-----------------------------------------------------------------------------
(* Threads that are no longer in the queue *)

\* A thread outside the queue goes on: it returns to its caller with a true answer, or
\* waits for the flush of a call without a batch.
LEMMA AsideFrame ==
    ASSUME WInv, NEW t \in Writers, NEW p \in {"idle", "flush", "flushwait"},
           pc[t] \in {"flush", "flushwait"} \/ (pc[t] = "wait" /\ w[t].done),
           mutex_ = Nobody, mutex_' = Nobody, pc' = [pc EXCEPT ![t] = p],
           signalled' = [signalled EXCEPT ![t] = FALSE],
           calls' = calls, req' = req, loc' = loc, w' = w, writers_' = writers_,
           mem_' = mem_, imm_' = imm_, has_imm' = has_imm, tables' = tables, synced' = synced,
           last_sequence' = last_sequence, l0' = l0, bg_error_' = bg_error_,
           bg_scheduled' = bg_scheduled, bgpc' = bgpc, bgin' = bgin, faults' = faults,
           entered' = entered,
           p # "idle" => ~req[t].batch /\ ~entered[t].err,
           \A r \in returned' \ returned : /\ r.req.sync /\ r.status = "ok" => r.op \in synced
                                           /\ r.entered.err => r.status = "error"
    PROVE  WInv'
<1>1. /\ pc'[t] = p /\ ~signalled'[t]
      /\ \A u \in Writers \ {t} : pc'[u] = pc[u] /\ signalled'[u] = signalled[u]
  BY DEF WInv, TypeOK
<1>2. /\ p \notin Leading /\ p \notin Committing /\ p \notin Writing
      /\ p \notin {"wait", "room", "build", "append", "sync", "insert", "relock", "bgwait"}
      /\ pc[t] \notin Leading /\ pc[t] \notin Committing /\ pc[t] \notin Writing
      /\ pc[t] \notin {"room", "build", "append", "sync", "insert", "relock", "idle"}
  BY DEF Leading, Committing, Writing
<1>3. CallInv'
  BY <1>1, <1>2 DEF WInv, CallInv
<1>4. QueueInv'
  <2>1. \A u \in Writers : InQueue(u)' <=> InQueue(u)
    BY DEF InQueue
  <2>2. pc[t] # "wait" \/ w[t].done
    OBVIOUS
  <2>3. QED
    BY <1>1, <1>2, <2>1, <2>2 DEF WInv, QueueInv
<1>5. MutexInv'
  BY <1>1, <1>2 DEF WInv, MutexInv
<1>6. GroupInv'
  BY <1>1, <1>2 DEF WInv, GroupInv
<1>7. WakeInv'
  BY <1>1, <1>2 DEF WInv, WakeInv
<1>8. SyncInv'
  <2>1. \A u : MyOp(u)' = MyOp(u)
    BY DEF MyOp
  <2>2. SyncedWhenAcknowledged'
    BY DEF WInv, SyncInv, SyncedWhenAcknowledged
  <2>3. \A u \in Writers : pc'[u] \in {"append", "sync"} =>
            \A j \in 1 .. Len(loc[u].group) : req[loc[u].group[j]].batch =>
                \E e \in loc[u].updates : e.op = MyOp(loc[u].group[j])
    BY <1>1, <1>2 DEF WInv, SyncInv
  <2>4. \A u \in Writers :
            pc'[u] = "insert" \/ (pc'[u] = "relock" /\ loc[u].status = "ok") =>
                (req[u].sync => \A j \in 1 .. Len(loc[u].group) :
                    req[loc[u].group[j]].batch => MyOp(loc[u].group[j]) \in synced)
    BY <1>1, <1>2 DEF WInv, SyncInv
  <2>5. QED
    BY <1>1, <1>2, <2>1, <2>2, <2>3, <2>4 DEF WInv, SyncInv
<1>9. ErrInv'
  <2>1. ErrorIsSticky'
    BY DEF WInv, ErrInv, ErrorIsSticky
  <2>2. QED
    BY <1>1, <1>2, <2>1 DEF WInv, ErrInv
<1>10. SeqInv' /\ BatchInv'
  <2>1. Stored' = Stored /\ mem_ \subseteq mem_'
    BY DEF Stored
  <2>2. QED
    BY <1>1, <1>2, <2>1, DataFrame
<1>11. TypeOK'
  <2>1. pc' \in [Writers -> Leading \cup {"idle", "wait", "flush", "flushwait"}]
    BY DEF WInv, TypeOK
  <2>2. signalled' \in [Writers -> BOOLEAN]
    BY DEF WInv, TypeOK
  <2>3. QED
    BY <2>1, <2>2 DEF WInv, TypeOK
<1>12. QED
  BY <1>3, <1>4, <1>5, <1>6, <1>7, <1>8, <1>9, <1>10, <1>11 DEF WInv, ImmInv

\* A writer wakes as a member of a group that another thread committed.
LEMMA WakeDoneStep ==
    ASSUME WInv, NEW t \in Writers, WakeDone(t)
    PROVE  WInv'
<1> DEFINE st == w[t].status
           more == ~req[t].batch /\ st = "ok"
           p == IF more THEN "flush" ELSE "idle"
           r == [op |-> MyOp(t), req |-> req[t], status |-> st, seq |-> w[t].seq,
                 entered |-> entered[t]]
<1>1. /\ pc[t] = "wait" /\ w[t].done /\ mutex_ = Nobody /\ mutex_' = Nobody
      /\ signalled' = [signalled EXCEPT ![t] = FALSE]
      /\ pc' = [pc EXCEPT ![t] = p]
      /\ returned' = IF more THEN returned ELSE returned \cup {r}
      /\ calls' = calls /\ req' = req /\ loc' = loc /\ w' = w /\ writers_' = writers_
      /\ mem_' = mem_ /\ imm_' = imm_ /\ has_imm' = has_imm /\ tables' = tables
      /\ synced' = synced /\ last_sequence' = last_sequence /\ l0' = l0
      /\ bg_error_' = bg_error_ /\ bg_scheduled' = bg_scheduled /\ bgpc' = bgpc
      /\ bgin' = bgin /\ faults' = faults /\ entered' = entered
  BY DEF WakeDone, Return, Briefly, dataVars, bgVars
<1>2. /\ st = "ok" /\ req[t].sync => MyOp(t) \in synced
      /\ st = "ok" => ~entered[t].err
      /\ st \in Statuses
  BY <1>1, Types DEF WInv, SyncInv, ErrInv
<1>3. p \in {"idle", "flush", "flushwait"} /\ (p # "idle" => ~req[t].batch /\ ~entered[t].err)
  BY <1>2
<1>4. /\ r.req.sync /\ r.status = "ok" => r.op \in synced
      /\ r.entered.err => r.status = "error"
  BY <1>2 DEF Statuses
<1>5. \A x \in returned' \ returned : /\ x.req.sync /\ x.status = "ok" => x.op \in synced
                                      /\ x.entered.err => x.status = "error"
  BY <1>1, <1>4
<1> HIDE DEF p, r, st
<1>6. QED
  BY <1>1, <1>3, <1>5, AsideFrame

\* TEST_CompactMemTable waits until imm_ is gone.
LEMMA WaitForFlushStep ==
    ASSUME WInv, NEW t \in Writers, WaitForFlush(t)
    PROVE  WInv'
<1> DEFINE r == [op |-> MyOp(t), req |-> req[t], seq |-> 0,
                 status |-> IF has_imm THEN "error" ELSE "ok", entered |-> entered[t]]
<1>1. /\ pc[t] \in {"flush", "flushwait"} /\ mutex_ = Nobody /\ mutex_' = Nobody
      /\ signalled' = [signalled EXCEPT ![t] = FALSE]
      /\ calls' = calls /\ req' = req /\ loc' = loc /\ w' = w /\ writers_' = writers_
      /\ mem_' = mem_ /\ imm_' = imm_ /\ has_imm' = has_imm /\ tables' = tables
      /\ synced' = synced /\ last_sequence' = last_sequence /\ l0' = l0
      /\ bg_error_' = bg_error_ /\ bg_scheduled' = bg_scheduled /\ bgpc' = bgpc
      /\ bgin' = bgin /\ faults' = faults /\ entered' = entered
  BY DEF WaitForFlush, Briefly, dataVars, bgVars
<1>2. ~req[t].batch /\ ~entered[t].err /\ ~req[t].sync
  BY <1>1, Types DEF WInv, SyncInv, ErrInv
<1>3. CASE pc' = [pc EXCEPT ![t] = "flushwait"] /\ returned' = returned
  BY <1>1, <1>2, <1>3, AsideFrame
<1>4. CASE pc' = [pc EXCEPT ![t] = "idle"] /\ returned' = returned \cup {r}
  <2>1. r.req = req[t] /\ r.entered = entered[t]
    OBVIOUS
  <2> HIDE DEF r
  <2>2. \A x \in returned' \ returned : /\ x.req.sync /\ x.status = "ok" => x.op \in synced
                                        /\ x.entered.err => x.status = "error"
    BY <1>2, <1>4, <2>1
  <2>3. QED
    BY <1>1, <1>4, <2>2, AsideFrame
<1>5. QED
  BY <1>3, <1>4 DEF WaitForFlush

-----------------------------------------------------------------------------
(* The tail of Write *)

\* What is left of a sequence behind its first n elements.
LEMMA RestOfSeq ==
    ASSUME NEW S, NEW q \in Seq(S), NEW n \in 1 .. Len(q)
    PROVE  /\ SubSeq(q, n + 1, Len(q)) \in Seq(S)
           /\ Len(SubSeq(q, n + 1, Len(q))) = Len(q) - n
           /\ \A j \in 1 .. Len(q) - n : SubSeq(q, n + 1, Len(q))[j] = q[j + n]
<1> DEFINE len == Len(q)
           m == n + 1
           rest == SubSeq(q, m, len)
<1>1. len \in Nat /\ m \in Nat /\ 1 <= m /\ m <= len + 1 /\ len - m + 1 = len - n /\ len - n \in Nat
  OBVIOUS
<1>2. \A i \in m .. len : q[i] \in S
  OBVIOUS
<1> HIDE DEF len, m
<1>3. rest = [i \in 1 .. len - m + 1 |-> q[i + m - 1]]
  BY <1>1
<1>4. rest = [i \in 1 .. len - n |-> q[i + m - 1]]
  BY <1>1, <1>3
<1>5. \A i \in 1 .. len - n : i + m - 1 \in m .. len /\ i + m - 1 = i + n
  BY <1>1 DEF m
<1> HIDE DEF rest
<1>6. \A i \in 1 .. len - n : q[i + m - 1] \in S
  BY <1>2, <1>5
<1>7. rest \in Seq(S) /\ Len(rest) = len - n
  BY <1>1, <1>4, <1>6
<1>8. \A j \in 1 .. len - n : rest[j] = q[j + n]
  BY <1>4, <1>5
<1>9. QED
  BY <1>7, <1>8 DEF rest, len, m

\* A leader leaves with the first n writers of the queue, of which it is the first: the
\* others are told that they are done, and the next one in the queue that it leads.
LEMMA CompleteFrame ==
    ASSUME WInv, NEW t \in Writers, pc[t] \in {"build", "relock"},
           NEW n \in 1 .. Len(writers_), NEW st \in Statuses, NEW s,
           NEW sig \in [Writers -> BOOLEAN],
           \A u \in Writers : signalled[u] => sig[u],
           \A u \in Writers : sig[u] => signalled[u] \/ pc[u] \in {"bgwait", "flushwait"},
           Complete(t, n, st, sig), Return(t, st, s), loc' = [loc EXCEPT ![t] = NoLocals],
           mutex_' = Nobody, calls' = calls, req' = req, entered' = entered, synced' = synced,
           bg_error_ => bg_error_',
           st = "ok" => \A j \in 1 .. n : ~entered[writers_[j]].err,
           st = "ok" => \A j \in 1 .. n : req[writers_[j]].sync => MyOp(writers_[j]) \in synced
    PROVE  /\ CallInv' /\ QueueInv' /\ MutexInv' /\ GroupInv' /\ WakeInv' /\ SyncInv' /\ ErrInv'
           /\ pc' \in [Writers -> Leading \cup {"idle", "wait", "flush", "flushwait"}]
           /\ w' \in [Writers -> [done : BOOLEAN, status : Statuses, seq : Nat]]
           /\ signalled' \in [Writers -> BOOLEAN] /\ writers_' \in Seq(Writers)
           /\ loc' \in [Writers -> LocalsType]
           /\ \A u \in Writers : pc'[u] \notin Leading
           /\ \A u \in Writers \ {t} : pc'[u] = pc[u] /\ loc'[u] = loc[u]
<1> DEFINE group == {writers_[j] : j \in 1 .. n}
           rest == SubSeq(writers_, n + 1, Len(writers_))
           more == ~req[t].batch /\ st = "ok"
           p == IF more THEN "flush" ELSE "idle"
           r == [op |-> MyOp(t), req |-> req[t], status |-> st, seq |-> s,
                 entered |-> entered[t]]
<1>1. /\ writers_' = rest
      /\ w' = [u \in Writers |-> IF u \in group \ {t}
                                 THEN [w[u] EXCEPT !.done = TRUE, !.status = st] ELSE w[u]]
      /\ signalled' = [u \in Writers |->
                          sig[u] \/ u \in group \ {t} \/ u \in NewHead(rest)]
      /\ pc' = [pc EXCEPT ![t] = p]
      /\ returned' = IF more THEN returned ELSE returned \cup {r}
  BY DEF Complete, Return
<1>2. /\ pc[t] \in Leading /\ pc[t] \notin {"wait", "bgwait", "flushwait", "idle"}
  BY DEF Leading
<1>3. /\ writers_ \in Seq(Writers) /\ writers_[1] = t /\ 1 \in DOMAIN writers_
      /\ \A u \in Writers \ {t} : pc[u] \notin Leading
      /\ \A j \in DOMAIN writers_ : /\ writers_[j] \in Writers
                                     /\ j # 1 => /\ writers_[j] # t /\ pc[writers_[j]] = "wait"
                                                 /\ ~w[writers_[j]].done
      /\ \A i, j \in DOMAIN writers_ : writers_[i] = writers_[j] => i = j
  BY <1>2, Leaders DEF WInv, TypeOK, QueueInv
<1>4. /\ writers_' \in Seq(Writers)
      /\ \A j \in DOMAIN writers_' : /\ j \in Nat /\ j + n \in DOMAIN writers_ /\ j + n > n
                                      /\ j + n # 1 /\ writers_'[j] = writers_[j + n]
      /\ \A j \in DOMAIN writers_ : j > n => /\ j - n \in DOMAIN writers_'
                                             /\ writers_'[j - n] = writers_[j] /\ j # 1
      /\ rest # <<>> => 1 \in DOMAIN writers_' /\ Head(rest) = writers_'[1]
      /\ \A j \in DOMAIN writers_' : rest # <<>>
      /\ \A j \in 1 .. n : j \in DOMAIN writers_
      /\ \A j \in DOMAIN writers_ : j \in 1 .. n \/ j > n
  <2> DEFINE len == Len(writers_)
  <2>1. /\ len \in Nat /\ n \in Nat /\ 1 <= n /\ n <= len /\ DOMAIN writers_ = 1 .. len
    BY <1>3
  <2>2. rest \in Seq(Writers) /\ Len(rest) = len - n
    BY <1>3, RestOfSeq
  <2>3. \A j \in 1 .. len - n : rest[j] = writers_[j + n]
    BY <1>3, RestOfSeq
  <2> HIDE DEF len, rest
  <2>4. DOMAIN writers_' = 1 .. len - n /\ writers_' \in Seq(Writers) /\ writers_' = rest
    <3>1. DOMAIN rest = 1 .. Len(rest)
      BY <2>2
    <3>2. QED
      BY <1>1, <2>2, <3>1
  <2>5. \A j \in DOMAIN writers_' : /\ j \in Nat /\ j + n \in DOMAIN writers_ /\ j + n > n
                                      /\ j + n # 1 /\ writers_'[j] = writers_[j + n]
    BY <2>1, <2>3, <2>4
  <2>6. ASSUME NEW j \in DOMAIN writers_, j > n
        PROVE  j - n \in DOMAIN writers_' /\ writers_'[j - n] = writers_[j] /\ j # 1
    <3>1. j - n \in 1 .. len - n /\ (j - n) + n = j /\ j # 1
      BY <2>1, <2>6
    <3>2. rest[j - n] = writers_[(j - n) + n]
      BY <2>3, <3>1
    <3>3. QED
      BY <2>4, <3>1, <3>2
  <2>7. rest # <<>> => 1 \in DOMAIN writers_' /\ Head(rest) = writers_'[1]
    BY <2>1, <2>2, <2>4
  <2>8. \A j \in DOMAIN writers_' : rest # <<>>
    BY <2>1, <2>2, <2>4
  <2>9. (\A j \in 1 .. n : j \in DOMAIN writers_) /\ \A j \in DOMAIN writers_ : j \in 1 .. n \/ j > n
    BY <2>1
  <2>10. QED
    BY <2>4, <2>5, <2>6, <2>7, <2>8, <2>9
<1>5. p \in {"idle", "flush"} /\ p \notin Leading /\ p \notin Committing /\ p # "wait"
      /\ p \notin {"room", "build", "append", "sync", "insert", "relock", "flushwait", "bgwait"}
      /\ (p = "flush" => ~req[t].batch /\ st = "ok")
  BY DEF Leading, Committing
<1>6. /\ pc'[t] = p /\ loc'[t] = NoLocals
      /\ \A u \in Writers \ {t} : pc'[u] = pc[u] /\ loc'[u] = loc[u]
  BY <1>1 DEF WInv, TypeOK
<1>7. group \subseteq Writers /\ t \in group
  <2>1. 1 \in 1 .. n
    OBVIOUS
  <2>2. t \in group
    <3>1. writers_[1] \in group
      BY <2>1
    <3>2. QED
      BY <1>3, <3>1
  <2>3. \A j \in 1 .. n : writers_[j] \in Writers
    BY <1>3, <1>4
  <2>4. QED
    BY <2>2, <2>3
<1>8. ASSUME NEW u \in Writers
      PROVE  /\ w'[u] \in [done : BOOLEAN, status : Statuses, seq : Nat]
             /\ u \in group \ {t} => w'[u].done /\ w'[u].status = st
             /\ u \notin group \ {t} => w'[u] = w[u]
             /\ signalled'[u] <=> sig[u] \/ u \in group \ {t} \/ u \in NewHead(rest)
             /\ signalled'[u] \in BOOLEAN
  <2>1. w[u] \in [done : BOOLEAN, status : Statuses, seq : Nat]
    BY Types DEF WInv
  <2>2. /\ w'[u] \in [done : BOOLEAN, status : Statuses, seq : Nat]
        /\ u \in group \ {t} => w'[u].done /\ w'[u].status = st
        /\ u \notin group \ {t} => w'[u] = w[u]
    <3>1. w'[u] = IF u \in group \ {t} THEN [w[u] EXCEPT !.done = TRUE, !.status = st] ELSE w[u]
      BY <1>1
    <3> HIDE DEF group
    <3>2. QED
      BY <2>1, <3>1
  <2>3. signalled'[u] = (sig[u] \/ u \in group \ {t} \/ u \in NewHead(rest))
    BY <1>1, Zenon
  <2>4. QED
    BY <2>2, <2>3
<1> HIDE DEF group, rest, p, r
<1>9. \A u \in group \ {t} : pc[u] = "wait" /\ ~w[u].done
  BY <1>3, <1>4 DEF group
<1>10. /\ \A u \in Writers : InQueue(u)' => /\ pc[u] = "wait" /\ ~w[u].done /\ u \notin group
                                             /\ u # t
       /\ \A u \in Writers : InQueue(u) => InQueue(u)' \/ u \in group
  <2>1. ASSUME NEW u \in Writers, InQueue(u)'
        PROVE  pc[u] = "wait" /\ ~w[u].done /\ u \notin group /\ u # t
    <3>1. PICK j \in DOMAIN writers_' : writers_'[j] = u
      BY <2>1 DEF InQueue
    <3>2. j + n \in DOMAIN writers_ /\ writers_[j + n] = u /\ j + n > n /\ j + n # 1
      BY <1>4, <3>1
    <3>3. \A k \in 1 .. n : k # j + n
      BY <1>4, <3>1
    <3>4. u \notin group
      <4> SUFFICES ASSUME u \in group
                   PROVE  FALSE
        OBVIOUS
      <4>1. PICK k \in 1 .. n : writers_[k] = u
        BY DEF group
      <4>2. k \in DOMAIN writers_ /\ writers_[k] = writers_[j + n]
        BY <1>4, <3>2, <4>1
      <4>3. QED
        BY <1>3, <3>2, <3>3, <4>2
    <3>5. QED
      BY <1>3, <3>2, <3>4
  <2>2. ASSUME NEW u \in Writers, InQueue(u)
        PROVE  InQueue(u)' \/ u \in group
    <3>1. PICK j \in DOMAIN writers_ : writers_[j] = u
      BY <2>2 DEF InQueue
    <3>2. CASE j \in 1 .. n
      BY <3>1, <3>2 DEF group
    <3>3. CASE j > n
      BY <1>4, <3>1, <3>3 DEF InQueue
    <3>4. QED
      BY <1>4, <3>2, <3>3
  <2>3. QED
    BY <2>1, <2>2
<1>11. \A u \in Writers : pc'[u] \notin Leading
  BY <1>3, <1>5, <1>6
<1>12. \A u \in Writers : /\ pc'[u] \notin Committing
                          /\ pc'[u] \notin {"room", "build", "append", "sync", "insert", "relock"}
  BY <1>11 DEF Leading, Committing
<1>13. CallInv'
  BY <1>2, <1>6 DEF WInv, CallInv
<1>14. QueueInv'
  <2>1. \A i, j \in DOMAIN writers_' : writers_'[i] = writers_'[j] => i = j
    <3> TAKE i, j \in DOMAIN writers_'
    <3>1. writers_'[i] = writers_'[j] => i + n = j + n
      BY <1>3, <1>4
    <3>2. i \in Nat /\ j \in Nat /\ n \in Nat
      BY <1>4
    <3>3. QED
      BY <3>1, <3>2
  <2>2. ASSUME NEW u \in Writers
        PROVE  InQueue(u)' <=> (pc'[u] = "wait" /\ ~w'[u].done)
    <3>1. CASE u = t
      BY <1>5, <1>6, <1>10, <3>1
    <3>2. CASE u \in group \ {t}
      BY <1>8, <1>10, <3>2
    <3>3. CASE u \notin group /\ u # t
      <4>1. InQueue(u)' <=> InQueue(u)
        BY <1>10, <3>3 DEF WInv, QueueInv
      <4>2. QED
        BY <1>3, <1>6, <1>8, <3>3, <4>1 DEF WInv, QueueInv
    <3>4. QED
      BY <3>1, <3>2, <3>3
  <2>3. QED
    BY <1>11, <2>1, <2>2 DEF QueueInv
<1>15. MutexInv'
  BY <1>12, ConstantsAssumption DEF MutexInv
<1>16. GroupInv'
  <2>1. ASSUME NEW u \in Writers
        PROVE  loc'[u].group = <<>>
    <3>1. CASE u = t
      BY <1>6, <3>1, NoLocalsType
    <3>2. CASE u # t
      BY <1>6, <1>12, <3>2 DEF WInv, GroupInv
    <3>3. QED
      BY <3>1, <3>2
  <2>2. QED
    BY <1>12, <2>1 DEF GroupInv
<1>17. WakeInv'
  <2> SUFFICES ASSUME NEW u \in Writers
               PROVE  /\ signalled'[u] => pc'[u] \in {"wait", "bgwait", "flushwait"}
                      /\ pc'[u] = "wait" => (signalled'[u] <=> w'[u].done \/ writers_'[1] = u)
    BY DEF WakeInv
  <2>1. u \in NewHead(rest) => InQueue(u)' /\ u = writers_'[1]
    BY <1>4 DEF NewHead, InQueue
  <2>2. CASE u = t
    <3>1. ~sig[t]
      BY <1>2 DEF WInv, WakeInv
    <3>2. ~signalled'[t]
      BY <1>8, <1>10, <2>1, <2>2, <3>1
    <3>3. QED
      BY <1>5, <1>6, <2>2, <3>2
  <2>3. CASE u \in group \ {t}
    BY <1>6, <1>8, <1>9, <2>3
  <2>4. CASE u \notin group /\ u # t
    <3>1. signalled'[u] <=> sig[u] \/ u \in NewHead(rest)
      BY <1>8, <2>4
    <3>2. signalled'[u] => pc'[u] \in {"wait", "bgwait", "flushwait"}
      BY <1>6, <1>10, <2>1, <2>4, <3>1 DEF WInv, WakeInv
    <3>3. ASSUME pc'[u] = "wait"
          PROVE  signalled'[u] <=> w'[u].done \/ writers_'[1] = u
      <4>1. pc[u] = "wait" /\ w'[u] = w[u] /\ (sig[u] <=> signalled[u])
        BY <1>6, <1>8, <2>4, <3>3
      <4>2. CASE w[u].done
        BY <3>1, <4>1, <4>2 DEF WInv, WakeInv
      <4>3. CASE ~w[u].done
        <5>1. InQueue(u)'
          BY <2>4, <1>10, <4>1, <4>3 DEF WInv, QueueInv
        <5>2. rest # <<>>
          BY <1>4, <5>1 DEF InQueue
        <5>3. u \in NewHead(rest) <=> writers_'[1] = u
          BY <1>4, <5>2 DEF NewHead
        <5>4. ~sig[u]
          BY <1>3, <2>4, <4>1, <4>3 DEF WInv, WakeInv
        <5>5. QED
          BY <3>1, <4>1, <4>3, <5>3, <5>4
      <4>4. QED
        BY <4>2, <4>3
    <3>4. QED
      BY <3>2, <3>3
  <2>5. QED
    BY <2>2, <2>3, <2>4
<1>18. \A u \in group : st = "ok" => ~entered[u].err /\ (req[u].sync => MyOp(u) \in synced)
  BY DEF group
<1>19. \A u : MyOp(u)' = MyOp(u)
  BY DEF MyOp
<1>20. \A x \in returned' \ returned : /\ x.req.sync /\ x.status = "ok" => x.op \in synced
                                       /\ x.entered.err => x.status = "error"
  <2>1. r.op = MyOp(t) /\ r.req = req[t] /\ r.status = st /\ r.entered = entered[t]
    BY DEF r
  <2>2. QED
    BY <1>1, <1>7, <1>18, <2>1 DEF Statuses
<1>21. SyncInv'
  <2>1. \A u \in Writers : pc'[u] = "wait" /\ w'[u].done /\ w'[u].status = "ok" =>
            (req'[u].sync => MyOp(u)' \in synced')
    BY <1>5, <1>6, <1>8, <1>18, <1>19 DEF WInv, SyncInv
  <2>2. \A u \in Writers : pc'[u] \in {"flush", "flushwait"} => ~req'[u].batch
    BY <1>5, <1>6 DEF WInv, SyncInv
  <2>3. SyncedWhenAcknowledged'
    BY <1>20 DEF WInv, SyncInv, SyncedWhenAcknowledged
  <2>4. QED
    BY <1>12, <2>1, <2>2, <2>3 DEF SyncInv
<1>22. ErrInv'
  <2>1. \A u \in Writers : entered'[u].err => bg_error_'
    BY DEF WInv, ErrInv
  <2>2. \A u \in Writers : pc'[u] = "wait" /\ w'[u].done /\ w'[u].status = "ok" => ~entered'[u].err
    BY <1>5, <1>6, <1>8, <1>18 DEF WInv, ErrInv
  <2>3. \A u \in Writers : pc'[u] \in {"flush", "flushwait"} => ~entered'[u].err
    BY <1>5, <1>6, <1>7, <1>18 DEF WInv, ErrInv
  <2>4. ErrorIsSticky'
    BY <1>20 DEF WInv, ErrInv, ErrorIsSticky
  <2>5. QED
    BY <1>12, <2>1, <2>2, <2>3, <2>4 DEF ErrInv
<1>23. /\ pc' \in [Writers -> Leading \cup {"idle", "wait", "flush", "flushwait"}]
       /\ loc' \in [Writers -> LocalsType]
  BY <1>1, <1>5, NoLocalsType DEF WInv, TypeOK
<1>24. w' \in [Writers -> [done : BOOLEAN, status : Statuses, seq : Nat]]
  BY <1>1, <1>8
<1>25. signalled' \in [Writers -> BOOLEAN]
  BY <1>1, <1>8
<1>26. QED
  BY <1>4, <1>6, <1>11, <1>13, <1>14, <1>15, <1>16, <1>17, <1>21, <1>22, <1>23, <1>24, <1>25

\* The leader leaves alone: MakeRoomForWrite failed, or its batch is NULL.
LEMMA FinishAloneStep ==
    ASSUME WInv, NEW t \in Writers, FinishAlone(t)
    PROVE  WInv'
<1> DEFINE st == loc[t].status
<1>1. /\ pc[t] = "build" /\ (st = "error" \/ ~req[t].batch) /\ mutex_' = Nobody
      /\ Complete(t, 1, st, signalled) /\ Return(t, st, 0)
      /\ loc' = [loc EXCEPT ![t] = NoLocals] /\ calls' = calls /\ req' = req
      /\ mem_' = mem_ /\ imm_' = imm_ /\ has_imm' = has_imm /\ tables' = tables
      /\ synced' = synced /\ last_sequence' = last_sequence /\ l0' = l0
      /\ bg_error_' = bg_error_ /\ bg_scheduled' = bg_scheduled /\ bgpc' = bgpc
      /\ bgin' = bgin /\ faults' = faults /\ entered' = entered
  BY DEF FinishAlone, Releases, dataVars, bgVars
<1>2. pc[t] \in Leading /\ pc[t] \notin Committing /\ pc[t] \notin Writing
      /\ pc[t] \notin {"insert", "relock"}
  BY <1>1 DEF Leading, Committing, Writing
<1>3. writers_ \in Seq(Writers) /\ writers_[1] = t /\ 1 \in DOMAIN writers_
      /\ \A u \in Writers \ {t} : pc[u] \notin Leading
  BY <1>2, Leaders DEF WInv, TypeOK
<1>4. 1 \in 1 .. Len(writers_) /\ st \in Statuses /\ signalled \in [Writers -> BOOLEAN]
  BY <1>3, Types DEF WInv, TypeOK
<1>5. st = "ok" => ~req[t].batch /\ ~req[t].sync /\ ~entered[t].err
  BY <1>1, Types DEF WInv, ErrInv
<1>6. /\ st = "ok" => \A j \in 1 .. 1 : ~entered[writers_[j]].err
      /\ st = "ok" => \A j \in 1 .. 1 : req[writers_[j]].sync => MyOp(writers_[j]) \in synced
  <2>1. \A j \in 1 .. 1 : j = 1
    OBVIOUS
  <2>2. QED
    BY <1>3, <1>5, <2>1
<1> HIDE DEF st
<1>7. /\ CallInv' /\ QueueInv' /\ MutexInv' /\ GroupInv' /\ WakeInv' /\ SyncInv' /\ ErrInv'
      /\ pc' \in [Writers -> Leading \cup {"idle", "wait", "flush", "flushwait"}]
      /\ w' \in [Writers -> [done : BOOLEAN, status : Statuses, seq : Nat]]
      /\ signalled' \in [Writers -> BOOLEAN] /\ writers_' \in Seq(Writers)
      /\ loc' \in [Writers -> LocalsType]
      /\ \A u \in Writers : pc'[u] \notin Leading
      /\ \A u \in Writers \ {t} : pc'[u] = pc[u] /\ loc'[u] = loc[u]
  BY <1>1, <1>4, <1>6, CompleteFrame
<1>8. SeqInv' /\ BatchInv'
  <2>1. \A u \in Writers : pc'[u] \notin Committing /\ pc'[u] \notin Writing
                           /\ pc'[u] \notin {"insert", "relock"}
    BY <1>7 DEF Leading, Committing, Writing
  <2>2. \A u \in Writers : pc[u] \notin Committing /\ pc[u] \notin Writing
                           /\ pc[u] \notin {"insert", "relock"}
    BY <1>2, <1>3 DEF Leading, Committing, Writing
  <2>3. Stored' = Stored
    BY <1>1 DEF Stored
  <2>4. QED
    BY <1>1, <2>1, <2>2, <2>3, DataFrame
<1>9. TypeOK'
  BY <1>1, <1>7 DEF WInv, TypeOK
<1>10. QED
  BY <1>1, <1>7, <1>8, <1>9 DEF WInv, ImmInv

\* The leader publishes its sequence number and leaves with its group: all that is stored
\* is then at or below LastSequence.
LEMMA FinishStep ==
    ASSUME WInv, NEW t \in Writers, Finish(t)
    PROVE  WInv'
<1> DEFINE st == loc[t].status
           err == loc[t].sync_error
           n == Len(loc[t].group)
           sig == RecordBackgroundError(err, signalled)
           last == loc[t].seq
<1>1. /\ pc[t] = "relock" /\ mutex_' = Nobody /\ bg_error_' = (bg_error_ \/ err)
      /\ last_sequence' = last /\ Complete(t, n, st, sig) /\ Return(t, st, last)
      /\ loc' = [loc EXCEPT ![t] = NoLocals] /\ calls' = calls /\ req' = req
      /\ mem_' = mem_ /\ imm_' = imm_ /\ has_imm' = has_imm /\ tables' = tables
      /\ synced' = synced /\ l0' = l0 /\ bg_scheduled' = bg_scheduled /\ bgpc' = bgpc
      /\ bgin' = bgin /\ faults' = faults /\ entered' = entered
  BY DEF Finish, Briefly
<1>2. pc[t] \in Leading /\ pc[t] \in Committing /\ pc[t] \notin Writing
  BY <1>1 DEF Leading, Committing, Writing
<1>3. /\ loc[t].group \in Seq(Writers) /\ loc[t].group # <<>> /\ n <= Len(writers_)
      /\ \A j \in 1 .. n : loc[t].group[j] = writers_[j]
      /\ \A j \in 1 .. n : /\ req[loc[t].group[j]].sync => req[t].sync
                           /\ ~entered[loc[t].group[j]].err
      /\ \A u \in Writers \ {t} : pc[u] \notin Committing /\ pc[u] \notin Writing
      /\ writers_ \in Seq(Writers)
  BY <1>2, UnlockedFacts, Types DEF WInv
<1>4. n \in 1 .. Len(writers_)
  BY <1>3
<1>5. st \in Statuses /\ err \in BOOLEAN /\ last \in Nat /\ bg_error_ \in BOOLEAN
      /\ last_sequence \in Nat /\ last_sequence <= last
  BY <1>2, Types DEF WInv, SeqInv
<1>6. /\ sig \in [Writers -> BOOLEAN]
      /\ \A u \in Writers : signalled[u] => sig[u]
      /\ \A u \in Writers : sig[u] => signalled[u] \/ pc[u] \in {"bgwait", "flushwait"}
  <2>1. signalled \in [Writers -> BOOLEAN]
    BY DEF WInv, TypeOK
  <2>2. SignalAll(signalled) \in [Writers -> BOOLEAN]
    BY Zenon DEF SignalAll
  <2>3. \A u \in Writers : SignalAll(signalled)[u] = (signalled[u] \/ u \in BgWaiters)
    BY Zenon DEF SignalAll
  <2>4. \A u \in Writers : u \in BgWaiters <=> pc[u] \in {"bgwait", "flushwait"}
    BY DEF BgWaiters
  <2>5. sig = SignalAll(signalled) \/ sig = signalled
    BY DEF RecordBackgroundError
  <2> HIDE DEF sig
  <2>6. QED
    BY <2>1, <2>2, <2>3, <2>4, <2>5
<1>7. /\ st = "ok" => \A j \in 1 .. n : ~entered[writers_[j]].err
      /\ st = "ok" => \A j \in 1 .. n : req[writers_[j]].sync => MyOp(writers_[j]) \in synced
  <2>1. ASSUME st = "ok", NEW j \in 1 .. n, req[writers_[j]].sync
        PROVE  MyOp(writers_[j]) \in synced
    <3>1. req[t].sync /\ loc[t].group[j] = writers_[j] /\ writers_[j] \in Writers
      BY <1>3, <1>4, <2>1
    <3>2. req[writers_[j]].batch
      BY <2>1, <3>1, Types DEF WInv
    <3>3. QED
      BY <1>1, <2>1, <3>1, <3>2 DEF WInv, SyncInv
  <2>2. QED
    BY <1>3, <2>1
<1>8. (bg_error_ => bg_error_') /\ bg_error_' \in BOOLEAN
  BY <1>1, <1>5
<1> HIDE DEF st, err, n, sig, last
<1>9. /\ CallInv' /\ QueueInv' /\ MutexInv' /\ GroupInv' /\ WakeInv' /\ SyncInv' /\ ErrInv'
      /\ pc' \in [Writers -> Leading \cup {"idle", "wait", "flush", "flushwait"}]
      /\ w' \in [Writers -> [done : BOOLEAN, status : Statuses, seq : Nat]]
      /\ signalled' \in [Writers -> BOOLEAN] /\ writers_' \in Seq(Writers)
      /\ loc' \in [Writers -> LocalsType]
      /\ \A u \in Writers : pc'[u] \notin Leading
      /\ \A u \in Writers \ {t} : pc'[u] = pc[u] /\ loc'[u] = loc[u]
  BY <1>1, <1>4, <1>5, <1>6, <1>7, <1>8, CompleteFrame
<1>10. \A u \in Writers : /\ pc'[u] \notin Committing /\ pc'[u] \notin Writing
                          /\ pc[u] \notin Writing /\ (u # t => pc[u] \notin {"insert", "relock"})
  BY <1>1, <1>3, <1>9 DEF Leading, Committing, Writing
<1>11. Stored' = Stored /\ Pend = {} /\ Pend' = {}
  BY <1>1, <1>10 DEF Stored, Pend
<1>12. \A e \in Stored : e.seq \in Nat /\ e.seq <= last
  <2> TAKE e \in Stored
  <2>1. e.seq \in Nat
    BY DEF WInv, TypeOK, Stored, EntryType
  <2>2. CASE e.seq > last_sequence
    <3>1. PICK u \in Writers : pc[u] \in {"insert", "relock"} /\ e.seq <= loc[u].seq
      BY <2>2 DEF WInv, SeqInv, SequencesDistinct
    <3>2. u = t
      BY <1>10, <3>1
    <3>3. QED
      BY <2>1, <3>1, <3>2 DEF last
  <2>3. CASE ~(e.seq > last_sequence)
    BY <1>5, <2>1, <2>3
  <2>4. QED
    BY <2>2, <2>3
<1>13. \A e \in Stored' : ~(e.seq > last_sequence')
  BY <1>1, <1>5, <1>11, <1>12
<1>14. Fresh' = {} /\ \A e \in Stored : e.seq > last_sequence <=> e \in Fresh
  BY <1>11, <1>13 DEF Fresh
<1>15. SeqInv'
  <2>1. SequencesDistinct'
    BY <1>11, <1>13 DEF WInv, SeqInv, SequencesDistinct
  <2>2. QED
    BY <1>10, <2>1 DEF SeqInv
<1>16. BatchesAtomic'
  <2> SUFFICES ASSUME NEW e \in Stored, NEW i \in 1 .. req[e.op[1]].count, calls[e.op[1]] = e.op[2]
               PROVE  \E f \in Stored : f.op = e.op /\ f.i = i /\ f.seq = e.seq - e.i + i
    BY <1>1, <1>11 DEF BatchesAtomic
  <2>1. CASE e.seq > last_sequence
    <3>1. PICK f \in Fresh : f.op = e.op /\ f.i = i /\ f.seq = e.seq - e.i + i
      BY <1>14, <2>1 DEF WInv, BatchInv
    <3>2. f \in Stored
      BY <1>11 DEF Fresh
    <3>3. QED
      BY <3>1, <3>2
  <2>2. CASE e.seq <= last_sequence
    BY <2>2 DEF WInv, BatchInv, BatchesAtomic
  <2>3. QED
    BY <1>5, <1>12, <2>1, <2>2
<1>17. BatchInv'
  <2>1. \A e \in Stored' \cup Pend' : e.op[2] <= calls'[e.op[1]]
    BY <1>1, <1>11 DEF WInv, BatchInv
  <2>2. QED
    BY <1>14, <1>16, <2>1 DEF BatchInv
<1>18. TypeOK'
  BY <1>1, <1>5, <1>8, <1>9 DEF WInv, TypeOK
<1>19. QED
  BY <1>1, <1>9, <1>15, <1>17, <1>18 DEF WInv, ImmInv

-----------------------------------------------------------------------------
(* The background thread *)

\* bg_cv_.SignalAll() wakes only threads that sleep on bg_cv_, never a writer of the queue.
LEMMA SignalAllLemma ==
    ASSUME TypeOK
    PROVE  /\ SignalAll(signalled) \in [Writers -> BOOLEAN]
           /\ \A u \in Writers : SignalAll(signalled)[u] <=>
                 signalled[u] \/ pc[u] \in {"bgwait", "flushwait"}
<1>1. SignalAll(signalled) \in [Writers -> BOOLEAN]
  BY Zenon DEF SignalAll
<1>2. \A u \in Writers : SignalAll(signalled)[u] = (signalled[u] \/ u \in BgWaiters)
  BY Zenon DEF SignalAll
<1>3. \A u \in Writers : u \in BgWaiters <=> pc[u] \in {"bgwait", "flushwait"}
  BY DEF BgWaiters
<1>4. QED
  BY <1>1, <1>2, <1>3

\* A step of the background thread, taken while no client holds mutex_: it may move imm_ to
\* a table, change the number of level-0 files, fail, and wake the sleepers of bg_cv_.
LEMMA BackgroundFrame ==
    ASSUME WInv, BgUnchanged, mutex_ = Nobody, mutex_' = Nobody,
           signalled' = signalled \/ signalled' = SignalAll(signalled),
           tables' \cup imm_' = tables \cup imm_,
           has_imm' \in BOOLEAN, has_imm' \/ imm_' = {},
           bg_error_' \in BOOLEAN, bg_error_ => bg_error_', bg_scheduled' \in BOOLEAN,
           l0' \in Nat, bgin' \in 0 .. l0', bgpc' \in {"idle", "flush", "compact", "cflush"},
           faults' \in 0 .. MaxFaults
    PROVE  WInv'
<1>1. /\ pc' = pc /\ calls' = calls /\ req' = req /\ loc' = loc /\ w' = w
      /\ writers_' = writers_ /\ mem_' = mem_ /\ synced' = synced
      /\ last_sequence' = last_sequence /\ entered' = entered /\ returned' = returned
  BY DEF BgUnchanged
<1>2. \A u \in Writers : pc[u] \notin {"room", "build"}
  BY ConstantsAssumption DEF WInv, MutexInv
<1>3. /\ signalled' \in [Writers -> BOOLEAN]
      /\ \A u \in Writers : signalled[u] => signalled'[u]
      /\ \A u \in Writers : signalled'[u] => signalled[u] \/ pc[u] \in {"bgwait", "flushwait"}
  <2>1. signalled \in [Writers -> BOOLEAN]
    BY DEF WInv, TypeOK
  <2>2. QED
    BY <2>1, SignalAllLemma DEF WInv
<1>4. CallInv'
  BY <1>1 DEF WInv, CallInv
<1>5. QueueInv'
  <2>1. \A u : InQueue(u)' <=> InQueue(u)
    BY <1>1 DEF InQueue
  <2>2. QED
    BY <1>1, <2>1 DEF WInv, QueueInv
<1>6. MutexInv'
  BY <1>1 DEF WInv, MutexInv
<1>7. GroupInv'
  BY <1>1 DEF WInv, GroupInv
<1>8. WakeInv'
  <2> SUFFICES ASSUME NEW u \in Writers
               PROVE  /\ signalled'[u] => pc'[u] \in {"wait", "bgwait", "flushwait"}
                      /\ pc'[u] = "wait" => (signalled'[u] <=> w'[u].done \/ writers_'[1] = u)
    BY DEF WakeInv
  <2>1. signalled'[u] => pc'[u] \in {"wait", "bgwait", "flushwait"}
    BY <1>1, <1>3 DEF WInv, WakeInv
  <2>2. pc[u] = "wait" => (signalled'[u] <=> signalled[u])
    BY <1>3
  <2>3. pc'[u] = "wait" => (signalled'[u] <=> w'[u].done \/ writers_'[1] = u)
    BY <1>1, <2>2 DEF WInv, WakeInv
  <2>4. QED
    BY <2>1, <2>3
<1>9. SyncInv'
  <2>1. \A u : MyOp(u)' = MyOp(u)
    BY <1>1 DEF MyOp
  <2>2. SyncedWhenAcknowledged'
    BY <1>1 DEF WInv, SyncInv, SyncedWhenAcknowledged
  <2>3. QED
    BY <1>1, <2>1, <2>2 DEF WInv, SyncInv
<1>10. ErrInv'
  <2>1. ErrorIsSticky'
    BY <1>1 DEF WInv, ErrInv, ErrorIsSticky
  <2>2. QED
    BY <1>1, <1>2, <2>1 DEF WInv, ErrInv
<1>11. SeqInv' /\ BatchInv'
  <2>1. Stored' = Stored
    BY <1>1 DEF Stored
  <2>2. mem_ \subseteq mem_'
    BY <1>1
  <2>3. QED
    BY <1>1, <2>1, <2>2, DataFrame
<1>12. TypeOK'
  <2>1. imm_' \subseteq EntryType /\ tables' \subseteq EntryType
    BY DEF WInv, TypeOK
  <2>2. QED
    BY <1>1, <1>3, <2>1 DEF WInv, TypeOK
<1>13. QED
  BY <1>4, <1>5, <1>6, <1>7, <1>8, <1>9, <1>10, <1>11, <1>12 DEF WInv, ImmInv

\* What the background thread sees of the state.
LEMMA BackgroundFacts ==
    ASSUME WInv
    PROVE  /\ has_imm \in BOOLEAN /\ (has_imm \/ imm_ = {}) /\ bg_error_ \in BOOLEAN
           /\ bg_scheduled \in BOOLEAN /\ l0 \in Nat /\ bgin \in 0 .. l0 /\ bgin \in Nat
           /\ l0 + 1 \in Nat /\ bgin \in 0 .. l0 + 1 /\ l0 - bgin \in Nat /\ 0 \in 0 .. l0 - bgin
           /\ 0 \in 0 .. l0
           /\ bgpc \in {"idle", "flush", "compact", "cflush"} /\ faults \in 0 .. MaxFaults
           /\ EnvFails => faults' \in 0 .. MaxFaults
           /\ \A s, i, n, e : MaybeScheduleCompaction(s, i, n, e) \in BOOLEAN
<1>1. /\ has_imm \in BOOLEAN /\ (has_imm \/ imm_ = {}) /\ bg_error_ \in BOOLEAN
      /\ bg_scheduled \in BOOLEAN /\ l0 \in Nat /\ bgin \in 0 .. l0 /\ MaxFaults \in Nat
      /\ bgpc \in {"idle", "flush", "compact", "cflush"} /\ faults \in 0 .. MaxFaults
  BY ConstantsAssumption DEF WInv, TypeOK, ImmInv
<1>2. /\ l0 + 1 \in Nat /\ bgin \in Nat /\ bgin \in 0 .. l0 + 1 /\ l0 - bgin \in Nat
      /\ 0 \in 0 .. l0 - bgin /\ 0 \in 0 .. l0
  BY <1>1
<1>3. EnvFails => faults' \in 0 .. MaxFaults
  BY <1>1 DEF EnvFails
<1>4. \A s, i, n, e : MaybeScheduleCompaction(s, i, n, e) \in BOOLEAN
  BY Zenon DEF MaybeScheduleCompaction
<1>5. QED
  BY <1>1, <1>2, <1>3, <1>4

\* What a flush does to the memtable and the tables, whether it succeeds or fails.
LEMMA FlushFacts ==
    ASSUME WInv, FlushOk \/ FlushFails
    PROVE  /\ tables' \cup imm_' = tables \cup imm_ /\ has_imm' \in BOOLEAN
           /\ has_imm' \/ imm_' = {}
           /\ bg_error_' \in BOOLEAN /\ (bg_error_ => bg_error_')
           /\ l0' \in Nat /\ bgin \in 0 .. l0' /\ faults' \in 0 .. MaxFaults
<1>1. CASE FlushOk
  <2>1. /\ tables' = tables \cup imm_ /\ imm_' = {} /\ has_imm' = FALSE
        /\ l0' \in {l0, l0 + 1} /\ bg_error_' = bg_error_ /\ faults' = faults
    BY <1>1 DEF FlushOk
  <2>2. QED
    BY <2>1, BackgroundFacts
<1>2. CASE FlushFails
  <2>1. /\ tables' = tables /\ imm_' = imm_ /\ has_imm' = has_imm /\ EnvFails
        /\ l0' = l0 /\ bg_error_' = TRUE
    BY <1>2 DEF FlushFails
  <2>2. QED
    BY <2>1, BackgroundFacts
<1>3. QED
  BY <1>1, <1>2

\* Every step of the background thread keeps the invariant.
LEMMA BackgroundStep ==
    ASSUME WInv, Background
    PROVE  WInv'
<1>1. CASE BackgroundCall
  <2>1. /\ BgUnchanged /\ mutex_ = Nobody /\ mutex_' = Nobody /\ imm_' = imm_
        /\ has_imm' = has_imm /\ tables' = tables /\ l0' = l0 /\ bg_error_' = bg_error_
        /\ faults' = faults
    BY <1>1 DEF BackgroundCall, Briefly
  <2>2. /\ signalled' = signalled \/ signalled' = SignalAll(signalled)
        /\ bg_scheduled' \in BOOLEAN /\ bgin' \in 0 .. l0'
        /\ bgpc' \in {"idle", "flush", "compact", "cflush"}
    <3>1. CASE BackgroundDone(has_imm, l0, TRUE) /\ bgin' = bgin
      BY <2>1, <3>1, BackgroundFacts DEF BackgroundDone
    <3>2. CASE bgpc' = "flush" /\ UNCHANGED <<bg_scheduled, signalled, bgin>>
      BY <2>1, <3>2, BackgroundFacts
    <3>3. CASE /\ \E n \in CompactionInputs : bgin' = n
               /\ bgpc' = "compact" /\ UNCHANGED <<bg_scheduled, signalled>>
      <4>1. bgin' \in 1 .. l0
        BY <3>3 DEF CompactionInputs
      <4>2. bgin' \in 0 .. l0
        BY <4>1, BackgroundFacts
      <4>3. QED
        BY <2>1, <3>3, <4>2, BackgroundFacts
    <3>4. QED
      BY <1>1, <3>1, <3>2, <3>3 DEF BackgroundCall
  <2>3. QED
    BY <2>1, <2>2, BackgroundFacts, BackgroundFrame
<1>2. CASE CompactMemTable
  <2>1. /\ BgUnchanged /\ mutex_ = Nobody /\ mutex_' = Nobody /\ bgin' = bgin
        /\ FlushOk \/ FlushFails
        /\ bg_scheduled' = MaybeScheduleCompaction(FALSE, has_imm', l0', bg_error_')
        /\ signalled' = SignalAll(signalled) /\ bgpc' = "idle"
    BY <1>2 DEF CompactMemTable, Briefly, BackgroundDone
  <2>2. bg_scheduled' \in BOOLEAN
    BY <2>1, BackgroundFacts
  <2>3. bgin' \in 0 .. l0'
    BY <2>1, FlushFacts
  <2>4. QED
    BY <2>1, <2>2, <2>3, FlushFacts, BackgroundFrame
<1>3. CASE CompactionStartsFlush
  <2>1. /\ BgUnchanged /\ mutex_ = Nobody /\ mutex_' = Nobody /\ bgpc' = "cflush"
        /\ signalled' = signalled /\ imm_' = imm_ /\ has_imm' = has_imm /\ tables' = tables
        /\ l0' = l0 /\ bg_error_' = bg_error_ /\ bg_scheduled' = bg_scheduled
        /\ bgin' = bgin /\ faults' = faults
    BY <1>3 DEF CompactionStartsFlush, Briefly
  <2>2. QED
    BY <2>1, BackgroundFacts, BackgroundFrame
<1>4. CASE CompactionFlush
  <2>1. /\ BgUnchanged /\ mutex_ = Nobody /\ mutex_' = Nobody /\ bgpc' = "compact"
        /\ FlushOk \/ FlushFails
        /\ signalled' = SignalAll(signalled) /\ bg_scheduled' = bg_scheduled /\ bgin' = bgin
    BY <1>4 DEF CompactionFlush, Briefly
  <2>2. bg_scheduled' \in BOOLEAN /\ bgin' \in 0 .. l0'
    BY <2>1, FlushFacts, BackgroundFacts
  <2>3. QED
    BY <2>1, <2>2, FlushFacts, BackgroundFrame
<1>5. CASE CompactionDone
  <2>1. /\ BgUnchanged /\ mutex_ = Nobody /\ mutex_' = Nobody /\ bgin' = 0
        /\ bg_scheduled' = MaybeScheduleCompaction(FALSE, has_imm, l0', bg_error_')
        /\ signalled' = SignalAll(signalled) /\ bgpc' = "idle"
        /\ imm_' = imm_ /\ has_imm' = has_imm /\ tables' = tables
        /\ \/ l0' = l0 - bgin /\ bg_error_' = bg_error_ /\ faults' = faults
           \/ EnvFails /\ bg_error_' = TRUE /\ l0' = l0
    BY <1>5 DEF CompactionDone, Briefly, BackgroundDone
  <2>2. /\ l0' \in Nat /\ bgin' \in 0 .. l0' /\ bg_error_' \in BOOLEAN
        /\ (bg_error_ => bg_error_') /\ faults' \in 0 .. MaxFaults /\ bg_scheduled' \in BOOLEAN
    <3>1. bg_scheduled' \in BOOLEAN
      BY <2>1, BackgroundFacts
    <3>2. CASE l0' = l0 - bgin /\ bg_error_' = bg_error_ /\ faults' = faults
      BY <2>1, <3>1, <3>2, BackgroundFacts
    <3>3. CASE EnvFails /\ bg_error_' = TRUE /\ l0' = l0
      BY <2>1, <3>1, <3>3, BackgroundFacts
    <3>4. QED
      BY <2>1, <3>2, <3>3
  <2>3. QED
    BY <2>1, <2>2, BackgroundFacts, BackgroundFrame
<1>6. QED
  BY <1>1, <1>2, <1>3, <1>4, <1>5 DEF Background

-----------------------------------------------------------------------------
(* The inductive invariant and what follows from it *)

\* The state DB::Open hands over satisfies the invariant.
LEMMA InitInv == Init => WInv
<1> SUFFICES ASSUME Init
             PROVE  WInv
  OBVIOUS
<1>1. /\ mutex_ = Nobody /\ writers_ = <<>>
      /\ mem_ = {} /\ imm_ = {} /\ has_imm = FALSE /\ tables = {} /\ synced = {}
      /\ last_sequence = 0 /\ l0 \in InitialL0 /\ bg_error_ = FALSE
      /\ bgpc = "idle" /\ bgin = 0 /\ faults = 0 /\ returned = {}
      /\ \A t \in Writers : /\ pc[t] = "idle" /\ calls[t] = 0 /\ req[t] = NoRequest
                            /\ loc[t] = NoLocals /\ w[t] = NoWriter /\ signalled[t] = FALSE
                            /\ entered[t] = [seq |-> 0, err |-> FALSE]
                            /\ entered[t].err = FALSE
  BY DEF Init
<1>2. DOMAIN writers_ = {} /\ writers_ \in Seq(Writers)
  BY <1>1
<1>3. "idle" \notin Leading /\ "idle" \notin Committing /\ "idle" \notin Writing
  BY DEF Leading, Committing, Writing
<1>4. Stored = {} /\ Pend = {} /\ Fresh = {}
  BY <1>1, <1>3 DEF Stored, Pend, Fresh
<1>5. TypeOK
  <2>1. bg_scheduled \in BOOLEAN
    BY Zenon DEF Init, MaybeScheduleCompaction
  <2>2. /\ calls \in [Writers -> 0 .. MaxWrites] /\ l0 \in Nat /\ bgin \in 0 .. l0
        /\ faults \in 0 .. MaxFaults
    BY ConstantsAssumption DEF Init
  <2>3. loc \in [Writers -> LocalsType]
    BY NoLocalsType DEF Init
  <2>4. w \in [Writers -> [done : BOOLEAN, status : Statuses, seq : Nat]]
    BY DEF Init, NoWriter, Statuses
  <2>5. entered \in [Writers -> [seq : Nat, err : BOOLEAN]]
    BY DEF Init
  <2>6. /\ pc \in [Writers -> Leading \cup {"idle", "wait", "flush", "flushwait"}]
        /\ req \in [Writers -> AllRequests \cup {NoRequest}]
        /\ signalled \in [Writers -> BOOLEAN]
    BY DEF Init
  <2>7. QED
    BY <1>1, <1>2, <2>1, <2>2, <2>3, <2>4, <2>5, <2>6 DEF TypeOK
<1>6. CallInv /\ MutexInv /\ WakeInv /\ ImmInv
  BY <1>1, ConstantsAssumption DEF CallInv, MutexInv, WakeInv, ImmInv
<1>7. QueueInv
  BY <1>1, <1>2, <1>3 DEF QueueInv, InQueue
<1>8. GroupInv
  BY <1>1, <1>3, NoLocalsType DEF GroupInv
<1>9. SyncInv /\ ErrInv
  BY <1>1 DEF SyncInv, ErrInv, SyncedWhenAcknowledged, ErrorIsSticky
<1>10. SeqInv /\ BatchInv
  BY <1>1, <1>3, <1>4 DEF SeqInv, BatchInv, SequencesDistinct, BatchesAtomic
<1>11. QED
  BY <1>5, <1>6, <1>7, <1>8, <1>9, <1>10 DEF WInv

\* A step that changes nothing.
LEMMA StutterStep ==
    ASSUME WInv, UNCHANGED vars
    PROVE  WInv'
<1>1. /\ mutex_' = mutex_ /\ pc' = pc /\ calls' = calls /\ req' = req /\ loc' = loc /\ w' = w
      /\ writers_' = writers_ /\ signalled' = signalled /\ mem_' = mem_ /\ imm_' = imm_
      /\ has_imm' = has_imm /\ tables' = tables /\ synced' = synced
      /\ last_sequence' = last_sequence /\ l0' = l0 /\ bg_error_' = bg_error_
      /\ bg_scheduled' = bg_scheduled /\ bgpc' = bgpc /\ bgin' = bgin /\ faults' = faults
      /\ entered' = entered /\ returned' = returned
  BY DEF vars, clientVars, dataVars, bgVars
<1>2. Stored' = Stored /\ Pend' = Pend /\ Fresh' = Fresh
  BY <1>1 DEF Stored, Pend, Fresh
<1>3. \A u : (InQueue(u)' <=> InQueue(u)) /\ MyOp(u)' = MyOp(u)
  BY <1>1 DEF InQueue, MyOp
<1>4. TypeOK' /\ CallInv' /\ MutexInv' /\ GroupInv' /\ WakeInv' /\ ImmInv'
  BY <1>1 DEF WInv, TypeOK, CallInv, MutexInv, GroupInv, WakeInv, ImmInv
<1>5. QueueInv'
  BY <1>1, <1>3 DEF WInv, QueueInv
<1>6. SyncInv' /\ ErrInv'
  BY <1>1, <1>3 DEF WInv, SyncInv, ErrInv, SyncedWhenAcknowledged, ErrorIsSticky
<1>7. SeqInv' /\ BatchInv'
  BY <1>1, <1>2 DEF WInv, SeqInv, BatchInv, SequencesDistinct, BatchesAtomic
<1>8. QED
  BY <1>4, <1>5, <1>6, <1>7 DEF WInv

\* Every step of the write path keeps the invariant.
LEMMA NextInv == WInv /\ [Next]_vars => WInv'
<1> SUFFICES ASSUME WInv, [Next]_vars
             PROVE  WInv'
  OBVIOUS
<1>1. CASE UNCHANGED vars
  BY <1>1, StutterStep
<1>2. ASSUME NEW t \in Writers, NEW r \in Requests[t], Enter(t, r)
      PROVE  WInv'
  BY <1>2, EnterStep
<1>3. ASSUME NEW t \in Writers, Client(t)
      PROVE  WInv'
  BY <1>3, WakeDoneStep, WakeLeaderStep, MakeRoomStep, BuildStep, AddRecordStep, SyncStep,
     InsertStep, FinishStep, FinishAloneStep, WaitForFlushStep DEF Client
<1>4. CASE Background
  BY <1>4, BackgroundStep
<1>5. CASE Finished
  BY <1>5, StutterStep DEF Finished
<1>6. QED
  BY <1>1, <1>2, <1>3, <1>4, <1>5 DEF Next

\* The invariant gives the four properties.
LEMMA InvImplies ==
    ASSUME WInv
    PROVE  SingleLogger /\ NoLostWakeup /\ AnswersHonest /\ EntriesExact
<1>1. SingleLogger
  <2> SUFFICES ASSUME NEW t \in Writers, pc[t] \in Leading
               PROVE  /\ writers_ /= <<>> /\ Head(writers_) = t
                      /\ \A u \in Writers : pc[u] \in Leading => u = t
                      /\ \A j \in 1 .. Len(loc[t].group) :
                            j <= Len(writers_) /\ loc[t].group[j] = writers_[j]
    BY DEF SingleLogger
  <2>1. /\ writers_ /= <<>> /\ Head(writers_) = t
        /\ \A u \in Writers : pc[u] \in Leading => u = t
    BY Leaders DEF WInv
  <2>2. ASSUME NEW j \in 1 .. Len(loc[t].group)
        PROVE  j <= Len(writers_) /\ loc[t].group[j] = writers_[j]
    <3>1. loc[t].group \in Seq(Writers) /\ writers_ \in Seq(Writers)
      BY Types DEF WInv
    <3>2. CASE pc[t] \in Committing
      <4>1. Len(loc[t].group) <= Len(writers_) /\ loc[t].group[j] = writers_[j]
        BY <3>2, UnlockedFacts
      <4>2. Len(loc[t].group) \in Nat /\ Len(writers_) \in Nat
        BY <3>1
      <4>3. QED
        BY <4>1, <4>2
    <3>3. CASE pc[t] \notin Committing
      <4>1. loc[t].group = <<>>
        BY <3>3 DEF WInv, GroupInv
      <4>2. QED
        BY <4>1
    <3>4. QED
      BY <3>2, <3>3
  <2>3. QED
    BY <2>1, <2>2
<1>2. NoLostWakeup
  <2> SUFFICES ASSUME NEW t \in Writers, pc[t] = "wait"
               PROVE  signalled[t] <=> w[t].done \/ Head(writers_) = t
    BY DEF NoLostWakeup
  <2>1. signalled[t] <=> w[t].done \/ writers_[1] = t
    BY DEF WInv, WakeInv
  <2>2. Head(writers_) = writers_[1]
    OBVIOUS
  <2>3. QED
    BY <2>1, <2>2
<1>3. AnswersHonest
  BY DEF WInv, SyncInv, ErrInv, AnswersHonest
<1>4. EntriesExact
  BY DEF WInv, SeqInv, BatchInv, EntriesExact
<1>5. QED
  BY <1>1, <1>2, <1>3, <1>4

\* The inductive invariant holds in every reachable state.
THEOREM WriteQueueInvariant == Spec => []WInv
BY InitInv, NextInv, PTL DEF Spec

\* At most one thread logs and inserts, it owns the front Writer, and its group stays the
\* head of the queue while mutex_ is released.
THEOREM OneLogger == Spec => []SingleLogger
<1>1. WInv => SingleLogger
  BY InvImplies
<1>2. QED
  BY WriteQueueInvariant, <1>1, PTL

\* A writer asleep in Write has been signalled exactly when it is done or leads.
THEOREM WakeupsExact == Spec => []NoLostWakeup
<1>1. WInv => NoLostWakeup
  BY InvImplies
<1>2. QED
  BY WriteQueueInvariant, <1>1, PTL

\* What Write reports is true: acknowledged sync writes are synced, and a call that began
\* after a background error fails.
THEOREM AnswersAreHonest == Spec => []AnswersHonest
<1>1. WInv => AnswersHonest
  BY InvImplies
<1>2. QED
  BY WriteQueueInvariant, <1>1, PTL

\* Sequence numbers are given once, and what a reader at LastSequence sees is whole batches.
THEOREM EntriesAreExact == Spec => []EntriesExact
<1>1. WInv => EntriesExact
  BY InvImplies
<1>2. QED
  BY WriteQueueInvariant, <1>1, PTL

-----------------------------------------------------------------------------
(* Refinement of AtomicWrites *)

\* A leader whose group will be published, unless what is left of its section fails.
Publishing(t) == pc[t] \in Writing \/ (pc[t] = "relock" /\ loc[t].status = "ok")

\* F[j] counts the entries of the first j batches of the group: they end at the number the
\* leader publishes, and what is above LastSequence is the group's entries and no other.
Numbers(t, F) ==
    LET group == loc[t].group
    IN  /\ F[0] = 0 /\ \A k \in 1 .. Len(group) : F[k] = F[k - 1] + req[group[k]].count
        /\ \A j, k \in Nat : j <= k => F[j] <= F[k]
        /\ loc[t].seq = last_sequence + F[Len(group)]
        /\ Publishing(t) =>
              \A e : e \in Fresh <=>
                  \E j \in 1 .. Len(group), i \in Nat :
                      /\ i \in 1 .. req[group[j]].count
                      /\ e = [op |-> MyOp(group[j]), i |-> i, seq |-> last_sequence + F[j - 1] + i]

\* What the group being committed will publish; nothing is above LastSequence otherwise.
PublishInv ==
    /\ \A t \in Writers : pc[t] \in Committing => \E F \in [Nat -> Nat] : Numbers(t, F)
    /\ (\A t \in Writers : ~Publishing(t)) => Fresh = {}

\* Every finished call has one answer on record, an unfinished one has none.
ReturnInv ==
    /\ \A r, s \in returned : r.op = s.op => r = s
    /\ \A r \in returned : r.status \in Statuses /\ r.op \in Op /\ r.op[2] <= calls[r.op[1]]
    /\ \A t \in Writers : pc[t] # "idle" => \A r \in returned : r.op # MyOp(t)
    /\ \A t \in Writers : req[t].batch => calls[t] >= 1
    /\ \A t \in Writers : pc[t] = "idle" /\ calls[t] >= 1 => \E r \in returned : r.op = MyOp(t)

\* The inductive invariant of the refinement.
RInv == WInv /\ PublishInv /\ ReturnInv

\* A step that no caller can notice.
LEMMA Unnoticed ==
    ASSUME calls' = calls, req' = req, last_sequence' = last_sequence,
           \A u \in Writers : Outcome(u)' = Outcome(u),
           {e \in Stored : e.seq <= last_sequence}' = {e \in Stored : e.seq <= last_sequence}
    PROVE  UNCHANGED Atomic!vars
BY DEF Atomic!vars

\* The database as opened: no call is decided and nothing is visible.
LEMMA AtomicInit == Init => Atomic!Init /\ PublishInv /\ ReturnInv
<1> SUFFICES ASSUME Init
             PROVE  Atomic!Init /\ PublishInv /\ ReturnInv
  OBVIOUS
<1>1. \A t \in Writers : req[t] = NoRequest /\ pc[t] = "idle" /\ calls[t] = 0
  BY DEF Init
<1>2. \A t \in Writers : req[t].count = 0 /\ ~req[t].batch
  BY <1>1 DEF NoRequest
<1>3. \A t \in Writers : Outcome(t) = "none"
  BY <1>2 DEF Outcome
<1>4. Stored = {}
  BY DEF Init, Stored
<1>5. Atomic!Init
  BY <1>2, <1>3, <1>4 DEF Init, Atomic!Init
<1>6. PublishInv
  BY <1>1, <1>4 DEF PublishInv, Fresh, Pend, Committing, Writing
<1>7. ReturnInv
  BY <1>1, <1>2 DEF ReturnInv, Init
<1>8. QED
  BY <1>5, <1>6, <1>7

\* What is decided about a call, by where its client is.
LEMMA OutcomeFacts == TypeOK /\ ReturnInv => \A u \in Writers :
    /\ ~req[u].batch => Outcome(u) = "none"
    /\ req[u].batch /\ pc[u] = "wait" /\ w[u].done => Outcome(u) = w[u].status
    /\ req[u].batch /\ pc[u] = "idle" => \E r \in returned : r.op = MyOp(u)
    /\ req[u].batch /\ pc[u] = "idle" =>
          \A r \in returned : r.op = MyOp(u) => Outcome(u) = r.status
    /\ req[u].batch /\ pc[u] # "idle" /\ ~(pc[u] = "wait" /\ w[u].done) => Outcome(u) = "pending"
<1> SUFFICES ASSUME TypeOK, ReturnInv, NEW u \in Writers
             PROVE
    /\ ~req[u].batch => Outcome(u) = "none"
    /\ req[u].batch /\ pc[u] = "wait" /\ w[u].done => Outcome(u) = w[u].status
    /\ req[u].batch /\ pc[u] = "idle" => \E r \in returned : r.op = MyOp(u)
    /\ req[u].batch /\ pc[u] = "idle" =>
          \A r \in returned : r.op = MyOp(u) => Outcome(u) = r.status
    /\ req[u].batch /\ pc[u] # "idle" /\ ~(pc[u] = "wait" /\ w[u].done) => Outcome(u) = "pending"
  OBVIOUS
<1>1. ~req[u].batch => Outcome(u) = "none"
  BY DEF Outcome
<1>2. req[u].batch /\ pc[u] = "wait" /\ w[u].done => Outcome(u) = w[u].status
  BY DEF Outcome
<1>3. req[u].batch /\ pc[u] # "idle" /\ ~(pc[u] = "wait" /\ w[u].done) => Outcome(u) = "pending"
  BY DEF Outcome
<1>4. req[u].batch /\ pc[u] = "idle" => \E r \in returned : r.op = MyOp(u)
  BY DEF ReturnInv
<1>5. ASSUME req[u].batch, pc[u] = "idle", NEW r \in returned, r.op = MyOp(u)
      PROVE  Outcome(u) = r.status
  <2> DEFINE c == CHOOSE s \in returned : s.op = MyOp(u)
  <2>1. Outcome(u) = c.status
    BY <1>5 DEF Outcome
  <2>2. c \in returned /\ c.op = MyOp(u)
    BY <1>5
  <2>3. c = r
    BY <1>5, <2>2 DEF ReturnInv
  <2>4. QED
    BY <2>1, <2>3
<1>6. QED
  BY <1>1, <1>2, <1>3, <1>4, <1>5

\* The same after a step.
LEMMA OutcomeAfter == TypeOK' /\ ReturnInv' => (\A u \in Writers :
    /\ ~req[u].batch => Outcome(u) = "none"
    /\ req[u].batch /\ pc[u] = "wait" /\ w[u].done => Outcome(u) = w[u].status
    /\ req[u].batch /\ pc[u] = "idle" => \E r \in returned : r.op = MyOp(u)
    /\ req[u].batch /\ pc[u] = "idle" =>
          \A r \in returned : r.op = MyOp(u) => Outcome(u) = r.status
    /\ req[u].batch /\ pc[u] # "idle" /\ ~(pc[u] = "wait" /\ w[u].done) => Outcome(u) = "pending")'
BY OutcomeFacts, PTL

\* Nothing new is decided about a client that stays where it is.
LEMMA OutcomeKept ==
    ASSUME TypeOK, TypeOK', ReturnInv, ReturnInv', NEW u \in Writers,
           req'[u] = req[u], calls'[u] = calls[u], pc'[u] = "idle" <=> pc[u] = "idle",
           (pc'[u] = "wait" /\ w'[u].done) <=> (pc[u] = "wait" /\ w[u].done),
           w'[u].status = w[u].status, returned \subseteq returned'
    PROVE  Outcome(u)' = Outcome(u)
<1>1. CASE ~req[u].batch
  BY <1>1, OutcomeFacts, OutcomeAfter
<1>2. CASE req[u].batch /\ pc[u] = "wait" /\ w[u].done
  BY <1>2, OutcomeFacts, OutcomeAfter
<1>3. CASE req[u].batch /\ pc[u] = "idle"
  <2>1. PICK r \in returned : r.op = MyOp(u)
    BY <1>3, OutcomeFacts
  <2>2. Outcome(u) = r.status
    BY <1>3, <2>1, OutcomeFacts
  <2>3. r \in returned' /\ r.op = MyOp(u)'
    BY <2>1 DEF MyOp
  <2>4. Outcome(u)' = r.status
    BY <1>3, <2>3, OutcomeAfter
  <2>5. QED
    BY <2>2, <2>4
<1>4. CASE req[u].batch /\ pc[u] # "idle" /\ ~(pc[u] = "wait" /\ w[u].done)
  BY <1>4, OutcomeFacts, OutcomeAfter
<1>5. QED
  BY <1>1, <1>2, <1>3, <1>4

\* A client inside a call goes on, or returns and leaves its answer.
LEMMA ReturnKept ==
    ASSUME WInv, ReturnInv, calls' = calls, req' = req, NEW t \in Writers, pc[t] # "idle",
           \A u \in Writers \ {t} : pc'[u] = "idle" <=> pc[u] = "idle",
           \/ pc'[t] # "idle" /\ returned' = returned
           \/ pc'[t] = "idle" /\ \E r : /\ returned' = returned \cup {r}
                                        /\ r.op = MyOp(t) /\ r.status \in Statuses
    PROVE  ReturnInv'
<1>1. \A u \in Writers : MyOp(u)' = MyOp(u) /\ MyOp(u) = <<u, calls[u]>>
  BY DEF MyOp
<1>2. calls[t] \in 1 .. MaxWrites
  BY Types DEF WInv, CallInv
<1>3. CASE pc'[t] # "idle" /\ returned' = returned
  BY <1>1, <1>3 DEF ReturnInv
<1>4. CASE pc'[t] = "idle" /\ \E r : /\ returned' = returned \cup {r}
                                     /\ r.op = MyOp(t) /\ r.status \in Statuses
  <2>1. PICK r : returned' = returned \cup {r} /\ r.op = MyOp(t) /\ r.status \in Statuses
    BY <1>4
  <2>2. r.op \in Op /\ r.op[1] = t /\ r.op[2] <= calls[t]
    BY <1>1, <1>2, <2>1 DEF Op
  <2>3. \A s \in returned : s.op # r.op
    BY <2>1 DEF ReturnInv
  <2>4. \A p, s \in returned' : p.op = s.op => p = s
    BY <2>1, <2>3 DEF ReturnInv
  <2>5. \A p \in returned' : p.status \in Statuses /\ p.op \in Op /\ p.op[2] <= calls'[p.op[1]]
    BY <2>1, <2>2 DEF ReturnInv
  <2>6. \A u \in Writers : pc'[u] # "idle" => \A p \in returned' : p.op # MyOp(u)
    BY <1>1, <1>4, <2>1 DEF ReturnInv
  <2>7. \A u \in Writers : pc'[u] = "idle" /\ calls[u] >= 1 => \E p \in returned' : p.op = MyOp(u)
    BY <1>1, <2>1 DEF ReturnInv
  <2>8. QED
    BY <1>1, <2>4, <2>5, <2>6, <2>7 DEF ReturnInv
<1>5. QED
  BY <1>3, <1>4

\* No client starts or ends a call.
LEMMA ReturnSame ==
    ASSUME ReturnInv, calls' = calls, req' = req, returned' = returned,
           \A u \in Writers : pc'[u] = "idle" <=> pc[u] = "idle"
    PROVE  ReturnInv'
BY DEF ReturnInv, MyOp

\* Of what is being committed nothing changes.
LEMMA PublishKept ==
    ASSUME WInv, PublishInv, Stored' = Stored, last_sequence' = last_sequence,
           \A u \in Writers : pc[u] # "idle" => req'[u] = req[u] /\ calls'[u] = calls[u],
           \A u \in Writers : pc[u] \in Committing \/ pc'[u] \in Committing =>
              pc'[u] = pc[u] /\ loc'[u] = loc[u]
    PROVE  PublishInv'
<1>1. \A u \in Writers : pc[u] \in Writing \/ pc'[u] \in Writing =>
          pc'[u] = pc[u] /\ loc'[u] = loc[u]
  BY DEF Writing, Committing
<1>2. Fresh' = Fresh
  <2>1. Pend' = Pend
    <3>1. {u \in Writers : pc[u] \in Writing}' = {u \in Writers : pc[u] \in Writing}
      BY <1>1
    <3>2. \A u \in {v \in Writers : pc[v] \in Writing} : loc'[u].updates = loc[u].updates
      BY <1>1
    <3>3. QED
      BY <3>1, <3>2 DEF Pend
  <2>2. QED
    BY <2>1 DEF Fresh
<1>3. \A u \in Writers : Publishing(u)' <=> Publishing(u)
  BY <1>1 DEF Publishing, Committing
<1>4. ASSUME NEW t \in Writers, pc'[t] \in Committing
      PROVE  \E F \in [Nat -> Nat] : Numbers(t, F)'
  <2>1. pc[t] \in Committing /\ loc'[t] = loc[t]
    BY <1>4
  <2>2. PICK F \in [Nat -> Nat] : Numbers(t, F)
    BY <2>1 DEF PublishInv
  <2>3. PICK g \in Seq(Writers) : g = loc[t].group /\ g = loc'[t].group
    BY <2>1, Types DEF WInv
  <2>4. \A j \in 1 .. Len(g) : req'[g[j]] = req[g[j]] /\ MyOp(g[j])' = MyOp(g[j])
    <3>1. ASSUME NEW j \in 1 .. Len(g)
          PROVE  g[j] \in Writers /\ pc[g[j]] # "idle"
      <4>0. TypeOK /\ QueueInv /\ writers_ \in Seq(Writers)
        BY Types DEF WInv
      <4>0b. /\ pc[t] \in Leading /\ Len(loc[t].group) <= Len(writers_)
             /\ \A k \in 1 .. Len(loc[t].group) : loc[t].group[k] = writers_[k]
        BY <2>1, UnlockedFacts
      <4>1. /\ pc[t] \in Leading /\ Len(g) <= Len(writers_) /\ g[j] = writers_[j]
            /\ TypeOK /\ QueueInv /\ writers_ \in Seq(Writers)
        BY <2>3, <4>0, <4>0b
      <4>2. j \in DOMAIN writers_
        BY <4>1
      <4>3. CASE j = 1
        BY <4>1, <4>2, <4>3, Leaders DEF Leading
      <4>4. CASE j # 1
        BY <4>1, <4>2, <4>4, Leaders
      <4>5. QED
        BY <4>3, <4>4
    <3>2. QED
      BY <3>1 DEF MyOp
  <2>4b. /\ F[0] = 0 /\ \A k \in 1 .. Len(g) : F[k] = F[k - 1] + req[g[k]].count
         /\ \A j, k \in Nat : j <= k => F[j] <= F[k]
         /\ loc[t].seq = last_sequence + F[Len(g)]
         /\ Publishing(t) =>
              \A e : e \in Fresh <=>
                  \E j \in 1 .. Len(g), i \in Nat :
                      /\ i \in 1 .. req[g[j]].count
                      /\ e = [op |-> MyOp(g[j]), i |-> i, seq |-> last_sequence + F[j - 1] + i]
    BY <2>2, <2>3 DEF Numbers
  <2>5. Publishing(t)' =>
              \A e : e \in Fresh' <=>
                  \E j \in 1 .. Len(g), i \in Nat :
                      /\ i \in 1 .. req'[g[j]].count
                      /\ e = [op |-> MyOp(g[j])', i |-> i, seq |-> last_sequence + F[j - 1] + i]
    <3> SUFFICES ASSUME Publishing(t)', NEW e
                 PROVE  e \in Fresh' <=>
                  \E j \in 1 .. Len(g), i \in Nat :
                      /\ i \in 1 .. req'[g[j]].count
                      /\ e = [op |-> MyOp(g[j])', i |-> i, seq |-> last_sequence + F[j - 1] + i]
      OBVIOUS
    <3>1. e \in Fresh' <=>
                  \E j \in 1 .. Len(g), i \in Nat :
                      /\ i \in 1 .. req[g[j]].count
                      /\ e = [op |-> MyOp(g[j]), i |-> i, seq |-> last_sequence + F[j - 1] + i]
      BY <1>2, <1>3, <2>4b
    <3>2. ASSUME NEW j \in 1 .. Len(g), NEW i \in Nat
          PROVE  /\ (i \in 1 .. req'[g[j]].count <=> i \in 1 .. req[g[j]].count)
                 /\ [op |-> MyOp(g[j])', i |-> i, seq |-> last_sequence + F[j - 1] + i]
                     = [op |-> MyOp(g[j]), i |-> i, seq |-> last_sequence + F[j - 1] + i]
      BY <2>4
    <3>3. QED
      BY <3>1, <3>2
  <2>6. /\ F[0] = 0 /\ \A k \in 1 .. Len(g) : F[k] = F[k - 1] + req'[g[k]].count
        /\ \A j, k \in Nat : j <= k => F[j] <= F[k]
        /\ loc'[t].seq = last_sequence + F[Len(g)]
    BY <2>1, <2>4, <2>4b
  <2>7. Numbers(t, F)'
    BY <2>3, <2>5, <2>6 DEF Numbers, MyOp
  <2>8. QED
    BY <2>7
<1>5. (\A t \in Writers : ~Publishing(t)') => Fresh' = {}
  BY <1>2, <1>3 DEF PublishInv
<1>6. QED
  BY <1>4, <1>5 DEF PublishInv

\* A step inside the calls: no caller can notice it.
LEMMA InnerStep ==
    ASSUME WInv, WInv', ReturnInv, calls' = calls, req' = req, returned' = returned,
           last_sequence' = last_sequence,
           \A u \in Writers : pc'[u] = "idle" <=> pc[u] = "idle",
           \A u \in Writers : (pc'[u] = "wait" /\ w'[u].done) <=> (pc[u] = "wait" /\ w[u].done),
           \A u \in Writers : w'[u].status = w[u].status,
           {e \in Stored : e.seq <= last_sequence}' = {e \in Stored : e.seq <= last_sequence}
    PROVE  ReturnInv' /\ UNCHANGED Atomic!vars
<1>1. ReturnInv'
  BY ReturnSame
<1>2. \A u \in Writers : Outcome(u)' = Outcome(u)
  BY <1>1, OutcomeKept DEF WInv
<1>3. QED
  BY <1>1, <1>2, Unnoticed

\* Steps before and beside the leader's section.
LEMMA AsideSimulation ==
    ASSUME RInv, WInv', calls' = calls, req' = req, returned' = returned,
           last_sequence' = last_sequence, Stored' = Stored, w' = w,
           \A u \in Writers : pc'[u] = pc[u] \/
              (pc[u] \notin {"idle", "wait"} \cup Committing /\ pc'[u] \notin {"idle", "wait"} \cup Committing),
           \A u \in Writers : pc[u] \in Committing => loc'[u] = loc[u]
    PROVE  RInv' /\ UNCHANGED Atomic!vars
<1>1. PublishInv'
  <2>1. \A u \in Writers : pc[u] \in Committing \/ pc'[u] \in Committing =>
              pc'[u] = pc[u] /\ loc'[u] = loc[u]
    OBVIOUS
  <2>2. QED
    BY <2>1, PublishKept DEF RInv
<1>2. ReturnInv' /\ UNCHANGED Atomic!vars
  <2>1. \A u \in Writers : pc'[u] = "idle" <=> pc[u] = "idle"
    OBVIOUS
  <2>2. \A u \in Writers : (pc'[u] = "wait" /\ w'[u].done) <=> (pc[u] = "wait" /\ w[u].done)
    OBVIOUS
  <2>3. {e \in Stored : e.seq <= last_sequence}' = {e \in Stored : e.seq <= last_sequence}
    OBVIOUS
  <2>4. QED
    BY <2>1, <2>2, <2>3, InnerStep DEF RInv
<1>3. QED
  BY <1>1, <1>2 DEF RInv

\* Making room moves entries from mem_ to imm_ only.
LEMMA RoomSimulation ==
    ASSUME RInv, WInv', NEW t \in Writers, MakeRoomForWrite(t)
    PROVE  RInv' /\ UNCHANGED Atomic!vars
<1>1. /\ calls' = calls /\ req' = req /\ returned' = returned /\ last_sequence' = last_sequence
      /\ w' = w
  BY DEF MakeRoomForWrite, RoomError, RoomDelay, RoomOk, RoomWait, RoomSwitch, RoomSwitchFails,
      RoomAgain, RoomUnchanged
<1>2. Stored' = Stored
  <2>1. CASE RoomSwitch(t)
    <3>1. imm_ = {}
      BY <2>1 DEF RInv, WInv, ImmInv, RoomSwitch, RoomMaySwitch
    <3>2. QED
      BY <2>1, <3>1 DEF RoomSwitch, Stored
  <2>2. CASE ~RoomSwitch(t)
    BY <2>2 DEF MakeRoomForWrite, RoomError, RoomDelay, RoomOk, RoomWait, RoomSwitchFails,
        RoomAgain, Stored
  <2>3. QED
    BY <2>1, <2>2
<1>3. /\ pc[t] \in {"room", "sleep", "bgwait"}
      /\ \E p \in {"room", "sleep", "bgwait", "build"} : pc' = [pc EXCEPT ![t] = p]
      /\ \A u \in Writers \ {t} : loc'[u] = loc[u]
  <2>1. pc \in [Writers -> Leading \cup {"idle", "wait", "flush", "flushwait"}]
        /\ loc \in [Writers -> LocalsType]
    BY DEF RInv, WInv, TypeOK
  <2>2. CASE RoomSwitch(t)
    <3>1. pc' = [pc EXCEPT ![t] = "room"] /\ pc[t] = "room"
      BY <2>1, <2>2 DEF RoomSwitch, RoomMaySwitch, InRoom
    <3>2. QED
      BY <2>1, <2>2, <3>1 DEF RoomSwitch
  <2>3. CASE RoomError(t)
    BY <2>1, <2>3 DEF RoomError, InRoom
  <2>4. CASE RoomDelay(t)
    BY <2>1, <2>4 DEF RoomDelay, InRoom
  <2>5. CASE RoomOk(t)
    BY <2>1, <2>5 DEF RoomOk, InRoom
  <2>6. CASE RoomWait(t)
    BY <2>1, <2>6 DEF RoomWait, InRoom
  <2>7. CASE RoomSwitchFails(t)
    BY <2>1, <2>7 DEF RoomSwitchFails, RoomMaySwitch, InRoom
  <2>8. CASE RoomAgain(t)
    BY <2>1, <2>8 DEF RoomAgain
  <2>9. QED
    BY <2>2, <2>3, <2>4, <2>5, <2>6, <2>7, <2>8 DEF MakeRoomForWrite
<1>4. \A u \in Writers : pc'[u] = pc[u] \/
          (pc[u] \notin {"idle", "wait"} \cup Committing /\ pc'[u] \notin {"idle", "wait"} \cup Committing)
  BY <1>3 DEF Committing, RInv, WInv, TypeOK
<1>5. \A u \in Writers : pc[u] \in Committing => loc'[u] = loc[u]
  BY <1>3 DEF Committing
<1>6. QED
  BY <1>1, <1>2, <1>4, <1>5, AsideSimulation

\* The background thread moves entries from imm_ to tables only.
LEMMA BackgroundSimulation ==
    ASSUME RInv, WInv', Background
    PROVE  RInv' /\ UNCHANGED Atomic!vars
<1>1. BgUnchanged
  BY DEF Background, BackgroundCall, CompactMemTable, CompactionStartsFlush, CompactionFlush,
      CompactionDone
<1>2. tables' \cup imm_' = tables \cup imm_
  <2>1. CASE FlushOk \/ FlushFails
    BY <2>1, FlushFacts DEF RInv
  <2>2. CASE ~(FlushOk \/ FlushFails)
    BY <2>2 DEF Background, BackgroundCall, CompactMemTable, CompactionStartsFlush,
        CompactionFlush, CompactionDone
  <2>3. QED
    BY <2>1, <2>2
<1>3. Stored' = Stored
  BY <1>1, <1>2 DEF BgUnchanged, Stored
<1>4. QED
  BY <1>1, <1>3, AsideSimulation DEF BgUnchanged

\* A woken writer takes the lead.
LEMMA WakeLeaderSimulation ==
    ASSUME RInv, WInv', NEW t \in Writers, WakeLeader(t)
    PROVE  RInv' /\ UNCHANGED Atomic!vars
<1>1. /\ calls' = calls /\ req' = req /\ returned' = returned /\ last_sequence' = last_sequence
      /\ w' = w /\ Stored' = Stored /\ pc[t] = "wait" /\ ~w[t].done
      /\ pc' = [pc EXCEPT ![t] = "room"]
  BY DEF WakeLeader, dataVars, Stored
<1>2. pc \in [Writers -> Leading \cup {"idle", "wait", "flush", "flushwait"}]
      /\ loc \in [Writers -> LocalsType]
  BY DEF RInv, WInv, TypeOK
<1>3. PublishInv'
  <2>1. \A u \in Writers : pc[u] \in Committing \/ pc'[u] \in Committing =>
              pc'[u] = pc[u] /\ loc'[u] = loc[u]
    BY <1>1, <1>2 DEF WakeLeader, Committing
  <2>2. QED
    BY <1>1, <2>1, PublishKept DEF RInv
<1>4. ReturnInv' /\ UNCHANGED Atomic!vars
  <2>1. \A u \in Writers : pc'[u] = "idle" <=> pc[u] = "idle"
    BY <1>1, <1>2
  <2>2. \A u \in Writers : (pc'[u] = "wait" /\ w'[u].done) <=> (pc[u] = "wait" /\ w[u].done)
    BY <1>1, <1>2
  <2>3. {e \in Stored : e.seq <= last_sequence}' = {e \in Stored : e.seq <= last_sequence}
    BY <1>1
  <2>4. QED
    BY <1>1, <2>1, <2>2, <2>3, InnerStep DEF RInv
<1>5. QED
  BY <1>3, <1>4 DEF RInv

\* A follower returns what its leader decided.
LEMMA WakeDoneSimulation ==
    ASSUME RInv, WInv', NEW t \in Writers, WakeDone(t)
    PROVE  RInv' /\ UNCHANGED Atomic!vars
<1>1. /\ calls' = calls /\ req' = req /\ last_sequence' = last_sequence
      /\ w' = w /\ loc' = loc /\ Stored' = Stored /\ pc[t] = "wait" /\ w[t].done
      /\ Return(t, w[t].status, w[t].seq)
  BY DEF WakeDone, dataVars, Stored
<1>2. /\ pc \in [Writers -> Leading \cup {"idle", "wait", "flush", "flushwait"}]
      /\ w[t].status \in Statuses /\ TypeOK /\ TypeOK' /\ WInv /\ ReturnInv /\ PublishInv
  BY Types DEF RInv, WInv, TypeOK
<1>3. /\ \A u \in Writers \ {t} : pc'[u] = pc[u]
      /\ pc'[t] \in {"flush", "idle"} /\ (req[t].batch => pc'[t] = "idle")
      /\ \/ pc'[t] # "idle" /\ returned' = returned
         \/ pc'[t] = "idle" /\ \E r : /\ returned' = returned \cup {r}
                                      /\ r.op = MyOp(t) /\ r.status = w[t].status
  <2>1. CASE ~req[t].batch /\ w[t].status = "ok"
    BY <1>1, <1>2, <2>1 DEF Return
  <2>2. CASE ~(~req[t].batch /\ w[t].status = "ok")
    <3>1. pc' = [pc EXCEPT ![t] = "idle"]
      BY <1>1, <2>2 DEF Return
    <3>2. \E r : returned' = returned \cup {r} /\ r.op = MyOp(t) /\ r.status = w[t].status
      <4> DEFINE a == [op |-> MyOp(t), req |-> req[t], status |-> w[t].status, seq |-> w[t].seq,
                       entered |-> entered[t]]
      <4>1. returned' = returned \cup {a} /\ a.op = MyOp(t) /\ a.status = w[t].status
        BY <1>1, <2>2 DEF Return
      <4> HIDE DEF a
      <4>2. QED
        BY <4>1
    <3>3. QED
      BY <1>2, <3>1, <3>2
  <2>3. QED
    BY <2>1, <2>2
<1>4. PublishInv'
  <2>1. \A u \in Writers : pc[u] \in Committing \/ pc'[u] \in Committing =>
              pc'[u] = pc[u] /\ loc'[u] = loc[u]
    BY <1>1, <1>3 DEF Committing
  <2>2. QED
    BY <1>1, <1>2, <2>1, PublishKept
<1>5. ReturnInv'
  <2>1. \/ pc'[t] # "idle" /\ returned' = returned
        \/ pc'[t] = "idle" /\ \E r : /\ returned' = returned \cup {r}
                                     /\ r.op = MyOp(t) /\ r.status \in Statuses
    BY <1>2, <1>3
  <2>2. QED
    BY <1>1, <1>2, <1>3, <2>1, ReturnKept
<1>6. returned \subseteq returned'
  BY <1>3
<1>7. ASSUME NEW u \in Writers
      PROVE  Outcome(u)' = Outcome(u)
  <2>1. CASE u # t
    BY <1>1, <1>2, <1>3, <1>5, <1>6, <2>1, OutcomeKept
  <2>2. CASE u = t /\ ~req[t].batch
    BY <1>1, <1>2, <1>5, <2>2, OutcomeFacts, OutcomeAfter
  <2>3. CASE u = t /\ req[t].batch
    <3>1. Outcome(t) = w[t].status
      BY <1>1, <1>2, <2>3, OutcomeFacts
    <3>2. pc'[t] = "idle" /\ req'[t].batch
      BY <1>1, <1>3, <2>3
    <3>3. PICK r : returned' = returned \cup {r} /\ r.op = MyOp(t) /\ r.status = w[t].status
      BY <1>3, <3>2
    <3>4. r \in returned' /\ r.op = MyOp(t)'
      BY <1>1, <3>3 DEF MyOp
    <3>5. Outcome(t)' = r.status
      BY <1>2, <1>5, <3>2, <3>4, OutcomeAfter
    <3>6. QED
      BY <2>3, <3>1, <3>3, <3>5
  <2>4. QED
    BY <2>1, <2>2, <2>3
<1>8. {e \in Stored : e.seq <= last_sequence}' = {e \in Stored : e.seq <= last_sequence}
  BY <1>1
<1>9. QED
  BY <1>1, <1>4, <1>5, <1>7, <1>8, Unnoticed DEF RInv

\* TEST_CompactMemTable waits and returns; it has no batch.
LEMMA WaitForFlushSimulation ==
    ASSUME RInv, WInv', NEW t \in Writers, WaitForFlush(t)
    PROVE  RInv' /\ UNCHANGED Atomic!vars
<1>1. /\ calls' = calls /\ req' = req /\ last_sequence' = last_sequence
      /\ w' = w /\ loc' = loc /\ Stored' = Stored /\ pc[t] \in {"flush", "flushwait"}
  BY DEF WaitForFlush, dataVars, Stored
<1>2. /\ pc \in [Writers -> Leading \cup {"idle", "wait", "flush", "flushwait"}]
      /\ TypeOK /\ TypeOK' /\ WInv /\ ReturnInv /\ PublishInv /\ ~req[t].batch
  BY <1>1 DEF RInv, WInv, TypeOK, SyncInv
<1>3. /\ \A u \in Writers \ {t} : pc'[u] = pc[u]
      /\ pc'[t] \in {"flushwait", "idle"}
      /\ \/ pc'[t] # "idle" /\ returned' = returned
         \/ pc'[t] = "idle" /\ \E r : /\ returned' = returned \cup {r}
                                      /\ r.op = MyOp(t) /\ r.status \in Statuses
  <2>1. CASE has_imm /\ ~bg_error_
    BY <1>2, <2>1 DEF WaitForFlush
  <2>2. CASE ~(has_imm /\ ~bg_error_)
    <3>1. pc' = [pc EXCEPT ![t] = "idle"]
      BY <2>2 DEF WaitForFlush
    <3>2. \E r : returned' = returned \cup {r} /\ r.op = MyOp(t) /\ r.status \in Statuses
      <4> DEFINE a == [op |-> MyOp(t), req |-> req[t], seq |-> 0,
                       status |-> IF has_imm THEN "error" ELSE "ok", entered |-> entered[t]]
      <4>1. returned' = returned \cup {a}
        BY <2>2 DEF WaitForFlush
      <4>2. a.op = MyOp(t) /\ a.status \in Statuses
        BY DEF Statuses
      <4> HIDE DEF a
      <4>3. QED
        BY <4>1, <4>2
    <3>3. QED
      BY <1>2, <3>1, <3>2
  <2>3. QED
    BY <2>1, <2>2
<1>4. PublishInv'
  <2>1. \A u \in Writers : pc[u] \in Committing \/ pc'[u] \in Committing =>
              pc'[u] = pc[u] /\ loc'[u] = loc[u]
    BY <1>1, <1>3 DEF Committing
  <2>2. QED
    BY <1>1, <1>2, <2>1, PublishKept
<1>5. ReturnInv'
  BY <1>1, <1>2, <1>3, ReturnKept
<1>6. returned \subseteq returned'
  BY <1>3
<1>7. ASSUME NEW u \in Writers
      PROVE  Outcome(u)' = Outcome(u)
  <2>1. CASE u # t
    BY <1>1, <1>2, <1>3, <1>5, <1>6, <2>1, OutcomeKept
  <2>2. CASE u = t
    BY <1>1, <1>2, <1>5, <2>2, OutcomeFacts, OutcomeAfter
  <2>3. QED
    BY <2>1, <2>2
<1>8. {e \in Stored : e.seq <= last_sequence}' = {e \in Stored : e.seq <= last_sequence}
  BY <1>1
<1>9. QED
  BY <1>1, <1>4, <1>5, <1>7, <1>8, Unnoticed DEF RInv

\* A client calls Write.
LEMMA EnterSimulation ==
    ASSUME RInv, WInv', NEW t \in Writers, NEW r \in Requests[t], Enter(t, r)
    PROVE  RInv' /\ Atomic!Call(t)
<1>1. /\ pc[t] = "idle" /\ calls[t] < MaxWrites /\ calls' = [calls EXCEPT ![t] = @ + 1]
      /\ req' = [req EXCEPT ![t] = r] /\ w' = [w EXCEPT ![t] = NoWriter]
      /\ last_sequence' = last_sequence /\ Stored' = Stored /\ returned' = returned
      /\ \E p \in {"room", "wait"} : pc' = [pc EXCEPT ![t] = p]
      /\ \A u \in Writers \ {t} : loc'[u] = loc[u]
  <2>1. loc \in [Writers -> LocalsType]
    BY DEF RInv, WInv, TypeOK
  <2>2. QED
    BY <2>1 DEF Enter, dataVars, Stored
<1>2. /\ pc \in [Writers -> Leading \cup {"idle", "wait", "flush", "flushwait"}]
      /\ calls \in [Writers -> 0 .. MaxWrites] /\ req \in [Writers -> AllRequests \cup {NoRequest}]
      /\ w \in [Writers -> [done : BOOLEAN, status : Statuses, seq : Nat]]
      /\ TypeOK /\ TypeOK' /\ WInv /\ ReturnInv /\ PublishInv
  BY DEF RInv, WInv, TypeOK
<1>3. /\ r \in AllRequests /\ r \in ReqType /\ (r.batch <=> r.count > 0)
      /\ (r.batch => r.count \in BatchSizes) /\ r.count \in Nat /\ r.batch \in BOOLEAN
      /\ MaxWrites \in Nat
  <2>1. r \in AllRequests
    BY DEF AllRequests
  <2>2. QED
    BY <2>1, ConstantsAssumption DEF BatchSizes, ReqType
<1>4. /\ \A u \in Writers \ {t} : pc'[u] = pc[u] /\ calls'[u] = calls[u] /\ req'[u] = req[u]
                                  /\ w'[u] = w[u]
      /\ pc'[t] \in {"room", "wait"} /\ calls'[t] = calls[t] + 1 /\ req'[t] = r
      /\ ~w'[t].done
  BY <1>1, <1>2 DEF NoWriter
<1>5. PublishInv'
  <2>1. \A u \in Writers : pc[u] \in Committing \/ pc'[u] \in Committing =>
              pc'[u] = pc[u] /\ loc'[u] = loc[u]
    BY <1>1, <1>4 DEF Committing
  <2>2. \A u \in Writers : pc[u] # "idle" => req'[u] = req[u] /\ calls'[u] = calls[u]
    BY <1>1, <1>4
  <2>3. QED
    BY <1>1, <1>2, <2>1, <2>2, PublishKept
<1>6. ReturnInv'
  <2>1. \A u \in Writers : MyOp(u) = <<u, calls[u]>> /\ MyOp(u)' = <<u, calls'[u]>>
    BY DEF MyOp
  <2>2. ASSUME NEW p \in returned
        PROVE  p.op[2] <= calls'[p.op[1]] /\ p.op # MyOp(t)'
    <3>1. /\ p.op \in Op /\ p.op[2] <= calls[p.op[1]] /\ p.op[1] \in Writers /\ p.op[2] \in Nat
          /\ calls[p.op[1]] \in Nat
      BY <1>2, <1>3 DEF ReturnInv, Op
    <3>2. CASE p.op[1] = t
      BY <1>4, <2>1, <3>1, <3>2
    <3>3. CASE p.op[1] # t
      BY <1>4, <2>1, <3>1, <3>3
    <3>4. QED
      BY <3>2, <3>3
  <2>3. \A u \in Writers : pc'[u] # "idle" => \A p \in returned' : p.op # MyOp(u)'
    <3>1. \A u \in Writers \ {t} : MyOp(u)' = MyOp(u)
      BY <1>4, <2>1
    <3>2. ASSUME NEW u \in Writers \ {t}, pc'[u] # "idle", NEW p \in returned'
          PROVE  p.op # MyOp(u)'
      <4>1. pc[u] # "idle" /\ p \in returned
        BY <1>1, <1>4, <3>2
      <4>2. p.op # MyOp(u)
        BY <1>2, <4>1 DEF ReturnInv
      <4>3. QED
        BY <3>1, <4>2
    <3>3. \A p \in returned' : p.op # MyOp(t)'
      BY <1>1, <2>2
    <3>4. QED
      BY <3>2, <3>3
  <2>4. \A u \in Writers : req'[u].batch => calls'[u] >= 1
    BY <1>2, <1>4 DEF ReturnInv
  <2>5. \A u \in Writers : pc'[u] = "idle" /\ calls'[u] >= 1 => \E p \in returned' : p.op = MyOp(u)'
    <3>1. \A u \in Writers \ {t} : MyOp(u)' = MyOp(u)
      BY <1>4, <2>1
    <3>2. QED
      BY <1>1, <1>2, <1>4, <3>1 DEF ReturnInv
  <2>6. \A p, s \in returned' : p.op = s.op => p = s
    BY <1>1, <1>2 DEF ReturnInv
  <2>7. \A p \in returned' : p.status \in Statuses /\ p.op \in Op /\ p.op[2] <= calls'[p.op[1]]
    BY <1>1, <1>2, <2>2 DEF ReturnInv
  <2>8. QED
    BY <2>3, <2>4, <2>5, <2>6, <2>7 DEF ReturnInv
<1>7. \A u \in Writers \ {t} : Outcome(u)' = Outcome(u)
  BY <1>1, <1>2, <1>4, <1>6, OutcomeKept
<1>8. Outcome(t)' = IF r.batch THEN "pending" ELSE "none"
  BY <1>2, <1>4, <1>6, OutcomeAfter
<1>9. Outcome(t) # "pending"
  <2>1. CASE ~req[t].batch
    BY <1>2, <2>1, OutcomeFacts
  <2>2. CASE req[t].batch
    <3>1. PICK p \in returned : p.op = MyOp(t)
      BY <1>1, <1>2, <2>2, OutcomeFacts
    <3>2. Outcome(t) = p.status /\ p.status \in Statuses
      BY <1>1, <1>2, <2>2, <3>1, OutcomeFacts DEF ReturnInv
    <3>3. QED
      BY <3>2 DEF Statuses
  <2>3. QED
    BY <2>1, <2>2
<1> DEFINE count == [u \in Writers |-> req[u].count]
           outcome == [u \in Writers |-> Outcome(u)]
<1>10. count' = [count EXCEPT ![t] = r.count]
  BY <1>4
<1>11. outcome' = [outcome EXCEPT ![t] = IF r.batch THEN "pending" ELSE "none"]
  BY <1>7, <1>8
<1>12. outcome[t] # "pending"
  BY <1>9
<1>13. {e \in Stored : e.seq <= last_sequence}' = {e \in Stored : e.seq <= last_sequence}
  BY <1>1
<1>14. Atomic!Call(t)
  <2>1. CASE r.batch
    BY <1>1, <1>3, <1>10, <1>11, <1>12, <1>13, <2>1 DEF Atomic!Call
  <2>2. CASE ~r.batch
    <3>1. r.count = 0
      BY <1>3, <2>2
    <3>2. QED
      BY <1>1, <1>10, <1>11, <1>12, <1>13, <2>2, <3>1 DEF Atomic!Call
  <2>3. QED
    BY <2>1, <2>2
<1>15. QED
  BY <1>5, <1>6, <1>14 DEF RInv

\* e is entry i of the batch of the j-th of the first n writers, numbered as F counts.
IsUpdate(e, n, last, F) ==
    \E j \in 1 .. n, i \in Nat :
        /\ i \in 1 .. req[writers_[j]].count
        /\ e = [op |-> MyOp(writers_[j]), i |-> i, seq |-> last + F[j - 1] + i]

\* The entries of a group, by position in the queue and in the batch.
LEMMA UpdatesAre ==
    ASSUME NEW n \in Nat, NEW last \in Nat, NEW F \in [Nat -> Nat],
           \A j \in 1 .. n : CountTo(j - 1) = F[j - 1], NEW e
    PROVE  e \in Updates(n, last) <=> IsUpdate(e, n, last, F)
<1> DEFINE new == Updates(n, last)
           C(j) == req[writers_[j]].count
           E(j, i) == [op |-> MyOp(writers_[j]), i |-> i, seq |-> last + CountTo(j - 1) + i]
           D(j, i) == [op |-> MyOp(writers_[j]), i |-> i, seq |-> last + F[j - 1] + i]
<1>1. new = UNION {{E(j, i) : i \in 1 .. C(j)} : j \in 1 .. n}
  BY DEF Updates
<1>2. \A j \in 1 .. n : \A i : E(j, i) = D(j, i)
  OBVIOUS
<1>3. \A c : \A i \in 1 .. c : i \in Nat
  OBVIOUS
<1> HIDE DEF new, E, C, D
<1>4. ASSUME e \in new
      PROVE  \E j \in 1 .. n, i \in Nat : i \in 1 .. C(j) /\ e = D(j, i)
  <2>1. PICK S \in {{E(j, i) : i \in 1 .. C(j)} : j \in 1 .. n} : e \in S
    BY <1>1, <1>4
  <2>2. PICK j \in 1 .. n : S = {E(j, i) : i \in 1 .. C(j)}
    BY <2>1
  <2>3. PICK i \in 1 .. C(j) : e = E(j, i)
    BY <2>1, <2>2
  <2>4. QED
    BY <1>2, <1>3, <2>3
<1>5. ASSUME NEW j \in 1 .. n, NEW i \in 1 .. C(j)
      PROVE  D(j, i) \in new
  <2> DEFINE S == {E(j, k) : k \in 1 .. C(j)}
  <2>1. E(j, i) \in S /\ S \in {{E(m, k) : k \in 1 .. C(m)} : m \in 1 .. n}
    OBVIOUS
  <2> HIDE DEF S
  <2>2. QED
    BY <1>1, <1>2, <2>1
<1>6. e \in new <=> \E j \in 1 .. n, i \in Nat : i \in 1 .. C(j) /\ e = D(j, i)
  BY <1>4, <1>5
<1>7. QED
  BY <1>6 DEF new, C, D, IsUpdate

\* Outside the leader's unlocked section nothing is above LastSequence.
LEMMA NothingFresh ==
    ASSUME WInv, \A u \in Writers : pc[u] \notin Committing
    PROVE  Fresh = {} /\ \A e \in Stored : e.seq \in Nat /\ e.seq <= last_sequence
<1>1. \A u \in Writers : pc[u] \notin {"insert", "relock"} /\ pc[u] \notin Writing
  BY DEF Committing, Writing
<1>2. \A e \in Stored : e.seq \in Nat /\ e.seq <= last_sequence
  BY <1>1, AllPublished
<1>3. Pend = {}
  BY <1>1 DEF Pend
<1>4. last_sequence \in Nat
  BY DEF WInv, TypeOK
<1>5. QED
  BY <1>2, <1>3, <1>4 DEF Fresh

\* The leader numbers its group.
LEMMA BuildSimulation ==
    ASSUME RInv, WInv', NEW t \in Writers, Build(t)
    PROVE  RInv' /\ UNCHANGED Atomic!vars
<1>a. PICK group : group = BuildBatchGroup
  OBVIOUS
<1>b. PICK n : n = Len(group)
  OBVIOUS
<1> DEFINE new == Updates(n, last_sequence)
           l == [loc[t] EXCEPT !.group = group, !.updates = new,
                               !.seq = last_sequence + CountTo(n)]
<1>1. /\ pc[t] = "build" /\ loc[t].status = "ok" /\ req[t].batch
      /\ loc' = [loc EXCEPT ![t] = l] /\ pc' = [pc EXCEPT ![t] = "append"]
      /\ w' = [u \in Writers |-> [w[u] EXCEPT !.seq = FollowerSeq(u, group, last_sequence)]]
      /\ calls' = calls /\ req' = req /\ last_sequence' = last_sequence /\ Stored' = Stored
      /\ returned' = returned
  BY <1>a, <1>b DEF Build, dataVars, Stored
<1>2. /\ WInv /\ TypeOK /\ ReturnInv /\ QueueInv
      /\ pc[t] \in Leading /\ pc[t] \notin Committing
      /\ pc \in [Writers -> Leading \cup {"idle", "wait", "flush", "flushwait"}]
      /\ loc \in [Writers -> LocalsType]
      /\ w \in [Writers -> [done : BOOLEAN, status : Statuses, seq : Nat]]
  BY <1>1 DEF RInv, WInv, TypeOK, Leading, Committing
<1>3. /\ writers_ \in Seq(Writers) /\ writers_ # <<>>
      /\ \A u \in Writers \ {t} : pc[u] \notin Leading /\ pc[u] \notin Committing
      /\ last_sequence \in Nat /\ \A u \in Writers : req[u].count \in Nat
  BY <1>2, Leaders, Types DEF Leading, Committing
<1>4. /\ group \in Seq(Writers) /\ group # <<>> /\ n \in 1 .. Len(writers_) /\ n \in Nat
      /\ \A j \in 1 .. n : group[j] = writers_[j]
  BY <1>a, <1>b, <1>3, GroupLemma
<1>5. PICK F \in [Nat -> Nat] :
               /\ F[0] = 0
               /\ \A k \in 1 .. Len(writers_) : F[k] = F[k - 1] + req[writers_[k]].count
               /\ \A j, k \in Nat : j <= k => F[j] <= F[k]
               /\ \A m \in 0 .. Len(writers_) : CountTo(m) = F[m]
  BY <1>3, CountLemma
<1>6. CountTo(n) = F[n] /\ \A j \in 1 .. n : j \in 1 .. Len(writers_) /\ CountTo(j - 1) = F[j - 1]
  <2>0. Len(writers_) \in Nat
    BY <1>3
  <2>1. \A m \in Nat : n \in 1 .. m =>
            n \in 0 .. m /\ \A j \in 1 .. n : j - 1 \in 0 .. m /\ j \in 1 .. m
    OBVIOUS
  <2>2. QED
    BY <1>4, <1>5, <2>0, <2>1
<1>7. \A e : e \in new <=>
               \E j \in 1 .. n, i \in Nat :
                   /\ i \in 1 .. req[writers_[j]].count
                   /\ e = [op |-> MyOp(writers_[j]), i |-> i, seq |-> last_sequence + F[j - 1] + i]
  <2>1. n \in Nat /\ last_sequence \in Nat /\ \A j \in 1 .. n : CountTo(j - 1) = F[j - 1]
    BY <1>3, <1>4, <1>6
  <2>2. \A e : e \in new <=> IsUpdate(e, n, last_sequence, F)
    BY <2>1, UpdatesAre
  <2>3. QED
    BY <2>2 DEF IsUpdate
<1> HIDE DEF new
<1>8. /\ l.group = group /\ l.updates = new /\ l.seq = last_sequence + F[n]
      /\ loc'[t] = l /\ pc'[t] = "append"
      /\ \A u \in Writers \ {t} : pc'[u] = pc[u] /\ loc'[u] = loc[u]
  <2>1. loc[t] \in LocalsType
    BY <1>2
  <2>2. l.group = group /\ l.updates = new /\ l.seq = last_sequence + F[n]
    BY <1>6, <2>1 DEF LocalsType
  <2> HIDE DEF l
  <2>3. QED
    BY <1>1, <1>2, <2>2
<1> HIDE DEF l
<1>9. Fresh' = new
  <2>1. \A e \in Stored : e.seq \in Nat /\ e.seq <= last_sequence
    BY <1>2, <1>3, NothingFresh
  <2>2. {u \in Writers : pc'[u] \in Writing} = {t}
    BY <1>3, <1>8 DEF Writing, Committing
  <2>3. Pend' = loc'[t].updates
    BY <2>2 DEF Pend
  <2>4. {e \in Stored' : e.seq > last_sequence'} = {}
    <3>1. \A m \in Nat : m <= last_sequence => ~(m > last_sequence)
      BY <1>3
    <3>2. QED
      BY <1>1, <2>1, <3>1
  <2>5. QED
    BY <1>8, <2>3, <2>4 DEF Fresh
<1>10. PublishInv'
  <2>1. \A e : e \in Fresh' <=>
                  \E j \in 1 .. n, i \in Nat :
                      /\ i \in 1 .. req'[group[j]].count
                      /\ e = [op |-> MyOp(group[j])', i |-> i, seq |-> last_sequence' + F[j - 1] + i]
    <3>1. \A j \in 1 .. n : /\ req'[group[j]] = req[writers_[j]]
                            /\ MyOp(group[j])' = MyOp(writers_[j])
      BY <1>1, <1>4 DEF MyOp
    <3>2. ASSUME NEW e, NEW j \in 1 .. n, NEW i \in Nat
          PROVE  (/\ i \in 1 .. req'[group[j]].count
                  /\ e = [op |-> MyOp(group[j])', i |-> i, seq |-> last_sequence' + F[j - 1] + i])
                 <=> (/\ i \in 1 .. req[writers_[j]].count
                      /\ e = [op |-> MyOp(writers_[j]), i |-> i, seq |-> last_sequence + F[j - 1] + i])
      BY <1>1, <3>1
    <3>3. QED
      BY <1>7, <1>9, <3>2
  <2>2. \A k \in 1 .. n : F[k] = F[k - 1] + req'[group[k]].count
    BY <1>1, <1>4, <1>5, <1>6
  <2>3. group = loc'[t].group /\ Len(group) = n
    BY <1>b, <1>8
  <2>4. Numbers(t, F)'
    <3>1. /\ F[0] = 0 /\ \A k \in 1 .. n : F[k] = F[k - 1] + req'[group[k]].count
          /\ \A j, k \in Nat : j <= k => F[j] <= F[k]
          /\ loc'[t].seq = last_sequence' + F[n]
      BY <1>1, <1>5, <1>8, <2>2, <2>3
    <3>2. \A e : e \in Fresh' <=>
                  \E j \in 1 .. n, i \in Nat :
                      /\ i \in 1 .. req'[group[j]].count
                      /\ e = [op |-> MyOp(group[j])', i |-> i, seq |-> last_sequence' + F[j - 1] + i]
      BY <2>1
    <3>3. QED
      BY <2>3, <3>1, <3>2 DEF Numbers, MyOp
  <2>5. \A u \in Writers \ {t} : pc'[u] \notin Committing
    BY <1>3, <1>8
  <2>6. Publishing(t)'
    BY <1>8 DEF Publishing, Writing
  <2>7. QED
    BY <2>4, <2>5, <2>6 DEF PublishInv
<1>11. ReturnInv' /\ UNCHANGED Atomic!vars
  <2>1. \A u \in Writers : pc'[u] = "idle" <=> pc[u] = "idle"
    BY <1>1, <1>8
  <2>2. \A u \in Writers : w'[u].done = w[u].done /\ w'[u].status = w[u].status
    BY <1>1, <1>2
  <2>3. \A u \in Writers : (pc'[u] = "wait" /\ w'[u].done) <=> (pc[u] = "wait" /\ w[u].done)
    BY <1>1, <1>8, <2>2
  <2>4. {e \in Stored : e.seq <= last_sequence}' = {e \in Stored : e.seq <= last_sequence}
    BY <1>1
  <2>5. QED
    BY <1>1, <1>2, <2>1, <2>2, <2>3, <2>4, InnerStep
<1>12. QED
  BY <1>10, <1>11 DEF RInv

\* A step of the unlocked section keeps the group and its numbers.
LEMMA CommitKept ==
    ASSUME WInv, PublishInv, NEW t \in Writers, pc[t] \in Committing, pc'[t] \in Committing,
           \A u \in Writers \ {t} : pc'[u] = pc[u],
           calls' = calls, req' = req, last_sequence' = last_sequence,
           loc'[t].group = loc[t].group, loc'[t].seq = loc[t].seq,
           Publishing(t)' => Publishing(t) /\ Fresh' = Fresh,
           ~Publishing(t)' => Fresh' = {}
    PROVE  PublishInv'
<1>1. \A u \in Writers \ {t} : pc'[u] \notin Committing
  BY UnlockedFacts
<1>2. PICK F \in [Nat -> Nat] : Numbers(t, F)
  BY DEF PublishInv
<1>3. PICK g : g = loc[t].group /\ g = loc'[t].group
  OBVIOUS
<1>4. /\ F[0] = 0 /\ \A k \in 1 .. Len(g) : F[k] = F[k - 1] + req[g[k]].count
      /\ \A j, k \in Nat : j <= k => F[j] <= F[k]
      /\ loc[t].seq = last_sequence + F[Len(g)]
      /\ Publishing(t) =>
           \A e : e \in Fresh <=>
               \E j \in 1 .. Len(g), i \in Nat :
                   /\ i \in 1 .. req[g[j]].count
                   /\ e = [op |-> MyOp(g[j]), i |-> i, seq |-> last_sequence + F[j - 1] + i]
  BY <1>2, <1>3 DEF Numbers
<1>5. Publishing(t)' =>
           \A e : e \in Fresh' <=>
               \E j \in 1 .. Len(g), i \in Nat :
                   /\ i \in 1 .. req'[g[j]].count
                   /\ e = [op |-> MyOp(g[j])', i |-> i, seq |-> last_sequence' + F[j - 1] + i]
  <2>1. \A j : MyOp(g[j])' = MyOp(g[j])
    BY DEF MyOp
  <2>2. QED
    BY <1>4, <2>1
<1>6. /\ \A k \in 1 .. Len(g) : F[k] = F[k - 1] + req'[g[k]].count
      /\ loc'[t].seq = last_sequence' + F[Len(g)]
  BY <1>4
<1>7. Numbers(t, F)'
  BY <1>3, <1>4, <1>5, <1>6 DEF Numbers, MyOp
<1>8. QED
  BY <1>1, <1>7 DEF PublishInv

\* A step of the unlocked section that keeps what is stored up to LastSequence.
LEMMA UnlockedSimulation ==
    ASSUME RInv, WInv', NEW t \in Writers, pc[t] \in Committing, pc'[t] \in Committing,
           \A u \in Writers \ {t} : pc'[u] = pc[u],
           UnlockedUnchanged, loc'[t].group = loc[t].group, loc'[t].seq = loc[t].seq,
           Publishing(t)' => Publishing(t) /\ Fresh' = Fresh,
           ~Publishing(t)' => Fresh' = {},
           {e \in Stored : e.seq <= last_sequence}' = {e \in Stored : e.seq <= last_sequence}
    PROVE  RInv' /\ UNCHANGED Atomic!vars
<1>1. /\ calls' = calls /\ req' = req /\ last_sequence' = last_sequence /\ w' = w
      /\ returned' = returned
  BY DEF UnlockedUnchanged
<1>2. PublishInv'
  BY <1>1, CommitKept DEF RInv
<1>3. \A u \in Writers : pc'[u] = "idle" <=> pc[u] = "idle"
  BY DEF Committing
<1>4. \A u \in Writers : (pc'[u] = "wait" /\ w'[u].done) <=> (pc[u] = "wait" /\ w[u].done)
  BY <1>1 DEF Committing
<1>5. ReturnInv' /\ UNCHANGED Atomic!vars
  BY <1>1, <1>3, <1>4, InnerStep DEF RInv
<1>6. QED
  BY <1>2, <1>5 DEF RInv

\* The log record is written and synced, or the group fails with nothing in the memtable.
LEMMA LogSimulation ==
    ASSUME RInv, WInv', NEW t \in Writers, AddRecord(t) \/ Sync(t)
    PROVE  RInv' /\ UNCHANGED Atomic!vars
<1>1. /\ pc[t] \in {"append", "sync"} /\ UnlockedUnchanged /\ mem_' = mem_
      /\ Stored' = Stored /\ last_sequence' = last_sequence
  BY DEF AddRecord, Sync, UnlockedUnchanged, Stored
<1>2. /\ pc \in [Writers -> Leading \cup {"idle", "wait", "flush", "flushwait"}]
      /\ loc \in [Writers -> LocalsType] /\ loc[t] \in LocalsType /\ WInv
      /\ pc[t] \in Committing /\ pc[t] \in Writing
  BY <1>1 DEF RInv, WInv, TypeOK, Committing, Writing
<1>3. \A u \in Writers \ {t} : pc[u] \notin Committing /\ pc[u] \notin Writing
  BY <1>2, UnlockedFacts
<1>4. /\ \A u \in Writers \ {t} : pc'[u] = pc[u]
      /\ pc'[t] \in {"sync", "insert", "relock"}
      /\ loc'[t].group = loc[t].group /\ loc'[t].seq = loc[t].seq
      /\ loc'[t].updates = loc[t].updates
      /\ pc'[t] = "relock" => loc'[t].status = "error"
  <2>1. CASE loc' = loc
    <3>1. pc' = [pc EXCEPT ![t] = "sync"] \/ pc' = [pc EXCEPT ![t] = "insert"]
          \/ (pc' = [pc EXCEPT ![t] = "relock"] /\ loc'[t].status = "error")
      BY <1>2, <2>1 DEF AddRecord, Sync, LocalsType
    <3>2. QED
      BY <1>2, <2>1, <3>1
  <2>2. CASE loc' # loc
    <3>1. pc' = [pc EXCEPT ![t] = "relock"]
      BY <2>2 DEF AddRecord, Sync
    <3>2. \/ loc' = [loc EXCEPT ![t].status = "error"]
          \/ loc' = [loc EXCEPT ![t].status = "error", ![t].sync_error = TRUE]
      BY <2>2 DEF AddRecord, Sync
    <3>3. /\ loc'[t].group = loc[t].group /\ loc'[t].seq = loc[t].seq
          /\ loc'[t].updates = loc[t].updates /\ loc'[t].status = "error"
      <4>1. CASE loc' = [loc EXCEPT ![t].status = "error"]
        BY <1>2, <4>1 DEF LocalsType
      <4>2. CASE loc' = [loc EXCEPT ![t].status = "error", ![t].sync_error = TRUE]
        BY <1>2, <4>2 DEF LocalsType
      <4>3. QED
        BY <3>2, <4>1, <4>2
    <3>4. QED
      BY <1>2, <3>1, <3>3
  <2>3. QED
    BY <2>1, <2>2
<1>5. pc'[t] \in Committing /\ (pc'[t] # "relock" => pc'[t] \in Writing)
      /\ "relock" \notin Writing
  BY <1>4 DEF Committing, Writing
<1>6. Publishing(t) /\ (Publishing(t)' <=> pc'[t] # "relock")
  BY <1>2, <1>4, <1>5 DEF Publishing
<1>7. pc'[t] # "relock" => Fresh' = Fresh
  <2> SUFFICES ASSUME pc'[t] # "relock"
               PROVE  Fresh' = Fresh
    OBVIOUS
  <2>1. {u \in Writers : pc'[u] \in Writing} = {t} /\ {u \in Writers : pc[u] \in Writing} = {t}
    BY <1>2, <1>3, <1>4, <1>5
  <2>2. Pend = loc[t].updates /\ Pend' = loc'[t].updates
    BY <2>1 DEF Pend
  <2>3. QED
    BY <1>1, <1>4, <2>2 DEF Fresh
<1>8. pc'[t] = "relock" => Fresh' = {}
  <2> SUFFICES ASSUME pc'[t] = "relock"
               PROVE  Fresh' = {}
    OBVIOUS
  <2>1. \A u \in Writers : pc'[u] \notin Writing
    BY <1>3, <1>4, <1>5
  <2>2. Pend' = {}
    BY <2>1 DEF Pend
  <2>3. \A u \in Writers : pc[u] \notin {"insert", "relock"}
    BY <1>1, <1>3 DEF Committing
  <2>4. \A e \in Stored : e.seq \in Nat /\ e.seq <= last_sequence
    BY <1>2, <2>3, AllPublished
  <2>5. last_sequence \in Nat
    BY <1>2, Types DEF WInv
  <2>6. QED
    BY <1>1, <2>2, <2>4, <2>5 DEF Fresh
<1>9. {e \in Stored : e.seq <= last_sequence}' = {e \in Stored : e.seq <= last_sequence}
  BY <1>1
<1>10. QED
  BY <1>1, <1>2, <1>4, <1>5, <1>6, <1>7, <1>8, <1>9, UnlockedSimulation

\* One more entry is in the memtable, above LastSequence.
LEMMA InsertSimulation ==
    ASSUME RInv, WInv', NEW t \in Writers, InsertInto(t)
    PROVE  RInv' /\ UNCHANGED Atomic!vars
<1> DEFINE U == loc[t].updates
           e == CHOOSE x \in U : \A f \in U : x.seq <= f.seq
           p == IF U = {e} THEN "relock" ELSE "insert"
           l == [loc[t] EXCEPT !.updates = U \ {e}]
<1>1. /\ pc[t] = "insert" /\ UnlockedUnchanged
      /\ mem_' = mem_ \cup {e} /\ loc' = [loc EXCEPT ![t] = l] /\ pc' = [pc EXCEPT ![t] = p]
  BY DEF InsertInto, LastUpdate
<1>2. /\ pc[t] \in Committing /\ pc[t] \in Writing /\ "insert" \in Writing /\ "relock" \notin Writing
      /\ {"insert", "relock"} \subseteq Committing /\ WInv /\ loc[t] \in LocalsType
      /\ pc \in [Writers -> Leading \cup {"idle", "wait", "flush", "flushwait"}]
      /\ loc \in [Writers -> LocalsType]
  BY <1>1 DEF Committing, Writing, RInv, WInv, TypeOK
<1>3. /\ U # {} /\ U \subseteq EntryType /\ last_sequence \in Nat
      /\ \A x \in U : last_sequence < x.seq /\ x.seq \in Nat
  BY <1>2, Types DEF WInv, SeqInv, EntryType
<1>4. e \in U /\ \A f \in U : e.seq <= f.seq
  <2>1. PICK m \in {x.seq : x \in U} : \A k \in {x.seq : x \in U} : m <= k
    <3>1. {x.seq : x \in U} \in SUBSET Nat /\ {x.seq : x \in U} # {}
      BY <1>3
    <3>2. QED
      BY <3>1, LeastNat
  <2>2. \E x \in U : \A f \in U : x.seq <= f.seq
    BY <2>1
  <2> HIDE DEF U
  <2>3. QED
    BY <2>2
<1>5. /\ l.group = loc[t].group /\ l.seq = loc[t].seq
      /\ l.status = "ok" /\ l.updates = U \ {e}
  BY <1>1, <1>2, UnlockedFacts DEF LocalsType
<1>6. (p = "insert" <=> U \ {e} # {}) /\ (p = "relock" <=> U \ {e} = {})
      /\ p \in {"insert", "relock"}
  BY <1>4
<1>a. PICK x : x = e
  OBVIOUS
<1> HIDE DEF e, p, l, U
<1>7. /\ pc'[t] = p /\ loc'[t] = l
      /\ \A u \in Writers \ {t} : pc'[u] = pc[u] /\ loc'[u] = loc[u]
  BY <1>1, <1>2
<1>8. \A u \in Writers \ {t} : pc[u] \notin Writing
  BY <1>2, UnlockedFacts
<1>9. Pend = U /\ Pend' = U \ {x}
  <2>1. {u \in Writers : pc[u] \in Writing} = {t}
    BY <1>2, <1>8
  <2>2. Pend = loc[t].updates
    BY <2>1 DEF Pend
  <2>3. CASE p = "insert"
    <3>1. {u \in Writers : pc'[u] \in Writing} = {t}
      BY <1>2, <1>7, <1>8, <2>3
    <3>2. Pend' = loc'[t].updates
      BY <3>1 DEF Pend
    <3>3. QED
      BY <1>5, <1>7, <1>a, <2>2, <3>2 DEF U
  <2>4. CASE p = "relock"
    <3>1. {u \in Writers : pc'[u] \in Writing} = {}
      BY <1>2, <1>7, <1>8, <2>4
    <3>2. Pend' = {}
      BY <3>1 DEF Pend
    <3>3. QED
      BY <1>6, <1>a, <2>2, <2>4, <3>2 DEF U
  <2>5. QED
    BY <1>6, <2>3, <2>4
<1>10. Stored' = Stored \cup {x} /\ last_sequence' = last_sequence
  BY <1>1, <1>a DEF Stored, UnlockedUnchanged
<1>11. x \in U /\ last_sequence < x.seq /\ x.seq \in Nat
  BY <1>3, <1>4, <1>a
<1>12. Fresh' = Fresh
  BY <1>3, <1>9, <1>10, <1>11 DEF Fresh
<1>13. {y \in Stored : y.seq <= last_sequence}' = {y \in Stored : y.seq <= last_sequence}
  BY <1>3, <1>10, <1>11
<1>14. Publishing(t) /\ Publishing(t)'
  BY <1>2, <1>5, <1>6, <1>7 DEF Publishing
<1>15. pc'[t] \in Committing /\ loc'[t].group = loc[t].group /\ loc'[t].seq = loc[t].seq
  BY <1>2, <1>5, <1>6, <1>7
<1>16. QED
  BY <1>1, <1>2, <1>7, <1>12, <1>13, <1>14, <1>15, UnlockedSimulation

\* The leader leaves with the first n writers: what was pending about their batches is
\* decided, and nothing else is.
LEMMA CompleteOutcome ==
    ASSUME WInv, WInv', ReturnInv, NEW t \in Writers, pc[t] \in {"build", "relock"},
           NEW n \in 1 .. Len(writers_), NEW st \in Statuses, NEW s, NEW sig,
           Complete(t, n, st, sig), Return(t, st, s), calls' = calls, req' = req
    PROVE  /\ ReturnInv'
           /\ \A u \in Writers : req[u].batch /\ (\E j \in 1 .. n : writers_[j] = u) =>
                 Outcome(u) = "pending" /\ Outcome(u)' = st
           /\ \A u \in Writers : ~(req[u].batch /\ (\E j \in 1 .. n : writers_[j] = u)) =>
                 Outcome(u)' = Outcome(u)
<1> DEFINE group == {writers_[j] : j \in 1 .. n}
           more == ~req[t].batch /\ st = "ok"
           p == IF more THEN "flush" ELSE "idle"
           r == [op |-> MyOp(t), req |-> req[t], status |-> st, seq |-> s,
                 entered |-> entered[t]]
<1>1. /\ w' = [u \in Writers |-> IF u \in group \ {t}
                                 THEN [w[u] EXCEPT !.done = TRUE, !.status = st] ELSE w[u]]
      /\ pc' = [pc EXCEPT ![t] = p]
      /\ returned' = IF more THEN returned ELSE returned \cup {r}
  BY DEF Complete, Return
<1>2. /\ TypeOK /\ TypeOK' /\ QueueInv /\ pc[t] \in Leading
      /\ pc \in [Writers -> Leading \cup {"idle", "wait", "flush", "flushwait"}]
      /\ \A u \in Writers : w[u] \in [done : BOOLEAN, status : Statuses, seq : Nat]
  BY DEF WInv, TypeOK, Leading
<1>3. /\ writers_ \in Seq(Writers) /\ writers_[1] = t
      /\ \A j \in DOMAIN writers_ : /\ writers_[j] \in Writers
                                     /\ j # 1 => /\ writers_[j] # t /\ pc[writers_[j]] = "wait"
                                                 /\ ~w[writers_[j]].done
  BY <1>2, Leaders, Types
<1>4. /\ 1 \in 1 .. n /\ \A j \in 1 .. n : j \in DOMAIN writers_
  BY <1>3
<1>5. /\ \A u \in Writers \ {t} : pc'[u] = pc[u]
      /\ pc'[t] = p /\ (req[t].batch => p = "idle")
      /\ pc[t] # "idle" /\ pc[t] # "wait"
  BY <1>1, <1>2
<1>6. /\ r.op = MyOp(t) /\ r.status = st
      /\ ~more => p = "idle" /\ returned' = returned \cup {r}
      /\ more => p = "flush" /\ returned' = returned
  BY <1>1
<1> HIDE DEF r, more, p
<1>7. \/ pc'[t] # "idle" /\ returned' = returned
      \/ pc'[t] = "idle" /\ \E x : /\ returned' = returned \cup {x}
                                   /\ x.op = MyOp(t) /\ x.status = st
  <2>1. CASE more
    BY <1>5, <1>6, <2>1
  <2>2. CASE ~more
    BY <1>5, <1>6, <2>2
  <2>3. QED
    BY <2>1, <2>2
<1>8. ReturnInv'
  <2>1. \/ pc'[t] # "idle" /\ returned' = returned
        \/ pc'[t] = "idle" /\ \E x : /\ returned' = returned \cup {x}
                                     /\ x.op = MyOp(t) /\ x.status \in Statuses
    BY <1>7
  <2>2. QED
    BY <1>5, <2>1, ReturnKept
<1>9. returned \subseteq returned'
  BY <1>7
<1>10. ASSUME NEW u \in Writers, req[u].batch, NEW j \in 1 .. n, writers_[j] = u
       PROVE  Outcome(u) = "pending" /\ Outcome(u)' = st
  <2>1. CASE u = t
    <3>1. Outcome(t) = "pending"
      BY <1>2, <1>5, <1>10, <2>1, OutcomeFacts
    <3>2. pc'[t] = "idle" /\ req'[t].batch
      BY <1>5, <1>10, <2>1
    <3>3. PICK x : returned' = returned \cup {x} /\ x.op = MyOp(t) /\ x.status = st
      BY <1>7, <3>2
    <3>4. x \in returned' /\ x.op = MyOp(t)'
      BY <3>3 DEF MyOp
    <3>5. Outcome(t)' = x.status
      BY <1>2, <1>8, <3>2, <3>4, OutcomeAfter
    <3>6. QED
      BY <2>1, <3>1, <3>3, <3>5
  <2>2. CASE u # t
    <3>1. j # 1 /\ pc[u] = "wait" /\ ~w[u].done
      BY <1>3, <1>4, <1>10, <2>2
    <3>2. pc'[u] = "wait" /\ w'[u] = [w[u] EXCEPT !.done = TRUE, !.status = st]
      BY <1>1, <1>5, <1>10, <2>2, <3>1
    <3>3. w'[u].done /\ w'[u].status = st
      BY <1>2, <3>2
    <3>4. Outcome(u) = "pending"
      BY <1>2, <1>10, <3>1, OutcomeFacts
    <3>5. Outcome(u)' = w'[u].status
      BY <1>2, <1>8, <1>10, <3>2, <3>3, OutcomeAfter
    <3>6. QED
      BY <3>3, <3>4, <3>5
  <2>3. QED
    BY <2>1, <2>2
<1>11. ASSUME NEW u \in Writers, ~req[u].batch
       PROVE  Outcome(u)' = Outcome(u)
  BY <1>2, <1>8, <1>11, OutcomeFacts, OutcomeAfter
<1>12. ASSUME NEW u \in Writers, ~\E j \in 1 .. n : writers_[j] = u
       PROVE  Outcome(u)' = Outcome(u)
  <2>1. u # t
    BY <1>3, <1>4, <1>12
  <2>2. w'[u] = w[u] /\ pc'[u] = pc[u]
    BY <1>1, <1>5, <1>12, <2>1
  <2>3. QED
    BY <1>2, <1>8, <1>9, <2>2, OutcomeKept
<1>13. QED
  BY <1>8, <1>10, <1>11, <1>12

\* The leader leaves alone: its batch, if there is one, fails.
LEMMA FinishAloneSimulation ==
    ASSUME RInv, WInv', NEW t \in Writers, FinishAlone(t)
    PROVE  RInv' /\ [Atomic!Next]_(Atomic!vars)
<1>a. PICK st : st = loc[t].status
  OBVIOUS
<1>1. /\ pc[t] = "build" /\ (st = "error" \/ ~req[t].batch)
      /\ Complete(t, 1, st, signalled) /\ Return(t, st, 0)
      /\ loc' = [loc EXCEPT ![t] = NoLocals] /\ calls' = calls /\ req' = req
      /\ Stored' = Stored /\ last_sequence' = last_sequence
  BY <1>a DEF FinishAlone, dataVars, Stored
<1>2. WInv /\ TypeOK /\ QueueInv /\ PublishInv /\ ReturnInv /\ pc[t] \in Leading /\ pc[t] \notin Committing
      /\ pc \in [Writers -> Leading \cup {"idle", "wait", "flush", "flushwait"}]
      /\ loc \in [Writers -> LocalsType] /\ st \in Statuses
  BY <1>a, <1>1, Types DEF RInv, WInv, TypeOK, Leading, Committing
<1>3. /\ writers_ \in Seq(Writers) /\ writers_[1] = t /\ writers_ # <<>>
      /\ \A u \in Writers \ {t} : pc[u] \notin Leading
  BY <1>2, Leaders, Types
<1>4. 1 \in 1 .. Len(writers_) /\ \A j \in 1 .. 1 : j = 1
  BY <1>3
<1>5. /\ ReturnInv'
      /\ req[t].batch => Outcome(t) = "pending" /\ Outcome(t)' = st
      /\ \A u \in Writers : ~(req[u].batch /\ u = t) => Outcome(u)' = Outcome(u)
  <2>1. /\ ReturnInv'
        /\ \A u \in Writers : req[u].batch /\ (\E j \in 1 .. 1 : writers_[j] = u) =>
              Outcome(u) = "pending" /\ Outcome(u)' = st
        /\ \A u \in Writers : ~(req[u].batch /\ (\E j \in 1 .. 1 : writers_[j] = u)) =>
              Outcome(u)' = Outcome(u)
    BY <1>1, <1>2, <1>4, CompleteOutcome
  <2>2. \A u : (\E j \in 1 .. 1 : writers_[j] = u) <=> u = t
    BY <1>3, <1>4
  <2>3. QED
    BY <2>1, <2>2
<1>6. PublishInv'
  <2>1. pc'[t] \in {"flush", "idle"} /\ \A u \in Writers \ {t} : pc'[u] = pc[u]
    BY <1>1, <1>2 DEF Return
  <2>2. \A u \in Writers : pc[u] \notin Committing /\ pc'[u] \notin Committing
    BY <1>2, <1>3, <2>1 DEF Leading, Committing
  <2>3. QED
    BY <1>1, <1>2, <2>2, PublishKept
<1>7. {e \in Stored : e.seq <= last_sequence}' = {e \in Stored : e.seq <= last_sequence}
  BY <1>1
<1>8. CASE ~req[t].batch
  <2>1. \A u \in Writers : Outcome(u)' = Outcome(u)
    BY <1>5, <1>8
  <2>2. UNCHANGED Atomic!vars
    BY <1>1, <1>7, <2>1, Unnoticed
  <2>3. QED
    BY <1>5, <1>6, <2>2 DEF RInv
<1>9. CASE req[t].batch
  <2> DEFINE outcome == [u \in Writers |-> Outcome(u)]
             count == [u \in Writers |-> req[u].count]
  <2>1. outcome' = [u \in Writers |-> IF u \in {t} THEN "error" ELSE outcome[u]]
    <3>1. st = "error"
      BY <1>1, <1>9
    <3>2. \A u \in Writers : Outcome(u)' = IF u \in {t} THEN "error" ELSE outcome[u]
      BY <1>5, <1>9, <3>1
    <3>3. QED
      BY <3>2
  <2>2. count' = count
    BY <1>1
  <2>3. Atomic!Fail({t})
    BY <1>1, <1>7, <2>1, <2>2 DEF Atomic!Fail
  <2>4. {t} \in (SUBSET Atomic!Pending) \ {{}}
    BY <1>5, <1>9 DEF Atomic!Pending
  <2>5. Atomic!Next
    BY <2>3, <2>4 DEF Atomic!Next
  <2>6. QED
    BY <1>5, <1>6, <2>5 DEF RInv
<1>10. QED
  BY <1>8, <1>9

\* The writers of q that have a batch, G, are given ranges of numbers, one after the other
\* and without a gap, from lo on; c and F count the entries.
Ranges(base, G, n, lo, F, c, q) ==
    /\ \A j \in 1 .. n : c[q[j]] > 0 => base[q[j]] = lo + F[j - 1]
    /\ \A u \in G : base[u] + c[u] <= lo + F[n]
    /\ \A u, v \in G : u # v => base[u] + c[u] <= base[v] \/ base[v] + c[v] <= base[u]
    /\ \A s \in lo + 1 .. lo + F[n] : \E u \in G : base[u] < s /\ s <= base[u] + c[u]

\* The batches of the first n writers q fill the numbers above lo without a gap, F counting
\* their entries: the writers with a batch, G, can be given the ranges AtomicWrites asks for.
LEMMA RangesFill ==
    ASSUME NEW n \in Nat, NEW lo \in Nat, NEW F \in [Nat -> Nat], NEW c \in [Writers -> Nat],
           NEW q, \A j \in 1 .. n : q[j] \in Writers,
           \A j, k \in 1 .. n : q[j] = q[k] => j = k,
           F[0] = 0, \A k \in 1 .. n : F[k] = F[k - 1] + c[q[k]],
           \A j, k \in Nat : j <= k => F[j] <= F[k],
           NEW G, \A u : u \in G <=> u \in Writers /\ c[u] > 0 /\ \E j \in 1 .. n : q[j] = u
    PROVE  \E base \in [G -> lo .. lo + F[n]] : Ranges(base, G, n, lo, F, c, q)
<1> DEFINE pos(u) == CHOOSE j \in 1 .. n : q[j] = u
           base == [u \in G |-> lo + F[pos(u) - 1]]
<1>1. \A u \in G : pos(u) \in 1 .. n /\ q[pos(u)] = u
  OBVIOUS
<1>2. ASSUME NEW j \in 1 .. n
      PROVE  /\ j - 1 \in Nat /\ j \in Nat /\ j <= n /\ F[j - 1] \in Nat /\ F[j] \in Nat
             /\ c[q[j]] \in Nat /\ F[j] = F[j - 1] + c[q[j]] /\ F[j] <= F[n] /\ F[n] \in Nat
  <2>1. j - 1 \in Nat /\ j \in Nat /\ j <= n
    OBVIOUS
  <2>2. q[j] \in Writers
    OBVIOUS
  <2>3. QED
    BY <2>1, <2>2
<1> HIDE DEF pos
<1>3. \A u \in G : /\ base[u] = lo + F[pos(u) - 1] /\ base[u] \in Nat /\ lo <= base[u]
                   /\ base[u] + c[u] = lo + F[pos(u)] /\ lo + F[pos(u)] <= lo + F[n]
                   /\ c[u] \in Nat /\ pos(u) \in Nat
  <2> TAKE u \in G
  <2>1. pos(u) \in 1 .. n /\ q[pos(u)] = u
    BY <1>1
  <2>2. base[u] = lo + F[pos(u) - 1]
    OBVIOUS
  <2> HIDE DEF base
  <2>3. QED
    BY <1>2, <2>1, <2>2
<1>4. base \in [G -> lo .. lo + F[n]]
  <2>1. F[n] \in Nat
    OBVIOUS
  <2>2. \A u \in G : lo + F[pos(u) - 1] \in lo .. lo + F[n]
    <3> TAKE u \in G
    <3>0. pos(u) \in 1 .. n
      BY <1>1
    <3>1. /\ F[pos(u) - 1] \in Nat /\ F[pos(u)] \in Nat /\ c[q[pos(u)]] \in Nat
          /\ F[pos(u)] = F[pos(u) - 1] + c[q[pos(u)]] /\ F[pos(u)] <= F[n]
      BY <1>2, <3>0
    <3>2. F[pos(u) - 1] <= F[n]
      BY <2>1, <3>1
    <3>3. QED
      BY <2>1, <3>1, <3>2
  <2>3. QED
    BY <2>2
<1>5. ASSUME NEW j \in 1 .. n, c[q[j]] > 0
      PROVE  base[q[j]] = lo + F[j - 1] /\ q[j] \in G
  <2>1. q[j] \in G
    BY <1>5
  <2>2. pos(q[j]) = j
    BY <1>1, <2>1
  <2>3. QED
    BY <1>3, <2>1, <2>2
<1> HIDE DEF base
<1>6. ASSUME NEW u \in G, NEW v \in G, u # v
      PROVE  base[u] + c[u] <= base[v] \/ base[v] + c[v] <= base[u]
  <2> DEFINE a == pos(u)
             b == pos(v)
  <2>1. a \in 1 .. n /\ b \in 1 .. n /\ a # b
    BY <1>1, <1>6
  <2>2. base[u] = lo + F[a - 1] /\ base[v] = lo + F[b - 1] /\ base[u] + c[u] = lo + F[a]
        /\ base[v] + c[v] = lo + F[b]
    BY <1>3
  <2> HIDE DEF a, b
  <2>3. /\ a - 1 \in Nat /\ a \in Nat /\ b - 1 \in Nat /\ b \in Nat
        /\ F[a] \in Nat /\ F[b] \in Nat /\ F[a - 1] \in Nat /\ F[b - 1] \in Nat
    BY <1>2, <2>1
  <2>4. a <= b - 1 \/ b <= a - 1
    BY <2>1, <2>3
  <2>5. F[a] <= F[b - 1] \/ F[b] <= F[a - 1]
    BY <2>3, <2>4
  <2>6. QED
    BY <2>2, <2>3, <2>5
<1>7. ASSUME NEW s \in lo + 1 .. lo + F[n]
      PROVE  \E u \in G : base[u] < s /\ s <= base[u] + c[u]
  <2> DEFINE T == {k \in Nat : k <= n /\ s <= lo + F[k]}
  <2>0. F[n] \in Nat /\ s \in Nat /\ lo < s /\ s <= lo + F[n]
    <3>1. F[n] \in Nat
      OBVIOUS
    <3>2. QED
      BY <3>1
  <2>1. n \in T /\ T \in SUBSET Nat
    BY <2>0
  <2>2. PICK k \in T : \A y \in T : k <= y
    BY <2>1, LeastNat
  <2>3. k \in Nat /\ k <= n /\ s <= lo + F[k]
    BY <2>2
  <2>4. k # 0
    BY <2>0, <2>3
  <2>5. k \in 1 .. n /\ k - 1 \in Nat /\ k - 1 <= n /\ ~(k <= k - 1)
    BY <2>3, <2>4
  <2>6. ~(s <= lo + F[k - 1])
    BY <2>2, <2>5
  <2>7. /\ F[k - 1] \in Nat /\ F[k] \in Nat /\ c[q[k]] \in Nat /\ F[k] = F[k - 1] + c[q[k]]
    BY <1>2, <2>5
  <2> HIDE DEF T
  <2>8. lo + F[k - 1] < s /\ s <= (lo + F[k - 1]) + c[q[k]] /\ c[q[k]] > 0
    BY <2>0, <2>3, <2>6, <2>7
  <2>9. base[q[k]] = lo + F[k - 1] /\ q[k] \in G
    BY <1>5, <2>5, <2>8
  <2>10. QED
    BY <2>8, <2>9
<1>8. \A u \in G : base[u] + c[u] <= lo + F[n]
  BY <1>3
<1>9. QED
  BY <1>4, <1>5, <1>6, <1>7, <1>8 DEF Ranges

\* The leader publishes: the batches of its group take effect together, or fail together.
LEMMA FinishSimulation ==
    ASSUME RInv, WInv', NEW t \in Writers, Finish(t)
    PROVE  RInv' /\ Atomic!Next
<1>a. PICK st, g, lo, hi : st = loc[t].status /\ g = loc[t].group /\ lo = last_sequence /\ hi = loc[t].seq
  OBVIOUS
<1>b. PICK n : n = Len(g)
  OBVIOUS
<1>1. /\ pc[t] = "relock" /\ last_sequence' = hi
      /\ Complete(t, n, st, RecordBackgroundError(loc[t].sync_error, signalled))
      /\ Return(t, st, hi)
      /\ loc' = [loc EXCEPT ![t] = NoLocals] /\ calls' = calls /\ req' = req
      /\ Stored' = Stored
  BY <1>a, <1>b DEF Finish, Stored
<1>2. /\ WInv /\ TypeOK /\ QueueInv /\ PublishInv /\ ReturnInv
      /\ pc[t] \in Leading /\ pc[t] \in Committing /\ pc[t] \notin Writing
      /\ pc \in [Writers -> Leading \cup {"idle", "wait", "flush", "flushwait"}]
  BY <1>1 DEF RInv, WInv, TypeOK, Leading, Committing, Writing
<1>3. /\ g \in Seq(Writers) /\ g # <<>> /\ n <= Len(writers_)
      /\ \A j \in 1 .. n : g[j] = writers_[j]
      /\ \A u \in Writers \ {t} : pc[u] \notin Committing /\ pc[u] \notin Writing
      /\ req[t].batch
  <2>1. /\ loc[t].group # <<>> /\ Len(loc[t].group) <= Len(writers_)
        /\ \A j \in 1 .. Len(loc[t].group) : loc[t].group[j] = writers_[j]
        /\ \A u \in Writers \ {t} : pc[u] \notin Committing /\ pc[u] \notin Writing
        /\ req[t].batch
    BY <1>2, UnlockedFacts
  <2>2. loc[t].group \in Seq(Writers)
    BY <1>2, Types
  <2>3. QED
    BY <1>a, <1>b, <2>1, <2>2
<1>4. /\ writers_ \in Seq(Writers) /\ writers_[1] = t /\ st \in Statuses /\ lo \in Nat /\ hi \in Nat
      /\ \A i, j \in DOMAIN writers_ : writers_[i] = writers_[j] => i = j
      /\ \A u \in Writers : req[u].count \in Nat /\ (req[u].batch <=> req[u].count > 0)
      /\ \A u \in Writers \ {t} : pc[u] \notin Leading
  BY <1>a, <1>2, Types, Leaders DEF QueueInv
<1>e. lo \in Nat /\ hi \in Nat /\ lo = last_sequence
  BY <1>a, <1>4
<1>5. /\ n \in 1 .. Len(writers_) /\ n \in Nat /\ 1 \in 1 .. n
      /\ \A j \in 1 .. n : j \in DOMAIN writers_ /\ g[j] \in Writers
  <2>1. n \in Nat /\ n >= 1 /\ Len(writers_) \in Nat
    BY <1>b, <1>3, <1>4
  <2>2. n \in 1 .. Len(writers_) /\ 1 \in 1 .. n
    BY <1>3, <2>1
  <2>3. \A j \in 1 .. n : j \in 1 .. Len(writers_) /\ j \in 1 .. Len(g)
    BY <1>b, <2>1, <2>2
  <2>4. QED
    BY <1>3, <1>4, <2>1, <2>2, <2>3
<1>6. /\ ReturnInv'
      /\ \A u \in Writers : req[u].batch /\ (\E j \in 1 .. n : writers_[j] = u) =>
            Outcome(u) = "pending" /\ Outcome(u)' = st
      /\ \A u \in Writers : ~(req[u].batch /\ (\E j \in 1 .. n : writers_[j] = u)) =>
            Outcome(u)' = Outcome(u)
  BY <1>1, <1>2, <1>4, <1>5, CompleteOutcome
<1>c. PICK G : \A u : u \in G <=> u \in Writers /\ req[u].count > 0 /\ \E j \in 1 .. n : g[j] = u
  <2> DEFINE H == {u \in Writers : req[u].count > 0 /\ \E j \in 1 .. n : g[j] = u}
  <2>1. \A u : u \in H <=> u \in Writers /\ req[u].count > 0 /\ \E j \in 1 .. n : g[j] = u
    OBVIOUS
  <2> HIDE DEF H
  <2>2. QED
    BY <2>1
<1>7. /\ t \in G /\ G \subseteq Writers
      /\ \A u \in G : Outcome(u) = "pending" /\ Outcome(u)' = st
      /\ \A u \in Writers \ G : Outcome(u)' = Outcome(u)
  <2>1. g[1] = t
    BY <1>3, <1>4, <1>5
  <2>2. t \in G
    BY <1>c, <1>3, <1>4, <1>5, <2>1
  <2>3. \A u \in Writers : u \in G <=> req[u].batch /\ \E j \in 1 .. n : writers_[j] = u
    BY <1>c, <1>3, <1>4
  <2>4. QED
    BY <1>c, <1>6, <2>2, <2>3
<1>8. PICK F \in [Nat -> Nat] :
        /\ F[0] = 0 /\ \A k \in 1 .. n : F[k] = F[k - 1] + req[g[k]].count
        /\ \A j, k \in Nat : j <= k => F[j] <= F[k]
        /\ hi = lo + F[n]
        /\ Publishing(t) =>
             \A e : e \in Fresh <=>
                 \E j \in 1 .. n, i \in Nat :
                     /\ i \in 1 .. req[g[j]].count
                     /\ e = [op |-> MyOp(g[j]), i |-> i, seq |-> lo + F[j - 1] + i]
  <2>1. PICK F \in [Nat -> Nat] : Numbers(t, F)
    BY <1>2 DEF PublishInv
  <2>2. /\ F[0] = 0 /\ \A k \in 1 .. n : F[k] = F[k - 1] + req[g[k]].count
        /\ \A j, k \in Nat : j <= k => F[j] <= F[k]
        /\ hi = lo + F[n]
        /\ Publishing(t) =>
             \A e : e \in Fresh <=>
                 \E j \in 1 .. n, i \in Nat :
                     /\ i \in 1 .. req[g[j]].count
                     /\ e = [op |-> MyOp(g[j]), i |-> i, seq |-> lo + F[j - 1] + i]
    BY <1>a, <1>b, <2>1 DEF Numbers
  <2>3. QED
    BY <2>2, Zenon
<1>d. PICK c \in [Writers -> Nat] : c = [u \in Writers |-> req[u].count]
  BY <1>4
<1>9. PICK base \in [G -> lo .. hi] :
        /\ \A j \in 1 .. n : c[g[j]] > 0 => base[g[j]] = lo + F[j - 1]
        /\ \A u \in G : base[u] + c[u] <= hi
        /\ \A u, v \in G : u # v => \/ base[u] + c[u] <= base[v]
                                    \/ base[v] + c[v] <= base[u]
        /\ \A s \in lo + 1 .. hi : \E u \in G : base[u] < s /\ s <= base[u] + c[u]
  <2>1. \A j, k \in 1 .. n : g[j] = g[k] => j = k
    BY <1>3, <1>4, <1>5
  <2>2. \A k \in 1 .. n : F[k] = F[k - 1] + c[g[k]]
    BY <1>d, <1>5, <1>8
  <2>3. \A u : u \in G <=> u \in Writers /\ c[u] > 0 /\ \E j \in 1 .. n : g[j] = u
    BY <1>c, <1>d
  <2>4. /\ n \in Nat /\ lo \in Nat /\ \A j \in 1 .. n : g[j] \in Writers
        /\ F[0] = 0 /\ (\A j, k \in Nat : j <= k => F[j] <= F[k]) /\ hi = lo + F[n]
    BY <1>4, <1>5, <1>8
  <2>5. \E base \in [G -> lo .. lo + F[n]] : Ranges(base, G, n, lo, F, c, g)
    BY <2>1, <2>2, <2>3, <2>4, RangesFill
  <2>6. QED
    BY <2>4, <2>5 DEF Ranges
<1> DEFINE outcome == [u \in Writers |-> Outcome(u)]
           count == [u \in Writers |-> req[u].count]
           data == {e \in Stored : e.seq <= last_sequence}
<1>10. Atomic!Fills(G, base)
  <2>1. last_sequence' = hi /\ last_sequence = lo /\ \A u \in G : count[u] = c[u]
    BY <1>a, <1>d, <1>1, <1>7
  <2>2. /\ \A u \in G : base[u] + count[u] <= last_sequence'
        /\ \A u, v \in G : u # v => \/ base[u] + count[u] <= base[v]
                                    \/ base[v] + count[v] <= base[u]
        /\ \A s \in last_sequence + 1 .. last_sequence' :
              \E u \in G : base[u] < s /\ s <= base[u] + count[u]
    <3> HIDE DEF count
    <3>1. QED
      BY <1>9, <2>1
  <2>3. QED
    BY <2>2 DEF Atomic!Fills
<1>11. count' = count
  BY <1>1
<1>12. outcome' = [u \in Writers |-> IF u \in G THEN st ELSE outcome[u]]
  <2>1. \A u \in Writers : Outcome(u)' = IF u \in G THEN st ELSE outcome[u]
    BY <1>7
  <2>2. QED
    BY <2>1
<1>13. Pend = {} /\ \A e \in Stored : e.seq \in Nat
  <2>1. \A u \in Writers : pc[u] \notin Writing
    BY <1>2, <1>3
  <2>2. QED
    BY <1>2, <2>1 DEF Pend, WInv, TypeOK, Stored, EntryType
<1>14. \A e : e \in Fresh <=> e \in Stored /\ e.seq > lo
  BY <1>a, <1>13 DEF Fresh
<1>15. \A e \in Stored : e.seq <= hi
  <2> TAKE e \in Stored
  <2>1. CASE e.seq > last_sequence
    <3>1. PICK u \in Writers : pc[u] \in {"insert", "relock"} /\ e.seq <= loc[u].seq
      BY <1>2, <2>1 DEF WInv, SeqInv, SequencesDistinct
    <3>2. u = t
      BY <1>3, <3>1 DEF Committing
    <3>3. QED
      BY <1>a, <3>1, <3>2
  <2>2. CASE ~(e.seq > last_sequence)
    <3>1. lo <= hi
      BY <1>a, <1>2 DEF WInv, SeqInv
    <3>2. e.seq \in Nat /\ ~(e.seq > lo)
      BY <1>e, <1>13, <2>2
    <3>3. QED
      BY <1>e, <3>1, <3>2
  <2>3. QED
    BY <2>1, <2>2
<1>16. data' = Stored
  BY <1>1, <1>15
<1>17. \A e : e \in Stored <=> e \in data \/ e \in Fresh
  <2>1. \A e \in Stored : e.seq \in Nat
    BY <1>13
  <2>2. \A e \in Stored : e.seq > lo \/ e.seq <= last_sequence
    BY <1>e, <2>1
  <2>3. QED
    BY <1>14, <2>2
<1>18. PublishInv'
  <2>1. \A u \in Writers : pc'[u] \notin Leading
    <3>1. pc'[t] \in {"flush", "idle"} /\ \A u \in Writers \ {t} : pc'[u] = pc[u]
      BY <1>1, <1>2 DEF Return
    <3>2. QED
      BY <1>4, <3>1 DEF Leading
  <2>2. \A u \in Writers : pc'[u] \notin Committing /\ pc'[u] \notin Writing
    BY <2>1 DEF Leading, Committing, Writing
  <2>3. Pend' = {}
    BY <2>2 DEF Pend
  <2>4. Fresh' = {}
    <3>1. \A e \in Stored : e.seq \in Nat
      BY <1>13
    <3>2. \A e \in Stored : ~(e.seq > hi)
      BY <1>e, <1>15, <3>1
    <3>3. QED
      BY <1>1, <2>3, <3>2 DEF Fresh
  <2>5. QED
    BY <2>2, <2>4 DEF PublishInv
<1>19. G \in (SUBSET Atomic!Pending) \ {{}}
  <2>1. G \subseteq Atomic!Pending
    BY <1>7 DEF Atomic!Pending
  <2>2. QED
    BY <1>7, <2>1
<1>20. base \in [G -> last_sequence .. last_sequence']
  BY <1>a, <1>1, <1>9
<1> HIDE DEF outcome, count, data
<1>21. CASE st = "ok"
  <2>1. Publishing(t)
    BY <1>a, <1>1, <1>21 DEF Publishing
  <2>2. ASSUME NEW e
        PROVE  e \in Fresh <=> e \in UNION {Atomic!Batch(u, base[u]) : u \in G}
    <3> DEFINE B(u) == Atomic!Batch(u, base[u])
    <3>1. e \in UNION {B(u) : u \in G} <=> \E u \in G : e \in B(u)
      <4> HIDE DEF B
      <4>1. QED
        OBVIOUS
    <3>2. ASSUME NEW u \in G
          PROVE  e \in B(u) <=> \E i \in 1 .. c[u] :
                     e = [op |-> <<u, calls[u]>>, i |-> i, seq |-> base[u] + i]
      <4>1. u \in Writers /\ c[u] = req[u].count
        BY <1>d, <1>7
      <4>2. B(u) = {[op |-> <<u, calls[u]>>, i |-> i, seq |-> base[u] + i] : i \in 1 .. c[u]}
        BY <4>1 DEF Atomic!Batch
      <4> HIDE DEF B
      <4>3. QED
        BY <4>2
    <3> HIDE DEF B
    <3>3. ASSUME e \in Fresh
          PROVE  \E u \in G : e \in B(u)
      <4>1. PICK j \in 1 .. n, i \in Nat :
              /\ i \in 1 .. req[g[j]].count
              /\ e = [op |-> MyOp(g[j]), i |-> i, seq |-> lo + F[j - 1] + i]
        BY <1>8, <2>1, <3>3
      <4>2. g[j] \in Writers /\ c[g[j]] = req[g[j]].count /\ c[g[j]] > 0 /\ i \in 1 .. c[g[j]]
        <5>1. g[j] \in Writers /\ c[g[j]] = req[g[j]].count /\ c[g[j]] \in Nat
          BY <1>d, <1>5
        <5>2. \A m \in Nat : i \in 1 .. m => m > 0
          OBVIOUS
        <5>3. QED
          BY <4>1, <5>1, <5>2
      <4>3. g[j] \in G /\ base[g[j]] = lo + F[j - 1]
        BY <1>c, <1>9, <4>2
      <4>4. e = [op |-> <<g[j], calls[g[j]]>>, i |-> i, seq |-> base[g[j]] + i]
        BY <4>1, <4>3 DEF MyOp
      <4>5. e \in B(g[j])
        BY <3>2, <4>2, <4>3, <4>4
      <4>6. QED
        BY <4>3, <4>5
    <3>4. ASSUME NEW u \in G, e \in B(u)
          PROVE  e \in Fresh
      <4>1. PICK i \in 1 .. c[u] : e = [op |-> <<u, calls[u]>>, i |-> i, seq |-> base[u] + i]
        BY <3>2, <3>4
      <4>2. PICK j \in 1 .. n : g[j] = u
        BY <1>c
      <4>3. u \in Writers /\ c[u] = req[g[j]].count /\ c[u] \in Nat /\ c[g[j]] > 0
        BY <1>c, <1>d, <4>2
      <4>4. base[u] = lo + F[j - 1]
        BY <1>9, <4>2, <4>3
      <4>5. e = [op |-> MyOp(g[j]), i |-> i, seq |-> lo + F[j - 1] + i]
        BY <4>1, <4>2, <4>4 DEF MyOp
      <4>6. i \in Nat /\ i \in 1 .. req[g[j]].count
        BY <4>3
      <4>7. QED
        BY <1>8, <2>1, <4>5, <4>6
    <3>5. QED
      BY <3>1, <3>3, <3>4 DEF B
  <2>3. data' = data \cup UNION {Atomic!Batch(u, base[u]) : u \in G}
    <3>1. \A e : e \in data' <=> e \in data \/ e \in UNION {Atomic!Batch(u, base[u]) : u \in G}
      BY <1>16, <1>17, <2>2
    <3> HIDE DEF data
    <3>2. QED
      BY <3>1
  <2>4. Atomic!Commit(G)
    <3>1. outcome' = [u \in Writers |-> IF u \in G THEN "ok" ELSE outcome[u]]
      BY <1>12, <1>21
    <3>2. \E b \in [G -> last_sequence .. last_sequence'] :
              /\ Atomic!Fills(G, b)
              /\ data' = data \cup UNION {Atomic!Batch(u, b[u]) : u \in G}
      BY <1>10, <1>20, <2>3
    <3>3. QED
      BY <1>1, <1>11, <3>1, <3>2 DEF Atomic!Commit, outcome, count, data
  <2>5. QED
    BY <1>6, <1>18, <1>19, <2>4 DEF RInv, Atomic!Next
<1>22. CASE st = "error"
  <2>1. \A u \in Writers : ~Publishing(u)
    BY <1>a, <1>1, <1>2, <1>3, <1>22 DEF Publishing, Committing
  <2>2. Fresh = {}
    BY <1>2, <2>1 DEF PublishInv
  <2>3. data' = data
    BY <1>16, <1>17, <2>2
  <2>4. Atomic!Fail(G)
    <3>1. outcome' = [u \in Writers |-> IF u \in G THEN "error" ELSE outcome[u]]
      BY <1>12, <1>22
    <3>2. \E b \in [G -> last_sequence .. last_sequence'] : Atomic!Fills(G, b)
      BY <1>10, <1>20
    <3>3. QED
      BY <1>1, <1>11, <2>3, <3>1, <3>2 DEF Atomic!Fail, outcome, count, data
  <2>5. QED
    BY <1>6, <1>18, <1>19, <2>4 DEF RInv, Atomic!Next
<1>23. QED
  BY <1>4, <1>21, <1>22 DEF Statuses

\* Every step of the write path is a step of AtomicWrites, or no step of it.
LEMMA Simulation == RInv /\ [Next]_vars => RInv' /\ [Atomic!Next]_(Atomic!vars)
<1> SUFFICES ASSUME RInv, [Next]_vars
             PROVE  RInv' /\ [Atomic!Next]_(Atomic!vars)
  OBVIOUS
<1>1. WInv /\ WInv'
  BY NextInv DEF RInv
<1>2. CASE UNCHANGED vars
  <2>1. /\ pc' = pc /\ calls' = calls /\ req' = req /\ loc' = loc /\ w' = w /\ returned' = returned
        /\ last_sequence' = last_sequence /\ Stored' = Stored
    BY <1>2 DEF vars, clientVars, dataVars, Stored
  <2>2. QED
    BY <1>1, <2>1, AsideSimulation
<1>3. ASSUME NEW t \in Writers, NEW r \in Requests[t], Enter(t, r)
      PROVE  RInv' /\ [Atomic!Next]_(Atomic!vars)
  <2>1. RInv' /\ Atomic!Call(t)
    BY <1>1, <1>3, EnterSimulation
  <2>2. QED
    BY <2>1 DEF Atomic!Next
<1>4. ASSUME NEW t \in Writers, Client(t)
      PROVE  RInv' /\ [Atomic!Next]_(Atomic!vars)
  BY <1>1, <1>4, WakeDoneSimulation, WakeLeaderSimulation, RoomSimulation, BuildSimulation,
     LogSimulation, InsertSimulation, FinishSimulation, FinishAloneSimulation,
     WaitForFlushSimulation DEF Client
<1>5. CASE Background
  BY <1>1, <1>5, BackgroundSimulation
<1>6. CASE Finished
  BY <1>2, <1>6 DEF Finished
<1>7. QED
  BY <1>2, <1>3, <1>4, <1>5, <1>6 DEF Next

\* Group commit implements atomic writes: each batch takes effect as a whole at the instant
\* its leader publishes LastSequence, or never if its call fails.
THEOREM WritesAreAtomic == Spec => ImplementsAtomicWrites
<1>1. Init => RInv /\ Atomic!Init
  BY InitInv, AtomicInit DEF RInv
<1>2. QED
  BY <1>1, Simulation, PTL DEF Spec, ImplementsAtomicWrites, Atomic!Spec

-----------------------------------------------------------------------------
(* The numbers SUWrite reports *)

\* What the write benchmarks ask for: batches of one entry, and nothing fails.
SingleEntries == MaxFaults = 0 /\ \A r \in AllRequests : r.batch /\ r.count = 1

\* No failure, no error.
NoFailInv == ~bg_error_ /\ \A t \in Writers : loc[t].status = "ok" /\ ~loc[t].sync_error

\* While a group is committed its j-th writer, the leader apart, has the j - 1st new number.
FollowerInv ==
    \A t \in Writers : pc[t] \in Committing =>
        \A j \in 2 .. Len(loc[t].group) : w[loc[t].group[j]].seq = last_sequence + j - 1

\* The inductive invariant of the reported numbers.
UInv == RInv /\ NoFailInv /\ FollowerInv

\* Clients whose last call has its answer, whether they have picked it up or not, and the
\* number in it.
Decided == {u \in Writers : calls[u] >= 1 /\ (pc[u] = "idle" \/ (pc[u] = "wait" /\ w[u].done))}
Number(u) == IF pc[u] = "wait" THEN w[u].seq ELSE (CHOOSE r \in returned : r.op = MyOp(u)).seq

\* A step that decides the calls of the clients G, none if it is empty: they get the numbers
\* that LastSequence gains, each one of them.
Publishes(G) ==
    /\ calls' = calls /\ G \subseteq Writers /\ Decided' = Decided \cup G
    /\ \A u \in G : pc[u] # "idle" /\ u \notin Decided
    /\ \A u \in Decided : Number(u)' = Number(u)
    /\ last_sequence' \in Nat /\ last_sequence <= last_sequence'
    /\ \A u \in G : Number(u)' \in last_sequence + 1 .. last_sequence'
    /\ \A u, v \in G : Number(u)' = Number(v)' => u = v
    /\ \A n \in last_sequence + 1 .. last_sequence' : \E u \in G : Number(u)' = n

\* The environment never fails when no failure is allowed.
LEMMA NeverFails ==
    ASSUME SingleEntries, TypeOK
    PROVE  ~EnvFails
<1>1. faults \in 0 .. 0
  BY DEF SingleEntries, TypeOK
<1>2. QED
  BY <1>1 DEF EnvFails, SingleEntries

\* A client inside a call has a batch of one entry.
LEMMA OneEntry ==
    ASSUME SingleEntries, WInv, NEW t \in Writers, pc[t] # "idle"
    PROVE  req[t].batch /\ req[t].count = 1 /\ pc[t] \notin {"flush", "flushwait"}
<1>1. req[t].batch /\ req[t].count = 1
  BY DEF SingleEntries, WInv, CallInv
<1>2. QED
  BY <1>1 DEF WInv, SyncInv

\* A group publishes as many numbers as it has writers.
LEMMA GroupNumbers ==
    ASSUME SingleEntries, RInv, NEW t \in Writers, pc[t] \in Committing
    PROVE  loc[t].seq = last_sequence + Len(loc[t].group)
<1>a. PICK g, n : g = loc[t].group /\ n = Len(g)
  OBVIOUS
<1>0. /\ WInv /\ TypeOK /\ QueueInv /\ g \in Seq(Writers) /\ writers_ \in Seq(Writers)
      /\ n <= Len(writers_) /\ \A j \in 1 .. n : g[j] = writers_[j]
  <2>1. WInv /\ TypeOK /\ QueueInv
    BY DEF RInv, WInv
  <2>2. QED
    BY <1>a, <2>1, UnlockedFacts, Types
<1>b. g \in Seq(Writers) /\ writers_ \in Seq(Writers)
  BY <1>0
<1>4. n \in Nat /\ n = Len(g) /\ Len(writers_) \in Nat
  <2>1. Len(g) \in Nat /\ Len(writers_) \in Nat
    BY <1>b
  <2>2. QED
    BY <1>a, <2>1
<1>1. PICK F \in [Nat -> Nat] : Numbers(t, F)
  BY DEF RInv, PublishInv
<1>2. /\ F[0] = 0 /\ \A k \in 1 .. n : F[k] = F[k - 1] + req[g[k]].count
      /\ loc[t].seq = last_sequence + F[n]
  BY <1>a, <1>1 DEF Numbers
<1>3. ASSUME NEW k \in 1 .. n
      PROVE  req[g[k]].count = 1
  <2>1. k \in DOMAIN writers_ /\ writers_[k] = g[k] /\ g[k] \in Writers
    <3>1. k \in 1 .. Len(g) /\ k \in 1 .. Len(writers_) /\ writers_[k] = g[k]
      BY <1>0, <1>4
    <3>2. k \in DOMAIN writers_
      BY <1>b, <3>1
    <3>3. writers_[k] \in Writers
      BY <1>b, <3>1
    <3>4. QED
      BY <3>1, <3>2, <3>3
  <2>2. InQueue(g[k])
    BY <2>1 DEF InQueue
  <2>3. pc[g[k]] # "idle"
    BY <1>0, <2>1, <2>2 DEF QueueInv, Leading
  <2>4. QED
    BY <1>0, <2>1, <2>3, OneEntry
<1>5. F[n] = n
  <2> DEFINE T == {k \in 0 .. n : F[k] # k}
  <2> SUFFICES ASSUME T # {}
               PROVE  FALSE
    <3>1. n \in 0 .. n
      BY <1>4
    <3>2. QED
      BY <3>1
  <2>1. T \in SUBSET Nat
    OBVIOUS
  <2>2. PICK k \in T : \A y \in T : k <= y
    BY <2>1, LeastNat
  <2>3. k \in 0 .. n /\ F[k] # k
    BY <2>2
  <2>4. k # 0
    BY <1>2, <2>3
  <2>5. k \in 1 .. n /\ k - 1 \in 0 .. n /\ ~(k <= k - 1)
    BY <1>4, <2>3, <2>4
  <2>6. F[k - 1] = k - 1
    BY <2>2, <2>5
  <2>7. F[k] = (k - 1) + 1
    BY <1>2, <1>3, <2>5, <2>6
  <2>8. QED
    BY <2>3, <2>5, <2>7
<1>6. QED
  BY <1>a, <1>2, <1>5

\* The answer on record of a client that has returned is where its number is.
LEMMA NumberFacts == ReturnInv => \A u \in Writers : pc[u] = "idle" =>
    \A r \in returned : r.op = MyOp(u) => Number(u) = r.seq
<1> SUFFICES ASSUME ReturnInv, NEW u \in Writers, pc[u] = "idle",
                    NEW r \in returned, r.op = MyOp(u)
             PROVE  Number(u) = r.seq
  OBVIOUS
<1> DEFINE c == CHOOSE s \in returned : s.op = MyOp(u)
<1>1. c \in returned /\ c.op = MyOp(u)
  OBVIOUS
<1>2. c = r
  BY <1>1 DEF ReturnInv
<1>3. Number(u) = c.seq
  BY DEF Number
<1>4. QED
  BY <1>2, <1>3

\* The same after a step.
LEMMA NumberAfter == ReturnInv' => (\A u \in Writers : pc[u] = "idle" =>
    \A r \in returned : r.op = MyOp(u) => Number(u) = r.seq)'
BY NumberFacts, PTL

\* A client that stays where it is has the number it had.
LEMMA NumberKept ==
    ASSUME ReturnInv, ReturnInv', NEW u \in Decided, calls'[u] = calls[u], pc'[u] = pc[u],
           returned \subseteq returned', w'[u].seq = w[u].seq
    PROVE  Number(u)' = Number(u)
<1>1. u \in Writers /\ calls[u] >= 1 /\ pc[u] \in {"idle", "wait"}
  BY DEF Decided
<1>2. CASE pc[u] = "wait"
  BY <1>2 DEF Number
<1>3. CASE pc[u] = "idle"
  <2>1. PICK r \in returned : r.op = MyOp(u)
    BY <1>1, <1>3 DEF ReturnInv
  <2>2. r \in returned' /\ r.op = MyOp(u)'
    BY <2>1 DEF MyOp
  <2>3. Number(u) = r.seq
    BY <1>1, <1>3, <2>1, NumberFacts
  <2>4. Number(u)' = r.seq
    BY <1>1, <1>3, <2>2, NumberAfter
  <2>5. QED
    BY <2>3, <2>4
<1>4. QED
  BY <1>1, <1>2, <1>3

\* A step that neither begins nor decides a call.
LEMMA NothingDecided ==
    ASSUME TypeOK, ReturnInv, ReturnInv', calls' = calls, last_sequence' = last_sequence,
           returned \subseteq returned',
           \A u \in Writers : pc'[u] = "idle" <=> pc[u] = "idle",
           \A u \in Writers : (pc'[u] = "wait" /\ w'[u].done) <=> (pc[u] = "wait" /\ w[u].done),
           \A u \in Decided : w'[u].seq = w[u].seq
    PROVE  Publishes({})
<1>1. Decided' = Decided
  BY DEF Decided
<1>2. \A u \in Decided : pc'[u] = pc[u] /\ calls'[u] = calls[u]
  BY DEF Decided
<1>3. \A u \in Decided : Number(u)' = Number(u)
  BY <1>2, NumberKept
<1>4. last_sequence \in Nat
  BY DEF TypeOK
<1>5. last_sequence + 1 .. last_sequence' = {}
  BY <1>4
<1>6. QED
  BY <1>1, <1>3, <1>4, <1>5 DEF Publishes

\* Nothing fails in any step of a client.
LEMMA NoFailClient ==
    ASSUME SingleEntries, UInv, NEW t \in Writers, Client(t)
    PROVE  NoFailInv'
<1>1. /\ WInv /\ TypeOK /\ ~bg_error_ /\ ~EnvFails /\ loc \in [Writers -> LocalsType]
      /\ \A u \in Writers : loc[u].status = "ok" /\ ~loc[u].sync_error
  BY NeverFails DEF UInv, RInv, WInv, TypeOK, NoFailInv
<1>2. /\ NoLocals.status = "ok" /\ ~NoLocals.sync_error
      /\ \A f, a : [NoLocals EXCEPT !.force = f, !.allow_delay = a].status = "ok"
      /\ \A f, a : ~[NoLocals EXCEPT !.force = f, !.allow_delay = a].sync_error
  BY DEF NoLocals
<1> SUFFICES ~bg_error_' /\ \A u \in Writers : loc'[u].status = "ok" /\ ~loc'[u].sync_error
  BY DEF NoFailInv
<1>3. CASE WakeDone(t) \/ FinishAlone(t) \/ WaitForFlush(t)
  BY <1>1, <1>2, <1>3 DEF WakeDone, FinishAlone, WaitForFlush, bgVars
<1>4. CASE WakeLeader(t)
  BY <1>1, <1>2, <1>4 DEF WakeLeader, bgVars
<1>5. CASE MakeRoomForWrite(t)
  <2>1. bg_error_' = bg_error_
    BY <1>5 DEF MakeRoomForWrite, RoomError, RoomDelay, RoomOk, RoomWait, RoomSwitch,
        RoomSwitchFails, RoomAgain, RoomUnchanged
  <2>2. CASE RoomError(t) \/ RoomSwitchFails(t)
    BY <1>1, <2>2 DEF RoomError, RoomSwitchFails
  <2>3. CASE RoomOk(t) \/ RoomWait(t) \/ RoomAgain(t)
    BY <1>1, <2>1, <2>3 DEF RoomOk, RoomWait, RoomAgain
  <2>4. CASE RoomDelay(t)
    BY <1>1, <2>1, <2>4 DEF RoomDelay, LocalsType
  <2>5. CASE RoomSwitch(t)
    BY <1>1, <2>1, <2>5 DEF RoomSwitch, LocalsType
  <2>6. QED
    BY <1>5, <2>2, <2>3, <2>4, <2>5 DEF MakeRoomForWrite
<1>6. CASE Build(t)
  <2>1. /\ bg_error_' = bg_error_
        /\ \E g, x, s : loc' = [loc EXCEPT ![t] = [@ EXCEPT !.group = g, !.updates = x, !.seq = s]]
    BY <1>6 DEF Build, bgVars
  <2>2. QED
    BY <1>1, <2>1 DEF LocalsType
<1>7. CASE AddRecord(t)
  <2>1. loc' = loc /\ bg_error_' = bg_error_
    BY <1>1, <1>7 DEF AddRecord, UnlockedUnchanged, bgVars
  <2>2. QED
    BY <1>1, <2>1
<1>8. CASE Sync(t)
  <2>1. loc' = loc /\ bg_error_' = bg_error_
    BY <1>1, <1>8 DEF Sync, UnlockedUnchanged, bgVars
  <2>2. QED
    BY <1>1, <2>1
<1>9. CASE InsertInto(t)
  <2>1. /\ bg_error_' = bg_error_
        /\ \E x : loc' = [loc EXCEPT ![t].updates = x]
    BY <1>9 DEF InsertInto, UnlockedUnchanged, bgVars
  <2>2. QED
    BY <1>1, <2>1 DEF LocalsType
<1>10. CASE Finish(t)
  BY <1>1, <1>2, <1>10 DEF Finish
<1>11. QED
  BY <1>3, <1>4, <1>5, <1>6, <1>7, <1>8, <1>9, <1>10 DEF Client

\* Nor in one of the background thread.
LEMMA NoFailBackground ==
    ASSUME SingleEntries, UInv, Background
    PROVE  NoFailInv'
<1>1. ~bg_error_ /\ ~EnvFails
  BY NeverFails DEF UInv, RInv, WInv, NoFailInv
<1>2. loc' = loc
  BY DEF Background, BackgroundCall, CompactMemTable, CompactionStartsFlush, CompactionFlush,
      CompactionDone, BgUnchanged
<1>3. bg_error_' = bg_error_
  BY <1>1 DEF Background, BackgroundCall, CompactMemTable, CompactionStartsFlush, CompactionFlush,
      CompactionDone, FlushOk, FlushFails
<1>4. QED
  BY <1>2, <1>3 DEF UInv, NoFailInv

\* The numbers of the followers do not change while nothing is built, published or begun.
LEMMA FollowersKept ==
    ASSUME WInv, FollowerInv, last_sequence' = last_sequence, w' = w,
           \A u \in Writers : pc'[u] \in Committing =>
               pc[u] \in Committing /\ loc'[u].group = loc[u].group
    PROVE  FollowerInv'
BY DEF FollowerInv

\* Steps in which the leader makes room, logs or inserts, or a writer takes the lead.
LEMMA QuietNumbers ==
    ASSUME SingleEntries, UInv, RInv', NEW t \in Writers,
           WakeLeader(t) \/ MakeRoomForWrite(t) \/ AddRecord(t) \/ Sync(t) \/ InsertInto(t)
    PROVE  FollowerInv' /\ Publishes({})
<1>1. /\ WInv /\ TypeOK /\ ReturnInv /\ ReturnInv' /\ FollowerInv
      /\ pc \in [Writers -> Leading \cup {"idle", "wait", "flush", "flushwait"}]
      /\ loc \in [Writers -> LocalsType]
  BY DEF UInv, RInv, WInv, TypeOK
<1>2. /\ calls' = calls /\ last_sequence' = last_sequence /\ w' = w /\ returned' = returned
  BY DEF WakeLeader, MakeRoomForWrite, RoomError, RoomDelay, RoomOk, RoomWait, RoomSwitch,
      RoomSwitchFails, RoomAgain, RoomUnchanged, AddRecord, Sync, InsertInto, UnlockedUnchanged,
      dataVars
<1>3. /\ pc[t] # "idle" /\ (pc[t] = "wait" => ~w[t].done)
      /\ \E p \in Leading : /\ pc' = [pc EXCEPT ![t] = p]
                            /\ p \in Committing => pc[t] \in Committing
      /\ \A u \in Writers : loc'[u].group = loc[u].group \/ (u = t /\ pc'[u] \notin Committing)
  <2>1. CASE WakeLeader(t)
    BY <1>1, <2>1 DEF WakeLeader, Leading, Committing
  <2>2. CASE RoomError(t)
    BY <1>1, <2>2 DEF RoomError, InRoom, Leading, Committing, LocalsType
  <2>3. CASE RoomDelay(t)
    BY <1>1, <2>3 DEF RoomDelay, InRoom, Leading, Committing, LocalsType
  <2>4. CASE RoomOk(t)
    BY <1>1, <2>4 DEF RoomOk, InRoom, Leading, Committing, LocalsType
  <2>5. CASE RoomWait(t)
    BY <1>1, <2>5 DEF RoomWait, InRoom, Leading, Committing, LocalsType
  <2>6. CASE RoomSwitch(t)
    <3>1. pc' = [pc EXCEPT ![t] = "room"] /\ pc[t] = "room"
      BY <1>1, <2>6 DEF RoomSwitch, RoomMaySwitch, InRoom
    <3>2. QED
      BY <1>1, <2>6, <3>1 DEF RoomSwitch, Leading, Committing, LocalsType
  <2>7. CASE RoomSwitchFails(t)
    BY <1>1, <2>7 DEF RoomSwitchFails, RoomMaySwitch, InRoom, Leading, Committing, LocalsType
  <2>8. CASE RoomAgain(t)
    BY <1>1, <2>8 DEF RoomAgain, Leading, Committing, LocalsType
  <2>9. CASE AddRecord(t)
    BY <1>1, <2>9 DEF AddRecord, Leading, Committing, LocalsType
  <2>10. CASE Sync(t)
    <3>1. pc[t] = "sync" /\ \E p \in {"insert", "relock"} : pc' = [pc EXCEPT ![t] = p]
      BY <2>10 DEF Sync
    <3>2. loc' = loc
      BY <1>1, <2>10, NeverFails DEF Sync
    <3>3. QED
      BY <3>1, <3>2 DEF Leading, Committing
  <2>11. CASE InsertInto(t)
    <3>1. pc[t] = "insert" /\ \E p \in {"insert", "relock"} : pc' = [pc EXCEPT ![t] = p]
      BY <2>11 DEF InsertInto
    <3>2. \E x : loc' = [loc EXCEPT ![t].updates = x]
      BY <2>11 DEF InsertInto
    <3>3. \A u \in Writers : loc'[u].group = loc[u].group
      BY <1>1, <3>2 DEF LocalsType
    <3>4. QED
      BY <3>1, <3>3 DEF Leading, Committing
  <2>12. QED
    BY <2>1, <2>2, <2>3, <2>4, <2>5, <2>6, <2>7, <2>8, <2>9, <2>10, <2>11 DEF MakeRoomForWrite
<1>4. PICK p \in Leading : pc' = [pc EXCEPT ![t] = p] /\ (p \in Committing => pc[t] \in Committing)
  BY <1>3
<1>5. p \notin {"idle", "wait"} /\ pc'[t] = p /\ \A u \in Writers \ {t} : pc'[u] = pc[u]
  BY <1>1, <1>4 DEF Leading
<1>6. FollowerInv'
  <2>1. \A u \in Writers : pc'[u] \in Committing =>
            pc[u] \in Committing /\ loc'[u].group = loc[u].group
    BY <1>3, <1>4, <1>5
  <2>2. QED
    BY <1>1, <1>2, <2>1, FollowersKept
<1>7. Publishes({})
  <2>1. \A u \in Writers : pc'[u] = "idle" <=> pc[u] = "idle"
    BY <1>3, <1>5
  <2>2. \A u \in Writers : (pc'[u] = "wait" /\ w'[u].done) <=> (pc[u] = "wait" /\ w[u].done)
    BY <1>2, <1>3, <1>5
  <2>3. QED
    BY <1>1, <1>2, <2>1, <2>2, NothingDecided
<1>8. QED
  BY <1>6, <1>7

\* The background thread answers nobody.
LEMMA BackgroundNumbers ==
    ASSUME UInv, RInv', Background
    PROVE  FollowerInv' /\ Publishes({})
<1>1. BgUnchanged
  BY DEF Background, BackgroundCall, CompactMemTable, CompactionStartsFlush, CompactionFlush,
      CompactionDone
<1>2. WInv /\ TypeOK /\ ReturnInv /\ ReturnInv' /\ FollowerInv
  BY DEF UInv, RInv, WInv
<1>3. FollowerInv'
  BY <1>1, <1>2, FollowersKept DEF BgUnchanged
<1>4. Publishes({})
  BY <1>1, <1>2, NothingDecided DEF BgUnchanged
<1>5. QED
  BY <1>3, <1>4

\* A follower picks up its answer: its number is now in the record of what was returned.
LEMMA WakeDoneNumbers ==
    ASSUME SingleEntries, UInv, RInv', NEW t \in Writers, WakeDone(t)
    PROVE  FollowerInv' /\ Publishes({})
<1>1. /\ WInv /\ TypeOK /\ ReturnInv /\ ReturnInv' /\ FollowerInv /\ last_sequence \in Nat
      /\ pc \in [Writers -> Leading \cup {"idle", "wait", "flush", "flushwait"}]
  BY DEF UInv, RInv, WInv, TypeOK
<1>2. /\ pc[t] = "wait" /\ w[t].done /\ calls' = calls /\ loc' = loc /\ w' = w
      /\ last_sequence' = last_sequence /\ Return(t, w[t].status, w[t].seq)
  BY DEF WakeDone, dataVars
<1>3. req[t].batch /\ calls[t] >= 1
  BY <1>1, <1>2, OneEntry DEF WInv, CallInv
<1>4. /\ pc' = [pc EXCEPT ![t] = "idle"]
      /\ \E r : returned' = returned \cup {r} /\ r.op = MyOp(t) /\ r.seq = w[t].seq
  <2> DEFINE r == [op |-> MyOp(t), req |-> req[t], status |-> w[t].status, seq |-> w[t].seq,
                   entered |-> entered[t]]
  <2>1. pc' = [pc EXCEPT ![t] = "idle"] /\ returned' = returned \cup {r}
    BY <1>2, <1>3 DEF Return
  <2>2. r.op = MyOp(t) /\ r.seq = w[t].seq
    OBVIOUS
  <2> HIDE DEF r
  <2>3. QED
    BY <2>1, <2>2
<1>5. pc'[t] = "idle" /\ \A u \in Writers \ {t} : pc'[u] = pc[u]
  BY <1>1, <1>4
<1>6. FollowerInv'
  <2>1. \A u \in Writers : pc'[u] \in Committing => pc[u] \in Committing
    BY <1>5 DEF Committing
  <2>2. QED
    BY <1>1, <1>2, <2>1, FollowersKept
<1>7. Number(t) = w[t].seq /\ Number(t)' = w[t].seq
  <2>1. PICK r : returned' = returned \cup {r} /\ r.op = MyOp(t) /\ r.seq = w[t].seq
    BY <1>4
  <2>2. r \in returned' /\ r.op = MyOp(t)'
    BY <1>2, <2>1 DEF MyOp
  <2>3. Number(t)' = r.seq
    BY <1>1, <1>5, <2>2, NumberAfter
  <2>4. QED
    BY <1>2, <2>1, <2>3 DEF Number
<1>8. \A u \in Decided : Number(u)' = Number(u)
  <2>1. ASSUME NEW u \in Decided, u # t
        PROVE  Number(u)' = Number(u)
    BY <1>1, <1>2, <1>4, <1>5, <2>1, NumberKept DEF Decided
  <2>2. QED
    BY <1>7, <2>1
<1>9. Decided' = Decided
  BY <1>2, <1>3, <1>5 DEF Decided
<1>10. last_sequence + 1 .. last_sequence' = {}
  BY <1>1, <1>2
<1>11. Publishes({})
  BY <1>1, <1>2, <1>8, <1>9, <1>10 DEF Publishes
<1>12. QED
  BY <1>6, <1>11

\* The j-th writer of a group of distinct writers is given the number sequence + j - 1, and
\* one that does not follow in the group keeps what it has.
LEMMA FollowerSeqIs ==
    ASSUME NEW group \in Seq(Writers), NEW sequence,
           \A i, j \in 1 .. Len(group) : group[i] = group[j] => i = j
    PROVE  /\ \A j \in 2 .. Len(group) : FollowerSeq(group[j], group, sequence) = sequence + j - 1
           /\ \A t \in Writers : (\A j \in 2 .. Len(group) : group[j] # t) =>
                 FollowerSeq(t, group, sequence) = w[t].seq
<1>0. Len(group) \in Nat
  OBVIOUS
<1>1. ASSUME NEW j \in 2 .. Len(group)
      PROVE  FollowerSeq(group[j], group, sequence) = sequence + j - 1
  <2> DEFINE js == {i \in 2 .. Len(group) : group[i] = group[j]}
  <2>1. FollowerSeq(group[j], group, sequence) = IF js = {} THEN w[group[j]].seq
                                                 ELSE sequence + Max(js) - 1
    BY DEF FollowerSeq
  <2>2. \A i \in 2 .. Len(group) : i \in 1 .. Len(group)
    BY <1>0
  <2>3. js = {j}
    BY <2>2
  <2>4. j \in Nat
    BY <1>0
  <2>5. Max({j}) = j
    <3>1. {j} \in SUBSET Nat /\ {j} # {} /\ \A x \in {j} : x <= j
      BY <2>4
    <3>2. Max({j}) \in {j}
      BY <2>4, <3>1, MaxLemma
    <3>3. QED
      BY <3>2
  <2> HIDE DEF js
  <2>6. QED
    BY <2>1, <2>3, <2>5
<1>2. ASSUME NEW t \in Writers, \A j \in 2 .. Len(group) : group[j] # t
      PROVE  FollowerSeq(t, group, sequence) = w[t].seq
  <2> DEFINE js == {i \in 2 .. Len(group) : group[i] = t}
  <2>1. FollowerSeq(t, group, sequence) = IF js = {} THEN w[t].seq ELSE sequence + Max(js) - 1
    BY DEF FollowerSeq
  <2>2. js = {}
    BY <1>2
  <2> HIDE DEF js
  <2>3. QED
    BY <2>1, <2>2
<1>3. QED
  BY <1>1, <1>2

\* The leader builds its group and numbers its followers.
LEMMA BuildNumbers ==
    ASSUME UInv, RInv', NEW t \in Writers, Build(t)
    PROVE  FollowerInv' /\ Publishes({})
<1>1. /\ WInv /\ TypeOK /\ QueueInv /\ ReturnInv /\ ReturnInv' /\ FollowerInv
      /\ pc \in [Writers -> Leading \cup {"idle", "wait", "flush", "flushwait"}]
      /\ loc \in [Writers -> LocalsType] /\ w \in [Writers -> [done : BOOLEAN, status : Statuses, seq : Nat]]
  BY DEF UInv, RInv, WInv, TypeOK
<1>a. PICK g : g = BuildBatchGroup
  OBVIOUS
<1>2. /\ pc[t] = "build" /\ pc' = [pc EXCEPT ![t] = "append"]
      /\ w' = [u \in Writers |-> [w[u] EXCEPT !.seq = FollowerSeq(u, g, last_sequence)]]
      /\ calls' = calls /\ returned' = returned /\ last_sequence' = last_sequence
      /\ \E x, s : loc' = [loc EXCEPT ![t] = [@ EXCEPT !.group = g, !.updates = x, !.seq = s]]
  BY <1>a DEF Build, dataVars
<1>3. /\ pc[t] \in Leading /\ pc'[t] = "append" /\ \A u \in Writers \ {t} : pc'[u] = pc[u]
      /\ loc'[t].group = g
  BY <1>1, <1>2 DEF Leading, LocalsType
<1>4. /\ writers_ \in Seq(Writers) /\ writers_ # <<>> /\ writers_[1] = t
      /\ \A u \in Writers \ {t} : pc[u] \notin Leading
      /\ \A j \in DOMAIN writers_ : j # 1 => pc[writers_[j]] = "wait" /\ ~w[writers_[j]].done
      /\ \A i, j \in DOMAIN writers_ : writers_[i] = writers_[j] => i = j
  BY <1>1, <1>3, Leaders, Types DEF QueueInv
<1>5. /\ g \in Seq(Writers) /\ Len(g) \in 1 .. Len(writers_)
      /\ \A j \in 1 .. Len(g) : g[j] = writers_[j]
  BY <1>a, <1>4, GroupLemma
<1>6. \A j \in 1 .. Len(g) : j \in DOMAIN writers_ /\ g[j] \in Writers
  <2>1. Len(g) \in Nat /\ Len(writers_) \in Nat
    BY <1>4, <1>5
  <2>2. \A j \in 1 .. Len(g) : j \in 1 .. Len(writers_)
    BY <1>5, <2>1
  <2>3. QED
    BY <1>4, <1>5, <2>2
<1>7. \A i, j \in 1 .. Len(g) : g[i] = g[j] => i = j
  BY <1>4, <1>5, <1>6
<1>8. /\ \A j \in 2 .. Len(g) : FollowerSeq(g[j], g, last_sequence) = last_sequence + j - 1
      /\ \A u \in Writers : (\A j \in 2 .. Len(g) : g[j] # u) => FollowerSeq(u, g, last_sequence) = w[u].seq
  BY <1>5, <1>7, FollowerSeqIs
<1>9. \A j \in 2 .. Len(g) : j \in 1 .. Len(g) /\ j # 1
  BY <1>5
<1>10. \A u \in Writers : /\ w'[u].seq = FollowerSeq(u, g, last_sequence)
                          /\ w'[u].done = w[u].done
  BY <1>1, <1>2
<1>11. FollowerInv'
  <2>1. \A u \in Writers : pc'[u] \in Committing => u = t
    BY <1>3, <1>4 DEF Committing, Leading
  <2>2. \A j \in 2 .. Len(g) : w'[g[j]].seq = last_sequence' + j - 1
    BY <1>2, <1>6, <1>8, <1>9, <1>10
  <2>3. QED
    BY <1>3, <2>1, <2>2 DEF FollowerInv
<1>12. Publishes({})
  <2>1. \A u \in Writers : pc'[u] = "idle" <=> pc[u] = "idle"
    BY <1>2, <1>3
  <2>2. \A u \in Writers : (pc'[u] = "wait" /\ w'[u].done) <=> (pc[u] = "wait" /\ w[u].done)
    BY <1>2, <1>3, <1>10
  <2>3. ASSUME NEW u \in Decided
        PROVE  w'[u].seq = w[u].seq
    <3>1. u \in Writers /\ (pc[u] = "idle" \/ (pc[u] = "wait" /\ w[u].done))
      BY DEF Decided
    <3>2. ASSUME NEW j \in 2 .. Len(g), g[j] = u
          PROVE  FALSE
      <4>1. j \in DOMAIN writers_ /\ writers_[j] = u /\ j # 1
        BY <1>5, <1>6, <1>9, <3>2
      <4>2. QED
        BY <1>4, <3>1, <4>1
    <3>3. QED
      BY <1>8, <1>10, <3>1, <3>2
  <2>4. QED
    BY <1>1, <1>2, <2>1, <2>2, <2>3, NothingDecided
<1>13. QED
  BY <1>11, <1>12

\* The leader publishes: its j-th writer has the number LastSequence + j - 1, and the leader
\* itself the last one.
LEMMA FinishNumbers ==
    ASSUME SingleEntries, UInv, RInv', NEW t \in Writers, Finish(t)
    PROVE  FollowerInv' /\ \E G : Publishes(G)
<1>a. PICK st, g, lo, n : st = loc[t].status /\ g = loc[t].group /\ lo = last_sequence /\ n = Len(g)
  OBVIOUS
<1>1. /\ WInv /\ TypeOK /\ QueueInv /\ ReturnInv /\ ReturnInv' /\ FollowerInv
      /\ pc \in [Writers -> Leading \cup {"idle", "wait", "flush", "flushwait"}]
      /\ w \in [Writers -> [done : BOOLEAN, status : Statuses, seq : Nat]]
      /\ calls \in [Writers -> 0 .. MaxWrites]
  BY DEF UInv, RInv, WInv, TypeOK
<1>2. /\ pc[t] = "relock" /\ last_sequence' = loc[t].seq /\ calls' = calls
      /\ Complete(t, n, st, RecordBackgroundError(loc[t].sync_error, signalled))
      /\ Return(t, st, loc[t].seq)
  BY <1>a DEF Finish
<1>3. pc[t] \in Leading /\ pc[t] \in Committing /\ pc[t] \notin {"idle", "wait"}
  BY <1>2 DEF Leading, Committing
<1>4. /\ g \in Seq(Writers) /\ g # <<>> /\ n <= Len(writers_) /\ req[t].batch
      /\ \A j \in 1 .. n : g[j] = writers_[j]
      /\ \A u \in Writers \ {t} : pc[u] \notin Committing
  <2>1. /\ loc[t].group # <<>> /\ Len(loc[t].group) <= Len(writers_)
        /\ \A j \in 1 .. Len(loc[t].group) : loc[t].group[j] = writers_[j]
        /\ \A u \in Writers \ {t} : pc[u] \notin Committing
        /\ req[t].batch
    BY <1>1, <1>3, UnlockedFacts
  <2>2. loc[t].group \in Seq(Writers)
    BY <1>1, Types
  <2>3. QED
    BY <1>a, <2>1, <2>2
<1>5. /\ writers_ \in Seq(Writers) /\ writers_[1] = t /\ lo \in Nat
      /\ \A i, j \in DOMAIN writers_ : writers_[i] = writers_[j] => i = j
      /\ \A j \in DOMAIN writers_ :
            j # 1 => writers_[j] # t /\ pc[writers_[j]] = "wait" /\ ~w[writers_[j]].done
  BY <1>a, <1>1, <1>3, Types, Leaders DEF QueueInv
<1>6. /\ n \in Nat /\ n >= 1 /\ 1 \in 1 .. n
      /\ \A j \in 1 .. n : j \in DOMAIN writers_ /\ g[j] \in Writers
  <2>1. Len(g) \in Nat /\ Len(g) >= 1 /\ Len(writers_) \in Nat
    BY <1>4, <1>5
  <2>2. n \in Nat /\ n >= 1 /\ 1 \in 1 .. n
    BY <1>a, <2>1
  <2>3. \A j \in 1 .. n : j \in 1 .. Len(writers_) /\ j \in 1 .. Len(g)
    BY <1>a, <1>4, <2>1, <2>2
  <2>4. \A j \in 1 .. n : g[j] \in Writers
    BY <1>4, <2>3
  <2>5. QED
    BY <1>5, <2>2, <2>3, <2>4
<1>7. g[1] = t /\ (\A i, j \in 1 .. n : g[i] = g[j] => i = j) /\ calls[t] >= 1
  BY <1>1, <1>3, <1>4, <1>5, <1>6 DEF WInv, CallInv
<1>8. last_sequence' = lo + n
  BY <1>a, <1>2, <1>3, GroupNumbers DEF UInv
<1>9. \A j \in 2 .. n : w[g[j]].seq = lo + j - 1
  BY <1>a, <1>1, <1>3 DEF FollowerInv
<1>10. /\ pc' = [pc EXCEPT ![t] = "idle"]
       /\ \E r : returned' = returned \cup {r} /\ r.op = MyOp(t) /\ r.seq = lo + n
  <2> DEFINE r == [op |-> MyOp(t), req |-> req[t], status |-> st, seq |-> loc[t].seq,
                   entered |-> entered[t]]
  <2>1. pc' = [pc EXCEPT ![t] = "idle"] /\ returned' = returned \cup {r}
    BY <1>2, <1>4 DEF Return
  <2>2. r.op = MyOp(t) /\ r.seq = loc[t].seq
    OBVIOUS
  <2> HIDE DEF r
  <2>3. QED
    BY <1>2, <1>8, <2>1, <2>2
<1>11. pc'[t] = "idle" /\ \A u \in Writers \ {t} : pc'[u] = pc[u]
  BY <1>1, <1>10
<1>b. PICK G : \A u : u \in G <=> \E j \in 1 .. n : g[j] = u
  <2> DEFINE H == {g[j] : j \in 1 .. n}
  <2>1. \A u : u \in H <=> \E j \in 1 .. n : g[j] = u
    OBVIOUS
  <2> HIDE DEF H
  <2>2. QED
    BY <2>1
<1>12. \A u \in Writers : w'[u] = IF u \in G \ {t} THEN [w[u] EXCEPT !.done = TRUE, !.status = st]
                                  ELSE w[u]
  <2>1. w' = [u \in Writers |->
               IF u \in {writers_[j] : j \in 1 .. n} \ {t}
               THEN [w[u] EXCEPT !.done = TRUE, !.status = st] ELSE w[u]]
    BY <1>2 DEF Complete
  <2>2. \A u : u \in G <=> u \in {writers_[j] : j \in 1 .. n}
    BY <1>b, <1>4
  <2>3. QED
    BY <2>1, <2>2
<1>13. \A u \in Writers : /\ w'[u].seq = w[u].seq
                          /\ u \in G \ {t} => w'[u].done
                          /\ u \notin G \ {t} => w'[u].done = w[u].done
  BY <1>1, <1>12
<1>14. \A u \in G : /\ u \in Writers /\ pc[u] # "idle" /\ u \notin Decided
                    /\ u # t => pc[u] = "wait" /\ pc'[u] = "wait" /\ w'[u].done
                    /\ calls[u] >= 1
  <2>1. ASSUME NEW u \in G, u # t
        PROVE  /\ u \in Writers /\ pc[u] = "wait" /\ ~w[u].done /\ pc'[u] = "wait" /\ w'[u].done
               /\ calls[u] >= 1
    <3>1. PICK j \in 1 .. n : g[j] = u
      BY <1>b, <2>1
    <3>2. j # 1 /\ j \in DOMAIN writers_ /\ writers_[j] = u /\ u \in Writers
      BY <1>4, <1>6, <1>7, <2>1, <3>1
    <3>3. pc[u] = "wait" /\ ~w[u].done
      BY <1>5, <3>2
    <3>4. calls[u] >= 1
      BY <1>1, <3>2, <3>3 DEF WInv, CallInv
    <3>5. QED
      BY <1>11, <1>13, <2>1, <3>2, <3>3, <3>4
  <2>2. QED
    BY <1>3, <1>7, <2>1 DEF Decided
<1>15. t \in G
  BY <1>b, <1>6, <1>7
<1>16. Decided' = Decided \cup G
  <2>1. ASSUME NEW u \in Writers
        PROVE  u \in Decided' <=> u \in Decided \cup G
    <3>1. CASE u = t
      BY <1>2, <1>7, <1>11, <1>15, <3>1 DEF Decided
    <3>2. CASE u # t /\ u \in G
      BY <1>2, <1>14, <3>2 DEF Decided
    <3>3. CASE u # t /\ u \notin G
      BY <1>2, <1>11, <1>13, <3>3 DEF Decided
    <3>4. QED
      BY <3>1, <3>2, <3>3
  <2>2. Decided' \subseteq Writers /\ Decided \cup G \subseteq Writers
    BY <1>14 DEF Decided
  <2>3. QED
    BY <2>1, <2>2
<1>17. \A u \in Decided : Number(u)' = Number(u)
  <2>1. ASSUME NEW u \in Decided
        PROVE  Number(u)' = Number(u)
    <3>1. u \in Writers /\ u # t
      BY <1>3 DEF Decided
    <3>2. pc'[u] = pc[u] /\ calls'[u] = calls[u] /\ w'[u].seq = w[u].seq
      BY <1>2, <1>11, <1>13, <3>1
    <3>3. returned \subseteq returned'
      BY <1>10
    <3>4. QED
      BY <1>1, <3>2, <3>3, NumberKept
  <2>2. QED
    BY <2>1
<1>18. Number(t)' = lo + n
  <2>1. PICK r : returned' = returned \cup {r} /\ r.op = MyOp(t) /\ r.seq = lo + n
    BY <1>10
  <2>2. r \in returned' /\ r.op = MyOp(t)'
    BY <1>2, <2>1 DEF MyOp
  <2>3. QED
    BY <1>1, <1>11, <2>1, <2>2, NumberAfter
<1>19. \A j \in 2 .. n : j \in 1 .. n /\ g[j] # t /\ g[j] \in G /\ Number(g[j])' = lo + j - 1
  <2>1. ASSUME NEW j \in 2 .. n
        PROVE  j \in 1 .. n /\ g[j] # t /\ g[j] \in G /\ Number(g[j])' = lo + j - 1
    <3>1. j \in 1 .. n /\ j # 1
      BY <1>6
    <3>2. g[j] # t /\ g[j] \in G
      BY <1>b, <1>6, <1>7, <3>1
    <3>3. pc'[g[j]] = "wait" /\ w'[g[j]].seq = lo + j - 1
      BY <1>9, <1>13, <1>14, <3>2
    <3>4. QED
      BY <3>1, <3>2, <3>3 DEF Number
  <2>2. QED
    BY <2>1
<1>20. \A u \in G : u = t \/ \E j \in 2 .. n : u = g[j]
  <2>1. ASSUME NEW u \in G, u # t
        PROVE  \E j \in 2 .. n : u = g[j]
    <3>1. PICK j \in 1 .. n : g[j] = u
      BY <1>b
    <3>2. j # 1
      BY <1>7, <2>1, <3>1
    <3>3. j \in 2 .. n
      BY <1>6, <3>2
    <3>4. QED
      BY <3>1, <3>3
  <2>2. QED
    BY <2>1
<1>21. /\ \A u \in G : Number(u)' \in lo + 1 .. lo + n
       /\ \A u, v \in G : Number(u)' = Number(v)' => u = v
       /\ \A m \in lo + 1 .. lo + n : \E u \in G : Number(u)' = m
  <2> DEFINE N(u) == Number(u)'
  <2>1. /\ N(t) = lo + n /\ \A j \in 2 .. n : N(g[j]) = lo + j - 1 /\ g[j] \in G
    BY <1>18, <1>19
  <2> HIDE DEF N
  <2>2. \A u \in G : N(u) \in lo + 1 .. lo + n
    BY <1>5, <1>6, <1>20, <2>1
  <2>3. ASSUME NEW u \in G, NEW v \in G, N(u) = N(v)
        PROVE  u = v
    <3>1. CASE u = t \/ v = t
      BY <1>5, <1>6, <1>20, <2>1, <2>3, <3>1
    <3>2. CASE u # t /\ v # t
      <4>1. PICK j \in 2 .. n : u = g[j]
        BY <1>20, <3>2
      <4>2. PICK k \in 2 .. n : v = g[k]
        BY <1>20, <3>2
      <4>3. lo + j - 1 = lo + k - 1
        BY <2>1, <2>3, <4>1, <4>2
      <4>4. j = k
        BY <1>5, <1>6, <4>3
      <4>5. QED
        BY <4>1, <4>2, <4>4
    <3>3. QED
      BY <3>1, <3>2
  <2>4. ASSUME NEW m \in lo + 1 .. lo + n
        PROVE  \E u \in G : N(u) = m
    <3>1. CASE m = lo + n
      BY <1>15, <2>1, <3>1
    <3>2. CASE m # lo + n
      <4>1. m - lo + 1 \in 2 .. n /\ lo + (m - lo + 1) - 1 = m
        BY <1>5, <1>6, <3>2
      <4>2. QED
        BY <2>1, <4>1
    <3>3. QED
      BY <3>1, <3>2
  <2>5. QED
    BY <2>2, <2>3, <2>4 DEF N
<1>22. Publishes(G)
  <2>1. last_sequence' \in Nat /\ last_sequence <= last_sequence' /\ lo = last_sequence
    BY <1>a, <1>5, <1>6, <1>8
  <2>2. G \subseteq Writers /\ \A u \in G : pc[u] # "idle" /\ u \notin Decided
    BY <1>14
  <2>3. QED
    BY <1>2, <1>8, <1>16, <1>17, <1>21, <2>1, <2>2 DEF Publishes
<1>23. FollowerInv'
  <2>1. \A u \in Writers : pc'[u] \notin Committing
    BY <1>4, <1>11 DEF Committing
  <2>2. QED
    BY <2>1 DEF FollowerInv
<1>24. QED
  BY <1>22, <1>23

\* A client's step decides calls as one of AtomicWrites would, several at once.
LEMMA ClientNumbers ==
    ASSUME SingleEntries, UInv, NEW t \in Writers, Client(t)
    PROVE  UInv' /\ \E G : Publishes(G)
<1>1. RInv'
  BY Simulation DEF UInv, Next
<1>2. NoFailInv'
  BY NoFailClient
<1>3. ~FinishAlone(t) /\ ~WaitForFlush(t)
  <2>1. WInv /\ loc[t].status = "ok"
    BY DEF UInv, RInv, NoFailInv
  <2>2. ~FinishAlone(t)
    BY <2>1, OneEntry DEF FinishAlone
  <2>3. ~WaitForFlush(t)
    BY <2>1, OneEntry DEF WaitForFlush
  <2>4. QED
    BY <2>2, <2>3
<1>4. FollowerInv' /\ \E G : Publishes(G)
  BY <1>1, <1>3, QuietNumbers, WakeDoneNumbers, BuildNumbers, FinishNumbers DEF Client
<1>5. QED
  BY <1>1, <1>2, <1>4 DEF UInv

\* So does the background thread's, which decides none.
LEMMA BackgroundDecides ==
    ASSUME SingleEntries, UInv, Background
    PROVE  UInv' /\ \E G : Publishes(G)
<1>1. RInv'
  BY Simulation DEF UInv, Next
<1>2. QED
  BY <1>1, NoFailBackground, BackgroundNumbers DEF UInv

\* A client that calls has no answer until it is given one.
LEMMA EnterNumbers ==
    ASSUME SingleEntries, UInv, NEW t \in Writers, NEW r \in Requests[t], Enter(t, r)
    PROVE  /\ UInv' /\ last_sequence' = last_sequence /\ Decided' = Decided \ {t}
           /\ calls' = [calls EXCEPT ![t] = @ + 1]
           /\ \A u \in Decided \ {t} : Number(u)' = Number(u)
<1>1. RInv'
  BY Simulation DEF UInv, Next
<1>2. /\ WInv /\ TypeOK /\ QueueInv /\ ReturnInv /\ ReturnInv' /\ FollowerInv /\ NoFailInv
      /\ pc \in [Writers -> Leading \cup {"idle", "wait", "flush", "flushwait"}]
      /\ w \in [Writers -> [done : BOOLEAN, status : Statuses, seq : Nat]]
      /\ calls \in [Writers -> 0 .. MaxWrites] /\ loc \in [Writers -> LocalsType]
  BY <1>1 DEF UInv, RInv, WInv, TypeOK
<1>3. /\ pc[t] = "idle" /\ calls' = [calls EXCEPT ![t] = @ + 1] /\ w' = [w EXCEPT ![t] = NoWriter]
      /\ last_sequence' = last_sequence /\ returned' = returned /\ bg_error_' = bg_error_
      /\ \E p \in {"room", "wait"} : pc' = [pc EXCEPT ![t] = p]
      /\ loc' = loc \/ loc' = [loc EXCEPT ![t] =
                          [NoLocals EXCEPT !.force = ~r.batch, !.allow_delay = r.batch]]
  BY DEF Enter, dataVars, bgVars
<1>4. /\ \A u \in Writers \ {t} : /\ pc'[u] = pc[u] /\ w'[u] = w[u] /\ calls'[u] = calls[u]
                                  /\ loc'[u] = loc[u]
      /\ pc'[t] \in {"room", "wait"} /\ ~w'[t].done
  BY <1>2, <1>3 DEF NoWriter
<1>5. NoFailInv'
  <2>1. loc'[t].status = "ok" /\ ~loc'[t].sync_error
    <3>1. PICK rec : rec = [NoLocals EXCEPT !.force = ~r.batch, !.allow_delay = r.batch]
      OBVIOUS
    <3>2. rec.status = "ok" /\ ~rec.sync_error
      BY <3>1 DEF NoLocals
    <3>3. CASE loc' = loc
      BY <1>2, <3>3 DEF NoFailInv
    <3>4. CASE loc' = [loc EXCEPT ![t] = rec]
      <4>1. loc'[t] = rec
        BY <1>2, <3>4
      <4>2. QED
        BY <3>2, <4>1
    <3>5. QED
      BY <1>3, <3>1, <3>3, <3>4
  <2>2. QED
    BY <1>2, <1>3, <1>4, <2>1 DEF NoFailInv
<1>6. FollowerInv'
  <2>1. ASSUME NEW u \in Writers, pc'[u] \in Committing, NEW j \in 2 .. Len(loc'[u].group)
        PROVE  w'[loc'[u].group[j]].seq = last_sequence' + j - 1
    <3>1. u # t /\ pc[u] \in Committing /\ loc'[u].group = loc[u].group
      BY <1>4, <2>1 DEF Committing
    <3>a. PICK g, x : g = loc[u].group /\ x = g[j]
      OBVIOUS
    <3>2. g \in Seq(Writers) /\ writers_ \in Seq(Writers) /\ Len(g) <= Len(writers_)
          /\ \A k \in 1 .. Len(g) : g[k] = writers_[k]
      BY <1>2, <3>1, <3>a, UnlockedFacts, Types
    <3>3. j \in 1 .. Len(g) /\ j \in 1 .. Len(writers_)
      <4>1. Len(g) \in Nat /\ Len(writers_) \in Nat /\ j \in 2 .. Len(g)
        BY <2>1, <3>1, <3>2, <3>a
      <4>2. QED
        BY <3>2, <4>1
    <3>4. j \in DOMAIN writers_ /\ writers_[j] = x /\ x \in Writers
      <4>1. j \in DOMAIN writers_ /\ writers_[j] \in Writers
        BY <3>2, <3>3
      <4>2. QED
        BY <3>2, <3>3, <3>a, <4>1
    <3>5. x # t
      BY <1>2, <1>3, <3>4 DEF QueueInv, InQueue, Leading
    <3>6. w[x].seq = last_sequence + j - 1
      BY <1>2, <2>1, <3>1, <3>a DEF FollowerInv
    <3>7. QED
      BY <1>3, <1>4, <3>1, <3>4, <3>5, <3>6, <3>a
  <2>2. QED
    BY <2>1 DEF FollowerInv
<1>7. Decided' = Decided \ {t}
  BY <1>4 DEF Decided
<1>8. ASSUME NEW u \in Decided \ {t}
      PROVE  Number(u)' = Number(u)
  <2>1. u \in Decided /\ u \in Writers
    BY DEF Decided
  <2>2. QED
    BY <1>2, <1>3, <1>4, <2>1, NumberKept
<1>9. QED
  BY <1>1, <1>3, <1>5, <1>6, <1>7, <1>8 DEF UInv

\* The initial state: nothing has failed and nobody commits.
LEMMA InitNumbers == Init => UInv /\ Decided = {}
<1> SUFFICES ASSUME Init
             PROVE  UInv /\ Decided = {}
  OBVIOUS
<1>1. RInv
  BY InitInv, AtomicInit DEF RInv
<1>2. \A t \in Writers : pc[t] = "idle" /\ calls[t] = 0 /\ loc[t] = NoLocals
  BY DEF Init
<1>3. NoFailInv
  BY <1>2 DEF Init, NoFailInv, NoLocals
<1>4. FollowerInv
  BY <1>2 DEF FollowerInv, Committing
<1>5. Decided = {}
  BY <1>2 DEF Decided
<1>6. QED
  BY <1>1, <1>3, <1>4, <1>5 DEF UInv

\* A step that changes nothing of the queue.
LEMMA StutterNumbers ==
    ASSUME UInv, UNCHANGED vars
    PROVE  UInv' /\ Decided' = Decided /\ \A u : Number(u)' = Number(u)
<1>1. RInv'
  BY Simulation DEF UInv
<1>2. /\ pc' = pc /\ calls' = calls /\ loc' = loc /\ w' = w /\ returned' = returned
      /\ last_sequence' = last_sequence /\ bg_error_' = bg_error_
  BY DEF vars, clientVars, dataVars, bgVars
<1>3. QED
  BY <1>1, <1>2 DEF UInv, NoFailInv, FollowerInv, Decided, Number, MyOp

\* What a client that has its answer picks up is the number decided for it.
LEMMA NumberReturned ==
    ASSUME UInv, NEW u \in Writers, pc[u] = "idle", NEW r \in returned, r.op = MyOp(u)
    PROVE  Number(u) = r.seq
<1>1. \A s \in returned : s.op = r.op => s = r
  BY DEF UInv, RInv, ReturnInv
<1>2. (CHOOSE s \in returned : s.op = MyOp(u)) = r
  BY <1>1
<1>3. QED
  BY <1>2 DEF Number

\* The numbers are numbers, and calls are counted within their bound.
LEMMA CallsTyped == UInv => last_sequence \in Nat /\ calls \in [Writers -> 0 .. MaxWrites]
BY DEF UInv, RInv, WInv, TypeOK

\* A client outside a call stays there while others go on.
LEMMA IdleStays ==
    ASSUME UInv, NEW t \in Writers, Client(t), NEW u \in Writers, pc[u] = "idle"
    PROVE  pc'[u] = "idle"
<1>1. pc \in [Writers -> Leading \cup {"idle", "wait", "flush", "flushwait"}]
  BY DEF UInv, RInv, WInv, TypeOK
<1>2. pc[t] # "idle"
  BY DEF Client, WakeDone, WakeLeader, MakeRoomForWrite, RoomError, RoomDelay, RoomOk, RoomWait,
         RoomSwitch, RoomSwitchFails, RoomAgain, RoomMaySwitch, InRoom, Build, AddRecord, Sync,
         InsertInto, Finish, FinishAlone, WaitForFlush
<1>3. pc' = pc \/ \E p : pc' = [pc EXCEPT ![t] = p]
  <2>1. CASE MakeRoomForWrite(t)
    BY <2>1 DEF MakeRoomForWrite, RoomError, RoomDelay, RoomOk, RoomWait, RoomSwitch,
       RoomSwitchFails, RoomAgain
  <2>2. CASE ~MakeRoomForWrite(t)
    BY <2>2 DEF Client, WakeDone, WakeLeader, Build, AddRecord, Sync, InsertInto, Finish,
       FinishAlone, WaitForFlush, Return
  <2>3. QED
    BY <2>1, <2>2
<1>4. QED
  BY <1>1, <1>2, <1>3
=============================================================================
