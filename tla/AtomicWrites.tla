---------------------------- MODULE AtomicWrites ----------------------------
(***************************************************************************)
(* What DB::Write promises its callers: the batches of concurrent calls    *)
(* take effect one group at a time, each batch as a whole, with fresh and  *)
(* consecutive sequence numbers, at one instant between the call and its   *)
(* return; a call that reports an error has no effect and never will.      *)
(* There is no queue, no lock, no log and no memtable here.                *)
(***************************************************************************)
EXTENDS Integers

CONSTANTS Writers,      \* client threads
          MaxWrites,    \* bound: calls made by one client
          BatchSizes    \* the numbers of entries a batch may have; none is 0

VARIABLES calls,        \* number of the client's current or last call
          count,        \* entries of its batch
          outcome,      \* what is decided about that call
          data,         \* the entries readers can see
          last          \* the last sequence number used

vars == <<calls, count, outcome, data, last>>

Pending == {t \in Writers : outcome[t] = "pending"}

Batch(t, base) == {[op |-> <<t, calls[t]>>, i |-> i, seq |-> base + i] :
                      i \in 1 .. count[t]}

\* The batches of the calls in G, numbered from base[t] + 1 on, use every number up to
\* last' once.
Fills(G, base) ==
    /\ \A t \in G : base[t] + count[t] <= last'
    /\ \A t, u \in G : t /= u => \/ base[t] + count[t] <= base[u]
                                 \/ base[u] + count[u] <= base[t]
    /\ \A s \in last + 1 .. last' : \E t \in G : base[t] < s /\ s <= base[t] + count[t]

Init ==
    /\ calls = [t \in Writers |-> 0]
    /\ count = [t \in Writers |-> 0]
    /\ outcome = [t \in Writers |-> "none"]
    /\ data = {}
    /\ last = 0

Call(t) ==
    /\ outcome[t] /= "pending" /\ calls[t] < MaxWrites
    /\ calls' = [calls EXCEPT ![t] = @ + 1]
    /\ \/ /\ \E n \in BatchSizes : count' = [count EXCEPT ![t] = n]
          /\ outcome' = [outcome EXCEPT ![t] = "pending"]
       \/ /\ count' = [count EXCEPT ![t] = 0]     \* a call without a batch
          /\ outcome' = [outcome EXCEPT ![t] = "none"]
    /\ UNCHANGED <<data, last>>

\* The calls in G take effect.
Commit(G) ==
    /\ \E base \in [G -> last .. last'] :
          /\ Fills(G, base)
          /\ data' = data \cup UNION {Batch(t, base[t]) : t \in G}
    /\ outcome' = [t \in Writers |-> IF t \in G THEN "ok" ELSE outcome[t]]
    /\ UNCHANGED <<calls, count>>

\* The calls in G fail; their sequence numbers may be used up.
Fail(G) ==
    /\ last' = last \/ \E base \in [G -> last .. last'] : Fills(G, base)
    /\ outcome' = [t \in Writers |-> IF t \in G THEN "error" ELSE outcome[t]]
    /\ UNCHANGED <<calls, count, data>>

Next ==
    \/ \E t \in Writers : Call(t)
    \/ \E G \in (SUBSET Pending) \ {{}} : Commit(G) \/ Fail(G)

Spec == Init /\ [][Next]_vars
=============================================================================
