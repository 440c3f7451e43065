---------------------------- MODULE MCWriteQueue ----------------------------
(* Instances of WriteQueue for TLC. *)
EXTENDS WriteQueue, TLC

CONSTANTS t1, t2, t3

Large == [batch |-> TRUE, count |-> 2, size |-> 2, sync |-> FALSE]
Synced == [batch |-> TRUE, count |-> 1, size |-> 1, sync |-> TRUE]
NullBatch == [batch |-> FALSE, count |-> 0, size |-> 0, sync |-> FALSE]

MCWriters == {t1, t2, t3}

\* The clients are interchangeable: up to their names these are all triples of
\* calls but the three in which all clients make the same call.
Mixed == (t1 :> {Large, NullBatch}) @@ (t2 :> {Synced, Large}) @@ (t3 :> {NullBatch, Synced})
=============================================================================
