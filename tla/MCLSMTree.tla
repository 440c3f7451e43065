----------------------------- MODULE MCLSMTree ------------------------------
(* Instances of LSMTree. *)
EXTENDS LSMTree

MCFullRange == {<<0, NumKeys + 1>>}

\* A new database.
MCEmpty == [written |-> <<>>, files |-> [l \in Levels |-> {}]]

\* Four flushes, each pushed as deep as it may go: keys 1 and 3 twice, and a
\* gap at key 2 in both levels.
MCPut(k, s) == [key |-> k, seq |-> s, type |-> "value"]
MCOne(k, s) == Table(0, <<MCPut(k, s)>>, FALSE)
MCGap == [written |-> <<MCPut(1, 1), MCPut(3, 2), MCPut(1, 3), MCPut(3, 4)>>,
          files |-> (0 :> {}) @@ (1 :> {MCOne(1, 3), MCOne(3, 4)}) @@ (2 :> {MCOne(1, 1), MCOne(3, 2)})]

MCInstance == [tree |-> MCEmpty, keys |-> 2, writes |-> 3, snapshots |-> 0, manuals |-> 0,
               faults |-> 0, verify |-> FALSE, cut |-> TRUE]

MCManual == [MCInstance EXCEPT !.manuals = 1]
MCSnapshots == [MCInstance EXCEPT !.snapshots = 2, !.faults = 1, !.cut = FALSE]
MCVerify == [MCInstance EXCEPT !.verify = TRUE]
MCPicked == [MCInstance EXCEPT !.tree = MCGap, !.keys = 3, !.writes = 5]

MCAll == {MCManual, MCSnapshots, [MCVerify EXCEPT !.faults = 1], MCPicked}

\* One key, versions of it in two tables.
MCSplit == {[MCInstance EXCEPT !.keys = 1, !.writes = 4, !.snapshots = 2]}

MCVerifyOrder == {MCVerify}

\* CompactRange while a memtable is flushed into the gap.
MCManualGap == {[MCPicked EXCEPT !.manuals = 1]}
=============================================================================
