----------------------------- MODULE MCProgress -----------------------------
(* The three components whose progress is checked, one per behaviour:       *)
(* Background (two databases), BenchDriver, and EnclaveMerge on all inputs  *)
(* of up to MCChannels sorted tables with up to MCRecords records in all.   *)
EXTENDS Background, BenchDriver, EnclaveMerge, FiniteSetsExt, TLC

CONSTANTS c1, c2, c3, d1, d2, MCChannels, MCRecords

VARIABLE component \* the one that runs, fixed for a behaviour

MCDBOf == (c1 :> d1) @@ (c2 :> d1) @@ (c3 :> d2)

\* Every way to give the sequence numbers 1 .. n to channels and keys; the
\* records of a channel are in the order of InternalKeyComparator, as in the
\* tables the channels read.  Even numbers are deletions of key 2.
MCType(k, s) == IF k = 2 /\ s % 2 = 0 THEN "deletion" ELSE "value"
MCInputs ==
    UNION {{[c \in 1 .. MCChannels |->
               SetToSortSeq({[key |-> f[s][2], seq |-> s, type |-> MCType(f[s][2], s)] :
                                s \in {s \in 1 .. n : f[s][1] = c}}, InternalBefore)] :
               f \in [1 .. n -> (1 .. MCChannels) \X (1 .. 2)]} : n \in 0 .. MCRecords}

Components == {"Background", "BenchDriver", "EnclaveMerge"}
all_vars == <<component, bg_vars, bm_vars, vars>>

InBackground(A)   == component = "Background" /\ A /\ UNCHANGED <<component, bm_vars, vars>>
InBenchDriver(A)  == component = "BenchDriver" /\ A /\ UNCHANGED <<component, bg_vars, vars>>
InEnclaveMerge(A) == component = "EnclaveMerge" /\ A /\ UNCHANGED <<component, bg_vars, bm_vars>>

MCInit ==
    /\ component \in Components /\ BackgroundInit /\ BenchDriverInit /\ Init
    /\ component = "BenchDriver" \/ ~bm_existing
MCNext == InBackground(BackgroundNext) \/ InBenchDriver(BenchDriverNext) \/ InEnclaveMerge(Next)

\* While the background thread can run it runs, while callers are awake some
\* caller runs, a destructor that may end ends, while benchmark threads can run
\* some thread runs, and an enclave call runs to its end: less than what a fair
\* scheduler gives.  Nothing makes a client call, and no call has to fail.
CallerRuns == \E c \in Callers : WaitForFlush(c) \/ CompactRangeLoop(c)
MCFairness ==
    /\ WF_all_vars(InBackground(BackgroundThread))
    /\ WF_all_vars(InBackground(CallerRuns))
    /\ WF_all_vars(InBackground(\E d \in DBs : DestructorEnds(d)))
    /\ WF_all_vars(InBenchDriver(BenchMain \/ \E t \in AllThreads : BenchThread(t)))
    /\ WF_all_vars(InEnclaveMerge(FirstRead \/ MergeRound \/ Finish))

MCSpec == MCInit /\ [][MCNext]_all_vars /\ MCFairness
=============================================================================
