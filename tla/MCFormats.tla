----------------------------- MODULE MCFormats ------------------------------
(* What the database writes and reads back, one component per behaviour:   *)
(* log, table and descriptor formats, the arena and the iterators.          *)
EXTENDS LogFormat, TableFormat, Encodings, Arena, DBIter

VARIABLE component \* the one that runs, fixed for a behaviour

\* Internal keys: bytes of the user key, then the tag.
MCTableKeys == {<<0, 2>>, <<0, 1>>, <<0, 0, 1>>, <<0, 2, 1>>, <<1, 1>>, <<2, 2, 1>>}
MCBloomHash == [u \in {Front(k) : k \in MCTableKeys} |-> Len(u) * 7 + u[1] * 3 + Last(u)]

\* Keys whose bytes look like tags and lengths.
MCEditKeys == {<<5>>, <<0, 7, 1, 2>>}
MCBatchKeys == {<<>>, <<0, 4, 1, 1, 0>>}

all_vars == <<component, log_vars, tf_vars, en_vars, ar_vars, di_vars>>

\* Component c takes the step A; "others" are the variables of the other ones.
In(c, A, others) == component = c /\ A /\ UNCHANGED <<component, others>>

MCInit ==
    /\ component \in {"LogFormat", "TableFormat", "Encodings", "Arena", "DBIter"}
    /\ LogInit /\ TableInit /\ EncodingsInit /\ ArenaInit /\ DBIterInit
    /\ component = "TableFormat" \/ tf_rep = NewBuilder(1, FALSE)
    /\ component = "Encodings" \/ en_kind = "edit"

MCNext ==
    \/ In("LogFormat", LogNext, <<tf_vars, en_vars, ar_vars, di_vars>>)
    \/ In("TableFormat", TableNext, <<log_vars, en_vars, ar_vars, di_vars>>)
    \/ In("Encodings", EncodingsNext, <<log_vars, tf_vars, ar_vars, di_vars>>)
    \/ In("Arena", ArenaNext, <<log_vars, tf_vars, en_vars, di_vars>>)
    \/ In("DBIter", DBIterNext, <<log_vars, tf_vars, en_vars, ar_vars>>)
=============================================================================
