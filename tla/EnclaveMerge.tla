---------------------------- MODULE EnclaveMerge ----------------------------
(***************************************************************************)
(* The k-way merge the enclave runs for a compaction: onec_EnclCompact and *)
(* its helpers (Enclave/merge_sort_1c.cpp), with the buffers of my_arg     *)
(* that it shares with the untrusted side (do_reload_1c and do_flush_1c of *)
(* db_impl.cpp).                                                           *)
(*                                                                         *)
(* my_arg is a global: a compaction starts with the indices the previous   *)
(* one left.  Each channel has an input buffer that do_reload_1c refills   *)
(* from the channel's iterator; merged records go to an output buffer that *)
(* do_flush_1c hands to SU_flush_data.                                     *)
(*                                                                         *)
(* Definitions named Fault_... are wrong variants of the definition that   *)
(* follows them; the specification does not use them.                      *)
(***************************************************************************)
EXTENDS Records, FiniteSets

CONSTANTS MaxChannels,      \* channels of my_arg (10)
          InputBufferSize,  \* INPUT_BUFFER_SIZE (1024)
          OutputBufferSize, \* OUTPUT_BUFFER_SIZE (1024)
          Inputs,           \* the inputs a compaction may have: sequences of channels
          MaxCompactions    \* bound: compactions

KVType == [key : Nat, seq : Nat, type : Types]

ASSUME BuffersAssumption ==
    /\ MaxChannels \in Nat \ {0} /\ MaxCompactions \in Nat
    /\ InputBufferSize \in Nat \ {0} /\ OutputBufferSize \in Nat \ {0}
    /\ \A in \in Inputs : in \in Seq(Seq(KVType)) /\ Len(in) \in 1 .. MaxChannels

Channels == 1 .. MaxChannels

VARIABLES
    pc,             \* "idle", "first", "merge"
    compactions,    \* compactions begun
    input,          \* channels of the running compaction
    unread,         \* what each channel's iterator has not yet delivered
    data,           \* key_data, value_data: the first data_count records are valid
    in_index,       \* position in the buffer; -1: empty
    i,              \* loop variable of the first reads
    out,            \* out_key, out_value up to out_index
    flushed         \* records handed to SU_flush_data

vars == <<pc, compactions, input, unread, data, in_index, i, out, flushed>>

Least(a, b) == IF a <= b THEN a ELSE b

-----------------------------------------------------------------------------
(* onec_readKV *)

\* A channel: what its iterator has left, its buffer and its index.
Chan(c) == [unread |-> unread[c], data |-> data[c], index |-> in_index[c]]

\* do_reload_1c: fill the buffer from the iterator.
Fault_OneTooMany(ch) ==
    LET n == Least(InputBufferSize + 1, Len(ch.unread))
    IN  [unread |-> SubSeq(ch.unread, n + 1, Len(ch.unread)),
         data   |-> SubSeq(ch.unread, 1, n),
         index  |-> IF n = 0 THEN -1 ELSE 0]
Reload(ch) ==
    LET n == Least(InputBufferSize, Len(ch.unread))
    IN  [unread |-> SubSeq(ch.unread, n + 1, Len(ch.unread)),
         data   |-> SubSeq(ch.unread, 1, n),
         index  |-> IF n = 0 THEN -1 ELSE 0]

\* The index moves on; it may come to stand behind the last record.
ReadKV(ch) ==
    IF ch.index \in {InputBufferSize, -1} THEN Reload(ch)
    ELSE IF ch.index = Len(ch.data) THEN [ch EXCEPT !.index = -1]
    ELSE [ch EXCEPT !.index = @ + 1]

\* The head onec_findSmallest gives every channel before it compares.
Refreshed(ch) ==
    IF ch.index = -1 \/ ch.index = Len(ch.data) THEN ReadKV(ch) ELSE ch

Record(ch) == ch.data[ch.index + 1]

\* onec_findSmallest, over refreshed channels: the first least head, 0 for none.
FindSmallest(chs) ==
    LET smallest[c \in 0 .. Len(input)] ==
            IF c = 0 THEN 0
            ELSE LET s == smallest[c - 1]
                 IN  IF /\ chs[c].index /= -1
                        /\ s = 0 \/ MemcmpBefore(Record(chs[c]), Record(chs[s]))
                     THEN c ELSE s
    IN  smallest[Len(input)]

-----------------------------------------------------------------------------
(* onec_EnclCompact *)

\* SU_compact: SU_PrepareInputs made one iterator per channel.
Begin ==
    /\ pc = "idle" /\ compactions < MaxCompactions
    /\ \E in \in Inputs :
          /\ input' = in
          /\ unread' = [c \in Channels |-> IF c <= Len(in) THEN in[c] ELSE <<>>]
    /\ compactions' = compactions + 1
    /\ pc' = "first" /\ i' = 1 /\ flushed' = <<>>
    /\ UNCHANGED <<data, in_index, out>>

\* for (int i=0;i<file_count;i++) onec_readKV(i);
FirstRead ==
    /\ pc = "first"
    /\ LET ch == ReadKV(Chan(i))
       IN  /\ unread' = [unread EXCEPT ![i] = ch.unread]
           /\ data' = [data EXCEPT ![i] = ch.data]
           /\ in_index' = [in_index EXCEPT ![i] = ch.index]
    /\ i' = i + 1
    /\ pc' = IF i = Len(input) THEN "merge" ELSE "first"
    /\ UNCHANGED <<compactions, input, out, flushed>>

\* do_flush_1c: the records of the output buffer go to SU_flush_data in order.
\* It leaves out_index to its callers.
FlushAll == flushed' = flushed \o out

\* onec_writeKV: do_flush_1c empties a full output buffer first.
Fault_FlushDropsLast(r) ==
    IF Len(out) = OutputBufferSize
    THEN flushed' = flushed \o SubSeq(out, 1, Len(out) - 1) /\ out' = <<r>>
    ELSE out' = Append(out, r) /\ UNCHANGED flushed
WriteKV(r) ==
    IF Len(out) = OutputBufferSize
    THEN FlushAll /\ out' = <<r>>
    ELSE out' = Append(out, r) /\ UNCHANGED flushed

\* One round of the main loop.  The channel written moves on; in_index is in
\* range there, so onec_readKV returns 1 and count never changes.
MergeRound ==
    /\ pc = "merge"
    /\ LET chs  == [c \in 1 .. Len(input) |-> Refreshed(Chan(c))]
           next == FindSmallest(chs)
           moved == [chs EXCEPT ![next] = ReadKV(@)]
           upd(f, fld(_)) == [c \in Channels |-> IF c <= Len(input)
                                                 THEN fld(moved[c]) ELSE f[c]]
       IN  /\ next /= 0
           /\ WriteKV(Record(chs[next]))
           /\ unread' = upd(unread, LAMBDA ch : ch.unread)
           /\ data' = upd(data, LAMBDA ch : ch.data)
           /\ in_index' = upd(in_index, LAMBDA ch : ch.index)
    /\ UNCHANGED <<pc, compactions, input, i>>

\* No channel has a record: findSmallest returns -1 and the rest is flushed.
NoneLeft ==
    /\ pc = "merge"
    /\ LET chs == [c \in 1 .. Len(input) |-> Refreshed(Chan(c))]
           upd(f, fld(_)) == [c \in Channels |-> IF c <= Len(input)
                                                 THEN fld(chs[c]) ELSE f[c]]
       IN  /\ FindSmallest(chs) = 0
           /\ unread' = upd(unread, LAMBDA ch : ch.unread)
           /\ data' = upd(data, LAMBDA ch : ch.data)
           /\ in_index' = upd(in_index, LAMBDA ch : ch.index)
    /\ UNCHANGED <<compactions, input, i>>

Fault_NoBreak == NoneLeft /\ UNCHANGED <<pc, out, flushed>>
Fault_OutIndexKept == NoneLeft /\ FlushAll /\ pc' = "idle" /\ UNCHANGED out
Finish == NoneLeft /\ FlushAll /\ out' = <<>> /\ pc' = "idle"

Init ==
    /\ pc = "idle" /\ compactions = 0 /\ input = <<>> /\ i = 1
    /\ unread = [c \in Channels |-> <<>>]
    /\ data = [c \in Channels |-> <<>>]
    /\ in_index = [c \in Channels |-> -1]
    /\ out = <<>> /\ flushed = <<>>

Done == pc = "idle" /\ compactions = MaxCompactions /\ UNCHANGED vars

Next == Begin \/ FirstRead \/ MergeRound \/ Finish \/ Done

\* The enclave call runs to its end.
Spec == Init /\ [][Next]_vars /\ WF_vars(FirstRead \/ MergeRound \/ Finish)

-----------------------------------------------------------------------------
(* Properties *)

\* Indices stay inside their buffers: never past data_count, so that no record
\* of an earlier fill is compared or written, and the output index in range.
IndicesInRange ==
    /\ \A c \in Channels : in_index[c] \in -1 .. Len(data[c])
    /\ \A c \in Channels : Len(data[c]) <= InputBufferSize
    /\ Len(out) <= OutputBufferSize

\* What SU_flush_data has received, with what waits in the buffers, is always
\* a prefix of the merge of the inputs: no record is lost, repeated or moved
\* when a buffer is refilled or flushed in the middle of a run.
OutputIsMerge ==
    LET merged == Merge(input, TRUE)
    IN  /\ IsPrefix(flushed \o out, merged)
        /\ pc = "idle" /\ compactions > 0 => flushed = merged

\* The next compaction finds the shared buffers as the first one did: every
\* channel empty, although in_index is set to -1 nowhere at the start.
BuffersLeftClean ==
    pc = "idle" => out = <<>> /\ \A c \in Channels : in_index[c] = -1

\* The merge ends, although count is never decremented.
MergeEnds == pc /= "idle" ~> pc = "idle"

\* The buffers shared with the enclave: indices in range during a merge and, when it ends,
\* as the next compaction needs them.
BuffersSound == IndicesInRange /\ BuffersLeftClean
=============================================================================
