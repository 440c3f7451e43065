------------------------------ MODULE Records -------------------------------
(***************************************************************************)
(* The records of the store and their two orders.                          *)
(*                                                                         *)
(* A record stands for an internal key with its value: a user key (here a  *)
(* number), a sequence number and a type.  Two records never share a       *)
(* sequence number, so the number also stands for the value.               *)
(*                                                                         *)
(* The store orders records with InternalKeyComparator.  The enclave       *)
(* orders them with memcmp over the encoded internal key: the user key     *)
(* followed by the tag, which EncodeFixed64 stores with its least          *)
(* significant byte first.                                                 *)
(***************************************************************************)
EXTENDS Integers, Sequences, SequencesExt

CONSTANTS ByteBase,     \* values of a byte (256)
          SeqBytes      \* bytes of a sequence number (7)

ASSUME BytesAssumption == ByteBase \in Nat \ {0, 1} /\ SeqBytes \in Nat \ {0}

Types == {"value", "deletion"}

\* InternalKeyComparator::Compare: user key up, then sequence number down.
InternalBefore(a, b) == a.key < b.key \/ (a.key = b.key /\ a.seq > b.seq)

\* The bytes of the tag: the type, then the sequence number from its low end.
TypeByte(r) == IF r.type = "value" THEN 1 ELSE 0
SeqByte(r, i) == (r.seq \div ByteBase ^ i) % ByteBase

\* onec_compare: memcmp of two encoded internal keys.
MemcmpBefore(a, b) ==
    \/ a.key < b.key
    \/ /\ a.key = b.key
       /\ \/ TypeByte(a) < TypeByte(b)
          \/ /\ TypeByte(a) = TypeByte(b)
             /\ \E i \in 0 .. SeqBytes - 1 :
                   /\ SeqByte(a, i) < SeqByte(b, i)
                   /\ \A j \in 0 .. i - 1 : SeqByte(a, j) = SeqByte(b, j)

\* The records of some sequences in the order of a merge that always takes the
\* least head: what MergingIterator yields, in InternalBefore's order, and what
\* the enclave should, in MemcmpBefore's.
Merge(chans, memcmp) ==
    LET Before(a, b) == IF memcmp THEN MemcmpBefore(a, b) ELSE InternalBefore(a, b)
        Step(st, n) ==
            LET live    == {c \in DOMAIN chans : st.pos[c] <= Len(chans[c])}
                Head_(c) == chans[c][st.pos[c]]
                least   == CHOOSE c \in live :
                              \A d \in live \ {c} : Before(Head_(c), Head_(d))
            IN  [pos |-> [st.pos EXCEPT ![least] = @ + 1],
                 out |-> Append(st.out, Head_(least))]
        total == Len(FlattenSeq(chans))
    IN  FoldLeft(Step, [pos |-> [c \in DOMAIN chans |-> 1], out |-> <<>>],
                 [n \in 1 .. total |-> n]).out
=============================================================================
