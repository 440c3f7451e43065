------------------------- MODULE EnclaveMergeProofs -------------------------
(***************************************************************************)
(* Proofs about EnclaveMerge, for any number of channels, any buffer sizes *)
(* and any inputs: the indices of the buffers shared with the enclave stay *)
(* in range, a record is only read where the last reload put one, and a    *)
(* merge leaves the buffers as the next one needs them (BuffersSound).     *)
(***************************************************************************)
EXTENDS EnclaveMerge, NatLemmas, TLAPS

\* A channel whose buffer was filled by do_reload_1c and whose index is in it.
GoodChan(ch) ==
    /\ ch.unread \in Seq(KVType) /\ ch.data \in Seq(KVType)
    /\ ch.index \in -1 .. Len(ch.data) /\ Len(ch.data) <= InputBufferSize

ChanType == [unread : Seq(KVType), data : Seq(KVType), index : Int]

\* The inductive invariant: the types, every channel good, and the channels that the merge
\* has not read yet, or does not have, empty.
MergeInv ==
    /\ pc \in {"idle", "first", "merge"}
    /\ input \in Seq(Seq(KVType))
    /\ unread \in [Channels -> Seq(KVType)] /\ data \in [Channels -> Seq(KVType)]
    /\ in_index \in [Channels -> Int]
    /\ out \in Seq(KVType) /\ flushed \in Seq(KVType)
    /\ i \in Nat
    /\ pc /= "idle" => Len(input) \in 1 .. MaxChannels
    /\ pc = "first" => i \in 1 .. Len(input) /\ \A c \in Channels : c >= i => in_index[c] = -1
    /\ pc = "merge" => \A c \in Channels : c > Len(input) => in_index[c] = -1
    /\ BuffersSound

-----------------------------------------------------------------------------
(* Channels *)

\* The pieces of a sequence.
LEMMA Pieces ==
    ASSUME NEW S, NEW q \in Seq(S), NEW n \in 0 .. Len(q)
    PROVE  /\ SubSeq(q, n + 1, Len(q)) \in Seq(S)
           /\ SubSeq(q, 1, n) \in Seq(S) /\ Len(SubSeq(q, 1, n)) = n
<1> DEFINE len == Len(q)
           m == n + 1
<1>1. len \in Nat /\ m \in Nat /\ 1 <= m /\ m <= len + 1 /\ len - m + 1 \in Nat
      /\ n \in Nat /\ n <= len /\ n - 1 + 1 = n
  OBVIOUS
<1>2. \A k \in 1 .. len : q[k] \in S
  OBVIOUS
<1> HIDE DEF len, m
<1>3. SubSeq(q, m, len) = [k \in 1 .. len - m + 1 |-> q[k + m - 1]]
  BY <1>1
<1>4. \A k \in 1 .. len - m + 1 : k + m - 1 \in 1 .. len
  BY <1>1
<1>5. SubSeq(q, m, len) \in Seq(S)
  BY <1>1, <1>2, <1>3, <1>4
<1>6. SubSeq(q, 1, n) = [k \in 1 .. n - 1 + 1 |-> q[k + 1 - 1]]
  BY <1>1
<1>7. \A k \in 1 .. n - 1 + 1 : k + 1 - 1 \in 1 .. len
  BY <1>1
<1>8. SubSeq(q, 1, n) \in Seq(S) /\ Len(SubSeq(q, 1, n)) = n
  BY <1>1, <1>2, <1>6, <1>7
<1>9. QED
  BY <1>5, <1>8 DEF len, m

\* do_reload_1c fills a buffer from its start, within its size.
LEMMA ReloadGood ==
    ASSUME NEW ch \in ChanType
    PROVE  /\ Reload(ch) \in ChanType /\ GoodChan(Reload(ch))
           /\ Reload(ch).index # -1 => Reload(ch).index < Len(Reload(ch).data)
<1> DEFINE q == ch.unread
           n == Least(InputBufferSize, Len(q))
           r == Reload(ch)
           d == SubSeq(q, 1, n)
           u == SubSeq(q, n + 1, Len(q))
<1>1. q \in Seq(KVType)
  BY DEF ChanType
<1>2. n \in 0 .. Len(q) /\ n <= InputBufferSize
  BY <1>1, BuffersAssumption DEF Least
<1>3. u \in Seq(KVType) /\ d \in Seq(KVType) /\ Len(d) = n
  <2> HIDE DEF q, n
  <2>1. QED
    BY <1>1, <1>2, Pieces
<1>4. r = [unread |-> u, data |-> d, index |-> IF n = 0 THEN -1 ELSE 0]
  BY DEF Reload
<1> HIDE DEF q, n, r, d, u
<1>5. r.unread = u /\ r.data = d /\ r.index = IF n = 0 THEN -1 ELSE 0
  BY <1>4
<1>6. n \in Nat
  BY <1>1, <1>2
<1>7. r \in ChanType
  BY <1>3, <1>4, <1>6 DEF ChanType
<1>8. r.index \in -1 .. n /\ (r.index # -1 => r.index < n)
  BY <1>5, <1>6
<1>9. GoodChan(r)
  BY <1>2, <1>3, <1>5, <1>8 DEF GoodChan
<1>10. QED
  BY <1>3, <1>5, <1>7, <1>8, <1>9 DEF r

\* onec_readKV keeps the index in range; what it puts at -1 or moves is a good channel.
LEMMA ReadKVGood ==
    ASSUME NEW ch \in ChanType, GoodChan(ch)
    PROVE  ReadKV(ch) \in ChanType /\ GoodChan(ReadKV(ch))
<1>1. CASE ch.index \in {InputBufferSize, -1}
  <2>1. ReadKV(ch) = Reload(ch)
    BY <1>1 DEF ReadKV
  <2>2. QED
    BY <2>1, ReloadGood
<1>2. CASE ch.index \notin {InputBufferSize, -1} /\ ch.index = Len(ch.data)
  <2>1. ReadKV(ch) = [ch EXCEPT !.index = -1]
    BY <1>2 DEF ReadKV
  <2>2. QED
    BY <2>1 DEF ChanType, GoodChan
<1>3. CASE ch.index \notin {InputBufferSize, -1} /\ ch.index # Len(ch.data)
  <2> DEFINE r == [ch EXCEPT !.index = @ + 1]
             k == ch.index
             n == Len(ch.data)
  <2>1. ReadKV(ch) = r
    BY <1>3 DEF ReadKV
  <2>2. k \in -1 .. n /\ n \in Nat /\ k # n /\ k + 1 \in Int
    BY <1>3 DEF GoodChan, ChanType
  <2>3. r \in ChanType /\ r.unread = ch.unread /\ r.data = ch.data /\ r.index = k + 1
    BY <2>2 DEF ChanType
  <2> HIDE DEF k, n, r
  <2>4. k + 1 \in -1 .. n
    BY <2>2
  <2>5. GoodChan(r)
    BY <2>3, <2>4 DEF GoodChan, n
  <2>6. QED
    BY <2>1, <2>3, <2>5
<1>4. QED
  BY <1>1, <1>2, <1>3

\* A channel that onec_findSmallest compares has a record of the last reload under its index.
LEMMA RefreshedGood ==
    ASSUME NEW ch \in ChanType, GoodChan(ch)
    PROVE  /\ Refreshed(ch) \in ChanType /\ GoodChan(Refreshed(ch))
           /\ Refreshed(ch).index # -1 => Record(Refreshed(ch)) \in KVType
<1> DEFINE r == Refreshed(ch)
<1>1. r \in ChanType /\ GoodChan(r)
  BY ReadKVGood DEF Refreshed
<1>2. r.index # -1 => r.index < Len(r.data)
  <2>1. CASE ch.index # -1 /\ ch.index # Len(ch.data)
    <3>1. r = ch
      BY <2>1 DEF Refreshed
    <3>2. QED
      BY <2>1, <3>1 DEF GoodChan, ChanType
  <2>2. CASE ch.index \in {InputBufferSize, -1} /\ (ch.index = -1 \/ ch.index = Len(ch.data))
    <3>1. r = Reload(ch)
      BY <2>2 DEF Refreshed, ReadKV
    <3>2. QED
      BY <3>1, ReloadGood
  <2>3. CASE ch.index \notin {InputBufferSize, -1} /\ ch.index = Len(ch.data)
    <3>1. r = [ch EXCEPT !.index = -1]
      BY <2>3 DEF Refreshed, ReadKV
    <3>2. QED
      BY <3>1 DEF ChanType
  <2>4. QED
    BY <2>1, <2>2, <2>3
<1> HIDE DEF r
<1>3. r.index # -1 => r.index + 1 \in 1 .. Len(r.data) /\ r.data \in Seq(KVType)
  BY <1>1, <1>2 DEF GoodChan, ChanType
<1>4. r.index # -1 => Record(r) \in KVType
  BY <1>3 DEF Record
<1>5. QED
  BY <1>1, <1>4 DEF r

\* onec_findSmallest finds a channel that has a record, unless none has.
LEMMA FindSmallestLemma ==
    ASSUME Len(input) \in Nat, NEW chs \in [1 .. Len(input) -> ChanType]
    PROVE  /\ FindSmallest(chs) \in 0 .. Len(input)
           /\ FindSmallest(chs) = 0 => \A c \in 1 .. Len(input) : chs[c].index = -1
           /\ FindSmallest(chs) # 0 => chs[FindSmallest(chs)].index # -1
<1> DEFINE N == Len(input)
           B(c, s) == /\ chs[c].index /= -1
                      /\ s = 0 \/ MemcmpBefore(Record(chs[c]), Record(chs[s]))
           A(f) == [c \in 0 .. N |-> IF c = 0 THEN 0
                                     ELSE LET s == f[c - 1] IN IF B(c, s) THEN c ELSE s]
           sm == CHOOSE f : f = A(f)
           g == [c \in Nat |-> [s \in Nat |-> IF B(c, s) THEN c ELSE s]]
<1>1. FindSmallest(chs) = sm[N]
  BY DEF FindSmallest
<1>2. \A c \in 1 .. N : \A s : B(c, s) => chs[c].index # -1
  OBVIOUS
<1>3. \A c \in 1 .. N : chs[c].index # -1 => B(c, 0)
  OBVIOUS
<1> HIDE DEF B
<1>4. PICK f \in [0 .. N -> Nat] : IsRun(f, 0, g, N)
  <2>1. g \in [Nat -> [Nat -> Nat]] /\ N \in Nat
    OBVIOUS
  <2> HIDE DEF g, N, A, sm
  <2>2. 0 \in Nat
    OBVIOUS
  <2>3. QED
    BY <2>1, <2>2, RunExists
<1>5. \A k \in 0 .. N : f[k] = IF k = 0 THEN 0 ELSE IF B(k, f[k - 1]) THEN k ELSE f[k - 1]
  <2> TAKE k \in 0 .. N
  <2>1. k # 0 => f[k - 1] \in Nat /\ k \in Nat
    OBVIOUS
  <2>2. k # 0 => g[k][f[k - 1]] = IF B(k, f[k - 1]) THEN k ELSE f[k - 1]
    BY <2>1
  <2>3. QED
    BY <1>4, <2>2 DEF IsRun
<1>6. f = A(f)
  BY <1>5
<1>7. sm = A(sm)
  <2>1. \E h : h = A(h)
    <3> HIDE DEF A
    <3>1. QED
      BY <1>6
  <2> HIDE DEF A
  <2>2. QED
    BY <2>1, Zenon
<1>8. \A k \in 0 .. N : sm[k] = IF k = 0 THEN 0 ELSE IF B(k, sm[k - 1]) THEN k ELSE sm[k - 1]
  <2> HIDE DEF sm
  <2>1. \A k \in 0 .. N : sm[k] = A(sm)[k]
    <3> HIDE DEF A
    <3>1. QED
      BY <1>7
  <2>2. \A k \in 0 .. N :
            A(sm)[k] = IF k = 0 THEN 0 ELSE IF B(k, sm[k - 1]) THEN k ELSE sm[k - 1]
    OBVIOUS
  <2> HIDE DEF A
  <2>3. QED
    BY <2>1, <2>2
<1> HIDE DEF sm, N
<1> DEFINE Ok(k) == /\ sm[k] \in 0 .. k
                    /\ sm[k] = 0 => \A c \in 1 .. k : chs[c].index = -1
                    /\ sm[k] # 0 => chs[sm[k]].index # -1
           T == {k \in 0 .. N : ~Ok(k)}
<1>9. N \in Nat /\ (\A c \in 1 .. N : \A s : B(c, s) => chs[c].index # -1)
      /\ \A c \in 1 .. N : chs[c].index # -1 => B(c, 0)
  BY <1>2, <1>3 DEF N
<1>10. Ok(0)
  BY <1>8, <1>9
<1>11. ASSUME NEW k \in 1 .. N, Ok(k - 1)
       PROVE  Ok(k)
  <2> DEFINE s == sm[k - 1]
  <2>1. sm[k] = IF B(k, s) THEN k ELSE s
    BY <1>8, <1>9
  <2>2. /\ s \in 0 .. k - 1 /\ (s # 0 => chs[s].index # -1)
        /\ s = 0 => \A c \in 1 .. k - 1 : chs[c].index = -1
    BY <1>11
  <2> HIDE DEF s
  <2>3. CASE B(k, s)
    BY <1>9, <2>1, <2>3
  <2>4. CASE ~B(k, s)
    <3>1. sm[k] = s /\ s \in 0 .. k
      BY <1>9, <2>1, <2>2, <2>4
    <3>2. s = 0 => chs[k].index = -1
      BY <1>9, <2>4
    <3>3. \A c \in 1 .. k : c = k \/ c \in 1 .. k - 1
      BY <1>9
    <3>4. QED
      BY <2>2, <3>1, <3>2, <3>3
  <2>5. QED
    BY <2>3, <2>4
<1>12. T = {}
  <2> SUFFICES ASSUME T # {}
               PROVE  FALSE
    OBVIOUS
  <2> HIDE DEF Ok
  <2>1. T \in SUBSET Nat
    BY <1>9
  <2>2. PICK m \in T : \A y \in T : m <= y
    BY <2>1, LeastNat
  <2>3. m \in 1 .. N /\ m - 1 \in 0 .. N /\ m - 1 < m
    BY <1>9, <1>10
  <2>4. Ok(m - 1)
    BY <2>2, <2>3
  <2>5. QED
    BY <1>11, <2>3, <2>4
<1>13. Ok(N)
  <2>1. N \in 0 .. N
    BY <1>9
  <2> HIDE DEF Ok
  <2>2. QED
    BY <1>12, <2>1
<1>14. QED
  BY <1>1, <1>13 DEF N

-----------------------------------------------------------------------------
(* The steps *)

\* The channels of a state that satisfies the invariant, and the other way round.
LEMMA ChannelsGood ==
    ASSUME MergeInv
    PROVE  \A c \in Channels : Chan(c) \in ChanType /\ GoodChan(Chan(c))
<1>1. ASSUME NEW c \in Channels
      PROVE  Chan(c) \in ChanType /\ GoodChan(Chan(c))
  <2>1. /\ Chan(c).unread = unread[c] /\ Chan(c).data = data[c] /\ Chan(c).index = in_index[c]
        /\ Chan(c) \in ChanType
    BY DEF Chan, ChanType, MergeInv
  <2>2. in_index[c] \in -1 .. Len(data[c]) /\ Len(data[c]) <= InputBufferSize
    BY DEF MergeInv, BuffersSound, IndicesInRange
  <2>3. QED
    BY <2>1, <2>2 DEF GoodChan, ChanType
<1>2. QED
  BY <1>1

\* The arrays that hold good channels: their types and the ranges of their indices.
LEMMA ArraysGood ==
    ASSUME NEW chs \in [Channels -> ChanType], \A c \in Channels : GoodChan(chs[c]),
           unread' = [c \in Channels |-> chs[c].unread],
           data' = [c \in Channels |-> chs[c].data],
           in_index' = [c \in Channels |-> chs[c].index]
    PROVE  /\ unread' \in [Channels -> Seq(KVType)] /\ data' \in [Channels -> Seq(KVType)]
           /\ in_index' \in [Channels -> Int]
           /\ \A c \in Channels : in_index'[c] \in -1 .. Len(data'[c])
           /\ \A c \in Channels : Len(data'[c]) <= InputBufferSize
           /\ \A c \in Channels : in_index'[c] = chs[c].index
<1>1. \A c \in Channels : /\ chs[c].unread \in Seq(KVType) /\ chs[c].data \in Seq(KVType)
                          /\ chs[c].index \in Int
                          /\ chs[c].index \in -1 .. Len(chs[c].data)
                          /\ Len(chs[c].data) <= InputBufferSize
  BY DEF ChanType, GoodChan
<1>2. \A c \in Channels : /\ unread'[c] = chs[c].unread /\ data'[c] = chs[c].data
                          /\ in_index'[c] = chs[c].index
  OBVIOUS
<1>3. QED
  BY <1>1, <1>2

\* A compaction begins: nothing but its iterators changes in the channels.
LEMMA BeginStep ==
    ASSUME MergeInv, Begin
    PROVE  MergeInv'
<1>1. PICK in \in Inputs :
          /\ pc = "idle" /\ input' = in
          /\ unread' = [c \in Channels |-> IF c <= Len(in) THEN in[c] ELSE <<>>]
          /\ pc' = "first" /\ i' = 1 /\ flushed' = <<>>
          /\ data' = data /\ in_index' = in_index /\ out' = out
  BY DEF Begin
<1>2. in \in Seq(Seq(KVType)) /\ Len(in) \in 1 .. MaxChannels /\ MaxChannels \in Nat
  BY BuffersAssumption
<1>3. unread' \in [Channels -> Seq(KVType)]
  <2>1. \A c \in Channels : c <= Len(in) => in[c] \in Seq(KVType)
    BY <1>2 DEF Channels
  <2>2. <<>> \in Seq(KVType)
    OBVIOUS
  <2>3. QED
    BY <1>1, <2>1, <2>2
<1>4. \A c \in Channels : in_index[c] = -1
  BY <1>1 DEF MergeInv, BuffersSound, BuffersLeftClean
<1>5. BuffersSound'
  BY <1>1 DEF MergeInv, BuffersSound, IndicesInRange, BuffersLeftClean
<1>6. QED
  BY <1>1, <1>2, <1>3, <1>4, <1>5 DEF MergeInv

\* The first read of channel i.
LEMMA FirstReadStep ==
    ASSUME MergeInv, FirstRead
    PROVE  MergeInv'
<1> DEFINE ch == ReadKV(Chan(i))
           chs == [c \in Channels |-> IF c = i THEN ch ELSE Chan(c)]
<1>1. /\ pc = "first" /\ unread' = [unread EXCEPT ![i] = ch.unread]
      /\ data' = [data EXCEPT ![i] = ch.data] /\ in_index' = [in_index EXCEPT ![i] = ch.index]
      /\ i' = i + 1 /\ pc' = IF i = Len(input) THEN "merge" ELSE "first"
      /\ input' = input /\ out' = out /\ flushed' = flushed
  BY DEF FirstRead
<1>2. /\ i \in 1 .. Len(input) /\ Len(input) \in 1 .. MaxChannels /\ MaxChannels \in Nat
      /\ i \in Channels
      /\ \A c \in Channels : c \in Nat /\ (c >= i => in_index[c] = -1)
  BY <1>1, BuffersAssumption DEF MergeInv, Channels
<1>3. ch \in ChanType /\ GoodChan(ch)
  BY <1>2, ChannelsGood, ReadKVGood
<1> HIDE DEF ch
<1>4. chs \in [Channels -> ChanType] /\ \A c \in Channels : GoodChan(chs[c])
  BY <1>3, ChannelsGood
<1>5. /\ \A c \in Channels : chs[c] = IF c = i THEN ch ELSE Chan(c)
      /\ \A c \in Channels : /\ Chan(c).unread = unread[c] /\ Chan(c).data = data[c]
                             /\ Chan(c).index = in_index[c]
  BY DEF Chan
<1> HIDE DEF chs
<1>6. /\ unread' = [c \in Channels |-> chs[c].unread]
      /\ data' = [c \in Channels |-> chs[c].data]
      /\ in_index' = [c \in Channels |-> chs[c].index]
  <2>1. unread' = [c \in Channels |-> chs[c].unread]
    BY <1>1, <1>2, <1>5 DEF MergeInv
  <2>2. data' = [c \in Channels |-> chs[c].data]
    BY <1>1, <1>2, <1>5 DEF MergeInv
  <2>3. in_index' = [c \in Channels |-> chs[c].index]
    BY <1>1, <1>2, <1>5 DEF MergeInv
  <2>4. QED
    BY <2>1, <2>2, <2>3
<1>7. /\ unread' \in [Channels -> Seq(KVType)] /\ data' \in [Channels -> Seq(KVType)]
      /\ in_index' \in [Channels -> Int]
      /\ \A c \in Channels : in_index'[c] \in -1 .. Len(data'[c])
      /\ \A c \in Channels : Len(data'[c]) <= InputBufferSize
      /\ \A c \in Channels : in_index'[c] = chs[c].index
  BY <1>4, <1>6, ArraysGood
<1>8. \A c \in Channels : c >= i + 1 => in_index'[c] = -1
  BY <1>2, <1>5, <1>7
<1>9. BuffersSound'
  BY <1>1, <1>7 DEF MergeInv, BuffersSound, IndicesInRange, BuffersLeftClean
<1>10. /\ i + 1 \in Nat
       /\ pc' = "first" => i' \in 1 .. Len(input)
       /\ pc' = "merge" => \A c \in Channels : c > Len(input) => in_index'[c] = -1
  BY <1>1, <1>2, <1>8
<1>11. QED
  BY <1>1, <1>2, <1>7, <1>8, <1>9, <1>10 DEF MergeInv

\* The refreshed channels of a merge.
LEMMA RefreshedChannels ==
    ASSUME MergeInv, pc = "merge"
    PROVE  /\ Len(input) \in Nat /\ 1 .. Len(input) \subseteq Channels
           /\ \A c \in Channels : c \in Nat /\ (c <= Len(input) <=> c \in 1 .. Len(input))
           /\ [c \in 1 .. Len(input) |-> Refreshed(Chan(c))] \in [1 .. Len(input) -> ChanType]
           /\ \A c \in 1 .. Len(input) :
                 /\ Refreshed(Chan(c)) \in ChanType /\ GoodChan(Refreshed(Chan(c)))
                 /\ Refreshed(Chan(c)).index # -1 => Record(Refreshed(Chan(c))) \in KVType
<1>1. Len(input) \in Nat /\ 1 .. Len(input) \subseteq Channels
      /\ \A c \in Channels : c \in Nat /\ (c <= Len(input) <=> c \in 1 .. Len(input))
  <2>1. Len(input) \in 1 .. MaxChannels /\ MaxChannels \in Nat
    BY BuffersAssumption DEF MergeInv
  <2>2. \A n \in 1 .. MaxChannels :
            /\ n \in Nat /\ 1 .. n \subseteq 1 .. MaxChannels
            /\ \A c \in 1 .. MaxChannels : c \in Nat /\ (c <= n <=> c \in 1 .. n)
    BY <2>1
  <2>3. QED
    BY <2>1, <2>2 DEF Channels
<1>2. \A c \in 1 .. Len(input) :
          /\ Refreshed(Chan(c)) \in ChanType /\ GoodChan(Refreshed(Chan(c)))
          /\ Refreshed(Chan(c)).index # -1 => Record(Refreshed(Chan(c))) \in KVType
  <2> TAKE c \in 1 .. Len(input)
  <2>1. c \in Channels
    BY <1>1
  <2>2. Chan(c) \in ChanType /\ GoodChan(Chan(c))
    BY <2>1, ChannelsGood
  <2>3. QED
    BY <2>2, RefreshedGood
<1>3. QED
  BY <1>1, <1>2

\* onec_writeKV keeps the output buffer within its size.
LEMMA WriteKVStep ==
    ASSUME MergeInv, NEW r \in KVType, WriteKV(r)
    PROVE  out' \in Seq(KVType) /\ flushed' \in Seq(KVType) /\ Len(out') <= OutputBufferSize
<1>1. out \in Seq(KVType) /\ flushed \in Seq(KVType) /\ Len(out) <= OutputBufferSize
      /\ OutputBufferSize \in Nat \ {0}
  BY BuffersAssumption DEF MergeInv, BuffersSound, IndicesInRange
<1>2. CASE Len(out) = OutputBufferSize
  <2>1. flushed' = flushed \o out /\ out' = <<r>>
    BY <1>2 DEF WriteKV, FlushAll
  <2>2. QED
    BY <1>1, <2>1
<1>3. CASE Len(out) # OutputBufferSize
  <2>1. out' = Append(out, r) /\ flushed' = flushed
    BY <1>3 DEF WriteKV
  <2>2. Append(out, r) \in Seq(KVType) /\ Len(Append(out, r)) = Len(out) + 1 /\ Len(out) \in Nat
    BY <1>1
  <2>3. QED
    BY <1>1, <1>3, <2>1, <2>2
<1>4. QED
  BY <1>2, <1>3

\* One round of the main loop.
LEMMA MergeRoundStep ==
    ASSUME MergeInv, MergeRound
    PROVE  MergeInv'
<1> DEFINE chs == [c \in 1 .. Len(input) |-> Refreshed(Chan(c))]
           next == FindSmallest(chs)
           moved == [chs EXCEPT ![next] = ReadKV(@)]
           all == [c \in Channels |-> IF c <= Len(input) THEN moved[c] ELSE Chan(c)]
<1>1. /\ pc = "merge" /\ next /= 0 /\ WriteKV(Record(chs[next]))
      /\ unread' = [c \in Channels |-> IF c <= Len(input) THEN moved[c].unread ELSE unread[c]]
      /\ data' = [c \in Channels |-> IF c <= Len(input) THEN moved[c].data ELSE data[c]]
      /\ in_index' = [c \in Channels |-> IF c <= Len(input) THEN moved[c].index ELSE in_index[c]]
      /\ pc' = pc /\ input' = input /\ i' = i
  BY DEF MergeRound
<1>2. /\ Len(input) \in Nat /\ 1 .. Len(input) \subseteq Channels
      /\ \A c \in Channels : c \in Nat /\ (c <= Len(input) <=> c \in 1 .. Len(input))
      /\ chs \in [1 .. Len(input) -> ChanType]
      /\ \A c \in 1 .. Len(input) :
            GoodChan(chs[c]) /\ (chs[c].index # -1 => Record(chs[c]) \in KVType)
  BY <1>1, RefreshedChannels
<1> HIDE DEF chs
<1>3. next \in 1 .. Len(input) /\ chs[next].index # -1
  <2>1. next \in 0 .. Len(input) /\ chs[next].index # -1
    BY <1>1, <1>2, FindSmallestLemma
  <2> HIDE DEF next
  <2>2. QED
    BY <1>1, <1>2, <2>1
<1> HIDE DEF next
<1>4. /\ moved \in [1 .. Len(input) -> ChanType]
      /\ \A c \in 1 .. Len(input) : GoodChan(moved[c])
  <2>1. chs[next] \in ChanType /\ ReadKV(chs[next]) \in ChanType /\ GoodChan(ReadKV(chs[next]))
    BY <1>2, <1>3, ReadKVGood
  <2>2. QED
    BY <1>2, <1>3, <2>1
<1> HIDE DEF moved
<1>5. all \in [Channels -> ChanType] /\ \A c \in Channels : GoodChan(all[c])
  BY <1>2, <1>4, ChannelsGood
<1>6. \A c \in Channels : /\ Chan(c).unread = unread[c] /\ Chan(c).data = data[c]
                          /\ Chan(c).index = in_index[c]
  BY DEF Chan
<1>7. \A c \in Channels : all[c] = IF c <= Len(input) THEN moved[c] ELSE Chan(c)
  OBVIOUS
<1> HIDE DEF all
<1>8. /\ unread' = [c \in Channels |-> all[c].unread]
      /\ data' = [c \in Channels |-> all[c].data]
      /\ in_index' = [c \in Channels |-> all[c].index]
  BY <1>1, <1>6, <1>7
<1>9. /\ unread' \in [Channels -> Seq(KVType)] /\ data' \in [Channels -> Seq(KVType)]
      /\ in_index' \in [Channels -> Int]
      /\ \A c \in Channels : in_index'[c] \in -1 .. Len(data'[c])
      /\ \A c \in Channels : Len(data'[c]) <= InputBufferSize
      /\ \A c \in Channels : in_index'[c] = all[c].index
  BY <1>5, <1>8, ArraysGood
<1>10. out' \in Seq(KVType) /\ flushed' \in Seq(KVType) /\ Len(out') <= OutputBufferSize
  BY <1>1, <1>2, <1>3, WriteKVStep
<1>11. \A c \in Channels : c > Len(input) => in_index'[c] = -1
  BY <1>1, <1>2, <1>6, <1>7, <1>9 DEF MergeInv
<1>12. BuffersSound'
  BY <1>1, <1>9, <1>10 DEF BuffersSound, IndicesInRange, BuffersLeftClean
<1>13. QED
  BY <1>1, <1>9, <1>10, <1>11, <1>12 DEF MergeInv

\* The merge ends: every channel it read is empty, and so is the output buffer.
LEMMA FinishStep ==
    ASSUME MergeInv, Finish
    PROVE  MergeInv'
<1> DEFINE chs == [c \in 1 .. Len(input) |-> Refreshed(Chan(c))]
           all == [c \in Channels |-> IF c <= Len(input) THEN chs[c] ELSE Chan(c)]
<1>1. /\ pc = "merge" /\ FindSmallest(chs) = 0
      /\ unread' = [c \in Channels |-> IF c <= Len(input) THEN chs[c].unread ELSE unread[c]]
      /\ data' = [c \in Channels |-> IF c <= Len(input) THEN chs[c].data ELSE data[c]]
      /\ in_index' = [c \in Channels |-> IF c <= Len(input) THEN chs[c].index ELSE in_index[c]]
      /\ pc' = "idle" /\ input' = input /\ i' = i /\ out' = <<>> /\ flushed' = flushed \o out
  BY DEF Finish, NoneLeft, FlushAll
<1>2. /\ Len(input) \in Nat /\ 1 .. Len(input) \subseteq Channels
      /\ \A c \in Channels : c \in Nat /\ (c <= Len(input) <=> c \in 1 .. Len(input))
      /\ chs \in [1 .. Len(input) -> ChanType]
      /\ \A c \in 1 .. Len(input) : GoodChan(chs[c])
  BY <1>1, RefreshedChannels
<1> HIDE DEF chs
<1>3. \A c \in 1 .. Len(input) : chs[c].index = -1
  BY <1>1, <1>2, FindSmallestLemma
<1>4. all \in [Channels -> ChanType] /\ \A c \in Channels : GoodChan(all[c])
  BY <1>2, ChannelsGood
<1>5. \A c \in Channels : /\ Chan(c).unread = unread[c] /\ Chan(c).data = data[c]
                          /\ Chan(c).index = in_index[c]
  BY DEF Chan
<1>6. \A c \in Channels : all[c] = IF c <= Len(input) THEN chs[c] ELSE Chan(c)
  OBVIOUS
<1> HIDE DEF all
<1>7. /\ unread' = [c \in Channels |-> all[c].unread]
      /\ data' = [c \in Channels |-> all[c].data]
      /\ in_index' = [c \in Channels |-> all[c].index]
  BY <1>1, <1>5, <1>6
<1>8. /\ unread' \in [Channels -> Seq(KVType)] /\ data' \in [Channels -> Seq(KVType)]
      /\ in_index' \in [Channels -> Int]
      /\ \A c \in Channels : in_index'[c] \in -1 .. Len(data'[c])
      /\ \A c \in Channels : Len(data'[c]) <= InputBufferSize
      /\ \A c \in Channels : in_index'[c] = all[c].index
  BY <1>4, <1>7, ArraysGood
<1>9. \A c \in Channels : in_index'[c] = -1
  <2> TAKE c \in Channels
  <2>1. CASE c <= Len(input)
    BY <1>2, <1>3, <1>6, <1>8, <2>1
  <2>2. CASE ~(c <= Len(input))
    BY <1>1, <1>2, <1>5, <1>6, <1>8, <2>2 DEF MergeInv
  <2>3. QED
    BY <2>1, <2>2
<1>10. /\ out' \in Seq(KVType) /\ flushed' \in Seq(KVType) /\ Len(out') <= OutputBufferSize
  BY <1>1, BuffersAssumption DEF MergeInv
<1>11. BuffersSound'
  BY <1>1, <1>8, <1>9, <1>10 DEF BuffersSound, IndicesInRange, BuffersLeftClean
<1>12. QED
  BY <1>1, <1>8, <1>10, <1>11 DEF MergeInv

\* The buffers are empty before the first compaction.
LEMMA MergeInit == Init => MergeInv
<1> SUFFICES ASSUME Init
             PROVE  MergeInv
  OBVIOUS
<1>1. <<>> \in Seq(KVType) /\ <<>> \in Seq(Seq(KVType)) /\ Len(<<>>) = 0
  OBVIOUS
<1>2. \A c \in Channels : data[c] = <<>> /\ in_index[c] = -1
  BY DEF Init
<1>3. InputBufferSize \in Nat /\ OutputBufferSize \in Nat
  BY BuffersAssumption
<1>4. BuffersSound
  BY <1>1, <1>2, <1>3 DEF Init, BuffersSound, IndicesInRange, BuffersLeftClean
<1>5. QED
  BY <1>1, <1>4 DEF Init, MergeInv

\* Every step of the merge keeps the invariant.
LEMMA MergeNext == MergeInv /\ [Next]_vars => MergeInv'
<1> SUFFICES ASSUME MergeInv, [Next]_vars
             PROVE  MergeInv'
  OBVIOUS
<1>1. CASE UNCHANGED vars
  BY <1>1 DEF vars, MergeInv, BuffersSound, IndicesInRange, BuffersLeftClean
<1>2. CASE Done
  BY <1>2 DEF Done, vars, MergeInv, BuffersSound, IndicesInRange, BuffersLeftClean
<1>3. QED
  BY <1>1, <1>2, BeginStep, FirstReadStep, MergeRoundStep, FinishStep DEF Next

\* Whatever the inputs and the buffer sizes, the indices of onec_EnclCompact stay inside
\* their buffers, and a merge leaves every channel and the output buffer empty.
THEOREM BuffersAreSound == Spec => []BuffersSound
<1>1. MergeInv => BuffersSound
  BY DEF MergeInv
<1>2. QED
  BY MergeInit, MergeNext, <1>1, PTL DEF Spec
=============================================================================
