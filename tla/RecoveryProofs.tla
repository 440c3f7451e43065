--------------------------- MODULE RecoveryProofs ---------------------------
(***************************************************************************)
(* Proofs about Recovery, for any number of writes, crashes, failures,     *)
(* compactions and readers: an open database has every write that must     *)
(* have survived (NothingLost) and every table that is needed              *)
(* (NeededTablesExist), sequence and file numbers go on above everything   *)
(* that is left (NumbersFresh), and a database that was open once opens    *)
(* again (OpensAgain).                                                     *)
(***************************************************************************)
EXTENDS Recovery, NatLemmas, FiniteSetTheorems, TLAPS

-----------------------------------------------------------------------------
(* What the descriptor, the tables and the logs hold *)

\* The records written so far.
Known == [id : 1 .. ids, seq : 1 .. ids]
LogType == [recs : Seq(Recs), synced : Nat, torn : BOOLEAN, lost : SUBSET Recs]
EditType == [full : BOOLEAN, log : Nat, next : Nat, last : Nat, add : SUBSET Nat, del : SUBSET Nat]
ManifestType == [edits : Seq(EditType), synced : Nat]
ViewType == [files : SUBSET Nat, log : Nat, next : Nat, last : Nat, have : BOOLEAN]

\* What Open finds in the descriptor, as it is and after a power loss.
Full == Recovered(manifests[current].edits)
ViewsOf(m) == {Recovered(SubSeq(m.edits, 1, k)) : k \in m.synced .. Len(m.edits)}
Views == ViewsOf(manifests[current])

\* The records of the tables S; of the logs S, the ones the reader does not return included;
\* of the logs from number n on, and of their synced parts.
TableRecs(t, S) == UNION {t[f] : f \in S \cap DOMAIN t}
InLog(log, r) == (\E i \in 1 .. Len(log.recs) : r = log.recs[i]) \/ r \in log.lost
InSyncedLog(log, r) == (\E i \in 1 .. log.synced : r = log.recs[i]) \/ r \in log.lost
RecsOf(g, S) == UNION {{g[l].recs[i] : i \in 1 .. Len(g[l].recs)} \cup g[l].lost : l \in S \cap DOMAIN g}
LogRecs(g, n) == RecsOf(g, {l \in DOMAIN g : l >= n})
SyncedRecs(g, n) ==
    UNION {{g[l].recs[i] : i \in 1 .. g[l].synced} \cup g[l].lost : l \in {l \in DOMAIN g : l >= n}}

\* What a database opened with view v of the descriptor reads.
Reach(t, g, v) == TableRecs(t, v.files) \cup LogRecs(g, v.log)

\* No sequence number twice.
OneEach(S) == \A a, b \in S : a.seq = b.seq => a = b

\* The view has numbers above its own, tables for its files, no sequence number twice, and
\* everything that is durable.
GoodView(v) ==
    /\ current < v.next /\ v.log < v.next /\ v.last <= ids /\ v.next <= Full.next
    /\ \A n \in v.files : n \in DOMAIN tables /\ tables[n] # {} /\ n < v.next
    /\ \A r \in TableRecs(tables, v.files) : r.seq <= v.last
    /\ OneEach(Reach(tables, logs, v))
    /\ durable \subseteq skipped \cup TableRecs(tables, v.files) \cup SyncedRecs(logs, v.log)

-----------------------------------------------------------------------------
(* The inductive invariant *)

DiskTypeOK ==
    /\ \A n \in DOMAIN logs : /\ n \in Nat /\ logs[n] \in LogType
                              /\ logs[n].synced <= Len(logs[n].recs)
                              /\ \A i \in 1 .. Len(logs[n].recs) : logs[n].recs[i] \in Known
                              /\ logs[n].lost \subseteq Known
    /\ \A n \in DOMAIN tables : n \in Nat /\ tables[n] \subseteq Known
    /\ \A n \in DOMAIN manifests : /\ n \in Nat /\ manifests[n] \in ManifestType
                                   /\ manifests[n].synced <= Len(manifests[n].edits)
    /\ current \in Nat /\ temps \subseteq Nat

MemoryTypeOK ==
    /\ pc \in OpenStages \cup {"down", "up", "purge", "corrupt"}
    /\ mem \subseteq Known /\ imm \subseteq Known /\ logfile_number \in Nat
    /\ vs \in [files : SUBSET Nat, log : Nat, next : Nat, last : Nat, manifest : Nat]
    /\ open \in [logs : SUBSET Nat, add : SUBSET Nat, max_sequence : Nat]
    /\ pending \subseteq Nat /\ held \subseteq SUBSET Nat
    /\ writing \subseteq [rec : Known, sync : BOOLEAN]
    /\ flush \in [stage : {"none", "build", "manifest"}, out : Nat]
    /\ comp \in [stage : {"none", "merge", "manifest"}, in : SUBSET Nat, out : Nat, move : BOOLEAN]
    /\ bg_error \in BOOLEAN

HistoryTypeOK ==
    /\ ids \in 0 .. MaxWrites /\ acked \subseteq Known /\ durable \subseteq acked
    /\ skipped \subseteq Known /\ dropped \subseteq skipped /\ opened \in BOOLEAN

\* Before the first Open has succeeded there is nothing to lose, and after it there is a CURRENT.
FirstInv ==
    /\ ~opened => acked = {} /\ \A n \in DOMAIN logs : logs[n].recs = <<>> /\ logs[n].lost = {}
    /\ current = 0 => ~opened
    /\ current # 0 => current \in DOMAIN manifests
    /\ pc \in {"newdb_tmp", "newdb_rename"} =>
          current = 0 /\ 1 \in DOMAIN manifests /\ manifests[1].edits = <<Edit(0, 2, 0, {}, {})>>
    /\ pc = "recover" => current # 0
    /\ opened => pc # "corrupt"

\* Every descriptor but the first was created after a log with a larger number.
NumberInv == \A m \in DOMAIN manifests : m = 1 \/ \E l \in DOMAIN logs : l > m

\* Whatever a crash leaves of the descriptor is good, and all of it has every acknowledged
\* record.
ViewInv ==
    current # 0 =>
        /\ \A v \in Views : (opened => v.have) /\ (v.have => GoodView(v))
        /\ Full.have => acked \subseteq skipped \cup Reach(tables, logs, Full)

\* A process that has not opened the database has nothing of it in memory.
IdleInv ==
    pc \notin {"up", "purge"} =>
        /\ mem = {} /\ imm = {} /\ pending = {} /\ held = {} /\ writing = {}
        /\ flush = NoFlush /\ comp = NoCompaction /\ ~bg_error

Later == {"manifest", "open_sync", "open_tmp", "open_rename"}

\* During Open: the Version is that of the descriptor; logs not replayed yet, tables made of
\* the others.
OpenInv ==
    pc \in {"replay"} \cup Later =>
        /\ current # 0 /\ Full.have
        /\ vs.files = Full.files /\ vs.log = Full.log /\ vs.manifest = Full.next
        /\ vs.manifest < vs.next /\ vs.last <= ids /\ open.max_sequence <= ids
        /\ \A n \in open.add : /\ n \in DOMAIN tables /\ tables[n] # {}
                               /\ Full.next <= n /\ n < vs.next
        /\ TableRecs(tables, open.add) \subseteq LogRecs(logs, Full.log)
        /\ \A n \in open.logs : n \in DOMAIN logs /\ n >= vs.log
        /\ \A n \in DOMAIN logs : n < vs.next \/ n \in open.logs
        /\ acked \subseteq skipped \cup TableRecs(tables, vs.files \cup open.add) \cup RecsOf(logs, open.logs)

ReplayInv ==
    pc = "replay" =>
        /\ vs.last = Full.last
        /\ \A r \in TableRecs(tables, open.add) : r.seq <= open.max_sequence

\* After the replay: the new log, and then the new descriptor.
LaterInv ==
    pc \in Later =>
        /\ open.logs = {} /\ logfile_number \in DOMAIN logs
        /\ logs[logfile_number].recs = <<>> /\ logs[logfile_number].lost = {}
        /\ vs.log <= logfile_number /\ logfile_number < vs.next
        /\ \A n \in DOMAIN logs : n <= logfile_number
        /\ \A m \in DOMAIN manifests \cup {vs.manifest} : m < logfile_number
        /\ \A r \in TableRecs(tables, vs.files \cup open.add) : r.seq <= vs.last
        /\ pc \in {"open_sync", "open_tmp", "open_rename"} =>
              /\ vs.manifest \in DOMAIN manifests
              /\ manifests[vs.manifest].edits =
                    <<WriteSnapshot(vs.files), EditNow(logfile_number, open.add, {})>>
        /\ pc \in {"open_tmp", "open_rename"} => manifests[vs.manifest].synced = 2

IsUp == pc \in {"up", "purge"}

\* Numbers while the database is open.
UpNumbers ==
    IsUp =>
        /\ opened /\ current = vs.manifest /\ current # 0
        /\ logfile_number \in DOMAIN logs /\ vs.log <= logfile_number /\ logfile_number < vs.next
        /\ \A n \in DOMAIN logs : n <= logfile_number
        /\ \A m \in DOMAIN manifests : m < logfile_number
        /\ \A n \in vs.files \cup pending \cup UNION held : n < vs.next
        /\ pc = "up" \/ bg_error => \A n \in DOMAIN tables : n < vs.next
        /\ Full.next <= vs.next /\ vs.log <= Full.log /\ Full.last <= vs.last /\ vs.last <= ids
        /\ \A v \in Views : v.log <= logfile_number

\* Tables while the database is open: those of Versions, of the flush and of the compaction.
UpTables ==
    IsUp =>
        /\ \A n \in vs.files \cup UNION held : n \in DOMAIN tables /\ tables[n] # {}
        /\ flush.stage = "none" => flush = NoFlush
        /\ flush.stage # "none" => imm # {} /\ flush.out \in DOMAIN tables
        /\ flush.stage = "build" => /\ flush.out \in pending
                                    /\ flush.out \notin vs.files \cup UNION held
                                    /\ \A v \in Views : flush.out \notin v.files
        /\ flush.stage = "manifest" => /\ flush.out \in Full.files /\ tables[flush.out] = imm
                                       /\ Full.log = logfile_number
        /\ comp.stage = "none" => comp = NoCompaction
        /\ comp.in \subseteq vs.files
        /\ comp.stage # "none" => comp.in # {} /\ comp.out \in DOMAIN tables
        /\ comp.stage = "merge" => /\ comp.out \in pending /\ tables[comp.out] = {} /\ ~comp.move
                                   /\ flush.stage # "none" => comp.out # flush.out
        /\ comp.stage = "manifest" => /\ comp.out \in Full.files /\ flush = NoFlush
                                      /\ TableRecs(tables, comp.in) \subseteq tables[comp.out]
        /\ pc = "purge" => flush = NoFlush /\ comp.stage # "manifest"

\* Until an error the descriptor says what is installed, and the edit being installed.
UpExact ==
    IsUp /\ ~bg_error =>
        /\ flush.stage # "manifest" /\ comp.stage # "manifest" =>
              Views = {Full} /\ Full.files = vs.files /\ Full.log = vs.log
        /\ flush.stage = "manifest" => Full.files = vs.files \cup {flush.out}
        /\ comp.stage = "manifest" => Full.files = (vs.files \ comp.in) \cup {comp.out} /\ Full.log = vs.log

\* The records of the descriptor's tables and of the logs that the installed Version needs.
Around == TableRecs(tables, Full.files) \cup LogRecs(logs, vs.log)

\* Records while the database is open.
UpRecords ==
    IsUp =>
        /\ mem \subseteq acked /\ imm \subseteq acked /\ mem \cap imm = {}
        /\ acked \subseteq skipped \cup mem \cup imm \cup TableRecs(tables, vs.files)
        /\ TableRecs(tables, vs.files) \subseteq TableRecs(tables, Full.files)
        /\ mem \subseteq LogRecs(logs, logfile_number) /\ imm \subseteq LogRecs(logs, vs.log)
        /\ durable \cap mem \subseteq SyncedRecs(logs, logfile_number)
        /\ durable \cap imm \subseteq SyncedRecs(logs, vs.log)
        /\ OneEach(Around)

\* Sequence numbers while the database is open.
UpSequences ==
    IsUp =>
        /\ \A r \in mem \cup imm \cup TableRecs(tables, vs.files) : r.seq <= vs.last
        /\ \A r \in Around : r.seq <= vs.last \/ \E w \in writing : r = w.rec
        /\ \A v \in Views : \A r \in Reach(tables, logs, v) :
              r.seq <= vs.last \/ \E w \in writing : r = w.rec
        /\ \A w \in writing : /\ w.rec.seq = vs.last + 1 /\ w.rec \notin acked
                              /\ w.rec \in LogRecs(logs, logfile_number)
        /\ \A w, x \in writing : w = x

UpInv == UpNumbers /\ UpTables /\ UpExact /\ UpRecords /\ UpSequences
RecInv == /\ DiskTypeOK /\ MemoryTypeOK /\ HistoryTypeOK /\ FirstInv /\ NumberInv /\ ViewInv
          /\ IdleInv /\ OpenInv /\ ReplayInv /\ LaterInv /\ UpInv

-----------------------------------------------------------------------------
(* VersionSet::Recover *)

\* The edits of a descriptor are applied one after the other.
LEMMA RecoveredRun ==
    ASSUME NEW s \in Seq(EditType), NEW g \in [Nat -> [ViewType -> ViewType]],
           \A k \in 1 .. Len(s) : \A v \in ViewType : g[k][v] = Apply(v, s[k])
    PROVE  \E f \in [0 .. Len(s) -> ViewType] :
               IsRun(f, NoEdits, g, Len(s)) /\ Recovered(s) = f[Len(s)]
<1> DEFINE N == Len(s)
           A(f) == [k \in 0 .. N |-> IF k = 0 THEN NoEdits ELSE Apply(f[k - 1], s[k])]
           sm == CHOOSE f : f = A(f)
<1>1. N \in Nat /\ NoEdits \in ViewType
  BY DEF NoEdits, ViewType
<1>2. Recovered(s) = sm[N]
  BY DEF Recovered
<1>3. PICK f \in [0 .. N -> ViewType] : IsRun(f, NoEdits, g, N)
  <2> HIDE DEF N, A, sm
  <2>1. QED
    BY <1>1, RunExists
<1>4. \A k \in 0 .. N : f[k] = IF k = 0 THEN NoEdits ELSE Apply(f[k - 1], s[k])
  <2> TAKE k \in 0 .. N
  <2>1. k # 0 => k - 1 \in 0 .. N /\ k \in 1 .. N
    BY <1>1
  <2>2. k # 0 => f[k - 1] \in ViewType
    BY <2>1
  <2>3. k # 0 => g[k][f[k - 1]] = Apply(f[k - 1], s[k])
    BY <2>1, <2>2
  <2>4. QED
    BY <1>3, <2>3 DEF IsRun
<1>5. f = A(f)
  <2> HIDE DEF N
  <2>1. QED
    BY <1>4
<1>6. sm = A(sm)
  <2> HIDE DEF A
  <2>1. \E h : h = A(h)
    BY <1>5
  <2>2. QED
    BY <2>1, Zenon
<1> HIDE DEF sm
<1>7. \A k \in 0 .. N : sm[k] = IF k = 0 THEN NoEdits ELSE Apply(sm[k - 1], s[k])
  <2>1. \A k \in 0 .. N : A(sm)[k] = IF k = 0 THEN NoEdits ELSE Apply(sm[k - 1], s[k])
    OBVIOUS
  <2> HIDE DEF A, N
  <2>2. QED
    BY <1>6, <2>1
<1> HIDE DEF A, N
<1> DEFINE T == {k \in 0 .. N : f[k] # sm[k]}
<1>8. T = {}
  <2> SUFFICES ASSUME T # {}
               PROVE  FALSE
    OBVIOUS
  <2>1. T \in SUBSET Nat
    BY <1>1
  <2>2. PICK k \in T : \A y \in T : k <= y
    BY <2>1, LeastNat
  <2>3. k \in 0 .. N /\ f[k] # sm[k] /\ k # 0
    BY <1>4, <1>7
  <2>4. k - 1 \in 0 .. N /\ ~(k <= k - 1)
    BY <1>1, <2>3
  <2>5. f[k - 1] = sm[k - 1]
    BY <2>2, <2>4
  <2>6. QED
    BY <1>4, <1>7, <2>3, <2>5
<1>9. f[N] = sm[N]
  <2>1. N \in 0 .. N
    BY <1>1
  <2>2. QED
    BY <1>8, <2>1
<1>10. QED
  BY <1>2, <1>3, <1>9 DEF N

\* Apply keeps the type.
LEMMA ApplyType ==
    ASSUME NEW v \in ViewType, NEW e \in EditType
    PROVE  Apply(v, e) \in ViewType
BY DEF ViewType, EditType, Apply

\* What Recover makes of an empty descriptor, and of one with another edit.
LEMMA RecoveredEdits ==
    /\ Recovered(<<>>) = NoEdits
    /\ \A s \in Seq(EditType) : Recovered(s) \in ViewType
    /\ \A s \in Seq(EditType), e \in EditType : Recovered(Append(s, e)) = Apply(Recovered(s), e)
<1>1. ASSUME NEW s \in Seq(EditType)
      PROVE  /\ Recovered(s) \in ViewType
             /\ Len(s) = 0 => Recovered(s) = NoEdits
  <2> DEFINE g == [k \in Nat |-> [v \in ViewType |-> IF k \in 1 .. Len(s) THEN Apply(v, s[k]) ELSE v]]
  <2>1. g \in [Nat -> [ViewType -> ViewType]]
    <3>1. \A k \in 1 .. Len(s) : s[k] \in EditType
      OBVIOUS
    <3>2. \A k \in Nat : \A v \in ViewType : (IF k \in 1 .. Len(s) THEN Apply(v, s[k]) ELSE v) \in ViewType
      BY <3>1, ApplyType
    <3>3. QED
      BY <3>2
  <2>2. \A k \in 1 .. Len(s) : \A v \in ViewType : g[k][v] = Apply(v, s[k])
    OBVIOUS
  <2> HIDE DEF g
  <2>3. PICK f \in [0 .. Len(s) -> ViewType] :
               IsRun(f, NoEdits, g, Len(s)) /\ Recovered(s) = f[Len(s)]
    BY <2>1, <2>2, RecoveredRun
  <2>4. Len(s) \in Nat /\ Len(s) \in 0 .. Len(s)
    OBVIOUS
  <2>5. QED
    BY <2>3, <2>4 DEF IsRun
<1>2. ASSUME NEW s \in Seq(EditType), NEW e \in EditType
      PROVE  Recovered(Append(s, e)) = Apply(Recovered(s), e)
  <2> DEFINE u == Append(s, e)
             n == Len(s)
             g == [k \in Nat |-> [v \in ViewType |-> IF k \in 1 .. Len(u) THEN Apply(v, u[k]) ELSE v]]
  <2>0. /\ u \in Seq(EditType) /\ Len(u) = n + 1 /\ u[n + 1] = e
        /\ \A k \in 1 .. n : u[k] = s[k]
    OBVIOUS
  <2>1. g \in [Nat -> [ViewType -> ViewType]]
    <3>1. \A k \in 1 .. Len(u) : u[k] \in EditType
      BY <2>0
    <3>2. \A k \in Nat : \A v \in ViewType : (IF k \in 1 .. Len(u) THEN Apply(v, u[k]) ELSE v) \in ViewType
      BY <3>1, ApplyType
    <3>3. QED
      BY <3>2
  <2>2. \A k \in 1 .. Len(u) : \A v \in ViewType : g[k][v] = Apply(v, u[k])
    OBVIOUS
  <2>3. n \in Nat
    OBVIOUS
  <2> HIDE DEF g, u
  <2>4. \A k \in 1 .. n : \A v \in ViewType : g[k][v] = Apply(v, s[k])
    BY <2>0, <2>2, <2>3
  <2>5. PICK f \in [0 .. Len(s) -> ViewType] :
               IsRun(f, NoEdits, g, Len(s)) /\ Recovered(s) = f[Len(s)]
    BY <2>1, <2>4, RecoveredRun
  <2>6. PICK h \in [0 .. Len(u) -> ViewType] :
               IsRun(h, NoEdits, g, Len(u)) /\ Recovered(u) = h[Len(u)]
    BY <2>0, <2>1, <2>2, RecoveredRun
  <2> HIDE DEF n
  <2>7. \A k \in 0 .. n : f[k] = h[k]
    <3>1. n <= n + 1 /\ n + 1 \in Nat /\ IsRun(f, NoEdits, g, n) /\ IsRun(h, NoEdits, g, n + 1)
      BY <2>0, <2>3, <2>5, <2>6 DEF n
    <3>2. QED
      BY <2>3, <3>1, RunAgrees
  <2>8. h[n + 1] = g[n + 1][h[n]] /\ n + 1 \in 1 .. Len(u) /\ n \in 0 .. n
    BY <2>0, <2>3, <2>6 DEF IsRun
  <2>9. h[n] = f[n] /\ f[n] = Recovered(s) /\ f[n] \in ViewType
    BY <2>3, <2>5, <2>7, <2>8 DEF n
  <2>10. QED
    BY <2>0, <2>2, <2>6, <2>8, <2>9 DEF u
<1>3. <<>> \in Seq(EditType) /\ Len(<<>>) = 0
  OBVIOUS
<1>4. QED
  BY <1>1, <1>2, <1>3

-----------------------------------------------------------------------------
(* What a crash leaves of a descriptor *)

\* The beginning of a sequence.
LEMMA Begin ==
    ASSUME NEW S, NEW s \in Seq(S), NEW k \in 0 .. Len(s)
    PROVE  /\ SubSeq(s, 1, k) \in Seq(S) /\ Len(SubSeq(s, 1, k)) = k
           /\ \A i \in 1 .. k : SubSeq(s, 1, k)[i] = s[i]
<1>1. k \in Nat /\ k <= Len(s) /\ Len(s) \in Nat
  OBVIOUS
<1>2. \A i \in 1 .. k : i \in 1 .. Len(s) /\ s[i] \in S
  BY <1>1
<1>3. QED
  BY <1>1, <1>2

\* Sequences of the same length with the same elements are the same.
LEMMA SameSeq ==
    ASSUME NEW S, NEW s \in Seq(S), NEW t \in Seq(S), Len(s) = Len(t),
           \A i \in 1 .. Len(s) : s[i] = t[i]
    PROVE  s = t
OBVIOUS

\* Beginnings of a longer sequence, of a beginning, and of the whole.
LEMMA Beginnings ==
    ASSUME NEW S, NEW s \in Seq(S)
    PROVE  /\ SubSeq(s, 1, Len(s)) = s
           /\ \A e \in S : \A k \in 0 .. Len(s) : SubSeq(Append(s, e), 1, k) = SubSeq(s, 1, k)
           /\ \A j, k \in 0 .. Len(s) : j <= k => SubSeq(SubSeq(s, 1, k), 1, j) = SubSeq(s, 1, j)
<1>0. Len(s) \in Nat
  OBVIOUS
<1>1. SubSeq(s, 1, Len(s)) = s
  <2>1. Len(s) \in 0 .. Len(s)
    BY <1>0
  <2>2. QED
    BY <2>1, Begin, SameSeq
<1>2. ASSUME NEW e \in S, NEW k \in 0 .. Len(s)
      PROVE  SubSeq(Append(s, e), 1, k) = SubSeq(s, 1, k)
  <2>1. /\ Append(s, e) \in Seq(S) /\ k \in 0 .. Len(Append(s, e))
        /\ \A i \in 1 .. k : Append(s, e)[i] = s[i]
    BY <1>0
  <2> DEFINE t == Append(s, e)
  <2> HIDE DEF t
  <2>2. /\ SubSeq(t, 1, k) \in Seq(S) /\ Len(SubSeq(t, 1, k)) = k
        /\ \A i \in 1 .. k : SubSeq(t, 1, k)[i] = t[i]
    BY <2>1, Begin DEF t
  <2>3. /\ SubSeq(s, 1, k) \in Seq(S) /\ Len(SubSeq(s, 1, k)) = k
        /\ \A i \in 1 .. k : SubSeq(s, 1, k)[i] = s[i]
    BY Begin
  <2>4. \A i \in 1 .. k : SubSeq(t, 1, k)[i] = SubSeq(s, 1, k)[i]
    BY <2>1, <2>2, <2>3 DEF t
  <2> DEFINE x == SubSeq(t, 1, k)
             y == SubSeq(s, 1, k)
  <2> HIDE DEF x, y
  <2>5. x = y
    BY <2>2, <2>3, <2>4, SameSeq DEF x, y
  <2>6. QED
    BY <2>5 DEF x, y, t
<1>3. ASSUME NEW j \in 0 .. Len(s), NEW k \in 0 .. Len(s), j <= k
      PROVE  SubSeq(SubSeq(s, 1, k), 1, j) = SubSeq(s, 1, j)
  <2> DEFINE t == SubSeq(s, 1, k)
  <2>1. t \in Seq(S) /\ Len(t) = k /\ \A i \in 1 .. k : t[i] = s[i]
    BY Begin
  <2> HIDE DEF t
  <2>2. j \in 0 .. Len(t) /\ \A i \in 1 .. j : i \in 1 .. k
    BY <1>3, <2>1
  <2>3. /\ SubSeq(t, 1, j) \in Seq(S) /\ Len(SubSeq(t, 1, j)) = j
        /\ \A i \in 1 .. j : SubSeq(t, 1, j)[i] = t[i]
    BY <2>1, <2>2, Begin
  <2>4. /\ SubSeq(s, 1, j) \in Seq(S) /\ Len(SubSeq(s, 1, j)) = j
        /\ \A i \in 1 .. j : SubSeq(s, 1, j)[i] = s[i]
    BY Begin
  <2> DEFINE x == SubSeq(t, 1, j)
             y == SubSeq(s, 1, j)
  <2>5. \A i \in 1 .. j : x[i] = y[i]
    BY <2>1, <2>2, <2>3, <2>4
  <2> HIDE DEF x, y
  <2>6. x = y
    BY <2>3, <2>4, <2>5, SameSeq DEF x, y
  <2>7. QED
    BY <2>6 DEF x, y, t
<1>4. QED
  BY <1>1, <1>2, <1>3

\* The views of a descriptor: all of it is one; another edit adds one; a sync leaves one; a
\* power loss picks one.
LEMMA ManifestViews ==
    ASSUME NEW m \in ManifestType, m.synced <= Len(m.edits)
    PROVE  /\ Recovered(m.edits) \in ViewsOf(m) /\ ViewsOf(m) \subseteq ViewType
           /\ \A x \in ManifestType : x.edits = m.edits /\ x.synced = Len(m.edits) =>
                 ViewsOf(x) = {Recovered(m.edits)}
           /\ \A e \in EditType, x \in ManifestType :
                 x.edits = Append(m.edits, e) /\ x.synced = m.synced =>
                    /\ Recovered(x.edits) = Apply(Recovered(m.edits), e)
                    /\ ViewsOf(x) = ViewsOf(m) \cup {Apply(Recovered(m.edits), e)}
           /\ \A k \in m.synced .. Len(m.edits) : \A x \in ManifestType :
                 x.edits = SubSeq(m.edits, 1, k) /\ x.synced = k =>
                    Recovered(x.edits) \in ViewsOf(m) /\ ViewsOf(x) = {Recovered(x.edits)}
<1> DEFINE s == m.edits
           n == Len(s)
           lo == m.synced
<1>1. s \in Seq(EditType) /\ lo \in Nat /\ n \in Nat /\ lo <= n
  BY DEF ManifestType
<1>2. SubSeq(s, 1, n) = s
  BY <1>1, Beginnings
<1>3. ViewsOf(m) = {Recovered(SubSeq(s, 1, k)) : k \in lo .. n}
  BY DEF ViewsOf
<1> HIDE DEF s, n, lo
<1>4. Recovered(s) \in ViewsOf(m)
  <2>1. n \in lo .. n
    BY <1>1
  <2>2. QED
    BY <1>2, <1>3, <2>1
<1>5. ViewsOf(m) \subseteq ViewType
  <2> SUFFICES ASSUME NEW v \in ViewsOf(m)
               PROVE  v \in ViewType
    OBVIOUS
  <2>1. PICK k \in lo .. n : v = Recovered(SubSeq(s, 1, k))
    BY <1>3
  <2>2. k \in 0 .. Len(s)
    BY <1>1, <2>1 DEF n
  <2>3. SubSeq(s, 1, k) \in Seq(EditType)
    BY <1>1, <2>2, Begin
  <2>4. QED
    BY <2>1, <2>3, RecoveredEdits
<1>6. ASSUME NEW x \in ManifestType, x.edits = s, x.synced = n
      PROVE  ViewsOf(x) = {Recovered(s)}
  <2>1. ViewsOf(x) = {Recovered(SubSeq(s, 1, k)) : k \in n .. n}
    BY <1>6 DEF ViewsOf, n
  <2>2. \A k : k \in n .. n <=> k = n
    BY <1>1
  <2>3. QED
    BY <1>2, <2>1, <2>2
<1>7. ASSUME NEW e \in EditType, NEW x \in ManifestType,
             x.edits = Append(s, e), x.synced = lo
      PROVE  /\ Recovered(x.edits) = Apply(Recovered(s), e)
             /\ ViewsOf(x) = ViewsOf(m) \cup {Apply(Recovered(s), e)}
  <2>1. Recovered(x.edits) = Apply(Recovered(s), e)
    BY <1>1, <1>7, RecoveredEdits
  <2>2. /\ x.edits \in Seq(EditType) /\ Len(x.edits) = n + 1 /\ SubSeq(x.edits, 1, n + 1) = x.edits
        /\ \A k \in 0 .. n : SubSeq(x.edits, 1, k) = SubSeq(s, 1, k)
    <3>1. Append(s, e) \in Seq(EditType) /\ Len(Append(s, e)) = n + 1
      BY <1>1 DEF n
    <3>2. SubSeq(x.edits, 1, Len(x.edits)) = x.edits
      BY <1>7, <3>1, Beginnings
    <3>3. \A k \in 0 .. n : SubSeq(Append(s, e), 1, k) = SubSeq(s, 1, k)
      BY <1>1, Beginnings DEF n
    <3>4. QED
      BY <1>7, <3>1, <3>2, <3>3
  <2>3. ViewsOf(x) = {Recovered(SubSeq(x.edits, 1, k)) : k \in lo .. n + 1}
    BY <1>7, <2>2 DEF ViewsOf
  <2>4. /\ \A k \in lo .. n + 1 : k = n + 1 \/ k \in lo .. n
        /\ \A k \in lo .. n : k \in lo .. n + 1 /\ k \in 0 .. n
        /\ n + 1 \in lo .. n + 1
    BY <1>1
  <2>5. QED
    BY <1>3, <2>1, <2>2, <2>3, <2>4
<1>8. ASSUME NEW k \in lo .. n, NEW x \in ManifestType,
             x.edits = SubSeq(s, 1, k), x.synced = k
      PROVE  Recovered(x.edits) \in ViewsOf(m) /\ ViewsOf(x) = {Recovered(x.edits)}
  <2>1. k \in 0 .. Len(s)
    BY <1>1 DEF n
  <2>2. Len(x.edits) = k /\ x.edits \in Seq(EditType)
    BY <1>1, <1>8, <2>1, Begin
  <2>3. SubSeq(x.edits, 1, k) = x.edits
    BY <2>2, Beginnings
  <2>4. ViewsOf(x) = {Recovered(SubSeq(x.edits, 1, j)) : j \in k .. k}
    BY <1>8, <2>2 DEF ViewsOf
  <2>5. \A j : j \in k .. k <=> j = k
    BY <1>1
  <2>6. QED
    BY <1>3, <1>8, <2>3, <2>4, <2>5
<1>9. QED
  BY <1>4, <1>5, <1>6, <1>7, <1>8 DEF s, n, lo

-----------------------------------------------------------------------------
(* Records, tables and logs *)

\* When a record is in some tables or logs.
LEMMA InTables ==
    \A t, S, r : r \in TableRecs(t, S) <=> \E f \in S : f \in DOMAIN t /\ r \in t[f]
BY DEF TableRecs

\* The same for a set of logs.
LEMMA InRecsOf ==
    \A g, S, r : r \in RecsOf(g, S) <=>
        \E l \in S : l \in DOMAIN g /\ InLog(g[l], r)
BY DEF RecsOf, InLog

\* The same for the logs from a number on.
LEMMA InLogs ==
    \A g, n, r : r \in LogRecs(g, n) <=>
        \E l \in DOMAIN g : l >= n /\ InLog(g[l], r)
<1> TAKE g, n, r
<1> DEFINE S == {l \in DOMAIN g : l >= n}
<1>1. r \in LogRecs(g, n) <=>
          \E l \in S : l \in DOMAIN g /\ InLog(g[l], r)
  BY InRecsOf DEF LogRecs
<1>2. QED
  BY <1>1

\* The same for the synced parts of the logs from a number on.
LEMMA InSynced ==
    \A g, n, r : r \in SyncedRecs(g, n) <=>
        \E l \in DOMAIN g : l >= n /\ InSyncedLog(g[l], r)
BY DEF SyncedRecs, InSyncedLog

\* The records written so far are records.
LEMMA KnownFacts ==
    ASSUME ids \in 0 .. MaxWrites
    PROVE  /\ ids \in Nat /\ Known \subseteq Recs
           /\ \A r \in Known : r.id \in 1 .. ids /\ r.seq \in 1 .. ids
<1>1. ids \in Nat /\ ids <= MaxWrites /\ MaxWrites \in Nat
  BY RecoveryAssumption
<1>2. \A i \in 1 .. ids : i \in 1 .. MaxWrites
  BY <1>1
<1>3. QED
  BY <1>1, <1>2 DEF Known, Recs

\* What more tables, fewer logs and higher log numbers mean for the records.
LEMMA TablesMore ==
    ASSUME NEW t, NEW u, NEW A, NEW B, A \subseteq B,
           \A f \in A : f \in DOMAIN t => f \in DOMAIN u /\ u[f] = t[f]
    PROVE  TableRecs(t, A) \subseteq TableRecs(u, B)
BY InTables

\* Tables with the same contents have the same records.
LEMMA TablesSame ==
    ASSUME NEW t, NEW u, NEW A,
           \A f \in A : (f \in DOMAIN t <=> f \in DOMAIN u) /\ (f \in DOMAIN t => u[f] = t[f])
    PROVE  TableRecs(u, A) = TableRecs(t, A)
<1>1. \A r : r \in TableRecs(u, A) <=> r \in TableRecs(t, A)
  BY InTables
<1>2. QED
  BY <1>1

\* The records of two sets of tables.
LEMMA TablesUnion ==
    ASSUME NEW t, NEW A, NEW B
    PROVE  TableRecs(t, A \cup B) = TableRecs(t, A) \cup TableRecs(t, B)
<1>1. \A r : r \in TableRecs(t, A \cup B) <=> r \in TableRecs(t, A) \cup TableRecs(t, B)
  BY InTables
<1>2. QED
  BY <1>1

\* A lower log number means more records.
LEMMA LogsMore ==
    ASSUME NEW g, \A l \in DOMAIN g : l \in Nat, NEW m \in Nat, NEW n \in Nat, m <= n
    PROVE  LogRecs(g, n) \subseteq LogRecs(g, m) /\ SyncedRecs(g, n) \subseteq SyncedRecs(g, m)
<1>1. \A l \in DOMAIN g : l >= n => l >= m
  OBVIOUS
<1>2. QED
  BY <1>1, InLogs, InSynced

\* A subset of a set without duplicates.
LEMMA FewerOneEach ==
    ASSUME NEW S, NEW T, S \subseteq T, OneEach(T)
    PROVE  OneEach(S)
BY DEF OneEach

\* The synced parts of logs are parts of them.
LEMMA SyncedInLogs ==
    ASSUME NEW g, \A l \in DOMAIN g : g[l].synced \in Nat /\ Len(g[l].recs) \in Nat
                                      /\ g[l].synced <= Len(g[l].recs),
           NEW n
    PROVE  SyncedRecs(g, n) \subseteq LogRecs(g, n)
<1>1. \A l \in DOMAIN g : \A i \in 1 .. g[l].synced : i \in 1 .. Len(g[l].recs)
  OBVIOUS
<1>2. QED
  BY <1>1, InLogs, InSynced DEF InLog, InSyncedLog

\* A sequence with another element.
LEMMA AppendFacts ==
    ASSUME NEW S, NEW s \in Seq(S), NEW e \in S
    PROVE  /\ Append(s, e) \in Seq(S) /\ Len(s) \in Nat /\ Len(Append(s, e)) = Len(s) + 1
           /\ Append(s, e)[Len(s) + 1] = e
           /\ \A i \in 1 .. Len(s) : Append(s, e)[i] = s[i]
OBVIOUS

\* The records of logs of which one has another record, which the reader returns or not.
Appended(g, h, l, k, rec) ==
    /\ l \in DOMAIN g /\ k \in Nat /\ Len(g[l].recs) = k
    /\ g[l].synced \in Nat /\ g[l].synced <= k
    /\ DOMAIN h = DOMAIN g /\ \A x \in DOMAIN g : x # l => h[x] = g[x]
    /\ h[l].synced = g[l].synced
    /\ \A i \in 1 .. k : h[l].recs[i] = g[l].recs[i]
    /\ \/ Len(h[l].recs) = k + 1 /\ h[l].recs[k + 1] = rec /\ h[l].lost = g[l].lost
       \/ Len(h[l].recs) = k /\ h[l].lost = g[l].lost \cup {rec}
MoreRecs(g, h, l, rec) ==
    /\ \A n : LogRecs(h, n) \subseteq LogRecs(g, n) \cup {rec} /\ LogRecs(g, n) \subseteq LogRecs(h, n)
    /\ \A n : SyncedRecs(g, n) \subseteq SyncedRecs(h, n)
    /\ \A n : l >= n => rec \in LogRecs(h, n)

\* The logs have at most that record more.
LEMMA AppendedRecs ==
    ASSUME NEW g, NEW h, NEW l, NEW k, NEW rec, Appended(g, h, l, k, rec)
    PROVE  MoreRecs(g, h, l, rec)
<1>1. /\ \A i \in 1 .. Len(h[l].recs) : i \in 1 .. k \/ (i = k + 1 /\ h[l].recs[i] = rec)
      /\ \A i \in 1 .. k : i \in 1 .. Len(h[l].recs)
      /\ \A i \in 1 .. g[l].synced : i \in 1 .. k
      /\ k = Len(g[l].recs) /\ \A i \in 1 .. k : h[l].recs[i] = g[l].recs[i]
  BY DEF Appended
<1>2. \A r : InLog(h[l], r) => r = rec \/ InLog(g[l], r)
  BY <1>1 DEF Appended, InLog
<1>3. \A r : InLog(g[l], r) => InLog(h[l], r)
  BY <1>1 DEF Appended, InLog
<1>4. \A r : InSyncedLog(g[l], r) => InSyncedLog(h[l], r)
  BY <1>1 DEF Appended, InSyncedLog
<1>5. InLog(h[l], rec)
  <2>1. k + 1 \in 1 .. k + 1
    BY DEF Appended
  <2>2. QED
    BY <2>1 DEF Appended, InLog
<1>6. DOMAIN h = DOMAIN g /\ l \in DOMAIN g /\ \A x \in DOMAIN g : x # l => h[x] = g[x]
  BY DEF Appended
<1>7. \A n, r : r \in LogRecs(h, n) => r = rec \/ r \in LogRecs(g, n)
  BY <1>2, <1>6, InLogs
<1>8. \A n, r : r \in LogRecs(g, n) => r \in LogRecs(h, n)
  BY <1>3, <1>6, InLogs
<1>9. \A n, r : r \in SyncedRecs(g, n) => r \in SyncedRecs(h, n)
  BY <1>4, <1>6, InSynced
<1>10. \A n : l >= n => rec \in LogRecs(h, n)
  BY <1>5, <1>6, InLogs
<1>11. QED
  BY <1>7, <1>8, <1>9, <1>10 DEF MoreRecs

\* A log with another record.
LogsOK(g) == \A x \in DOMAIN g : g[x] \in LogType /\ g[x].synced <= Len(g[x].recs)
LongerLog(g, h, l, rec) ==
    /\ DOMAIN h = DOMAIN g
    /\ \A x \in DOMAIN g : x # l => h[x] = g[x]
    /\ h[l] \in LogType /\ h[l].synced <= Len(h[l].recs)
    /\ \A r : InLog(h[l], r) => r = rec \/ InLog(g[l], r)
    /\ MoreRecs(g, h, l, rec)

\* LogRecord: the leader appends to its log.
LEMMA AppendLog ==
    ASSUME NEW g, NEW l \in DOMAIN g, NEW rec \in Recs, NEW h, LogsOK(g),
           \/ h = [g EXCEPT ![l].recs = Append(@, rec)]
           \/ h = [g EXCEPT ![l].lost = @ \cup {rec}]
    PROVE  LongerLog(g, h, l, rec)
<1> DEFINE s == g[l].recs
           u == Append(s, rec)
           y == g[l].lost
<1>1. /\ s \in Seq(Recs) /\ g[l].synced \in Nat /\ g[l].synced <= Len(s)
      /\ y \subseteq Recs /\ g[l].torn \in BOOLEAN /\ g[l] \in LogType
      /\ g[l] = [recs |-> s, synced |-> g[l].synced, torn |-> g[l].torn, lost |-> y]
  BY DEF LogType, LogsOK
<1>2. /\ DOMAIN h = DOMAIN g
      /\ \A x \in DOMAIN g : x # l => h[x] = g[x]
      /\ h[l] = [g[l] EXCEPT !.recs = u] \/ h[l] = [g[l] EXCEPT !.lost = y \cup {rec}]
  OBVIOUS
<1>3. /\ u \in Seq(Recs) /\ Len(s) \in Nat /\ Len(u) = Len(s) + 1 /\ u[Len(s) + 1] = rec
      /\ \A i \in 1 .. Len(s) : u[i] = s[i]
  BY <1>1, AppendFacts
<1> HIDE DEF s, u, y
<1>4. /\ h[l] \in LogType /\ h[l].synced = g[l].synced
      /\ \/ h[l].recs = u /\ h[l].lost = y
         \/ h[l].recs = s /\ h[l].lost = y \cup {rec}
  BY <1>1, <1>2, <1>3 DEF LogType
<1>5. h[l].synced <= Len(h[l].recs)
  BY <1>1, <1>3, <1>4
<1>6. Appended(g, h, l, Len(s), rec)
  BY <1>1, <1>2, <1>3, <1>4 DEF Appended, s, y
<1>7. \A r : InLog(h[l], r) => r = rec \/ InLog(g[l], r)
  <2>1. \A i \in 1 .. Len(s) + 1 : i = Len(s) + 1 \/ i \in 1 .. Len(s)
    BY <1>3
  <2>2. QED
    BY <1>3, <1>4, <2>1 DEF InLog, s, y
<1>8. QED
  BY <1>2, <1>4, <1>5, <1>6, <1>7, AppendedRecs DEF LongerLog

\* Logs with the same records.
SameRecs(g, h) ==
    DOMAIN h = DOMAIN g /\ \A x \in DOMAIN g : h[x].recs = g[x].recs /\ h[x].lost = g[x].lost

\* They have the same records from any number on.
LEMMA SameLogRecs ==
    ASSUME NEW g, NEW h, SameRecs(g, h), NEW n
    PROVE  LogRecs(h, n) = LogRecs(g, n)
<1>1. \A x \in DOMAIN g : \A r : InLog(h[x], r) <=> InLog(g[x], r)
  BY DEF SameRecs, InLog
<1>2. \A r : r \in LogRecs(h, n) <=> r \in LogRecs(g, n)
  BY <1>1, InLogs DEF SameRecs
<1>3. QED
  BY <1>2

\* A log that is synced.
SyncedLog(g, h, l) ==
    /\ DOMAIN h = DOMAIN g
    /\ \A x \in DOMAIN g : x # l => h[x] = g[x]
    /\ h[l] \in LogType /\ h[l].synced = Len(g[l].recs) /\ h[l].recs = g[l].recs
    /\ h[l].lost = g[l].lost
    /\ \A n : LogRecs(h, n) = LogRecs(g, n) /\ SyncedRecs(g, n) \subseteq SyncedRecs(h, n)
    /\ \A n, r : l >= n /\ InLog(g[l], r) => r \in SyncedRecs(h, n)

\* FinishWrite: the leader syncs its log.
LEMMA SyncLog ==
    ASSUME NEW g, NEW l \in DOMAIN g, NEW h, LogsOK(g),
           h = [g EXCEPT ![l].synced = Len(g[l].recs)]
    PROVE  SyncedLog(g, h, l)
<1>1. /\ g[l].recs \in Seq(Recs) /\ g[l].synced \in Nat /\ g[l].synced <= Len(g[l].recs)
      /\ g[l] \in LogType /\ Len(g[l].recs) \in Nat
  BY DEF LogType, LogsOK
<1>2. /\ DOMAIN h = DOMAIN g
      /\ \A x \in DOMAIN g : x # l => h[x] = g[x]
      /\ h[l] = [g[l] EXCEPT !.synced = Len(g[l].recs)]
  OBVIOUS
<1>3. /\ h[l].recs = g[l].recs /\ h[l].synced = Len(g[l].recs) /\ h[l].lost = g[l].lost
      /\ h[l] \in LogType
  BY <1>1, <1>2 DEF LogType
<1>4. \A i \in 1 .. g[l].synced : i \in 1 .. h[l].synced
  BY <1>1, <1>3
<1>5. \A r : InSyncedLog(g[l], r) => InSyncedLog(h[l], r)
  BY <1>3, <1>4 DEF InSyncedLog
<1>6. \A r : InLog(g[l], r) => InSyncedLog(h[l], r)
  BY <1>3 DEF InLog, InSyncedLog
<1>7. ASSUME NEW n
      PROVE  LogRecs(h, n) = LogRecs(g, n)
  <2>1. SameRecs(g, h)
    BY <1>2, <1>3 DEF SameRecs
  <2>2. QED
    BY <2>1, SameLogRecs
<1>8. \A n, r : r \in SyncedRecs(g, n) => r \in SyncedRecs(h, n)
  BY <1>2, <1>5, InSynced
<1>9. \A n, r : l >= n /\ InLog(g[l], r) => r \in SyncedRecs(h, n)
  BY <1>2, <1>6, InSynced
<1>10. QED
  BY <1>2, <1>3, <1>7, <1>8, <1>9 DEF SyncedLog

\* Logs of which those from number n on are kept, and logs that were cut behind their synced part.
KeptFrom(g, h, n) ==
    /\ \A x \in DOMAIN h : x \in DOMAIN g /\ h[x] = g[x]
    /\ \A x \in DOMAIN g : x >= n => x \in DOMAIN h

\* Deleting logs below n loses no record of those from n on.
LEMMA KeptLogs ==
    ASSUME NEW g, NEW h, NEW n, KeptFrom(g, h, n)
    PROVE  LogRecs(h, n) = LogRecs(g, n) /\ SyncedRecs(h, n) = SyncedRecs(g, n)
<1> USE DEF KeptFrom
<1>1. \A r : r \in LogRecs(h, n) => r \in LogRecs(g, n)
  BY InLogs
<1>2. \A r : r \in LogRecs(g, n) => r \in LogRecs(h, n)
  BY InLogs
<1>3. \A r : r \in SyncedRecs(h, n) => r \in SyncedRecs(g, n)
  BY InSynced
<1>4. \A r : r \in SyncedRecs(g, n) => r \in SyncedRecs(h, n)
  BY InSynced
<1>5. QED
  BY <1>1, <1>2, <1>3, <1>4

CutFrom(g, h, n) ==
    /\ \A x \in DOMAIN h : x \in DOMAIN g
    /\ \A x \in DOMAIN h : /\ g[x].synced \in Nat /\ h[x].synced \in Nat /\ Len(h[x].recs) \in Nat
                           /\ Len(g[x].recs) \in Nat
                           /\ g[x].synced <= h[x].synced /\ h[x].synced <= Len(h[x].recs)
                           /\ Len(h[x].recs) <= Len(g[x].recs) /\ h[x].lost = g[x].lost
                           /\ \A i \in 1 .. Len(h[x].recs) : h[x].recs[i] = g[x].recs[i]
    /\ \A x \in DOMAIN g : x >= n => x \in DOMAIN h

\* Cutting logs loses nothing of their synced parts.
LEMMA CutLogRecs ==
    ASSUME NEW g, NEW h, NEW n, CutFrom(g, h, n)
    PROVE  LogRecs(h, n) \subseteq LogRecs(g, n) /\ SyncedRecs(g, n) \subseteq SyncedRecs(h, n)
<1>1. ASSUME NEW x \in DOMAIN h
      PROVE  /\ \A r : InLog(h[x], r) => InLog(g[x], r)
             /\ \A r : InSyncedLog(g[x], r) => InSyncedLog(h[x], r)
  <2>1. /\ \A i \in 1 .. Len(h[x].recs) : i \in 1 .. Len(g[x].recs)
        /\ \A i \in 1 .. g[x].synced : i \in 1 .. h[x].synced /\ i \in 1 .. Len(h[x].recs)
    BY DEF CutFrom
  <2>2. QED
    BY <2>1 DEF CutFrom, InLog, InSyncedLog
<1>2. \A r : r \in LogRecs(h, n) => r \in LogRecs(g, n)
  BY <1>1, InLogs DEF CutFrom
<1>3. \A r : r \in SyncedRecs(g, n) => r \in SyncedRecs(h, n)
  BY <1>1, InSynced DEF CutFrom
<1>4. QED
  BY <1>2, <1>3

\* A new log adds no records.
LEMMA NewLogRecs ==
    ASSUME NEW g, NEW n, n \notin DOMAIN g
    PROVE  /\ \A m : LogRecs(Put(g, n, NewLog), m) = LogRecs(g, m)
           /\ \A m : SyncedRecs(Put(g, n, NewLog), m) = SyncedRecs(g, m)
           /\ \A S : RecsOf(Put(g, n, NewLog), S) = RecsOf(g, S)
<1> DEFINE h == Put(g, n, NewLog)
<1>1. /\ DOMAIN h = DOMAIN g \cup {n} /\ \A x \in DOMAIN g : h[x] = g[x]
      /\ h[n] = NewLog
  BY DEF Put
<1>2. h[n].recs = <<>> /\ h[n].synced = 0 /\ Len(h[n].recs) = 0 /\ h[n].lost = {}
  BY <1>1 DEF NewLog
<1>3. \A r : ~InLog(h[n], r) /\ ~InSyncedLog(h[n], r)
  BY <1>2 DEF InLog, InSyncedLog
<1> HIDE DEF h
<1>4. ASSUME NEW S
      PROVE  RecsOf(h, S) = RecsOf(g, S)
  <2>1. \A r : r \in RecsOf(h, S) => r \in RecsOf(g, S)
    BY <1>1, <1>3, InRecsOf
  <2>2. \A r : r \in RecsOf(g, S) => r \in RecsOf(h, S)
    BY <1>1, InRecsOf
  <2>3. QED
    BY <2>1, <2>2
<1>5. ASSUME NEW m
      PROVE  LogRecs(h, m) = LogRecs(g, m)
  <2>1. \A r : r \in LogRecs(h, m) => r \in LogRecs(g, m)
    BY <1>1, <1>3, InLogs
  <2>2. \A r : r \in LogRecs(g, m) => r \in LogRecs(h, m)
    BY <1>1, InLogs
  <2>3. QED
    BY <2>1, <2>2
<1>6. ASSUME NEW m
      PROVE  SyncedRecs(h, m) = SyncedRecs(g, m)
  <2>1. \A r : r \in SyncedRecs(h, m) => r \in SyncedRecs(g, m)
    BY <1>1, <1>3, InSynced
  <2>2. \A r : r \in SyncedRecs(g, m) => r \in SyncedRecs(h, m)
    BY <1>1, InSynced
  <2>3. QED
    BY <2>1, <2>2
<1>7. QED
  BY <1>4, <1>5, <1>6 DEF h

-----------------------------------------------------------------------------
(* Views of the descriptor *)

\* The views have their types and all of the descriptor is one of them.
LEMMA ViewFacts ==
    ASSUME DiskTypeOK, current \in DOMAIN manifests
    PROVE  /\ manifests[current] \in ManifestType
           /\ manifests[current].synced <= Len(manifests[current].edits)
           /\ Full \in Views /\ Views \subseteq ViewType /\ Full \in ViewType
<1>1. manifests[current] \in ManifestType /\ manifests[current].synced <= Len(manifests[current].edits)
  BY DEF DiskTypeOK
<1>2. QED
  BY <1>1, ManifestViews DEF Full, Views

\* Every record of tables, logs and memory is one that was written.
LEMMA RecordFacts ==
    ASSUME RecInv
    PROVE  /\ ids \in Nat /\ Known \subseteq Recs
           /\ \A r \in Known : r.id \in 1 .. ids /\ r.seq \in Nat /\ r.seq <= ids
           /\ \A S : TableRecs(tables, S) \subseteq Known /\ RecsOf(logs, S) \subseteq Known
           /\ \A n : LogRecs(logs, n) \subseteq Known /\ SyncedRecs(logs, n) \subseteq LogRecs(logs, n)
           /\ \A v : Reach(tables, logs, v) \subseteq Known
           /\ Around \subseteq Known
           /\ vs \in [files : SUBSET Nat, log : Nat, next : Nat, last : Nat, manifest : Nat]
<1>1. ids \in 0 .. MaxWrites
  BY DEF RecInv, HistoryTypeOK
<1>2. ids \in Nat /\ Known \subseteq Recs /\ \A r \in Known : r.id \in 1 .. ids /\ r.seq \in Nat /\ r.seq <= ids
  BY <1>1, KnownFacts
<1>3. \A S : TableRecs(tables, S) \subseteq Known /\ RecsOf(logs, S) \subseteq Known
  <2>1. \A S : TableRecs(tables, S) \subseteq Known
    BY InTables DEF RecInv, DiskTypeOK
  <2>2. \A l \in DOMAIN logs : \A r : InLog(logs[l], r) => r \in Known
    BY DEF RecInv, DiskTypeOK, InLog
  <2>3. \A S : RecsOf(logs, S) \subseteq Known
    BY <2>2, InRecsOf
  <2>4. QED
    BY <2>1, <2>3
<1>4. \A n : LogRecs(logs, n) \subseteq Known
  BY <1>3 DEF LogRecs
<1>5. \A l \in DOMAIN logs : /\ logs[l].synced \in Nat /\ Len(logs[l].recs) \in Nat
                             /\ logs[l].synced <= Len(logs[l].recs)
  BY DEF RecInv, DiskTypeOK, LogType
<1>6. \A n : SyncedRecs(logs, n) \subseteq LogRecs(logs, n)
  BY <1>5, SyncedInLogs
<1>7. vs \in [files : SUBSET Nat, log : Nat, next : Nat, last : Nat, manifest : Nat]
  BY DEF RecInv, MemoryTypeOK
<1>8. QED
  BY <1>2, <1>3, <1>4, <1>6, <1>7 DEF Reach, Around

\* While the database is open every view is good.
LEMMA UpFacts ==
    ASSUME RecInv, IsUp
    PROVE  /\ opened /\ current # 0 /\ current \in DOMAIN manifests /\ current = vs.manifest
           /\ Full \in Views /\ Full \in ViewType /\ Full.have
           /\ \A v \in Views : v \in ViewType /\ v.have /\ GoodView(v)
           /\ GoodView(Full)
           /\ acked \subseteq skipped \cup Reach(tables, logs, Full)
<1>1. opened /\ current # 0 /\ current = vs.manifest
  BY DEF RecInv, UpInv, UpNumbers
<1>2. current \in DOMAIN manifests
  BY <1>1 DEF RecInv, FirstInv
<1>3. Full \in Views /\ Views \subseteq ViewType
  BY <1>2, ViewFacts DEF RecInv
<1>4. ViewInv
  BY DEF RecInv
<1>5. \A v \in Views : v.have /\ GoodView(v)
  BY <1>1, <1>4 DEF ViewInv
<1>6. Full.have /\ GoodView(Full)
  BY <1>3, <1>5
<1>7. acked \subseteq skipped \cup Reach(tables, logs, Full)
  BY <1>1, <1>4, <1>6 DEF ViewInv
<1>8. QED
  BY <1>1, <1>2, <1>3, <1>5, <1>6, <1>7

\* The views do not change with other descriptors.
LEMMA SameViews ==
    ASSUME current' = current, manifests'[current] = manifests[current]
    PROVE  Full' = Full /\ Views' = Views
BY DEF Full, Views

\* A view stays good while its tables and the synced parts of its logs are kept and nothing
\* appears in its logs.
LEMMA ViewStays ==
    ASSUME NEW v \in ViewType, GoodView(v),
           current' = current, ids \in Nat, ids' \in Nat, ids <= ids',
           Full.next \in Nat, Full'.next \in Nat, Full.next <= Full'.next,
           \A n \in v.files : n \in DOMAIN tables' /\ tables'[n] = tables[n],
           LogRecs(logs', v.log) \subseteq LogRecs(logs, v.log),
           SyncedRecs(logs, v.log) \subseteq SyncedRecs(logs', v.log),
           skipped \subseteq skipped',
           durable' \subseteq durable \cup TableRecs(tables, v.files) \cup SyncedRecs(logs', v.log)
    PROVE  GoodView(v)' /\ TableRecs(tables', v.files) = TableRecs(tables, v.files)
<1>1. TableRecs(tables', v.files) = TableRecs(tables, v.files)
  <2>1. \A n \in v.files : n \in DOMAIN tables
    BY DEF GoodView
  <2>2. QED
    BY <2>1, TablesSame
<1>2. (current < v.next /\ v.log < v.next /\ v.last <= ids /\ v.next <= Full.next)'
  BY DEF GoodView, ViewType
<1>3. \A n \in v.files : n \in DOMAIN tables' /\ tables'[n] # {} /\ n < v.next
  BY DEF GoodView
<1>4. \A r \in TableRecs(tables', v.files) : r.seq <= v.last
  BY <1>1 DEF GoodView
<1>5. OneEach(Reach(tables', logs', v))
  <2>1. Reach(tables', logs', v) \subseteq Reach(tables, logs, v)
    BY <1>1 DEF Reach
  <2>2. QED
    BY <2>1, FewerOneEach DEF GoodView
<1>6. durable' \subseteq skipped' \cup TableRecs(tables', v.files) \cup SyncedRecs(logs', v.log)
  BY <1>1 DEF GoodView
<1>7. QED
  BY <1>1, <1>2, <1>3, <1>4, <1>5, <1>6 DEF GoodView

-----------------------------------------------------------------------------
(* Steps of the open database: what is to be shown *)

\* An open database has nothing to show about Open.
LEMMA UpNext ==
    ASSUME IsUp', current' \in DOMAIN manifests', DiskTypeOK', MemoryTypeOK', HistoryTypeOK',
           ViewInv', UpInv'
    PROVE  RecInv'
<1>1. IdleInv' /\ OpenInv' /\ ReplayInv' /\ LaterInv'
  BY DEF IsUp, IdleInv, OpenInv, ReplayInv, LaterInv, Later
<1>2. FirstInv'
  BY DEF UpInv, UpNumbers, FirstInv, IsUp
<1>3. NumberInv'
  <2>1. logfile_number' \in DOMAIN logs' /\ \A m \in DOMAIN manifests' : m < logfile_number'
    BY DEF UpInv, UpNumbers
  <2>2. \A m \in DOMAIN manifests' : m \in Nat
    BY DEF DiskTypeOK
  <2>3. logfile_number' \in Nat
    BY DEF MemoryTypeOK
  <2>4. QED
    BY <2>1, <2>2, <2>3 DEF NumberInv
<1>4. QED
  BY <1>1, <1>2, <1>3 DEF RecInv

\* Steps that leave the disk and what must be on it alone.
LEMMA SameDisk ==
    ASSUME RecInv, UNCHANGED <<disk, ids, acked, durable, skipped, dropped, opened>>
    PROVE  /\ DiskTypeOK' /\ HistoryTypeOK' /\ ViewInv' /\ NumberInv' /\ Known' = Known
           /\ Full' = Full /\ Views' = Views
<1>0. /\ logs' = logs /\ tables' = tables /\ manifests' = manifests /\ current' = current /\ temps' = temps
      /\ ids' = ids /\ acked' = acked /\ durable' = durable
      /\ skipped' = skipped /\ dropped' = dropped /\ opened' = opened
  BY DEF disk
<1>1. Full' = Full /\ Views' = Views /\ Known' = Known
  BY <1>0, SameViews DEF Known
<1>2. DiskTypeOK'
  BY <1>0, <1>1 DEF RecInv, DiskTypeOK
<1>3. HistoryTypeOK'
  BY <1>0, <1>1 DEF RecInv, HistoryTypeOK
<1>4. ViewInv'
  BY <1>0, <1>1 DEF RecInv, ViewInv, GoodView
<1>5. NumberInv'
  BY <1>0 DEF RecInv, NumberInv
<1>6. QED
  BY <1>1, <1>2, <1>3, <1>4, <1>5

\* Ref and Unref: only the Versions readers hold.
LEMMA RefKeeps ==
    ASSUME RecInv, Ref \/ Unref
    PROVE  RecInv'
<1>1. /\ IsUp /\ pc' = pc /\ UNCHANGED <<disk, mem, imm, logfile_number, vs, open, pending, writing,
                                          flush, comp, bg_error, history>>
      /\ \A S \in held' : S \in held \/ S = vs.files
  BY DEF Ref, Unref, IsUp
<1>2. IsUp'
  BY <1>1 DEF IsUp
<1>3. /\ DiskTypeOK' /\ HistoryTypeOK' /\ ViewInv' /\ Known' = Known
      /\ Full' = Full /\ Views' = Views
  BY <1>1, SameDisk DEF history
<1>4. MemoryTypeOK'
  BY <1>1, <1>3 DEF RecInv, MemoryTypeOK
<1>5. /\ logs' = logs /\ tables' = tables /\ manifests' = manifests /\ current' = current
      /\ ids' = ids /\ acked' = acked /\ durable' = durable
      /\ skipped' = skipped /\ dropped' = dropped /\ opened' = opened
      /\ mem' = mem /\ imm' = imm /\ logfile_number' = logfile_number /\ vs' = vs /\ pending' = pending
      /\ writing' = writing /\ flush' = flush /\ comp' = comp /\ bg_error' = bg_error
  BY <1>1 DEF disk, history
<1>6. \A n \in UNION held' : n \in vs.files \cup UNION held
  BY <1>1
<1>7. UpNumbers'
  BY <1>1, <1>3, <1>5, <1>6 DEF RecInv, UpInv, UpNumbers
<1>8. UpTables'
  BY <1>1, <1>3, <1>5, <1>6 DEF RecInv, UpInv, UpTables
<1>9. UpExact' /\ UpRecords' /\ UpSequences'
  BY <1>1, <1>3, <1>5 DEF RecInv, UpInv, UpExact, UpRecords, UpSequences, Around
<1>10. current' \in DOMAIN manifests'
  BY <1>1, <1>5, UpFacts
<1>11. QED
  BY <1>2, <1>3, <1>4, <1>7, <1>8, <1>9, <1>10, UpNext DEF UpInv

-----------------------------------------------------------------------------
(* Writes *)

\* SyncFails: the record may come back, its sequence number is used.
LEMMA SyncFailsKeeps ==
    ASSUME RecInv, SyncFails
    PROVE  RecInv'
<1>1. PICK w \in writing : vs' = [vs EXCEPT !.last = w.rec.seq]
  BY DEF SyncFails
<1>2. /\ IsUp /\ pc = "up" /\ pc' = pc /\ writing' = {} /\ bg_error'
      /\ UNCHANGED <<disk, mem, imm, logfile_number, open, pending, held, flush, comp,
                     ids, acked, durable, skipped, dropped, opened>>
  BY DEF SyncFails, IsUp
<1>3. IsUp'
  BY <1>2 DEF IsUp
<1>4. /\ DiskTypeOK' /\ HistoryTypeOK' /\ ViewInv' /\ Known' = Known
      /\ Full' = Full /\ Views' = Views
  BY <1>2, SameDisk
<1>5. /\ logs' = logs /\ tables' = tables /\ manifests' = manifests /\ current' = current
      /\ ids' = ids /\ acked' = acked /\ durable' = durable
      /\ skipped' = skipped /\ dropped' = dropped /\ opened' = opened
      /\ mem' = mem /\ imm' = imm /\ logfile_number' = logfile_number /\ pending' = pending
      /\ flush' = flush /\ comp' = comp /\ held' = held
  BY <1>2 DEF disk
<1>6. w.rec \in Known
  BY DEF RecInv, MemoryTypeOK
<1>7. w.rec.seq \in Nat /\ w.rec.seq <= ids
  BY <1>6, RecordFacts
<1>8. /\ vs'.files = vs.files /\ vs'.log = vs.log /\ vs'.next = vs.next /\ vs'.manifest = vs.manifest
      /\ vs'.last = w.rec.seq
      /\ vs' \in [files : SUBSET Nat, log : Nat, next : Nat, last : Nat, manifest : Nat]
  BY <1>1, <1>7, RecordFacts
<1>9. /\ w.rec.seq = vs.last + 1 /\ vs.last \in Nat /\ vs.last <= vs'.last
      /\ \A x \in writing : x = w
  BY <1>2, <1>8, RecordFacts DEF RecInv, UpInv, UpSequences
<1>10. MemoryTypeOK'
  BY <1>2, <1>4, <1>5, <1>8 DEF RecInv, MemoryTypeOK
<1>11. Full.last <= vs'.last /\ vs'.last <= ids
  <2>1. Full.last \in Nat /\ Full.last <= vs.last
    BY <1>2, UpFacts DEF RecInv, UpInv, UpNumbers, ViewType
  <2>2. QED
    BY <1>7, <1>8, <1>9, <2>1
<1>12. UpNumbers'
  BY <1>2, <1>4, <1>5, <1>8, <1>11 DEF RecInv, UpInv, UpNumbers
<1>13. UpTables'
  BY <1>2, <1>4, <1>5, <1>8 DEF RecInv, UpInv, UpTables
<1>14. UpExact' /\ UpRecords'
  BY <1>2, <1>4, <1>5, <1>8 DEF RecInv, UpInv, UpExact, UpRecords, Around
<1>15. UpSequences'
  <2>1. \A r \in Known : r.seq <= vs.last \/ (\E x \in writing : r = x.rec) => r.seq <= vs'.last
    BY <1>8, <1>9, RecordFacts
  <2>2. mem \cup imm \subseteq Known
    BY DEF RecInv, MemoryTypeOK
  <2>3. QED
    BY <1>2, <1>4, <1>5, <1>8, <2>1, <2>2, RecordFacts DEF RecInv, UpInv, UpSequences, Around
<1>16. current' \in DOMAIN manifests'
  BY <1>2, <1>5, UpFacts
<1>17. QED
  BY <1>3, <1>4, <1>10, <1>12, <1>13, <1>14, <1>15, <1>16, UpNext DEF UpInv
\* LogRecord: the new record has a number and a sequence number of its own.
LEMMA LogRecordKeeps ==
    ASSUME RecInv, NEW sync \in BOOLEAN, LogRecord(sync)
    PROVE  RecInv'
<1> DEFINE rec == [id |-> ids + 1, seq |-> vs.last + 1]
<1>1. /\ pc = "up" /\ writing = {} /\ ~bg_error /\ ids < MaxWrites
      /\ \/ logs' = [logs EXCEPT ![logfile_number].recs = Append(@, rec)]
         \/ logs' = [logs EXCEPT ![logfile_number].lost = @ \cup {rec}]
      /\ writing' = {[rec |-> rec, sync |-> sync]} /\ ids' = ids + 1
      /\ UNCHANGED <<tables, manifests, current, temps, pc, mem, imm, logfile_number, vs,
                     open, pending, held, flush, comp, bg_error, acked, durable, skipped, dropped, opened>>
  BY DEF LogRecord
<1>2. IsUp /\ IsUp'
  BY <1>1 DEF IsUp
<1>3. /\ tables' = tables /\ manifests' = manifests /\ current' = current /\ temps' = temps
      /\ acked' = acked /\ durable' = durable /\ skipped' = skipped /\ dropped' = dropped /\ opened' = opened
      /\ mem' = mem /\ imm' = imm /\ logfile_number' = logfile_number /\ vs' = vs /\ pending' = pending
      /\ flush' = flush /\ comp' = comp /\ bg_error' = bg_error /\ pc' = pc /\ held' = held /\ open' = open
  BY <1>1
<1>4. /\ vs.last \in Nat /\ vs.last <= ids /\ ids \in Nat /\ MaxWrites \in Nat
      /\ logfile_number \in DOMAIN logs /\ logfile_number \in Nat
  BY <1>2, RecordFacts, RecoveryAssumption DEF RecInv, UpInv, UpNumbers, MemoryTypeOK
<1>5. rec \in Recs /\ rec \in Known' /\ rec \notin Known /\ rec.seq = vs.last + 1
  <2>1. vs.last + 1 \in 1 .. ids + 1 /\ ids + 1 \in 1 .. ids + 1 /\ ids + 1 <= MaxWrites
    BY <1>1, <1>4
  <2>2. ids + 1 \in 1 .. MaxWrites /\ vs.last + 1 \in 1 .. MaxWrites
    BY <1>4, <2>1
  <2>3. ~(ids + 1 \in 1 .. ids)
    BY <1>4
  <2>4. QED
    BY <1>1, <2>1, <2>2, <2>3 DEF Recs, Known
<1>6. Known \subseteq Known' /\ ids' \in 0 .. MaxWrites /\ ids <= ids' /\ ids' \in Nat
  <2>1. \A i \in 1 .. ids : i \in 1 .. ids + 1
    BY <1>4
  <2>2. ids + 1 \in 0 .. MaxWrites /\ ids <= ids + 1
    BY <1>1, <1>4
  <2>3. QED
    BY <1>1, <1>4, <2>1, <2>2 DEF Known
<1> HIDE DEF rec
<1>7. /\ DOMAIN logs' = DOMAIN logs
      /\ \A x \in DOMAIN logs : x # logfile_number => logs'[x] = logs[x]
      /\ logs'[logfile_number] \in LogType
      /\ logs'[logfile_number].synced <= Len(logs'[logfile_number].recs)
      /\ \A r : InLog(logs'[logfile_number], r) => r = rec \/ InLog(logs[logfile_number], r)
      /\ MoreRecs(logs, logs', logfile_number, rec)
  <2>1. LogsOK(logs)
    BY DEF RecInv, DiskTypeOK, LogsOK
  <2>2. LongerLog(logs, logs', logfile_number, rec)
    BY <1>1, <1>4, <1>5, <2>1, AppendLog
  <2>3. QED
    BY <2>2 DEF LongerLog
<1>8. DiskTypeOK'
  <2>1. DiskTypeOK
    BY DEF RecInv
  <2>2. \A n \in DOMAIN tables' : n \in Nat /\ tables'[n] \subseteq Known'
    BY <1>3, <1>6, <2>1 DEF DiskTypeOK
  <2>3. \A n \in DOMAIN logs : n # logfile_number =>
            /\ n \in Nat /\ logs'[n] \in LogType /\ logs'[n].synced <= Len(logs'[n].recs)
            /\ \A i \in 1 .. Len(logs'[n].recs) : logs'[n].recs[i] \in Known'
            /\ logs'[n].lost \subseteq Known'
    BY <1>6, <1>7, <2>1 DEF DiskTypeOK
  <2>4. \A r : InLog(logs[logfile_number], r) => r \in Known
    BY <1>4, <2>1 DEF DiskTypeOK, InLog
  <2>5. \A r : InLog(logs'[logfile_number], r) => r \in Known'
    BY <1>5, <1>6, <1>7, <2>4
  <2>6. /\ \A i \in 1 .. Len(logs'[logfile_number].recs) : logs'[logfile_number].recs[i] \in Known'
        /\ logs'[logfile_number].lost \subseteq Known'
    BY <2>5 DEF InLog
  <2>7. QED
    BY <1>3, <1>4, <1>7, <2>1, <2>2, <2>3, <2>6 DEF DiskTypeOK
<1>9. MemoryTypeOK'
  <2>1. writing' \subseteq [rec : Known', sync : BOOLEAN]
    BY <1>1, <1>5
  <2>2. mem \subseteq Known' /\ imm \subseteq Known'
    BY <1>6 DEF RecInv, MemoryTypeOK
  <2>3. QED
    BY <1>3, <2>1, <2>2 DEF RecInv, MemoryTypeOK
<1>10. HistoryTypeOK'
  BY <1>3, <1>6 DEF RecInv, HistoryTypeOK
<1>11. Full' = Full /\ Views' = Views
  BY <1>3, SameViews
<1>12. ASSUME NEW v \in Views
       PROVE  /\ Reach(tables, logs', v) \subseteq Reach(tables, logs, v) \cup {rec}
              /\ \A r \in Reach(tables, logs, v) : r \in Known /\ r.seq <= vs.last
              /\ Reach(tables, logs, v) \subseteq Reach(tables, logs', v)
  <2>1. Reach(tables, logs', v) \subseteq Reach(tables, logs, v) \cup {rec}
    BY <1>7 DEF Reach, MoreRecs
  <2>2. \A r \in Reach(tables, logs, v) : r \in Known /\ r.seq <= vs.last
    BY <1>1, <1>2, RecordFacts DEF RecInv, UpInv, UpSequences
  <2>3. Reach(tables, logs, v) \subseteq Reach(tables, logs', v)
    BY <1>7 DEF Reach, MoreRecs
  <2>4. QED
    BY <2>1, <2>2, <2>3
<1>13. ASSUME NEW S, NEW T, T \subseteq S \cup {rec}, OneEach(S), \A r \in S : r \in Known /\ r.seq <= vs.last
       PROVE  OneEach(T)
  <2>1. \A r \in S : r.seq # rec.seq
    BY <1>4, <1>5, <1>13, RecordFacts
  <2>2. QED
    BY <1>13, <2>1 DEF OneEach
<1>14. ViewInv'
  <2>1. ASSUME NEW v \in Views
        PROVE  v.have /\ GoodView(v)'
    <3>1. v \in ViewType /\ v.have /\ GoodView(v)
      BY <1>2, UpFacts
    <3>2. OneEach(Reach(tables, logs', v))
      BY <1>12, <1>13, <3>1 DEF GoodView
    <3>3. SyncedRecs(logs, v.log) \subseteq SyncedRecs(logs', v.log)
      BY <1>7 DEF MoreRecs
    <3>4. v.last <= ids'
      BY <1>4, <1>6, <3>1 DEF GoodView, ViewType
    <3>5. QED
      BY <1>3, <1>11, <3>1, <3>2, <3>3, <3>4 DEF GoodView
  <2>2. acked \subseteq skipped \cup Reach(tables, logs', Full)
    BY <1>2, <1>12, UpFacts
  <2>3. QED
    BY <1>3, <1>11, <2>1, <2>2 DEF ViewInv
<1>15. UpNumbers'
  BY <1>1, <1>2, <1>3, <1>4, <1>7, <1>11 DEF RecInv, UpInv, UpNumbers
<1>16. UpTables' /\ UpExact'
  BY <1>2, <1>3, <1>11 DEF RecInv, UpInv, UpTables, UpExact
<1>17. Around' \subseteq Around \cup {rec} /\ OneEach(Around') /\ \A r \in Around : r.seq <= vs.last
  <2>1. Around' \subseteq Around \cup {rec}
    BY <1>3, <1>7, <1>11 DEF Around, MoreRecs
  <2>2. OneEach(Around) /\ \A r \in Around : r \in Known /\ r.seq <= vs.last
    BY <1>1, <1>2, RecordFacts DEF RecInv, UpInv, UpRecords, UpSequences
  <2>3. QED
    BY <1>13, <2>1, <2>2
<1>18. UpRecords'
  <2>1. /\ LogRecs(logs, logfile_number) \subseteq LogRecs(logs', logfile_number)
        /\ LogRecs(logs, vs.log) \subseteq LogRecs(logs', vs.log)
        /\ SyncedRecs(logs, logfile_number) \subseteq SyncedRecs(logs', logfile_number)
        /\ SyncedRecs(logs, vs.log) \subseteq SyncedRecs(logs', vs.log)
    BY <1>7 DEF MoreRecs
  <2>2. QED
    BY <1>2, <1>3, <1>11, <1>17, <2>1 DEF RecInv, UpInv, UpRecords
<1>19. UpSequences'
  <2>1. \A v \in Views : \A r \in Reach(tables, logs', v) : r.seq <= vs.last \/ r = rec
    BY <1>12
  <2>2. \A r \in Around' : r.seq <= vs.last \/ r = rec
    BY <1>17
  <2>3. rec \in LogRecs(logs', logfile_number)
    <3>1. logfile_number >= logfile_number
      BY <1>4
    <3>2. QED
      BY <1>7, <3>1 DEF MoreRecs
  <2>4. rec \notin acked
    BY <1>5 DEF RecInv, HistoryTypeOK
  <2>5. \A w \in writing' : w.rec = rec /\ w = [rec |-> rec, sync |-> sync]
    BY <1>1
  <2>6. \E w \in writing' : w.rec = rec
    BY <1>1
  <2>7. QED
    BY <1>2, <1>3, <1>5, <1>11, <2>1, <2>2, <2>3, <2>4, <2>5, <2>6 DEF RecInv, UpInv, UpSequences
<1>20. current' \in DOMAIN manifests'
  BY <1>2, <1>3, UpFacts
<1>21. QED
  BY <1>2, <1>8, <1>9, <1>10, <1>14, <1>15, <1>16, <1>18, <1>19, <1>20, UpNext DEF UpInv
\* AppendFails: the sequence number is used, and no record is added to the log.
LEMMA AppendFailsKeeps ==
    ASSUME RecInv, AppendFails
    PROVE  RecInv'
<1>1. /\ pc = "up" /\ writing = {} /\ ids < MaxWrites /\ ids' = ids + 1
      /\ logs' = [logs EXCEPT ![logfile_number].torn = TRUE]
      /\ vs' = [vs EXCEPT !.last = @ + 1]
      /\ tables' = tables /\ manifests' = manifests /\ current' = current /\ temps' = temps
      /\ acked' = acked /\ durable' = durable /\ skipped' = skipped /\ dropped' = dropped
      /\ opened' = opened /\ mem' = mem /\ imm' = imm /\ logfile_number' = logfile_number
      /\ pending' = pending /\ flush' = flush /\ comp' = comp /\ bg_error' = bg_error /\ pc' = pc
      /\ held' = held /\ open' = open /\ writing' = writing
  BY DEF AppendFails
<1>2. IsUp /\ IsUp'
  BY <1>1 DEF IsUp
<1>3. /\ vs.last \in Nat /\ vs.last <= ids /\ ids \in Nat /\ MaxWrites \in Nat
      /\ logfile_number \in DOMAIN logs /\ logfile_number \in Nat
  BY <1>2, RecordFacts, RecoveryAssumption DEF RecInv, UpInv, UpNumbers, MemoryTypeOK
<1>4. Known \subseteq Known' /\ ids' \in 0 .. MaxWrites /\ ids <= ids' /\ ids' \in Nat
  <2>1. \A i \in 1 .. ids : i \in 1 .. ids + 1
    BY <1>3
  <2>2. ids + 1 \in 0 .. MaxWrites /\ ids <= ids + 1
    BY <1>1, <1>3
  <2>3. QED
    BY <1>1, <1>3, <2>1, <2>2 DEF Known
<1>5. /\ vs'.files = vs.files /\ vs'.log = vs.log /\ vs'.next = vs.next /\ vs'.manifest = vs.manifest
      /\ vs'.last = vs.last + 1 /\ vs.last <= vs'.last /\ vs'.last <= ids'
      /\ vs' \in [files : SUBSET Nat, log : Nat, next : Nat, last : Nat, manifest : Nat]
  BY <1>1, <1>3, RecordFacts
<1>6. /\ DOMAIN logs' = DOMAIN logs
      /\ \A x \in DOMAIN logs : /\ logs'[x] \in LogType /\ logs'[x].synced = logs[x].synced
                                /\ logs'[x].recs = logs[x].recs /\ logs'[x].lost = logs[x].lost
  <2>1. \A x \in DOMAIN logs : logs[x] \in LogType
    BY DEF RecInv, DiskTypeOK
  <2>2. QED
    BY <1>1, <2>1 DEF LogType
<1>7. \A n : LogRecs(logs', n) = LogRecs(logs, n) /\ SyncedRecs(logs', n) = SyncedRecs(logs, n)
  <2>1. SameRecs(logs, logs')
    BY <1>6 DEF SameRecs
  <2>2. \A x \in DOMAIN logs : \A r : InSyncedLog(logs'[x], r) <=> InSyncedLog(logs[x], r)
    BY <1>6 DEF InSyncedLog
  <2>3. \A n, r : r \in SyncedRecs(logs', n) <=> r \in SyncedRecs(logs, n)
    BY <1>6, <2>2, InSynced
  <2>4. \A n : SyncedRecs(logs', n) = SyncedRecs(logs, n)
    BY <2>3
  <2>5. QED
    BY <2>1, <2>4, SameLogRecs
<1>8. Full' = Full /\ Views' = Views /\ Around' = Around
  BY <1>1, <1>5, <1>7, SameViews DEF Around
<1>9. DiskTypeOK'
  BY <1>1, <1>4, <1>6 DEF RecInv, DiskTypeOK
<1>10. MemoryTypeOK'
  BY <1>1, <1>4, <1>5 DEF RecInv, MemoryTypeOK
<1>11. HistoryTypeOK'
  BY <1>1, <1>4 DEF RecInv, HistoryTypeOK
<1>12. ViewInv'
  <2>1. ASSUME NEW v \in Views
        PROVE  v.have /\ GoodView(v)'
    <3>1. v \in ViewType /\ v.have /\ GoodView(v) /\ Full \in ViewType
      BY <1>2, UpFacts
    <3>2. v.last <= ids'
      BY <1>3, <1>4, <3>1 DEF GoodView, ViewType
    <3>3. QED
      BY <1>1, <1>7, <1>8, <3>1, <3>2 DEF GoodView, Reach
  <2>2. acked \subseteq skipped \cup Reach(tables, logs', Full)
    BY <1>2, <1>7, UpFacts DEF Reach
  <2>3. QED
    BY <1>1, <1>8, <2>1, <2>2 DEF ViewInv
<1>13. Full.last <= vs'.last
  <2>1. Full.last \in Nat /\ Full.last <= vs.last
    BY <1>2, UpFacts DEF RecInv, UpInv, UpNumbers, ViewType
  <2>2. QED
    BY <1>3, <1>5, <2>1
<1>14. UpNumbers'
  BY <1>1, <1>2, <1>5, <1>6, <1>8, <1>13 DEF RecInv, UpInv, UpNumbers
<1>15. UpTables' /\ UpExact'
  BY <1>1, <1>2, <1>5, <1>8 DEF RecInv, UpInv, UpTables, UpExact
<1>16. UpRecords'
  BY <1>1, <1>2, <1>5, <1>7, <1>8 DEF RecInv, UpInv, UpRecords
<1>17. UpSequences'
  <2>1. \A r \in Known : r.seq <= vs.last => r.seq <= vs'.last
    BY <1>3, <1>5, RecordFacts
  <2>2. mem \cup imm \subseteq Known
    BY DEF RecInv, MemoryTypeOK
  <2>3. \A v : Reach(tables', logs', v) = Reach(tables, logs, v)
    BY <1>1, <1>7 DEF Reach
  <2>4. QED
    BY <1>1, <1>2, <1>5, <1>8, <2>1, <2>2, <2>3, RecordFacts DEF RecInv, UpInv, UpSequences
<1>18. current' \in DOMAIN manifests'
  BY <1>1, <1>2, UpFacts
<1>19. QED
  BY <1>2, <1>9, <1>10, <1>11, <1>12, <1>14, <1>15, <1>16, <1>17, <1>18, UpNext DEF UpInv

\* FinishWrite: the record is in the log, and synced there if the write asked for it.
LEMMA FinishWriteKeeps ==
    ASSUME RecInv, FinishWrite
    PROVE  RecInv'
<1>1. PICK w \in writing :
         /\ logs' = IF w.sync THEN [logs EXCEPT ![logfile_number].synced = Len(logs[logfile_number].recs)]
                              ELSE logs
         /\ mem' = mem \cup {w.rec} /\ vs' = [vs EXCEPT !.last = w.rec.seq]
         /\ acked' = acked \cup {w.rec} /\ durable' = IF w.sync THEN durable \cup {w.rec} ELSE durable
  BY DEF FinishWrite
<1>2. /\ IsUp /\ pc = "up" /\ pc' = pc /\ writing' = {} /\ IsUp'
      /\ tables' = tables /\ manifests' = manifests /\ current' = current /\ temps' = temps
      /\ imm' = imm /\ logfile_number' = logfile_number /\ open' = open /\ pending' = pending
      /\ held' = held /\ flush' = flush /\ comp' = comp /\ bg_error' = bg_error /\ ids' = ids
      /\ skipped' = skipped /\ dropped' = dropped /\ opened' = opened
  BY DEF FinishWrite, IsUp
<1>3. /\ w.rec \in Known /\ w.rec.seq \in Nat /\ w.rec.seq <= ids
      /\ logfile_number \in DOMAIN logs /\ logfile_number \in Nat /\ vs.log \in Nat
      /\ vs.log <= logfile_number /\ \A l \in DOMAIN logs : l \in Nat /\ l <= logfile_number
  <2>1. w.rec \in Known
    BY DEF RecInv, MemoryTypeOK
  <2>2. QED
    BY <1>2, <2>1, RecordFacts DEF RecInv, UpInv, UpNumbers, MemoryTypeOK, DiskTypeOK
<1>4. /\ vs'.files = vs.files /\ vs'.log = vs.log /\ vs'.next = vs.next /\ vs'.manifest = vs.manifest
      /\ vs'.last = w.rec.seq
      /\ vs' \in [files : SUBSET Nat, log : Nat, next : Nat, last : Nat, manifest : Nat]
  BY <1>1, <1>3, RecordFacts
<1>5. /\ w.rec.seq = vs.last + 1 /\ vs.last \in Nat /\ vs.last <= vs'.last /\ w.rec \notin acked
      /\ \A x \in writing : x = w
      /\ w.rec \in LogRecs(logs, logfile_number)
  BY <1>2, <1>4, RecordFacts DEF RecInv, UpInv, UpSequences
<1>6. Known' = Known /\ Full' = Full /\ Views' = Views
  BY <1>2, SameViews DEF Known
<1>7. /\ DOMAIN logs' = DOMAIN logs
      /\ \A x \in DOMAIN logs : /\ logs'[x] \in LogType /\ logs'[x].synced <= Len(logs'[x].recs)
                                /\ logs'[x].recs = logs[x].recs /\ logs'[x].lost = logs[x].lost
      /\ \A n : LogRecs(logs', n) = LogRecs(logs, n) /\ SyncedRecs(logs, n) \subseteq SyncedRecs(logs', n)
      /\ \A n \in Nat : w.sync /\ n <= logfile_number => w.rec \in SyncedRecs(logs', n)
  <2>1. LogsOK(logs)
    BY DEF RecInv, DiskTypeOK, LogsOK
  <2>2. CASE w.sync
    <3>1. SyncedLog(logs, logs', logfile_number)
      <4>1. logs' = [logs EXCEPT ![logfile_number].synced = Len(logs[logfile_number].recs)]
        BY <1>1, <2>2
      <4>2. QED
        BY <1>3, <2>1, <4>1, SyncLog
    <3>2. PICK l \in DOMAIN logs : l >= logfile_number /\ InLog(logs[l], w.rec)
      BY <1>5, InLogs
    <3>3. l = logfile_number
      BY <1>3, <3>2
    <3>4. \A n \in Nat : n <= logfile_number => w.rec \in SyncedRecs(logs', n)
      <4>1. \A n \in Nat : n <= logfile_number => logfile_number >= n
        BY <1>3
      <4>2. QED
        BY <3>1, <3>2, <3>3, <4>1 DEF SyncedLog
    <3>5. Len(logs[logfile_number].recs) <= Len(logs[logfile_number].recs)
      BY <1>3, <2>1 DEF LogsOK, LogType
    <3>6. QED
      BY <2>1, <3>1, <3>4, <3>5 DEF SyncedLog, LogsOK
  <2>3. CASE ~w.sync
    BY <1>1, <2>1, <2>3 DEF LogsOK
  <2>4. QED
    BY <2>2, <2>3
<1>8. DiskTypeOK'
  BY <1>2, <1>6, <1>7 DEF RecInv, DiskTypeOK
<1>9. MemoryTypeOK'
  BY <1>1, <1>2, <1>3, <1>4, <1>6 DEF RecInv, MemoryTypeOK
<1>10. durable \subseteq durable' /\ durable' \subseteq durable \cup {w.rec} /\ (~w.sync => durable' = durable)
  BY <1>1
<1>11. HistoryTypeOK'
  BY <1>1, <1>2, <1>3, <1>6, <1>10 DEF RecInv, HistoryTypeOK
<1>12. ViewInv'
  <2>1. ASSUME NEW v \in Views
        PROVE  v.have /\ GoodView(v)'
    <3>1. v \in ViewType /\ v.have /\ GoodView(v) /\ Full \in ViewType
      BY <1>2, UpFacts
    <3>2. v.log <= logfile_number
      BY <1>2 DEF RecInv, UpInv, UpNumbers
    <3>3. durable' \subseteq durable \cup SyncedRecs(logs', v.log)
      BY <1>7, <1>10, <3>1, <3>2 DEF ViewType
    <3>4. ids \in Nat /\ ids <= ids' /\ Full.next \in Nat /\ Full.next <= Full'.next
      BY <1>2, <1>6, <3>1, RecordFacts DEF ViewType
    <3>5. \A n \in v.files : n \in DOMAIN tables' /\ tables'[n] = tables[n]
      BY <1>2, <3>1 DEF GoodView
    <3>6. QED
      BY <1>2, <1>6, <1>7, <3>1, <3>3, <3>4, <3>5, ViewStays
  <2>2. w.rec \in Reach(tables, logs', Full)
    <3>1. Full.log <= logfile_number /\ Full.log \in Nat
      BY <1>2, UpFacts DEF RecInv, UpInv, UpNumbers, ViewType
    <3>2. QED
      BY <1>3, <1>5, <1>7, <3>1, LogsMore DEF Reach
  <2>3. acked \subseteq skipped \cup Reach(tables, logs', Full)
    BY <1>2, <1>7, UpFacts DEF Reach
  <2>4. QED
    BY <1>1, <1>2, <1>6, <2>1, <2>2, <2>3 DEF ViewInv
<1>13. Full.last <= vs'.last /\ vs'.last <= ids
  <2>1. Full.last \in Nat /\ Full.last <= vs.last
    BY <1>2, UpFacts DEF RecInv, UpInv, UpNumbers, ViewType
  <2>2. QED
    BY <1>3, <1>4, <1>5, <2>1
<1>14. UpNumbers'
  BY <1>2, <1>4, <1>6, <1>7, <1>13 DEF RecInv, UpInv, UpNumbers
<1>15. UpTables' /\ UpExact'
  BY <1>2, <1>4, <1>6 DEF RecInv, UpInv, UpTables, UpExact
<1>16. Around' = Around
  BY <1>2, <1>4, <1>6, <1>7 DEF Around
<1>17. UpRecords'
  <2>1. w.rec \notin durable /\ w.rec \notin imm
    BY <1>2, <1>5 DEF RecInv, HistoryTypeOK, UpInv, UpRecords
  <2>2. durable' \cap mem' \subseteq SyncedRecs(logs', logfile_number)
    <3>1. w.sync => w.rec \in SyncedRecs(logs', logfile_number)
      BY <1>3, <1>7
    <3>2. durable \cap mem \subseteq SyncedRecs(logs', logfile_number)
      BY <1>2, <1>7 DEF RecInv, UpInv, UpRecords
    <3>3. QED
      BY <1>1, <1>10, <2>1, <3>1, <3>2
  <2>3. durable' \cap imm \subseteq SyncedRecs(logs', vs.log)
    BY <1>2, <1>7, <1>10, <2>1 DEF RecInv, UpInv, UpRecords
  <2>4. mem' \subseteq LogRecs(logs', logfile_number)
    BY <1>1, <1>2, <1>5, <1>7 DEF RecInv, UpInv, UpRecords
  <2>5. QED
    BY <1>1, <1>2, <1>4, <1>6, <1>7, <1>16, <2>1, <2>2, <2>3, <2>4 DEF RecInv, UpInv, UpRecords
<1>18. UpSequences'
  <2>1. \A r \in Known : r.seq <= vs.last \/ (\E x \in writing : r = x.rec) => r.seq <= vs'.last
    BY <1>4, <1>5, RecordFacts
  <2>2. mem \cup imm \subseteq Known
    BY DEF RecInv, MemoryTypeOK
  <2>3. \A v : Reach(tables', logs', v) = Reach(tables, logs, v)
    BY <1>2, <1>7 DEF Reach
  <2>4. \A r \in mem' : r.seq <= vs'.last
    BY <1>1, <1>2, <1>3, <1>4, <2>1, <2>2 DEF RecInv, UpInv, UpSequences
  <2>5. QED
    BY <1>2, <1>4, <1>6, <1>16, <2>1, <2>2, <2>3, <2>4, RecordFacts DEF RecInv, UpInv, UpSequences
<1>19. current' \in DOMAIN manifests'
  BY <1>2, UpFacts
<1>20. QED
  BY <1>2, <1>8, <1>9, <1>11, <1>12, <1>14, <1>15, <1>17, <1>18, <1>19, UpNext DEF UpInv
\* SwitchMemTable: the records of mem_ are in the older log now.
LEMMA SwitchMemTableKeeps ==
    ASSUME RecInv, SwitchMemTable
    PROVE  RecInv'
<1>1. /\ pc = "up" /\ writing = {} /\ ~bg_error /\ imm = {}
      /\ logs' = Put(logs, vs.next, NewLog) /\ logfile_number' = vs.next
      /\ vs' = [vs EXCEPT !.next = @ + 1] /\ imm' = mem /\ mem' = {}
      /\ pc' = pc /\ IsUp /\ IsUp'
      /\ tables' = tables /\ manifests' = manifests /\ current' = current /\ temps' = temps
      /\ open' = open /\ pending' = pending /\ held' = held /\ writing' = writing
      /\ flush' = flush /\ comp' = comp /\ bg_error' = bg_error
      /\ ids' = ids /\ acked' = acked /\ durable' = durable
      /\ skipped' = skipped /\ dropped' = dropped /\ opened' = opened
  BY DEF SwitchMemTable, NewFileNumber, IsUp, history
<1>2. /\ vs'.files = vs.files /\ vs'.log = vs.log /\ vs'.next = vs.next + 1
      /\ vs'.manifest = vs.manifest /\ vs'.last = vs.last
      /\ vs' \in [files : SUBSET Nat, log : Nat, next : Nat, last : Nat, manifest : Nat]
      /\ vs.next \in Nat /\ vs.log \in Nat
  BY <1>1, RecordFacts
<1>3. /\ logfile_number \in Nat /\ vs.log <= logfile_number /\ logfile_number < vs.next
      /\ \A l \in DOMAIN logs : l \in Nat /\ l <= logfile_number
  BY <1>1 DEF RecInv, UpInv, UpNumbers, MemoryTypeOK, DiskTypeOK
<1>4. vs.next \notin DOMAIN logs
  BY <1>2, <1>3
<1>5. /\ DOMAIN logs' = DOMAIN logs \cup {vs.next} /\ logs'[vs.next] = NewLog
      /\ \A x \in DOMAIN logs : logs'[x] = logs[x]
  BY <1>1, <1>4 DEF Put
<1>6. \A n : LogRecs(logs', n) = LogRecs(logs, n) /\ SyncedRecs(logs', n) = SyncedRecs(logs, n)
  BY <1>1, <1>4, NewLogRecs
<1>7. Known' = Known /\ Full' = Full /\ Views' = Views
  BY <1>1, SameViews DEF Known
<1>8. DiskTypeOK'
  <2>1. /\ NewLog \in LogType /\ NewLog.synced <= Len(NewLog.recs)
        /\ \A i \in 1 .. Len(NewLog.recs) : NewLog.recs[i] \in Known
        /\ NewLog.lost \subseteq Known
    BY DEF NewLog, LogType
  <2>2. QED
    BY <1>1, <1>2, <1>5, <1>7, <2>1 DEF RecInv, DiskTypeOK
<1>9. MemoryTypeOK'
  BY <1>1, <1>2, <1>7 DEF RecInv, MemoryTypeOK
<1>10. HistoryTypeOK'
  BY <1>1, <1>7 DEF RecInv, HistoryTypeOK
<1>11. ViewInv'
  BY <1>1, <1>6, <1>7 DEF RecInv, ViewInv, GoodView, Reach
<1>12. UpNumbers'
  <2>1. /\ vs.log <= vs.next /\ vs.next < vs.next + 1
        /\ \A l \in DOMAIN logs' : l <= vs.next
    BY <1>2, <1>3, <1>5
  <2>2. \A n \in Nat : (n < logfile_number => n < vs.next) /\ (n <= logfile_number => n <= vs.next)
                       /\ (n < vs.next => n < vs.next + 1) /\ (n <= vs.next => n <= vs.next + 1)
    BY <1>2, <1>3
  <2>3. /\ \A v \in Views : v.log \in Nat
        /\ Full.next \in Nat
    BY <1>1, UpFacts DEF ViewType
  <2>4. \A n \in vs.files \cup pending \cup (UNION held) \cup DOMAIN tables \cup DOMAIN manifests : n \in Nat
    BY <1>2, RecordFacts DEF RecInv, MemoryTypeOK, DiskTypeOK
  <2>5. /\ \A n \in vs.files \cup pending \cup UNION held : n < vs.next + 1
        /\ \A n \in DOMAIN tables : n < vs.next + 1
        /\ Full.next <= vs.next + 1
    BY <1>1, <2>2, <2>3, <2>4 DEF RecInv, UpInv, UpNumbers
  <2>6. /\ \A m \in DOMAIN manifests : m < vs.next
        /\ \A v \in Views : v.log <= vs.next
    BY <1>1, <2>2, <2>3, <2>4 DEF RecInv, UpInv, UpNumbers
  <2>7. QED
    BY <1>1, <1>2, <1>5, <1>7, <2>1, <2>5, <2>6 DEF RecInv, UpInv, UpNumbers
<1>13. flush.stage = "none"
  BY <1>1 DEF RecInv, UpInv, UpTables, MemoryTypeOK
<1>14. UpTables' /\ UpExact'
  BY <1>1, <1>2, <1>7, <1>13 DEF RecInv, UpInv, UpTables, UpExact
<1>15. Around' = Around
  BY <1>1, <1>2, <1>6, <1>7 DEF Around
<1>16. UpRecords'
  <2>1. /\ LogRecs(logs, logfile_number) \subseteq LogRecs(logs, vs.log)
        /\ SyncedRecs(logs, logfile_number) \subseteq SyncedRecs(logs, vs.log)
    BY <1>2, <1>3, LogsMore
  <2>2. QED
    BY <1>1, <1>2, <1>6, <1>7, <1>15, <2>1 DEF RecInv, UpInv, UpRecords
<1>17. UpSequences'
  BY <1>1, <1>2, <1>6, <1>7, <1>15 DEF RecInv, UpInv, UpSequences, Reach
<1>18. current' \in DOMAIN manifests'
  BY <1>1, UpFacts
<1>19. QED
  BY <1>1, <1>8, <1>9, <1>10, <1>11, <1>12, <1>14, <1>16, <1>17, <1>18, UpNext DEF UpInv

-----------------------------------------------------------------------------
(* Flushes and compactions *)

\* A new number and an empty table of that number.
BeginTable ==
    /\ pc = "up" /\ vs' = NewFileNumber /\ pending' = pending \cup {vs.next}
    /\ tables' = Put(tables, vs.next, {})
    /\ logs' = logs /\ manifests' = manifests /\ current' = current /\ temps' = temps
    /\ pc' = pc /\ mem' = mem /\ imm' = imm /\ logfile_number' = logfile_number /\ open' = open
    /\ held' = held /\ writing' = writing /\ bg_error' = bg_error
    /\ ids' = ids /\ acked' = acked /\ durable' = durable
    /\ skipped' = skipped /\ dropped' = dropped /\ opened' = opened

\* It is none of the tables that anything refers to.
LEMMA BeginTableKeeps ==
    ASSUME RecInv, BeginTable
    PROVE  /\ IsUp /\ IsUp' /\ DiskTypeOK' /\ HistoryTypeOK' /\ ViewInv'
           /\ UpNumbers' /\ UpRecords' /\ UpSequences'
           /\ Known' = Known /\ Full' = Full /\ Views' = Views /\ current' \in DOMAIN manifests'
           /\ vs'.files = vs.files /\ vs'.log = vs.log /\ vs.next \in Nat
           /\ vs' \in [files : SUBSET Nat, log : Nat, next : Nat, last : Nat, manifest : Nat]
           /\ vs.next \notin DOMAIN tables /\ DOMAIN tables' = DOMAIN tables \cup {vs.next}
           /\ tables'[vs.next] = {} /\ \A x \in DOMAIN tables : tables'[x] = tables[x]
           /\ vs.next \notin vs.files \cup UNION held /\ \A v \in Views : vs.next \notin v.files
           /\ TableRecs(tables', comp.in) = TableRecs(tables, comp.in)
<1> USE DEF BeginTable
<1>1. IsUp /\ IsUp'
  BY DEF IsUp
<1>2. /\ vs'.files = vs.files /\ vs'.log = vs.log /\ vs'.next = vs.next + 1
      /\ vs'.manifest = vs.manifest /\ vs'.last = vs.last
      /\ vs' \in [files : SUBSET Nat, log : Nat, next : Nat, last : Nat, manifest : Nat]
      /\ vs.next \in Nat /\ vs.log \in Nat
  BY RecordFacts DEF NewFileNumber
<1>3. vs.next \notin DOMAIN tables
  <2>1. \A n \in DOMAIN tables : n < vs.next
    BY <1>1 DEF RecInv, UpInv, UpNumbers
  <2>2. QED
    BY <1>2, <2>1
<1>4. /\ DOMAIN tables' = DOMAIN tables \cup {vs.next}
      /\ tables'[vs.next] = {} /\ \A x \in DOMAIN tables : tables'[x] = tables[x]
  BY <1>3 DEF Put
<1>5. \A S : S \subseteq DOMAIN tables => TableRecs(tables', S) = TableRecs(tables, S)
  <2> SUFFICES ASSUME NEW S, S \subseteq DOMAIN tables
               PROVE  TableRecs(tables', S) = TableRecs(tables, S)
    OBVIOUS
  <2>1. \A f \in S : (f \in DOMAIN tables <=> f \in DOMAIN tables') /\ (f \in DOMAIN tables => tables'[f] = tables[f])
    BY <1>4
  <2>2. QED
    BY <2>1, TablesSame
<1>6. /\ vs.files \subseteq DOMAIN tables /\ UNION held \subseteq DOMAIN tables
      /\ \A v \in Views : v.files \subseteq DOMAIN tables
      /\ comp.in \subseteq vs.files
  BY <1>1, UpFacts DEF RecInv, UpInv, UpTables, GoodView
<1>7. Known' = Known /\ Full' = Full /\ Views' = Views /\ current' \in DOMAIN manifests'
  BY <1>1, SameViews, UpFacts DEF Known
<1>8. DiskTypeOK'
  BY <1>2, <1>4, <1>7 DEF RecInv, DiskTypeOK
<1>9. HistoryTypeOK'
  BY <1>7 DEF RecInv, HistoryTypeOK
<1>10. Full \in Views
  BY <1>1, UpFacts
<1>11. ViewInv'
  <2>1. ASSUME NEW v \in Views
        PROVE  v.have /\ GoodView(v)'
    <3>1. v.have /\ GoodView(v) /\ TableRecs(tables', v.files) = TableRecs(tables, v.files)
      BY <1>1, <1>5, <1>6, UpFacts
    <3>2. \A n \in v.files : n \in DOMAIN tables' /\ tables'[n] # {} /\ n < v.next
      BY <1>4, <3>1 DEF GoodView
    <3>3. QED
      BY <1>7, <3>1, <3>2 DEF GoodView, Reach
  <2>2. acked \subseteq skipped \cup Reach(tables', logs, Full)
    BY <1>1, <1>5, <1>6, <1>10, UpFacts DEF Reach
  <2>3. QED
    BY <1>7, <2>1, <2>2 DEF ViewInv
<1>12. UpNumbers'
  <2>1. \A n \in Nat : (n < vs.next => n < vs.next + 1) /\ (n <= vs.next => n <= vs.next + 1)
    BY <1>2
  <2>2. vs.next < vs.next + 1 /\ logfile_number \in Nat /\ Full.next \in Nat
    BY <1>1, <1>2, UpFacts DEF RecInv, MemoryTypeOK, ViewType
  <2>3. \A n \in vs.files \cup pending \cup (UNION held) \cup DOMAIN tables : n \in Nat
    BY <1>2, RecordFacts DEF RecInv, MemoryTypeOK, DiskTypeOK
  <2>4. /\ \A n \in vs.files \cup pending' \cup (UNION held) : n < vs.next + 1
        /\ \A n \in DOMAIN tables' : n < vs.next + 1
        /\ Full.next <= vs.next + 1 /\ logfile_number < vs.next + 1
    BY <1>1, <1>4, <2>1, <2>2, <2>3 DEF RecInv, UpInv, UpNumbers
  <2>5. QED
    BY <1>1, <1>2, <1>7, <2>4 DEF RecInv, UpInv, UpNumbers
<1>13. /\ TableRecs(tables', vs.files) = TableRecs(tables, vs.files)
       /\ TableRecs(tables', Full.files) = TableRecs(tables, Full.files)
       /\ TableRecs(tables', comp.in) = TableRecs(tables, comp.in)
  BY <1>5, <1>6, <1>10
<1>14. Around' = Around
  BY <1>2, <1>7, <1>13 DEF Around
<1>15. UpRecords'
  BY <1>1, <1>2, <1>7, <1>13, <1>14 DEF RecInv, UpInv, UpRecords
<1>16. UpSequences'
  <2>1. \A v \in Views : Reach(tables', logs', v) = Reach(tables, logs, v)
    BY <1>5, <1>6 DEF Reach
  <2>2. QED
    BY <1>1, <1>2, <1>7, <1>13, <1>14, <2>1 DEF RecInv, UpInv, UpSequences
<1>17. vs.next \notin vs.files \cup UNION held /\ \A v \in Views : vs.next \notin v.files
  BY <1>3, <1>6
<1>18. QED
  BY <1>1, <1>2, <1>3, <1>4, <1>7, <1>8, <1>9, <1>11, <1>12, <1>13, <1>15, <1>16, <1>17

\* FlushStart
LEMMA FlushStartKeeps ==
    ASSUME RecInv, FlushStart
    PROVE  RecInv'
<1>1. /\ BeginTable /\ imm # {} /\ flush = NoFlush /\ comp.stage # "manifest" /\ comp' = comp
      /\ flush' = [stage |-> "build", out |-> vs.next]
  BY DEF FlushStart, BeginTable, history
<1>2. flush'.stage = "build" /\ flush'.out = vs.next /\ flush.stage = "none" /\ pending' = pending \cup {vs.next}
      /\ imm' = imm /\ held' = held /\ bg_error' = bg_error /\ pc' = "up"
  BY <1>1 DEF NoFlush, BeginTable
<1>3. /\ IsUp /\ IsUp' /\ DiskTypeOK' /\ HistoryTypeOK' /\ ViewInv'
      /\ UpNumbers' /\ UpRecords' /\ UpSequences'
      /\ Known' = Known /\ Full' = Full /\ Views' = Views /\ current' \in DOMAIN manifests'
      /\ vs'.files = vs.files /\ vs'.log = vs.log /\ vs.next \in Nat
      /\ vs' \in [files : SUBSET Nat, log : Nat, next : Nat, last : Nat, manifest : Nat]
      /\ vs.next \notin DOMAIN tables /\ DOMAIN tables' = DOMAIN tables \cup {vs.next}
      /\ tables'[vs.next] = {} /\ \A x \in DOMAIN tables : tables'[x] = tables[x]
      /\ vs.next \notin vs.files \cup UNION held /\ \A v \in Views : vs.next \notin v.files
  BY <1>1, BeginTableKeeps
<1>4. MemoryTypeOK'
  BY <1>1, <1>2, <1>3 DEF RecInv, MemoryTypeOK, BeginTable
<1>5. UpTables'
  BY <1>1, <1>2, <1>3 DEF RecInv, UpInv, UpTables
<1>6. UpExact'
  BY <1>1, <1>2, <1>3 DEF RecInv, UpInv, UpExact
<1>7. QED
  BY <1>3, <1>4, <1>5, <1>6, UpNext DEF UpInv

\* CompactStart
LEMMA CompactStartKeeps ==
    ASSUME RecInv, CompactStart
    PROVE  RecInv'
<1>1. PICK in \in (SUBSET vs.files) \ {{}} :
         comp' = [stage |-> "merge", in |-> in, out |-> vs.next, move |-> FALSE]
  BY DEF CompactStart
<1>2. BeginTable /\ flush' = flush /\ flush = NoFlush /\ comp = NoCompaction
  BY DEF CompactStart, BeginTable
<1>3. /\ comp'.stage = "merge" /\ comp'.in = in /\ comp'.out = vs.next /\ comp'.move = FALSE
      /\ flush.stage = "none" /\ comp.stage = "none" /\ pending' = pending \cup {vs.next}
      /\ imm' = imm /\ held' = held /\ bg_error' = bg_error /\ pc' = "up" /\ in # {} /\ in \subseteq vs.files
  BY <1>1, <1>2 DEF NoFlush, NoCompaction, BeginTable
<1>4. /\ IsUp /\ IsUp' /\ DiskTypeOK' /\ HistoryTypeOK' /\ ViewInv'
      /\ UpNumbers' /\ UpRecords' /\ UpSequences'
      /\ Known' = Known /\ Full' = Full /\ Views' = Views /\ current' \in DOMAIN manifests'
      /\ vs'.files = vs.files /\ vs'.log = vs.log /\ vs.next \in Nat
      /\ vs' \in [files : SUBSET Nat, log : Nat, next : Nat, last : Nat, manifest : Nat]
      /\ vs.next \notin DOMAIN tables /\ DOMAIN tables' = DOMAIN tables \cup {vs.next}
      /\ tables'[vs.next] = {} /\ \A x \in DOMAIN tables : tables'[x] = tables[x]
      /\ vs.next \notin vs.files \cup UNION held /\ \A v \in Views : vs.next \notin v.files
  BY <1>2, BeginTableKeeps
<1>5. in \subseteq Nat
  BY <1>3, RecordFacts
<1>6. MemoryTypeOK'
  <2>1. comp' \in [stage : {"none", "merge", "manifest"}, in : SUBSET Nat, out : Nat, move : BOOLEAN]
    BY <1>1, <1>4, <1>5
  <2>2. /\ pc' = "up" /\ mem' = mem /\ imm' = imm /\ logfile_number' = logfile_number /\ open' = open
        /\ pending' = pending \cup {vs.next} /\ held' = held /\ writing' = writing /\ flush' = flush
        /\ bg_error' = bg_error
    BY <1>2 DEF BeginTable
  <2>3. /\ Known' = Known
        /\ vs' \in [files : SUBSET Nat, log : Nat, next : Nat, last : Nat, manifest : Nat]
    BY <1>4
  <2>4. pending' \subseteq Nat
    BY <1>4, <2>2 DEF RecInv, MemoryTypeOK
  <2>5. /\ mem \subseteq Known /\ imm \subseteq Known /\ logfile_number \in Nat
        /\ open \in [logs : SUBSET Nat, add : SUBSET Nat, max_sequence : Nat]
        /\ held \subseteq SUBSET Nat /\ writing \subseteq [rec : Known, sync : BOOLEAN]
        /\ flush \in [stage : {"none", "build", "manifest"}, out : Nat] /\ bg_error \in BOOLEAN
    BY DEF RecInv, MemoryTypeOK
  <2>6. QED
    BY <2>1, <2>2, <2>3, <2>4, <2>5 DEF MemoryTypeOK
<1>7. UpTables'
  BY <1>2, <1>3, <1>4 DEF RecInv, UpInv, UpTables
<1>8. UpExact'
  BY <1>2, <1>3, <1>4 DEF RecInv, UpInv, UpExact
<1>9. QED
  BY <1>4, <1>6, <1>7, <1>8, UpNext DEF UpInv
\* The descriptors when LogAndApply has appended an edit to the current one: all of it is a
\* new view, and what a power loss leaves is one of the old ones or the new one.
ManifestsOK == \A n \in DOMAIN manifests : /\ n \in Nat /\ manifests[n] \in ManifestType
                                           /\ manifests[n].synced <= Len(manifests[n].edits)
EditAdded(log, add, del) ==
    /\ DOMAIN manifests' = DOMAIN manifests /\ ManifestsOK'
    /\ Full'.files = (Full.files \ del) \cup add /\ Full'.log = log
    /\ Full'.next = vs.next /\ Full'.last = vs.last /\ Full'.have
    /\ Full' \in ViewType /\ Views' = Views \cup {Full'}

\* LogAndApply appends an edit: the descriptor has one view more.
LEMMA AddEdit ==
    ASSUME RecInv, IsUp, NEW log \in Nat, NEW add \in SUBSET Nat, NEW del \in SUBSET Nat,
           manifests' = AddRecord(vs.manifest, EditNow(log, add, del)), current' = current
    PROVE  EditAdded(log, add, del)
<1> DEFINE e == Edit(log, vs.next, vs.last, add, del)
           m == manifests[current]
           x == manifests'[current]
<1>1. e \in EditType
  BY RecordFacts DEF Edit, EditType
<1>2. e.full = TRUE /\ e.log = log /\ e.next = vs.next /\ e.last = vs.last /\ e.add = add /\ e.del = del
  BY DEF Edit
<1>3. /\ current = vs.manifest /\ current \in DOMAIN manifests /\ Full \in ViewType
      /\ ManifestsOK
  BY UpFacts DEF RecInv, DiskTypeOK, ManifestsOK
<1>4. /\ m.edits \in Seq(EditType) /\ m.synced \in Nat /\ m.synced <= Len(m.edits)
      /\ m = [edits |-> m.edits, synced |-> m.synced] /\ m \in ManifestType
  BY <1>3 DEF ManifestType, ManifestsOK
<1>5. /\ DOMAIN manifests' = DOMAIN manifests
      /\ \A n \in DOMAIN manifests : n # current => manifests'[n] = manifests[n]
      /\ x = [m EXCEPT !.edits = Append(m.edits, e)]
  BY <1>3 DEF AddRecord, EditNow
<1> HIDE DEF e
<1>6. x = [edits |-> Append(m.edits, e), synced |-> m.synced]
  BY <1>4, <1>5
<1>7. x.edits = Append(m.edits, e) /\ x.synced = m.synced
  BY <1>6
<1>8. /\ Append(m.edits, e) \in Seq(EditType) /\ Len(m.edits) \in Nat
      /\ Len(Append(m.edits, e)) = Len(m.edits) + 1
  BY <1>1, <1>4, AppendFacts
<1>9. x \in ManifestType
  BY <1>4, <1>6, <1>8 DEF ManifestType
<1>10. x.synced <= Len(x.edits)
  BY <1>4, <1>7, <1>8
<1>11. /\ Recovered(x.edits) = Apply(Recovered(m.edits), e)
       /\ ViewsOf(x) = ViewsOf(m) \cup {Apply(Recovered(m.edits), e)}
  <2>1. \A y \in ManifestType :
          y.edits = Append(m.edits, e) /\ y.synced = m.synced =>
             /\ Recovered(y.edits) = Apply(Recovered(m.edits), e)
             /\ ViewsOf(y) = ViewsOf(m) \cup {Apply(Recovered(m.edits), e)}
    <3> HIDE DEF m, x
    <3>1. QED
      BY <1>1, <1>4, ManifestViews
  <2>2. QED
    BY <1>7, <1>9, <2>1
<1>12. Full' = Apply(Full, e) /\ Views' = Views \cup {Full'}
  <2>1. Full' = Recovered(x.edits) /\ Full = Recovered(m.edits) /\ Views' = ViewsOf(x) /\ Views = ViewsOf(m)
    BY DEF Full, Views
  <2>2. QED
    BY <1>11, <2>1
<1>13. Apply(Full, e) \in ViewType
  BY <1>1, <1>3, ApplyType
<1>14. /\ Apply(Full, e).files = (Full.files \ del) \cup add /\ Apply(Full, e).log = log
       /\ Apply(Full, e).next = vs.next /\ Apply(Full, e).last = vs.last /\ Apply(Full, e).have
  BY <1>2 DEF Apply
<1>15. ManifestsOK'
  BY <1>3, <1>5, <1>9, <1>10 DEF ManifestsOK
<1>16. QED
  BY <1>5, <1>12, <1>13, <1>14, <1>15 DEF EditAdded

\* The descriptors when LogAndApply has synced the current one.
EditsSynced ==
    /\ DOMAIN manifests' = DOMAIN manifests /\ ManifestsOK'
    /\ Full' = Full /\ Views' = {Full}

\* LogAndApply syncs the descriptor: it has one view.
LEMMA SyncEdits ==
    ASSUME RecInv, IsUp, manifests' = SyncManifest(vs.manifest), current' = current
    PROVE  EditsSynced
<1> DEFINE m == manifests[current]
           x == manifests'[current]
<1>1. /\ current = vs.manifest /\ current \in DOMAIN manifests /\ ManifestsOK
  BY UpFacts DEF RecInv, DiskTypeOK, ManifestsOK
<1>2. /\ m.edits \in Seq(EditType) /\ m.synced \in Nat /\ m.synced <= Len(m.edits)
      /\ m = [edits |-> m.edits, synced |-> m.synced] /\ m \in ManifestType /\ Len(m.edits) \in Nat
  BY <1>1 DEF ManifestType, ManifestsOK
<1>3. /\ DOMAIN manifests' = DOMAIN manifests
      /\ \A n \in DOMAIN manifests : n # current => manifests'[n] = manifests[n]
      /\ x = [m EXCEPT !.synced = Len(m.edits)]
  BY <1>1 DEF SyncManifest
<1>4. x = [edits |-> m.edits, synced |-> Len(m.edits)]
  BY <1>2, <1>3
<1>5. x.edits = m.edits /\ x.synced = Len(m.edits) /\ x \in ManifestType /\ x.synced <= Len(x.edits)
  BY <1>2, <1>4 DEF ManifestType
<1>6. ViewsOf(x) = {Recovered(m.edits)}
  BY <1>2, <1>5, ManifestViews
<1>7. Full' = Full /\ Views' = {Full}
  BY <1>5, <1>6 DEF Full, Views
<1>8. ManifestsOK'
  BY <1>1, <1>3, <1>5 DEF ManifestsOK
<1>9. QED
  BY <1>3, <1>7, <1>8 DEF EditsSynced
\* FlushLog: the new view has the records of imm_ in its table and needs the logs from the
\* current one on.
LEMMA FlushLogKeeps ==
    ASSUME RecInv, FlushLog
    PROVE  RecInv'
<1> DEFINE out == flush.out
<1>1. /\ pc = "up" /\ flush.stage = "build" /\ tables' = [tables EXCEPT ![out] = imm]
      /\ pending' = pending \ {out} /\ flush' = [flush EXCEPT !.stage = "manifest"]
      /\ manifests' = AddRecord(vs.manifest, EditNow(logfile_number, {out}, {}))
      /\ logs' = logs /\ current' = current /\ temps' = temps /\ pc' = pc /\ mem' = mem /\ imm' = imm
      /\ logfile_number' = logfile_number /\ vs' = vs /\ open' = open /\ held' = held
      /\ writing' = writing /\ comp' = comp /\ bg_error' = bg_error
      /\ ids' = ids /\ acked' = acked /\ durable' = durable
      /\ skipped' = skipped /\ dropped' = dropped /\ opened' = opened
  BY DEF FlushLog, history
<1>2. IsUp /\ IsUp'
  BY <1>1 DEF IsUp
<1>3. /\ imm # {} /\ out \in DOMAIN tables /\ out \in pending /\ out \notin vs.files
      /\ out \notin UNION held /\ \A v \in Views : out \notin v.files
      /\ comp.stage # "manifest" /\ (comp.stage = "merge" => comp.out # out) /\ comp.in \subseteq vs.files
  BY <1>1, <1>2 DEF RecInv, UpInv, UpTables, NoFlush
<1>4. /\ flush'.stage = "manifest" /\ flush'.out = out
      /\ flush' \in [stage : {"none", "build", "manifest"}, out : Nat] /\ out \in Nat
  BY <1>1 DEF RecInv, MemoryTypeOK
<1>5. logfile_number \in Nat /\ vs.next \in Nat /\ vs.last \in Nat /\ vs.log \in Nat
  BY RecordFacts DEF RecInv, MemoryTypeOK
<1>6. EditAdded(logfile_number, {out}, {})
  BY <1>1, <1>2, <1>4, <1>5, AddEdit
<1>7. /\ DOMAIN manifests' = DOMAIN manifests /\ ManifestsOK'
      /\ Full'.files = Full.files \cup {out} /\ Full'.log = logfile_number
      /\ Full'.next = vs.next /\ Full'.last = vs.last /\ Full'.have
      /\ Full' \in ViewType /\ Views' = Views \cup {Full'}
  BY <1>6 DEF EditAdded
<1> HIDE DEF out
<1>8. /\ Full \in Views /\ Full \in ViewType /\ GoodView(Full)
      /\ \A v \in Views : v \in ViewType /\ v.have /\ GoodView(v)
  BY <1>2, UpFacts
<1>9. /\ DOMAIN tables' = DOMAIN tables /\ tables'[out] = imm
      /\ \A n \in DOMAIN tables : n # out => tables'[n] = tables[n]
  BY <1>1, <1>3
<1>10. Known' = Known /\ imm \subseteq Known
  BY <1>1 DEF Known, RecInv, MemoryTypeOK
<1>11. \A S : out \notin S => TableRecs(tables', S) = TableRecs(tables, S)
  <2> SUFFICES ASSUME NEW S, out \notin S
               PROVE  TableRecs(tables', S) = TableRecs(tables, S)
    OBVIOUS
  <2>1. \A f \in S : (f \in DOMAIN tables <=> f \in DOMAIN tables') /\ (f \in DOMAIN tables => tables'[f] = tables[f])
    BY <1>9
  <2>2. QED
    BY <2>1, TablesSame
<1>12. TableRecs(tables', Full'.files) = TableRecs(tables, Full.files) \cup imm
  <2>1. TableRecs(tables', {out}) = imm
    <3>1. \A r : r \in TableRecs(tables', {out}) <=> r \in imm
      BY <1>3, <1>9, InTables
    <3>2. QED
      BY <3>1
  <2>2. TableRecs(tables', Full.files) = TableRecs(tables, Full.files)
    BY <1>3, <1>8, <1>11
  <2>3. QED
    BY <1>7, <2>1, <2>2, TablesUnion
<1>13. DiskTypeOK'
  BY <1>1, <1>7, <1>9, <1>10 DEF RecInv, DiskTypeOK, ManifestsOK
<1>14. MemoryTypeOK'
  BY <1>1, <1>4, <1>10 DEF RecInv, MemoryTypeOK
<1>15. HistoryTypeOK'
  BY <1>1, <1>10 DEF RecInv, HistoryTypeOK
<1>16. /\ LogRecs(logs, logfile_number) \subseteq LogRecs(logs, vs.log)
       /\ vs.log <= logfile_number /\ logfile_number < vs.next
       /\ current < vs.next /\ vs.last <= ids /\ Full.next <= vs.next /\ out < vs.next
  <2>1. /\ vs.log <= logfile_number /\ logfile_number < vs.next /\ vs.last <= ids /\ Full.next <= vs.next
        /\ out < vs.next /\ current < logfile_number /\ current \in Nat
    BY <1>2, <1>3, UpFacts DEF RecInv, UpInv, UpNumbers, DiskTypeOK
  <2>2. current < vs.next
    BY <1>5, <2>1
  <2>3. \A l \in DOMAIN logs : l \in Nat
    BY DEF RecInv, DiskTypeOK
  <2>4. QED
    BY <1>5, <2>1, <2>2, <2>3, LogsMore
<1>17. Reach(tables', logs', Full') \subseteq Around /\ Around' \subseteq Around
  <2>1. imm \subseteq LogRecs(logs, vs.log)
    BY <1>2 DEF RecInv, UpInv, UpRecords
  <2>2. QED
    BY <1>1, <1>7, <1>12, <1>16, <2>1 DEF Reach, Around
<1>18. OneEach(Around)
  BY <1>2 DEF RecInv, UpInv, UpRecords
<1>19. GoodView(Full)'
  <2>1. \A n \in Full'.files : n \in DOMAIN tables' /\ tables'[n] # {} /\ n < Full'.next
    <3>1. \A n \in Full.files : n \in Nat /\ n \in DOMAIN tables /\ tables[n] # {} /\ n < Full.next /\ n # out
      BY <1>3, <1>8 DEF GoodView, ViewType
    <3>2. Full.next \in Nat
      BY <1>8 DEF ViewType
    <3>3. \A n \in Full.files : n < vs.next
      BY <1>5, <1>16, <3>1, <3>2
    <3>4. QED
      BY <1>3, <1>7, <1>9, <1>16, <3>1, <3>3
  <2>2. \A r \in TableRecs(tables', Full'.files) : r.seq <= Full'.last
    <3>1. \A r \in TableRecs(tables, Full.files) : r.seq <= Full.last /\ r \in Known
      BY <1>8, RecordFacts DEF GoodView
    <3>2. Full.last \in Nat /\ Full.last <= vs.last
      BY <1>2, <1>8 DEF RecInv, UpInv, UpNumbers, ViewType
    <3>3. \A r \in imm : r.seq <= vs.last
      BY <1>2 DEF RecInv, UpInv, UpSequences
    <3>4. \A r \in TableRecs(tables, Full.files) : r.seq <= vs.last
      BY <1>5, <3>1, <3>2, RecordFacts
    <3>5. QED
      BY <1>7, <1>12, <3>3, <3>4
  <2>3. OneEach(Reach(tables', logs', Full'))
    BY <1>17, <1>18, FewerOneEach
  <2>4. durable' \subseteq skipped' \cup TableRecs(tables', Full'.files) \cup SyncedRecs(logs', Full'.log)
    <3>1. durable \subseteq skipped \cup mem \cup imm \cup TableRecs(tables, Full.files)
      BY <1>2 DEF RecInv, HistoryTypeOK, UpInv, UpRecords
    <3>2. durable \cap mem \subseteq SyncedRecs(logs, logfile_number)
      BY <1>2 DEF RecInv, UpInv, UpRecords
    <3>3. QED
      BY <1>1, <1>7, <1>12, <3>1, <3>2
  <2>5. current' < Full'.next /\ Full'.log < Full'.next /\ Full'.last <= ids' /\ Full'.next <= Full'.next
    BY <1>1, <1>5, <1>7, <1>16
  <2>6. QED
    BY <2>1, <2>2, <2>3, <2>4, <2>5 DEF GoodView
<1>20. ASSUME NEW v \in Views
       PROVE  v.have /\ GoodView(v)' /\ Reach(tables', logs', v) = Reach(tables, logs, v)
  <2>1. v \in ViewType /\ v.have /\ GoodView(v)
    BY <1>8
  <2>2. \A n \in v.files : n \in DOMAIN tables' /\ tables'[n] = tables[n]
    BY <1>3, <1>9, <2>1 DEF GoodView
  <2>3. ids \in Nat /\ ids <= ids' /\ Full.next \in Nat /\ Full'.next \in Nat /\ Full.next <= Full'.next
    BY <1>1, <1>7, <1>8, <1>16, RecordFacts DEF ViewType
  <2>4. GoodView(v)' /\ TableRecs(tables', v.files) = TableRecs(tables, v.files)
    BY <1>1, <2>1, <2>2, <2>3, ViewStays
  <2>5. QED
    BY <1>1, <2>1, <2>4 DEF Reach
<1>21. ViewInv'
  <2>1. \A v \in Views' : v.have /\ GoodView(v)'
    <3>1. PICK u : u = Full'
      OBVIOUS
    <3>2. GoodView(u)'
      BY <1>19, <3>1 DEF GoodView
    <3>3. QED
      BY <1>7, <1>20, <3>1, <3>2
  <2>2. acked' \subseteq skipped' \cup Reach(tables', logs', Full')
    <3>1. acked \subseteq skipped \cup mem \cup imm \cup TableRecs(tables, Full.files)
      BY <1>2 DEF RecInv, UpInv, UpRecords
    <3>2. mem \subseteq LogRecs(logs, logfile_number)
      BY <1>2 DEF RecInv, UpInv, UpRecords
    <3>3. QED
      BY <1>1, <1>7, <1>12, <3>1, <3>2 DEF Reach
  <2>3. QED
    BY <2>1, <2>2 DEF ViewInv
<1>22. UpNumbers'
  <2>1. \A v \in Views' : v.log <= logfile_number
    BY <1>2, <1>5, <1>7 DEF RecInv, UpInv, UpNumbers
  <2>2. vs.next <= vs.next /\ vs.last <= vs.last
    BY <1>5
  <2>3. QED
    BY <1>1, <1>2, <1>7, <1>9, <1>16, <2>1, <2>2 DEF RecInv, UpInv, UpNumbers
<1>23. UpTables'
  BY <1>1, <1>2, <1>3, <1>4, <1>7, <1>9, <1>20 DEF RecInv, UpInv, UpTables
<1>24. UpExact'
  BY <1>1, <1>2, <1>3, <1>4, <1>7 DEF RecInv, UpInv, UpExact
<1>25. TableRecs(tables', vs.files) = TableRecs(tables, vs.files)
  BY <1>3, <1>11
<1>26. UpRecords'
  <2>1. OneEach(Around')
    BY <1>17, <1>18, FewerOneEach
  <2>2. TableRecs(tables', vs.files) \subseteq TableRecs(tables', Full'.files)
    BY <1>2, <1>12, <1>25 DEF RecInv, UpInv, UpRecords
  <2>3. QED
    BY <1>1, <1>2, <1>25, <2>1, <2>2 DEF RecInv, UpInv, UpRecords
<1>27. UpSequences'
  <2>1. \A r \in Around : r.seq <= vs.last \/ \E w \in writing : r = w.rec
    BY <1>2 DEF RecInv, UpInv, UpSequences
  <2>2. \A v \in Views' : \A r \in Reach(tables', logs', v) :
            r.seq <= vs.last \/ \E w \in writing : r = w.rec
    BY <1>2, <1>7, <1>17, <1>20, <2>1 DEF RecInv, UpInv, UpSequences
  <2>3. QED
    BY <1>1, <1>2, <1>17, <1>25, <2>1, <2>2 DEF RecInv, UpInv, UpSequences
<1>28. QED
  BY <1>1, <1>2, <1>7, <1>13, <1>14, <1>15, <1>21, <1>22, <1>23, <1>24, <1>26, <1>27, UpNext, UpFacts DEF UpInv
\* CompactLog: the new view has the records of the inputs in its table.  After an error the
\* descriptor may already need fewer logs than the installed Version: its edit goes back to the
\* older ones.
LEMMA CompactLogKeeps ==
    ASSUME RecInv, CompactLog
    PROVE  RecInv'
<1> DEFINE out == comp.out
           in == comp.in
<1>1. /\ pc = "up" /\ flush = NoFlush /\ comp.stage = "merge"
      /\ tables' = [tables EXCEPT ![out] = UNION {tables[n] : n \in in \cap DOMAIN tables}]
      /\ comp' = [comp EXCEPT !.stage = "manifest"]
      /\ manifests' = AddRecord(vs.manifest, EditNow(vs.log, {out}, in))
      /\ logs' = logs /\ current' = current /\ temps' = temps /\ pc' = pc /\ mem' = mem /\ imm' = imm
      /\ logfile_number' = logfile_number /\ vs' = vs /\ open' = open /\ held' = held
      /\ writing' = writing /\ flush' = flush /\ bg_error' = bg_error /\ pending' = pending
      /\ ids' = ids /\ acked' = acked /\ durable' = durable
      /\ skipped' = skipped /\ dropped' = dropped /\ opened' = opened
  BY DEF CompactLog, history
<1>2. IsUp /\ IsUp' /\ flush.stage = "none"
  BY <1>1 DEF IsUp, NoFlush
<1>3. /\ in # {} /\ in \subseteq vs.files /\ out \in DOMAIN tables /\ out \in pending /\ tables[out] = {}
      /\ \A n \in vs.files \cup UNION held : n \in DOMAIN tables /\ tables[n] # {}
  BY <1>1, <1>2 DEF RecInv, UpInv, UpTables
<1>4. /\ comp'.stage = "manifest" /\ comp'.out = out /\ comp'.in = in
      /\ comp' \in [stage : {"none", "merge", "manifest"}, in : SUBSET Nat, out : Nat, move : BOOLEAN]
      /\ out \in Nat /\ in \in SUBSET Nat
  BY <1>1 DEF RecInv, MemoryTypeOK
<1>5. logfile_number \in Nat /\ vs.next \in Nat /\ vs.last \in Nat /\ vs.log \in Nat
  BY RecordFacts DEF RecInv, MemoryTypeOK
<1>6. EditAdded(vs.log, {out}, in)
  BY <1>1, <1>2, <1>4, <1>5, AddEdit
<1>7. /\ DOMAIN manifests' = DOMAIN manifests /\ ManifestsOK'
      /\ Full'.files = (Full.files \ in) \cup {out} /\ Full'.log = vs.log
      /\ Full'.next = vs.next /\ Full'.last = vs.last /\ Full'.have
      /\ Full' \in ViewType /\ Views' = Views \cup {Full'}
  BY <1>6 DEF EditAdded
<1>8. TableRecs(tables, in) = UNION {tables[n] : n \in in \cap DOMAIN tables}
  BY DEF TableRecs
<1>9. tables' = [tables EXCEPT ![out] = TableRecs(tables, in)]
  BY <1>1, <1>8
<1> HIDE DEF out, in
<1>10. /\ Full \in Views /\ Full \in ViewType /\ GoodView(Full)
       /\ \A v \in Views : v \in ViewType /\ v.have /\ GoodView(v) /\ out \notin v.files
  <2>1. \A v \in Views : GoodView(v) => out \notin v.files
    BY <1>3 DEF GoodView
  <2>2. QED
    BY <1>2, <2>1, UpFacts
<1>11. out \notin vs.files /\ out \notin UNION held /\ out \notin in
  BY <1>3
<1>12. /\ DOMAIN tables' = DOMAIN tables /\ tables'[out] = TableRecs(tables, in)
       /\ \A n \in DOMAIN tables : n # out => tables'[n] = tables[n]
  BY <1>3, <1>9
<1>13. Known' = Known /\ TableRecs(tables, in) \subseteq Known
  BY <1>1, RecordFacts DEF Known
<1>14. \A S : out \notin S => TableRecs(tables', S) = TableRecs(tables, S)
  <2> SUFFICES ASSUME NEW S, out \notin S
               PROVE  TableRecs(tables', S) = TableRecs(tables, S)
    OBVIOUS
  <2>1. \A f \in S : (f \in DOMAIN tables <=> f \in DOMAIN tables') /\ (f \in DOMAIN tables => tables'[f] = tables[f])
    BY <1>12
  <2>2. QED
    BY <2>1, TablesSame
<1>15. /\ TableRecs(tables', vs.files) = TableRecs(tables, vs.files)
       /\ TableRecs(tables', in) = TableRecs(tables, in)
       /\ TableRecs(tables', Full.files) = TableRecs(tables, Full.files)
  BY <1>10, <1>11, <1>14
<1>16. TableRecs(tables, in) \subseteq TableRecs(tables, vs.files)
       /\ TableRecs(tables, vs.files) \subseteq TableRecs(tables, Full.files)
  BY <1>2, <1>3, TablesMore DEF RecInv, UpInv, UpRecords
<1>17. TableRecs(tables', Full'.files) = TableRecs(tables, Full.files)
  <2>1. \A r : r \in TableRecs(tables', Full'.files) => r \in TableRecs(tables, Full.files)
    <3> SUFFICES ASSUME NEW r \in TableRecs(tables', Full'.files)
                 PROVE  r \in TableRecs(tables, Full.files)
      OBVIOUS
    <3>1. PICK f \in Full'.files : f \in DOMAIN tables' /\ r \in tables'[f]
      BY InTables
    <3>2. CASE f = out
      BY <1>12, <1>16, <3>1, <3>2
    <3>3. CASE f # out
      BY <1>7, <1>12, <3>1, <3>3, InTables
    <3>4. QED
      BY <3>2, <3>3
  <2>2. \A r : r \in TableRecs(tables, Full.files) => r \in TableRecs(tables', Full'.files)
    <3> SUFFICES ASSUME NEW r \in TableRecs(tables, Full.files)
                 PROVE  r \in TableRecs(tables', Full'.files)
      OBVIOUS
    <3>1. PICK f \in Full.files : f \in DOMAIN tables /\ r \in tables[f]
      BY InTables
    <3>2. CASE f \in in
      <4>1. r \in TableRecs(tables, in)
        BY <3>1, <3>2, InTables
      <4>2. out \in Full'.files /\ out \in DOMAIN tables' /\ r \in tables'[out]
        BY <1>3, <1>7, <1>12, <4>1
      <4>3. QED
        BY <4>2, InTables
    <3>3. CASE f \notin in
      <4>1. f \in Full'.files /\ f \in DOMAIN tables' /\ r \in tables'[f]
        BY <1>7, <1>10, <1>12, <3>1, <3>3
      <4>2. QED
        BY <4>1, InTables
    <3>4. QED
      BY <3>2, <3>3
  <2>3. QED
    BY <2>1, <2>2
<1>18. DiskTypeOK'
  BY <1>1, <1>7, <1>12, <1>13 DEF RecInv, DiskTypeOK, ManifestsOK
<1>19. MemoryTypeOK'
  BY <1>1, <1>4, <1>13 DEF RecInv, MemoryTypeOK
<1>20. HistoryTypeOK'
  BY <1>1, <1>13 DEF RecInv, HistoryTypeOK
<1>21. /\ vs.log < vs.next /\ vs.log <= logfile_number
       /\ current < vs.next /\ vs.last <= ids /\ Full.next <= vs.next /\ out < vs.next
  <2>1. /\ vs.log <= logfile_number /\ logfile_number < vs.next /\ vs.last <= ids /\ Full.next <= vs.next
        /\ out < vs.next /\ current < logfile_number /\ current \in Nat
    BY <1>2, <1>3, UpFacts DEF RecInv, UpInv, UpNumbers, DiskTypeOK
  <2>2. current < vs.next /\ vs.log < vs.next
    BY <1>5, <2>1
  <2>3. QED
    BY <2>1, <2>2
<1>22. Reach(tables', logs', Full') = Around /\ Around' = Around
  BY <1>1, <1>7, <1>17 DEF Reach, Around
<1>23. OneEach(Around)
  BY <1>2 DEF RecInv, UpInv, UpRecords
<1>24. /\ SyncedRecs(logs, logfile_number) \subseteq SyncedRecs(logs, vs.log)
       /\ LogRecs(logs, logfile_number) \subseteq LogRecs(logs, vs.log)
  <2>1. \A l \in DOMAIN logs : l \in Nat
    BY DEF RecInv, DiskTypeOK
  <2>2. QED
    BY <1>5, <1>21, <2>1, LogsMore
<1>25. GoodView(Full)'
  <2>1. \A n \in Full'.files : n \in DOMAIN tables' /\ tables'[n] # {} /\ n < Full'.next
    <3>1. \A n \in Full.files : n \in Nat /\ n \in DOMAIN tables /\ tables[n] # {} /\ n < Full.next /\ n # out
      BY <1>10 DEF GoodView, ViewType
    <3>2. Full.next \in Nat
      BY <1>10 DEF ViewType
    <3>3. \A n \in Full.files : n < vs.next
      BY <1>5, <1>21, <3>1, <3>2
    <3>4. TableRecs(tables, in) # {}
      <4>1. PICK f \in in : TRUE
        BY <1>3
      <4>2. f \in DOMAIN tables /\ tables[f] # {}
        BY <1>3, <4>1
      <4>3. PICK r : r \in tables[f]
        BY <4>2
      <4>4. r \in TableRecs(tables, in)
        BY <4>1, <4>2, <4>3, InTables
      <4>5. QED
        BY <4>4
    <3>5. QED
      BY <1>3, <1>7, <1>12, <1>21, <3>1, <3>3, <3>4
  <2>2. \A r \in TableRecs(tables', Full'.files) : r.seq <= Full'.last
    <3>1. \A r \in TableRecs(tables, Full.files) : r.seq <= Full.last /\ r \in Known
      BY <1>10, RecordFacts DEF GoodView
    <3>2. Full.last \in Nat /\ Full.last <= vs.last
      BY <1>2, <1>10 DEF RecInv, UpInv, UpNumbers, ViewType
    <3>3. \A r \in TableRecs(tables, Full.files) : r.seq <= vs.last
      BY <1>5, <3>1, <3>2, RecordFacts
    <3>4. QED
      BY <1>7, <1>17, <3>3
  <2>3. OneEach(Reach(tables', logs', Full'))
    BY <1>22, <1>23
  <2>4. durable' \subseteq skipped' \cup TableRecs(tables', Full'.files) \cup SyncedRecs(logs', Full'.log)
    <3>1. durable \subseteq skipped \cup mem \cup imm \cup TableRecs(tables, Full.files)
      BY <1>2, <1>16 DEF RecInv, HistoryTypeOK, UpInv, UpRecords
    <3>2. durable \cap mem \subseteq SyncedRecs(logs, vs.log) /\ durable \cap imm \subseteq SyncedRecs(logs, vs.log)
      BY <1>2, <1>24 DEF RecInv, UpInv, UpRecords
    <3>3. QED
      BY <1>1, <1>7, <1>17, <3>1, <3>2
  <2>5. current' < Full'.next /\ Full'.log < Full'.next /\ Full'.last <= ids' /\ Full'.next <= Full'.next
    BY <1>1, <1>5, <1>7, <1>21
  <2>6. QED
    BY <2>1, <2>2, <2>3, <2>4, <2>5 DEF GoodView
<1>26. ASSUME NEW v \in Views
       PROVE  v.have /\ GoodView(v)' /\ Reach(tables', logs', v) = Reach(tables, logs, v)
  <2>1. v \in ViewType /\ v.have /\ GoodView(v)
    BY <1>10
  <2>2. \A n \in v.files : n \in DOMAIN tables' /\ tables'[n] = tables[n]
    BY <1>10, <1>12, <2>1 DEF GoodView
  <2>3. ids \in Nat /\ ids <= ids' /\ Full.next \in Nat /\ Full'.next \in Nat /\ Full.next <= Full'.next
    BY <1>1, <1>7, <1>10, <1>21, RecordFacts DEF ViewType
  <2>4. GoodView(v)' /\ TableRecs(tables', v.files) = TableRecs(tables, v.files)
    BY <1>1, <2>1, <2>2, <2>3, ViewStays
  <2>5. QED
    BY <1>1, <2>1, <2>4 DEF Reach
<1>27. ViewInv'
  <2>1. \A v \in Views' : v.have /\ GoodView(v)'
    <3>1. PICK u : u = Full'
      OBVIOUS
    <3>2. GoodView(u)'
      BY <1>25, <3>1 DEF GoodView
    <3>3. QED
      BY <1>7, <1>26, <3>1, <3>2
  <2>2. acked' \subseteq skipped' \cup Reach(tables', logs', Full')
    <3>1. acked \subseteq skipped \cup mem \cup imm \cup TableRecs(tables, Full.files)
      BY <1>2, <1>16 DEF RecInv, UpInv, UpRecords
    <3>2. mem \subseteq LogRecs(logs, vs.log) /\ imm \subseteq LogRecs(logs, vs.log)
      BY <1>2, <1>24 DEF RecInv, UpInv, UpRecords
    <3>3. QED
      BY <1>1, <1>7, <1>17, <3>1, <3>2 DEF Reach
  <2>3. QED
    BY <2>1, <2>2 DEF ViewInv
<1>28. UpNumbers'
  <2>1. \A v \in Views' : v.log <= logfile_number
    BY <1>2, <1>5, <1>7, <1>21 DEF RecInv, UpInv, UpNumbers
  <2>2. vs.next <= vs.next /\ vs.last <= vs.last /\ vs.log <= vs.log
    BY <1>5
  <2>3. QED
    BY <1>1, <1>2, <1>7, <1>12, <2>1, <2>2 DEF RecInv, UpInv, UpNumbers
<1>29. UpTables'
  <2>1. \A n \in vs.files \cup UNION held : n \in DOMAIN tables' /\ tables'[n] # {}
    BY <1>3, <1>11, <1>12
  <2>2. TableRecs(tables', in) \subseteq tables'[out]
    BY <1>12, <1>15
  <2>3. QED
    BY <1>1, <1>2, <1>3, <1>4, <1>7, <1>12, <2>1, <2>2 DEF RecInv, UpInv, UpTables
<1>30. UpExact'
  BY <1>1, <1>2, <1>4, <1>7 DEF RecInv, UpInv, UpExact
<1>31. UpRecords'
  BY <1>1, <1>2, <1>15, <1>17, <1>22 DEF RecInv, UpInv, UpRecords
<1>32. UpSequences'
  <2>1. \A r \in Around : r.seq <= vs.last \/ \E w \in writing : r = w.rec
    BY <1>2 DEF RecInv, UpInv, UpSequences
  <2>2. \A v \in Views' : \A r \in Reach(tables', logs', v) :
            r.seq <= vs.last \/ \E w \in writing : r = w.rec
    BY <1>2, <1>7, <1>22, <1>26, <2>1 DEF RecInv, UpInv, UpSequences
  <2>3. QED
    BY <1>1, <1>2, <1>15, <1>22, <2>1, <2>2 DEF RecInv, UpInv, UpSequences
<1>33. QED
  BY <1>1, <1>2, <1>7, <1>18, <1>19, <1>20, <1>27, <1>28, <1>29, <1>30, <1>31, <1>32, UpNext, UpFacts DEF UpInv
\* MoveLog: an edit that changes no more than the numbers.
LEMMA MoveLogKeeps ==
    ASSUME RecInv, MoveLog
    PROVE  RecInv'
<1>1. PICK f \in vs.files :
         /\ manifests' = AddRecord(vs.manifest, EditNow(vs.log, {f}, {f}))
         /\ comp' = [stage |-> "manifest", in |-> {f}, out |-> f, move |-> TRUE]
  BY DEF MoveLog
<1>2. /\ pc = "up" /\ ~bg_error /\ imm = {} /\ flush = NoFlush /\ comp = NoCompaction
      /\ logs' = logs /\ tables' = tables /\ current' = current /\ temps' = temps /\ pc' = pc
      /\ mem' = mem /\ imm' = imm
      /\ logfile_number' = logfile_number /\ vs' = vs /\ open' = open /\ held' = held
      /\ writing' = writing /\ flush' = flush /\ bg_error' = bg_error /\ pending' = pending
      /\ ids' = ids /\ acked' = acked /\ durable' = durable
      /\ skipped' = skipped /\ dropped' = dropped /\ opened' = opened
  BY DEF MoveLog
<1>3. IsUp /\ IsUp' /\ flush.stage = "none" /\ comp.stage = "none" /\ Known' = Known
  BY <1>2 DEF IsUp, NoFlush, NoCompaction, Known
<1>4. /\ comp'.stage = "manifest" /\ comp'.out = f /\ comp'.in = {f}
      /\ comp' \in [stage : {"none", "merge", "manifest"}, in : SUBSET Nat, out : Nat, move : BOOLEAN]
      /\ f \in Nat /\ {f} \in SUBSET Nat
  <2>1. f \in Nat
    BY RecordFacts
  <2>2. QED
    BY <1>1, <2>1
<1>5. logfile_number \in Nat /\ vs.next \in Nat /\ vs.last \in Nat /\ vs.log \in Nat
  BY RecordFacts DEF RecInv, MemoryTypeOK
<1>6. EditAdded(vs.log, {f}, {f})
  BY <1>1, <1>2, <1>3, <1>4, <1>5, AddEdit
<1>7. Views = {Full} /\ Full.files = vs.files /\ Full.log = vs.log
  BY <1>2, <1>3 DEF RecInv, UpInv, UpExact
<1>8. /\ DOMAIN manifests' = DOMAIN manifests /\ ManifestsOK'
      /\ Full'.files = vs.files /\ Full'.log = vs.log
      /\ Full'.next = vs.next /\ Full'.last = vs.last /\ Full'.have
      /\ Full' \in ViewType /\ Views' = {Full, Full'}
  <2>1. (vs.files \ {f}) \cup {f} = vs.files
    OBVIOUS
  <2>2. QED
    BY <1>6, <1>7, <2>1 DEF EditAdded
<1>9. Full \in ViewType /\ GoodView(Full) /\ Full.have /\ acked \subseteq skipped \cup Reach(tables, logs, Full)
  BY <1>3, UpFacts
<1>10. DiskTypeOK'
  BY <1>2, <1>3, <1>8 DEF RecInv, DiskTypeOK, ManifestsOK
<1>11. MemoryTypeOK' /\ HistoryTypeOK'
  BY <1>2, <1>3, <1>4 DEF RecInv, MemoryTypeOK, HistoryTypeOK
<1>12. /\ vs.log < vs.next /\ current < vs.next /\ vs.last <= ids
       /\ Full.next <= vs.next /\ Full.last <= vs.last /\ Full.next \in Nat /\ Full.last \in Nat
       /\ vs.log <= logfile_number
  <2>1. /\ vs.log <= logfile_number /\ logfile_number < vs.next /\ vs.last <= ids /\ Full.next <= vs.next
        /\ current < logfile_number /\ current \in Nat /\ Full.last <= vs.last
    BY <1>3, UpFacts DEF RecInv, UpInv, UpNumbers, DiskTypeOK
  <2>2. current < vs.next /\ vs.log < vs.next
    BY <1>5, <2>1
  <2>3. QED
    BY <1>9, <2>1, <2>2 DEF ViewType
<1>13. Reach(tables', logs', Full') = Around /\ Around' = Around /\ Reach(tables, logs, Full) = Around
  BY <1>2, <1>7, <1>8 DEF Reach, Around
<1>14. GoodView(Full)'
  <2>1. \A n \in Full'.files : n \in DOMAIN tables' /\ tables'[n] # {} /\ n < Full'.next
    <3>1. \A n \in Full.files : n \in Nat /\ n \in DOMAIN tables /\ tables[n] # {} /\ n < Full.next
      BY <1>9 DEF GoodView, ViewType
    <3>2. \A n \in Full.files : n < vs.next
      BY <1>5, <1>12, <3>1
    <3>3. QED
      BY <1>2, <1>7, <1>8, <3>1, <3>2
  <2>2. \A r \in TableRecs(tables', Full'.files) : r.seq <= Full'.last
    <3>1. \A r \in TableRecs(tables, Full.files) : r.seq <= Full.last /\ r.seq \in Nat
      BY <1>9, RecordFacts DEF GoodView
    <3>2. QED
      BY <1>2, <1>5, <1>7, <1>8, <1>12, <3>1
  <2>3. OneEach(Reach(tables', logs', Full'))
    BY <1>9, <1>13 DEF GoodView
  <2>4. durable' \subseteq skipped' \cup TableRecs(tables', Full'.files) \cup SyncedRecs(logs', Full'.log)
    BY <1>2, <1>7, <1>8, <1>9 DEF GoodView
  <2>5. current' < Full'.next /\ Full'.log < Full'.next /\ Full'.last <= ids' /\ Full'.next <= Full'.next
    BY <1>2, <1>5, <1>8, <1>12
  <2>6. QED
    BY <2>1, <2>2, <2>3, <2>4, <2>5 DEF GoodView
<1>15. ViewInv'
  <2>1. \A v \in {Full} : GoodView(v)'
    <3>1. PICK u : u = Full
      OBVIOUS
    <3>2. u \in ViewType /\ GoodView(u)
      BY <1>9, <3>1
    <3>3. ids \in Nat /\ ids <= ids' /\ Full.next <= Full'.next /\ Full'.next \in Nat
      BY <1>2, <1>5, <1>8, <1>12, RecordFacts
    <3>4. \A n \in u.files : n \in DOMAIN tables' /\ tables'[n] = tables[n]
      BY <1>2, <3>2 DEF GoodView
    <3>5. GoodView(u)'
      BY <1>2, <1>12, <3>2, <3>3, <3>4, ViewStays
    <3>6. QED
      BY <3>1, <3>5
  <2>2. \A v \in {Full'} : GoodView(v)'
    BY <1>14 DEF GoodView
  <2>3. QED
    BY <1>2, <1>8, <1>9, <1>13, <2>1, <2>2 DEF ViewInv
<1>16. UpNumbers'
  <2>1. \A v \in Views' : v.log <= logfile_number
    BY <1>7, <1>8, <1>12
  <2>2. vs.next <= vs.next /\ vs.last <= vs.last /\ vs.log <= vs.log
    BY <1>5
  <2>3. QED
    BY <1>2, <1>3, <1>8, <2>1, <2>2 DEF RecInv, UpInv, UpNumbers
<1>17. f \in DOMAIN tables /\ TableRecs(tables, {f}) \subseteq tables[f]
  BY <1>3, InTables DEF RecInv, UpInv, UpTables
<1>18. UpTables'
  BY <1>2, <1>3, <1>4, <1>8, <1>17 DEF RecInv, UpInv, UpTables
<1>19. UpExact'
  BY <1>2, <1>3, <1>4, <1>8 DEF RecInv, UpInv, UpExact
<1>20. UpRecords'
  BY <1>2, <1>3, <1>8, <1>13 DEF RecInv, UpInv, UpRecords
<1>21. UpSequences'
  BY <1>2, <1>3, <1>8, <1>13 DEF RecInv, UpInv, UpSequences
<1>22. QED
  BY <1>2, <1>3, <1>8, <1>10, <1>11, <1>15, <1>16, <1>18, <1>19, <1>20, <1>21, UpNext, UpFacts DEF UpInv
\* The sync of the descriptor leaves all of it as the only view.
LEMMA SyncedView ==
    ASSUME RecInv, IsUp, EditsSynced, current' = current, ids' = ids, tables' = tables, logs' = logs,
           skipped' = skipped /\ dropped' = dropped, opened' = opened, acked' = acked,
           durable' \subseteq durable \cup TableRecs(tables, Full.files)
    PROVE  ViewInv'
<1>1. Full \in ViewType /\ GoodView(Full) /\ Full.have /\ acked \subseteq skipped \cup Reach(tables, logs, Full)
  BY UpFacts
<1>2. Full' = Full /\ Views' = {Full}
  BY DEF EditsSynced
<1>3. PICK u : u = Full
  OBVIOUS
<1>4. u \in ViewType /\ GoodView(u)
  BY <1>1, <1>3
<1>5. ids \in Nat /\ ids <= ids' /\ Full.next <= Full'.next /\ Full'.next \in Nat /\ Full.next \in Nat
  BY <1>1, <1>2, RecordFacts DEF ViewType
<1>6. \A n \in u.files : n \in DOMAIN tables' /\ tables'[n] = tables[n]
  BY <1>4 DEF GoodView
<1>7. durable' \subseteq durable \cup TableRecs(tables, u.files) \cup SyncedRecs(logs', u.log)
  BY <1>3
<1>8. GoodView(u)'
  BY <1>4, <1>5, <1>6, <1>7, ViewStays
<1>9. QED
  BY <1>1, <1>2, <1>3, <1>8 DEF ViewInv

\* FlushInstall: the Version has the table, the log of imm_ is no longer needed.
LEMMA FlushInstallKeeps ==
    ASSUME RecInv, FlushInstall
    PROVE  RecInv'
<1> DEFINE out == flush.out
<1>1. /\ pc = "up" /\ flush.stage = "manifest" /\ manifests' = SyncManifest(vs.manifest)
      /\ vs' = [vs EXCEPT !.files = @ \cup {out}, !.log = logfile_number]
      /\ imm' = {} /\ flush' = NoFlush /\ pc' = "purge" /\ durable' = durable \cup imm
      /\ logs' = logs /\ tables' = tables /\ current' = current /\ temps' = temps /\ mem' = mem
      /\ logfile_number' = logfile_number /\ open' = open /\ held' = held
      /\ writing' = writing /\ comp' = comp /\ bg_error' = bg_error /\ pending' = pending
      /\ ids' = ids /\ acked' = acked /\ skipped' = skipped /\ dropped' = dropped /\ opened' = opened
  BY DEF FlushInstall
<1>2. IsUp /\ IsUp' /\ Known' = Known
  BY <1>1 DEF IsUp, Known
<1>3. flush # NoFlush
  BY <1>1 DEF NoFlush
<1>4. /\ imm # {} /\ out \in Full.files /\ out \in DOMAIN tables /\ tables[out] = imm
      /\ comp.stage # "manifest" /\ Full.log = logfile_number
  BY <1>1, <1>2, <1>3 DEF RecInv, UpInv, UpTables
<1>5. logfile_number \in Nat /\ vs.next \in Nat /\ vs.last \in Nat /\ vs.log \in Nat /\ out \in Nat
  BY RecordFacts DEF RecInv, MemoryTypeOK
<1>6. /\ vs'.files = vs.files \cup {out} /\ vs'.log = logfile_number /\ vs'.next = vs.next
      /\ vs'.last = vs.last /\ vs'.manifest = vs.manifest
      /\ vs' \in [files : SUBSET Nat, log : Nat, next : Nat, last : Nat, manifest : Nat]
  BY <1>1, <1>5, RecordFacts
<1>7. EditsSynced
  BY <1>1, <1>2, SyncEdits
<1>8. DOMAIN manifests' = DOMAIN manifests /\ ManifestsOK' /\ Full' = Full /\ Views' = {Full}
  BY <1>7 DEF EditsSynced
<1> HIDE DEF out
<1>9. Full \in ViewType /\ GoodView(Full) /\ Full \in Views
  BY <1>2, UpFacts
<1>10. TableRecs(tables, {out}) = imm /\ imm \subseteq TableRecs(tables, Full.files)
  <2>1. \A r : r \in TableRecs(tables, {out}) <=> r \in imm
    BY <1>4, InTables
  <2>2. \A r \in imm : r \in TableRecs(tables, Full.files)
    BY <1>4, InTables
  <2>3. QED
    BY <2>1, <2>2
<1>11. TableRecs(tables, vs'.files) = TableRecs(tables, vs.files) \cup imm
  BY <1>6, <1>10, TablesUnion
<1>12. DiskTypeOK'
  BY <1>1, <1>2, <1>8 DEF RecInv, DiskTypeOK, ManifestsOK
<1>13. MemoryTypeOK'
  BY <1>1, <1>2, <1>6 DEF RecInv, MemoryTypeOK, NoFlush
<1>14. imm \subseteq acked
  BY <1>2 DEF RecInv, UpInv, UpRecords
<1>15. HistoryTypeOK'
  BY <1>1, <1>2, <1>14 DEF RecInv, HistoryTypeOK
<1>16. ViewInv'
  BY <1>1, <1>2, <1>7, <1>10, SyncedView
<1>17. UpNumbers'
  <2>1. out < vs.next
    <3>1. out < Full.next /\ Full.next <= vs.next /\ Full.next \in Nat
      BY <1>2, <1>4, <1>9 DEF RecInv, UpInv, UpNumbers, GoodView, ViewType
    <3>2. QED
      BY <1>5, <3>1
  <2>2. logfile_number <= logfile_number
    BY <1>5
  <2>3. Full.log <= logfile_number
    BY <1>2, <1>9 DEF RecInv, UpInv, UpNumbers
  <2>4. logfile_number <= Full.log
    BY <1>4, <1>5
  <2>5. QED
    BY <1>1, <1>2, <1>6, <1>8, <2>1, <2>2, <2>3, <2>4 DEF RecInv, UpInv, UpNumbers
<1>18. UpTables'
  <2>1. NoFlush.stage = "none"
    BY DEF NoFlush
  <2>2. QED
    BY <1>1, <1>2, <1>4, <1>6, <1>8, <2>1 DEF RecInv, UpInv, UpTables
<1>19. UpExact'
  BY <1>1, <1>2, <1>4, <1>6, <1>8 DEF RecInv, UpInv, UpExact, NoFlush, out
<1>20. Around' \subseteq Around /\ OneEach(Around')
  <2>1. vs.log <= logfile_number /\ \A l \in DOMAIN logs : l \in Nat
    BY <1>2 DEF RecInv, UpInv, UpNumbers, DiskTypeOK
  <2>2. LogRecs(logs, logfile_number) \subseteq LogRecs(logs, vs.log)
    BY <1>5, <2>1, LogsMore
  <2>3. Around' \subseteq Around
    BY <1>1, <1>6, <1>8, <2>2 DEF Around
  <2>4. OneEach(Around)
    BY <1>2 DEF RecInv, UpInv, UpRecords
  <2>5. QED
    BY <2>3, <2>4, FewerOneEach
<1>21. UpRecords'
  <2>1. durable' \cap mem' \subseteq SyncedRecs(logs', logfile_number')
    BY <1>1, <1>2 DEF RecInv, UpInv, UpRecords
  <2>2. QED
    BY <1>1, <1>2, <1>8, <1>10, <1>11, <1>20, <2>1 DEF RecInv, UpInv, UpRecords
<1>22. UpSequences'
  <2>1. \A r \in mem \cup TableRecs(tables, vs'.files) : r.seq <= vs.last
    BY <1>2, <1>11 DEF RecInv, UpInv, UpSequences
  <2>2. \A r \in Around' : r.seq <= vs.last \/ \E w \in writing : r = w.rec
    BY <1>2, <1>20 DEF RecInv, UpInv, UpSequences
  <2>3. \A r \in Reach(tables, logs, Full) : r.seq <= vs.last \/ \E w \in writing : r = w.rec
    BY <1>2, <1>9 DEF RecInv, UpInv, UpSequences
  <2>4. QED
    BY <1>1, <1>2, <1>6, <1>8, <2>1, <2>2, <2>3 DEF RecInv, UpInv, UpSequences
<1>23. QED
  BY <1>1, <1>2, <1>8, <1>12, <1>13, <1>15, <1>16, <1>17, <1>18, <1>19, <1>21, <1>22, UpNext, UpFacts DEF UpInv
\* CompactInstall: the output replaces the inputs.
LEMMA CompactInstallKeeps ==
    ASSUME RecInv, CompactInstall
    PROVE  RecInv'
<1> DEFINE out == comp.out
           in == comp.in
<1>1. /\ pc = "up" /\ comp.stage = "manifest" /\ manifests' = SyncManifest(vs.manifest)
      /\ vs' = [vs EXCEPT !.files = (@ \ in) \cup {out}]
      /\ pending' = pending \ {out} /\ comp' = NoCompaction
      /\ logs' = logs /\ tables' = tables /\ current' = current /\ temps' = temps /\ mem' = mem /\ imm' = imm
      /\ logfile_number' = logfile_number /\ open' = open /\ held' = held
      /\ writing' = writing /\ flush' = flush /\ bg_error' = bg_error
      /\ ids' = ids /\ acked' = acked /\ durable' = durable
      /\ skipped' = skipped /\ dropped' = dropped /\ opened' = opened
  BY DEF CompactInstall, history
<1>2. IsUp /\ IsUp' /\ Known' = Known
  BY DEF CompactInstall, IsUp, Known, history
<1>3. /\ in # {} /\ in \subseteq vs.files /\ out \in DOMAIN tables /\ out \in Full.files
      /\ flush = NoFlush /\ TableRecs(tables, in) \subseteq tables[out]
  BY <1>1, <1>2 DEF RecInv, UpInv, UpTables
<1>4. logfile_number \in Nat /\ vs.next \in Nat /\ vs.last \in Nat /\ vs.log \in Nat /\ out \in Nat
  BY RecordFacts DEF RecInv, MemoryTypeOK
<1>5. /\ vs'.files = (vs.files \ in) \cup {out} /\ vs'.log = vs.log /\ vs'.next = vs.next
      /\ vs'.last = vs.last /\ vs'.manifest = vs.manifest
      /\ vs' \in [files : SUBSET Nat, log : Nat, next : Nat, last : Nat, manifest : Nat]
  BY <1>1, <1>4, RecordFacts
<1>6. EditsSynced
  BY <1>1, <1>2, SyncEdits
<1>7. DOMAIN manifests' = DOMAIN manifests /\ ManifestsOK' /\ Full' = Full /\ Views' = {Full}
  BY <1>6 DEF EditsSynced
<1> HIDE DEF out, in
<1>8. Full \in ViewType /\ GoodView(Full) /\ Full \in Views
  BY <1>2, UpFacts
<1>9. tables[out] # {} /\ out < vs.next
  <2>1. tables[out] # {} /\ out < Full.next /\ Full.next <= vs.next /\ Full.next \in Nat
    BY <1>2, <1>3, <1>8 DEF RecInv, UpInv, UpNumbers, GoodView, ViewType
  <2>2. QED
    BY <1>4, <2>1
<1>10. TableRecs(tables, vs.files) \subseteq TableRecs(tables, vs'.files)
  <2> SUFFICES ASSUME NEW r \in TableRecs(tables, vs.files)
               PROVE  r \in TableRecs(tables, vs'.files)
    OBVIOUS
  <2>1. PICK f \in vs.files : f \in DOMAIN tables /\ r \in tables[f]
    BY InTables
  <2>2. CASE f \in in
    <3>1. r \in tables[out]
      BY <1>3, <2>1, <2>2, InTables
    <3>2. QED
      BY <1>3, <1>5, <3>1, InTables
  <2>3. CASE f \notin in
    BY <1>5, <2>1, <2>3, InTables
  <2>4. QED
    BY <2>2, <2>3
<1>11. TableRecs(tables, vs'.files) \subseteq TableRecs(tables, Full.files)
  <2> SUFFICES ASSUME NEW r \in TableRecs(tables, vs'.files)
               PROVE  r \in TableRecs(tables, Full.files)
    OBVIOUS
  <2>1. PICK f \in vs'.files : f \in DOMAIN tables /\ r \in tables[f]
    BY InTables
  <2>2. CASE f = out
    BY <1>3, <2>1, <2>2, InTables
  <2>3. CASE f \in vs.files
    <3>1. r \in TableRecs(tables, vs.files)
      BY <2>1, <2>3, InTables
    <3>2. QED
      BY <1>2, <3>1 DEF RecInv, UpInv, UpRecords
  <2>4. QED
    BY <1>5, <2>1, <2>2, <2>3
<1>12. DiskTypeOK'
  BY <1>1, <1>2, <1>7 DEF RecInv, DiskTypeOK, ManifestsOK
<1>13. MemoryTypeOK'
  <2>1. pc' \in {"up", "purge"}
    BY <1>2 DEF IsUp
  <2>2. NoCompaction \in [stage : {"none", "merge", "manifest"}, in : SUBSET Nat, out : Nat, move : BOOLEAN]
    BY DEF NoCompaction
  <2>3. QED
    BY <1>1, <1>2, <1>5, <2>1, <2>2 DEF RecInv, MemoryTypeOK
<1>14. HistoryTypeOK'
  BY <1>1, <1>2 DEF RecInv, HistoryTypeOK
<1>15. ViewInv'
  BY <1>1, <1>2, <1>6, SyncedView
<1>16. UpNumbers'
  <2>1. \A n \in vs'.files \cup pending' \cup (UNION held) : n < vs.next
    BY <1>1, <1>2, <1>5, <1>9 DEF RecInv, UpInv, UpNumbers
  <2>2. QED
    BY <1>1, <1>2, <1>5, <1>7, <1>8, <2>1 DEF RecInv, UpInv, UpNumbers
<1>17. UpTables'
  <2>1. /\ NoCompaction.stage = "none" /\ NoCompaction.in = {} /\ NoFlush.stage = "none"
    BY DEF NoCompaction, NoFlush
  <2>2. QED
    BY <1>1, <1>2, <1>3, <1>5, <1>7, <1>9, <2>1 DEF RecInv, UpInv, UpTables
<1>18. UpExact'
  BY <1>1, <1>2, <1>3, <1>5, <1>7 DEF RecInv, UpInv, UpExact, NoFlush, NoCompaction, in, out
<1>19. Around' = Around
  BY <1>1, <1>5, <1>7 DEF Around
<1>20. UpRecords'
  BY <1>1, <1>2, <1>5, <1>7, <1>10, <1>11, <1>19 DEF RecInv, UpInv, UpRecords
<1>21. UpSequences'
  <2>1. \A r \in TableRecs(tables, vs'.files) : r.seq <= vs.last
    <3>1. \A r \in TableRecs(tables, Full.files) : r.seq <= Full.last /\ r.seq \in Nat
      BY <1>8, RecordFacts DEF GoodView
    <3>2. Full.last \in Nat /\ Full.last <= vs.last
      BY <1>2, <1>8 DEF RecInv, UpInv, UpNumbers, ViewType
    <3>3. QED
      BY <1>4, <1>11, <3>1, <3>2
  <2>2. \A r \in Reach(tables, logs, Full) : r.seq <= vs.last \/ \E w \in writing : r = w.rec
    BY <1>2, <1>8 DEF RecInv, UpInv, UpSequences
  <2>3. QED
    BY <1>1, <1>2, <1>5, <1>7, <1>19, <2>1, <2>2 DEF RecInv, UpInv, UpSequences
<1>22. QED
  BY <1>1, <1>2, <1>7, <1>12, <1>13, <1>14, <1>15, <1>16, <1>17, <1>18, <1>20, <1>21, UpNext, UpFacts DEF UpInv

\* CompactFails
LEMMA CompactFailsKeeps ==
    ASSUME RecInv, CompactFails
    PROVE  RecInv'
<1>1. /\ IsUp /\ pc = "up" /\ pc' = pc /\ flush = NoFlush /\ comp' = NoCompaction /\ bg_error'
      /\ pending' = pending \ {comp.out}
      /\ UNCHANGED <<disk, ids, acked, durable, skipped, dropped, opened>>
      /\ mem' = mem /\ imm' = imm /\ logfile_number' = logfile_number /\ vs' = vs /\ open' = open
      /\ held' = held /\ writing' = writing /\ flush' = flush
  BY DEF CompactFails, IsUp
<1>2. /\ DiskTypeOK' /\ HistoryTypeOK' /\ ViewInv' /\ Known' = Known
      /\ Full' = Full /\ Views' = Views
  BY <1>1, SameDisk
<1>3. /\ logs' = logs /\ tables' = tables /\ manifests' = manifests /\ current' = current
      /\ ids' = ids /\ acked' = acked /\ durable' = durable
      /\ skipped' = skipped /\ dropped' = dropped /\ opened' = opened
  BY <1>1 DEF disk
<1>4. MemoryTypeOK'
  BY <1>1, <1>2 DEF RecInv, MemoryTypeOK, NoCompaction
<1>5. UpNumbers'
  BY <1>1, <1>2, <1>3 DEF RecInv, UpInv, UpNumbers
<1>6. UpTables'
  <2>1. NoCompaction.stage = "none" /\ NoCompaction.in = {} /\ NoFlush.stage = "none"
    BY DEF NoCompaction, NoFlush
  <2>2. QED
    BY <1>1, <1>2, <1>3, <2>1 DEF RecInv, UpInv, UpTables
<1>7. UpExact' /\ UpRecords' /\ UpSequences'
  BY <1>1, <1>2, <1>3 DEF RecInv, UpInv, UpExact, UpRecords, UpSequences, Around
<1>8. IsUp' /\ current' \in DOMAIN manifests'
  BY <1>1, <1>3, UpFacts DEF IsUp
<1>9. QED
  BY <1>2, <1>4, <1>5, <1>6, <1>7, <1>8, UpNext DEF UpInv
\* FlushFails: the table is deleted or stays without a use.
LEMMA FlushFailsKeeps ==
    ASSUME RecInv, FlushFails
    PROVE  RecInv'
<1> DEFINE out == flush.out
<1>1. /\ pc = "up" /\ flush # NoFlush /\ pending' = pending \ {out} /\ flush' = NoFlush /\ bg_error'
      /\ logs' = logs /\ manifests' = manifests /\ current' = current /\ temps' = temps /\ pc' = pc
      /\ mem' = mem /\ imm' = imm /\ logfile_number' = logfile_number /\ vs' = vs /\ open' = open
      /\ held' = held /\ writing' = writing /\ comp' = comp
      /\ ids' = ids /\ acked' = acked /\ durable' = durable
      /\ skipped' = skipped /\ dropped' = dropped /\ opened' = opened
  BY DEF FlushFails
<1>2. IsUp /\ IsUp' /\ Known' = Known /\ Full' = Full /\ Views' = Views
  BY <1>1, SameViews DEF IsUp, Known
<1>3. /\ flush.stage \in {"build", "manifest"} /\ out \in DOMAIN tables
      /\ comp.stage # "manifest" /\ (comp.stage = "merge" => comp.out # out) /\ comp.in \subseteq vs.files
      /\ flush.stage = "build" => out \notin vs.files /\ out \notin UNION held /\ \A v \in Views : out \notin v.files
  BY <1>1, <1>2 DEF RecInv, UpInv, UpTables, MemoryTypeOK
<1>4. /\ flush.stage # "build" => tables' = tables
      /\ flush.stage = "build" => \/ tables' = Without(tables, {out})
                                  \/ tables' = [tables EXCEPT ![out] = imm]
  BY DEF FlushFails
<1> HIDE DEF out
<1>5. /\ \A n \in DOMAIN tables : n # out \/ flush.stage # "build" => n \in DOMAIN tables' /\ tables'[n] = tables[n]
      /\ \A n \in DOMAIN tables' : n \in DOMAIN tables /\ (tables'[n] = tables[n] \/ tables'[n] = imm)
  <2>1. CASE flush.stage # "build"
    BY <1>4, <2>1
  <2>2. CASE flush.stage = "build" /\ tables' = Without(tables, {out})
    BY <2>2 DEF Without
  <2>3. CASE flush.stage = "build" /\ tables' = [tables EXCEPT ![out] = imm]
    BY <1>3, <2>3
  <2>4. QED
    BY <1>4, <2>1, <2>2, <2>3
<1>6. ASSUME NEW S, flush.stage = "build" => out \notin S
      PROVE  TableRecs(tables', S) = TableRecs(tables, S)
  <2>1. \A f \in S : (f \in DOMAIN tables <=> f \in DOMAIN tables') /\ (f \in DOMAIN tables => tables'[f] = tables[f])
    BY <1>5, <1>6
  <2>2. QED
    BY <2>1, TablesSame
<1>7. Full \in Views /\ \A v \in Views : v \in ViewType /\ v.have /\ GoodView(v)
  BY <1>2, UpFacts
<1>8. DiskTypeOK'
  <2>1. imm \subseteq Known
    BY DEF RecInv, MemoryTypeOK
  <2>2. QED
    BY <1>1, <1>2, <1>5, <2>1 DEF RecInv, DiskTypeOK
<1>9. MemoryTypeOK' /\ HistoryTypeOK'
  BY <1>1, <1>2 DEF RecInv, MemoryTypeOK, HistoryTypeOK, NoFlush
<1>10. ASSUME NEW v \in Views
       PROVE  /\ v.have /\ GoodView(v)' /\ TableRecs(tables', v.files) = TableRecs(tables, v.files)
              /\ Reach(tables', logs', v) = Reach(tables, logs, v)
  <2>1. TableRecs(tables', v.files) = TableRecs(tables, v.files)
    BY <1>3, <1>6
  <2>2. \A n \in v.files : n \in DOMAIN tables' /\ tables'[n] # {} /\ n < v.next
    BY <1>3, <1>5, <1>7 DEF GoodView
  <2>3. QED
    BY <1>1, <1>2, <1>7, <2>1, <2>2 DEF GoodView, Reach
<1>11. ViewInv'
  BY <1>1, <1>2, <1>7, <1>10, UpFacts DEF ViewInv
<1>12. UpNumbers'
  BY <1>1, <1>2, <1>5 DEF RecInv, UpInv, UpNumbers
<1>13. UpTables'
  <2>1. NoFlush.stage = "none"
    BY DEF NoFlush
  <2>2. \A n \in vs.files \cup UNION held : n \in DOMAIN tables' /\ tables'[n] # {}
    BY <1>2, <1>3, <1>5 DEF RecInv, UpInv, UpTables
  <2>3. comp.stage = "merge" => comp.out \in DOMAIN tables' /\ tables'[comp.out] = {} /\ comp.out \in pending'
    BY <1>1, <1>2, <1>3, <1>5 DEF RecInv, UpInv, UpTables
  <2>4. comp.stage \in {"none", "merge"}
    BY <1>3 DEF RecInv, MemoryTypeOK
  <2>5. QED
    BY <1>1, <1>2, <2>1, <2>2, <2>3, <2>4 DEF RecInv, UpInv, UpTables
<1>14. UpExact'
  BY <1>1 DEF UpExact
<1>15. TableRecs(tables', vs.files) = TableRecs(tables, vs.files)
  BY <1>3, <1>6
<1>16. Around' = Around
  BY <1>1, <1>2, <1>7, <1>10 DEF Around
<1>17. UpRecords'
  BY <1>1, <1>2, <1>7, <1>10, <1>15, <1>16 DEF RecInv, UpInv, UpRecords
<1>18. UpSequences'
  BY <1>1, <1>2, <1>10, <1>15, <1>16 DEF RecInv, UpInv, UpSequences
<1>19. QED
  BY <1>1, <1>2, <1>8, <1>9, <1>11, <1>12, <1>13, <1>14, <1>17, <1>18, UpNext, UpFacts DEF UpInv

-----------------------------------------------------------------------------
(* DeleteObsoleteFiles *)

\* Without an error the descriptor says what is installed: nothing obsolete belongs to a view.
LEMMA PurgeFacts ==
    ASSUME RecInv, pc = "purge", ~bg_error
    PROVE  /\ Views = {Full} /\ Full.files = vs.files /\ Full.log = vs.log
           /\ flush = NoFlush /\ comp.stage # "manifest"
<1>1. IsUp
  BY DEF IsUp
<1>2. flush = NoFlush /\ comp.stage # "manifest"
  BY <1>1 DEF RecInv, UpInv, UpTables
<1>3. QED
  BY <1>1, <1>2 DEF RecInv, UpInv, UpExact, NoFlush

\* DeleteObsoleteFiles
LEMMA DeleteObsoleteFilesKeeps ==
    ASSUME RecInv, DeleteObsoleteFiles
    PROVE  RecInv'
<1>1. /\ pc = "purge" /\ pc' = "up" /\ current' = current /\ mem' = mem /\ imm' = imm
      /\ logfile_number' = logfile_number /\ vs' = vs /\ open' = open /\ pending' = pending /\ held' = held
      /\ writing' = writing /\ flush' = flush /\ comp' = comp /\ bg_error' = bg_error
      /\ ids' = ids /\ acked' = acked /\ durable' = durable
      /\ skipped' = skipped /\ dropped' = dropped /\ opened' = opened
  BY DEF DeleteObsoleteFiles, history
<1>2. IsUp /\ IsUp' /\ Known' = Known
  BY <1>1 DEF IsUp, Known
<1>3. /\ current = vs.manifest /\ current \in DOMAIN manifests /\ Full \in ViewType /\ Full.have
      /\ GoodView(Full) /\ acked \subseteq skipped \cup Reach(tables, logs, Full)
  BY <1>2, UpFacts
<1>4. vs.log \in Nat /\ vs.manifest \in Nat /\ logfile_number \in Nat
      /\ vs.log <= logfile_number /\ logfile_number \in DOMAIN logs
      /\ \A l \in DOMAIN logs : l \in Nat
  BY <1>2, RecordFacts DEF RecInv, MemoryTypeOK, DiskTypeOK, UpInv, UpNumbers
<1>5. MemoryTypeOK' /\ HistoryTypeOK'
  BY <1>1, <1>2 DEF RecInv, MemoryTypeOK, HistoryTypeOK
<1>6. CASE bg_error
  <2>1. logs' = logs /\ tables' = tables /\ manifests' = manifests /\ temps' = temps
    BY <1>6 DEF DeleteObsoleteFiles, MayCollect
  <2>2. DiskTypeOK' /\ ViewInv' /\ Full' = Full /\ Views' = Views
    BY <1>1, <2>1, SameDisk DEF disk
  <2>3. UpNumbers'
    BY <1>1, <1>2, <1>6, <2>1, <2>2 DEF RecInv, UpInv, UpNumbers
  <2>4. UpTables' /\ UpExact'
    BY <1>1, <1>2, <1>6, <2>1, <2>2 DEF RecInv, UpInv, UpTables, UpExact
  <2>5. UpRecords' /\ UpSequences'
    BY <1>1, <1>2, <2>1, <2>2 DEF RecInv, UpInv, UpRecords, UpSequences, Around
  <2>6. QED
    BY <1>1, <1>2, <1>3, <1>5, <2>1, <2>2, <2>3, <2>4, <2>5, UpNext DEF UpInv
<1>7. CASE ~bg_error
  <2>1. /\ Views = {Full} /\ Full.files = vs.files /\ Full.log = vs.log
        /\ flush = NoFlush /\ comp.stage # "manifest"
    BY <1>1, <1>7, PurgeFacts
  <2>2. /\ logs' = Without(logs, ObsoleteLogs) /\ manifests' = Without(manifests, ObsoleteManifests)
        /\ tables' = Without(tables, ObsoleteTables) /\ temps' \subseteq temps
    BY <1>7 DEF DeleteObsoleteFiles, MayCollect
  <2>3. /\ \A x \in DOMAIN logs' : x \in DOMAIN logs /\ logs'[x] = logs[x]
        /\ \A x \in DOMAIN logs : x >= vs.log => x \in DOMAIN logs'
    <3>1. \A x \in DOMAIN logs : x >= vs.log => ~(x < vs.log)
      BY <1>4
    <3>2. QED
      BY <2>2, <3>1 DEF Without, ObsoleteLogs
  <2>4. /\ \A x \in DOMAIN manifests' : x \in DOMAIN manifests /\ manifests'[x] = manifests[x]
        /\ current \in DOMAIN manifests'
    <3>1. ~(vs.manifest < vs.manifest)
      BY <1>4
    <3>2. QED
      BY <1>3, <2>2, <3>1 DEF Without, ObsoleteManifests
  <2>5. /\ \A x \in DOMAIN tables' : x \in DOMAIN tables /\ tables'[x] = tables[x] /\ x \in Live
        /\ \A x \in DOMAIN tables : x \in Live => x \in DOMAIN tables' /\ tables'[x] = tables[x]
    BY <2>2 DEF Without, ObsoleteTables
  <2>6. Full' = Full /\ Views' = Views
    BY <1>1, <2>4, SameViews
  <2>7. DiskTypeOK'
    BY <1>1, <1>2, <2>2, <2>3, <2>4, <2>5 DEF RecInv, DiskTypeOK
  <2>8. \A n \in Nat : n >= vs.log => LogRecs(logs', n) = LogRecs(logs, n) /\ SyncedRecs(logs', n) = SyncedRecs(logs, n)
    <3> SUFFICES ASSUME NEW n \in Nat, n >= vs.log
                 PROVE  KeptFrom(logs, logs', n)
      BY KeptLogs
    <3>1. \A x \in DOMAIN logs : x >= n => x >= vs.log
      BY <1>4
    <3>2. QED
      BY <2>3, <3>1 DEF KeptFrom
  <2>9. /\ LogRecs(logs', vs.log) = LogRecs(logs, vs.log) /\ SyncedRecs(logs', vs.log) = SyncedRecs(logs, vs.log)
        /\ LogRecs(logs', logfile_number) = LogRecs(logs, logfile_number)
        /\ SyncedRecs(logs', logfile_number) = SyncedRecs(logs, logfile_number)
    <3>1. vs.log >= vs.log /\ logfile_number >= vs.log
      BY <1>4
    <3>2. QED
      BY <1>4, <2>8, <3>1
  <2>10. \A n \in vs.files \cup (UNION held) \cup pending : n \in DOMAIN tables => n \in DOMAIN tables' /\ tables'[n] = tables[n]
    BY <2>5 DEF Live
  <2>11. TableRecs(tables', vs.files) = TableRecs(tables, vs.files)
    <3>1. \A f \in vs.files : (f \in DOMAIN tables <=> f \in DOMAIN tables') /\ (f \in DOMAIN tables => tables'[f] = tables[f])
      BY <2>5, <2>10
    <3>2. QED
      BY <3>1, TablesSame
  <2>12. ViewInv'
    <3>1. \A n \in Full.files : n \in DOMAIN tables' /\ tables'[n] # {} /\ n < Full.next
      BY <1>3, <2>1, <2>10 DEF GoodView
    <3>2. \A v \in {Full} : GoodView(v)'
      BY <1>1, <1>3, <2>1, <2>6, <2>9, <2>11, <3>1 DEF GoodView, Reach
    <3>3. QED
      BY <1>1, <1>3, <2>1, <2>6, <2>9, <2>11, <3>2 DEF ViewInv, Reach
  <2>13. UpNumbers'
    <3>1. \A n \in DOMAIN tables' : n < vs.next
      BY <1>2, <2>5 DEF RecInv, UpInv, UpNumbers, Live
    <3>2. logfile_number \in DOMAIN logs'
      BY <1>4, <2>3
    <3>3. QED
      BY <1>1, <1>2, <2>3, <2>4, <2>6, <3>1, <3>2 DEF RecInv, UpInv, UpNumbers
  <2>14. UpTables'
    <3>1. \A n \in vs.files \cup (UNION held) : n \in DOMAIN tables' /\ tables'[n] # {}
      BY <1>2, <2>10 DEF RecInv, UpInv, UpTables
    <3>2. flush'.stage = "none"
      BY <1>1, <2>1 DEF NoFlush
    <3>3. comp.stage # "none" => comp.stage = "merge"
      BY <2>1 DEF RecInv, MemoryTypeOK
    <3>4. comp.stage # "none" => comp.out \in DOMAIN tables' /\ tables'[comp.out] = {}
      BY <1>2, <2>10, <3>3 DEF RecInv, UpInv, UpTables
    <3>5. /\ comp.stage = "none" => comp = NoCompaction
          /\ comp.in \subseteq vs.files
          /\ comp.stage # "none" => comp.in # {} /\ comp.out \in pending /\ ~comp.move
      BY <1>2, <3>3 DEF RecInv, UpInv, UpTables
    <3>6. QED
      BY <1>1, <2>1, <3>1, <3>2, <3>3, <3>4, <3>5 DEF UpTables
  <2>15. UpExact'
    BY <1>1, <2>1, <2>6 DEF UpExact, NoFlush
  <2>16. Around' = Around
    BY <1>1, <2>1, <2>6, <2>9, <2>11 DEF Around
  <2>17. UpRecords'
    BY <1>1, <1>2, <2>1, <2>6, <2>9, <2>11, <2>16 DEF RecInv, UpInv, UpRecords
  <2>18. UpSequences'
    <3>1. Reach(tables', logs', Full) = Reach(tables, logs, Full)
      BY <2>1, <2>9, <2>11 DEF Reach
    <3>2. QED
      BY <1>1, <1>2, <2>1, <2>6, <2>9, <2>11, <2>16, <3>1 DEF RecInv, UpInv, UpSequences
  <2>19. QED
    BY <1>1, <1>2, <1>5, <2>4, <2>7, <2>12, <2>13, <2>14, <2>15, <2>17, <2>18, UpNext DEF UpInv
<1>8. QED
  BY <1>6, <1>7

-----------------------------------------------------------------------------
(* DB::Open: what is to be shown *)

\* A database that is not open has nothing to show about Versions in memory.
LEMMA OpenNext ==
    ASSUME ~IsUp', DiskTypeOK', MemoryTypeOK', HistoryTypeOK', FirstInv', NumberInv', ViewInv', IdleInv',
           OpenInv', ReplayInv', LaterInv'
    PROVE  RecInv'
<1>1. UpNumbers' /\ UpTables' /\ UpExact' /\ UpRecords' /\ UpSequences'
  BY DEF UpNumbers, UpTables, UpExact, UpRecords, UpSequences
<1>2. QED
  BY <1>1 DEF RecInv, UpInv

\* What Open leaves alone until it installs the Version.
Idle == <<mem, imm, pending, held, writing, flush, comp, bg_error>>

\* A step of Open has nothing of the database in memory.
LEMMA StaysIdle ==
    ASSUME RecInv, ~IsUp, UNCHANGED Idle
    PROVE  IdleInv'
BY DEF RecInv, IdleInv, Idle, IsUp

\* Steps that leave logs, tables, descriptors and what must be in them alone.
LEMMA SameFiles ==
    ASSUME RecInv, UNCHANGED <<logs, tables, manifests, current,
                               ids, acked, durable, skipped, dropped, opened>>,
           temps' \subseteq Nat
    PROVE  /\ DiskTypeOK' /\ HistoryTypeOK' /\ ViewInv' /\ NumberInv' /\ Known' = Known
           /\ Full' = Full /\ Views' = Views
<1>1. Full' = Full /\ Views' = Views /\ Known' = Known
  BY SameViews DEF Known
<1>2. DiskTypeOK'
  BY <1>1 DEF RecInv, DiskTypeOK
<1>3. HistoryTypeOK'
  BY <1>1 DEF RecInv, HistoryTypeOK
<1>4. ViewInv'
  BY <1>1 DEF RecInv, ViewInv, GoodView
<1>5. NumberInv'
  BY DEF RecInv, NumberInv
<1>6. QED
  BY <1>1, <1>2, <1>3, <1>4, <1>5

-----------------------------------------------------------------------------
(* A new database *)

\* What NewDB's descriptor says.
FirstEdit == Edit(0, 2, 0, {}, {})
FirstView == [files |-> {}, log |-> 0, next |-> 2, last |-> 0, have |-> TRUE]

\* A crash leaves all of its edit or nothing.
LEMMA FirstViews ==
    /\ <<FirstEdit>> \in Seq(EditType) /\ Len(<<FirstEdit>>) = 1
    /\ Recovered(<<FirstEdit>>) = FirstView
    /\ \A k \in 0 .. 1 : Recovered(SubSeq(<<FirstEdit>>, 1, k)) \in {NoEdits, FirstView}
<1>1. FirstEdit \in EditType
  BY DEF FirstEdit, Edit, EditType
<1>2. <<FirstEdit>> \in Seq(EditType) /\ Len(<<FirstEdit>>) = 1 /\ <<>> \in Seq(EditType)
      /\ <<FirstEdit>> = Append(<<>>, FirstEdit)
  BY <1>1
<1>3. Recovered(<<FirstEdit>>) = Apply(NoEdits, FirstEdit)
  BY <1>1, <1>2, RecoveredEdits
<1>4. Apply(NoEdits, FirstEdit) = FirstView
  BY DEF Apply, NoEdits, FirstEdit, Edit, FirstView
<1>5. SubSeq(<<FirstEdit>>, 1, 1) = <<FirstEdit>>
  BY <1>2, Beginnings
<1>6. SubSeq(<<FirstEdit>>, 1, 0) = <<>>
  OBVIOUS
<1>7. \A k \in 0 .. 1 : k = 0 \/ k = 1
  OBVIOUS
<1>8. QED
  BY <1>2, <1>3, <1>4, <1>5, <1>6, <1>7, RecoveredEdits

\* NewDB
LEMMA NewDBKeeps ==
    ASSUME RecInv, NewDB
    PROVE  RecInv'
<1>1. /\ pc = "down" /\ pc' = "newdb_tmp" /\ current = 0 /\ current' = 0
      /\ manifests' = Put(manifests, 1, [edits |-> <<FirstEdit>>, synced |-> 0])
      /\ UNCHANGED <<logs, tables, temps, logfile_number, vs, open,
                     ids, acked, durable, skipped, dropped, opened>>
      /\ UNCHANGED Idle
  BY DEF NewDB, history, FirstEdit, Idle
<1>2. ~IsUp /\ ~IsUp' /\ Known' = Known
  BY <1>1 DEF IsUp, Known
<1>3. /\ DOMAIN manifests' = DOMAIN manifests \cup {1}
      /\ \A n \in DOMAIN manifests : n # 1 => manifests'[n] = manifests[n]
      /\ manifests'[1] = [edits |-> <<FirstEdit>>, synced |-> 0]
  BY <1>1 DEF Put
<1>4. manifests'[1] \in ManifestType /\ manifests'[1].synced <= Len(manifests'[1].edits)
  BY <1>3, FirstViews DEF ManifestType
<1>5. DiskTypeOK'
  BY <1>1, <1>2, <1>3, <1>4 DEF RecInv, DiskTypeOK
<1>6. MemoryTypeOK'
  BY <1>1, <1>2 DEF RecInv, MemoryTypeOK, OpenStages, Idle
<1>7. HistoryTypeOK'
  BY <1>1, <1>2 DEF RecInv, HistoryTypeOK
<1>8. FirstInv'
  BY <1>1, <1>3 DEF RecInv, FirstInv, FirstEdit
<1>9. NumberInv'
  BY <1>1, <1>3 DEF RecInv, NumberInv
<1>10. ViewInv' /\ OpenInv' /\ ReplayInv' /\ LaterInv'
  BY <1>1 DEF ViewInv, OpenInv, ReplayInv, LaterInv, Later
<1>11. QED
  BY <1>1, <1>2, <1>5, <1>6, <1>7, <1>8, <1>9, <1>10, StaysIdle, OpenNext

\* WriteTemp, for a new database and at the end of Open
LEMMA WriteTempKeeps ==
    ASSUME RecInv, WriteTemp
    PROVE  RecInv'
<1>1. /\ pc \in {"newdb_tmp", "open_tmp"}
      /\ pc' = IF pc = "newdb_tmp" THEN "newdb_rename" ELSE "open_rename"
      /\ temps' = temps \cup {Installing}
      /\ UNCHANGED <<logs, tables, manifests, current, logfile_number, vs, open, ids, acked, durable,
                     skipped, dropped, opened>>
      /\ UNCHANGED Idle
  BY DEF WriteTemp, history, Idle
<1>2. ~IsUp /\ ~IsUp'
  BY <1>1 DEF IsUp
<1>3. temps' \subseteq Nat
  <2>1. Installing \in Nat
    BY RecordFacts DEF Installing
  <2>2. QED
    BY <1>1, <2>1 DEF RecInv, DiskTypeOK
<1>4. /\ DiskTypeOK' /\ HistoryTypeOK' /\ ViewInv' /\ NumberInv' /\ Known' = Known
      /\ Full' = Full /\ Views' = Views
  BY <1>1, <1>3, SameFiles
<1>5. MemoryTypeOK'
  BY <1>1, <1>4 DEF RecInv, MemoryTypeOK, OpenStages, Idle
<1>6. FirstInv'
  BY <1>1 DEF RecInv, FirstInv
<1>7. OpenInv' /\ ReplayInv'
  BY <1>1, <1>4 DEF RecInv, OpenInv, ReplayInv, Later
<1>8. LaterInv'
  BY <1>1, <1>4 DEF RecInv, LaterInv, Later, EditNow
<1>9. QED
  BY <1>1, <1>2, <1>4, <1>5, <1>6, <1>7, <1>8, StaysIdle, OpenNext

\* RenameNewDB: a new database has nothing in it.
LEMMA RenameNewDBKeeps ==
    ASSUME RecInv, RenameNewDB
    PROVE  RecInv'
<1>1. /\ pc = "newdb_rename" /\ pc' = "recover" /\ current' = 1 /\ temps' \subseteq temps
      /\ UNCHANGED <<logs, tables, manifests, logfile_number, vs, open,
                     ids, acked, durable, skipped, dropped, opened>>
      /\ UNCHANGED Idle
  BY DEF RenameNewDB, Installing, history, Idle
<1>2. ~IsUp /\ ~IsUp' /\ Known' = Known
  BY <1>1 DEF IsUp, Known
<1>3. /\ current = 0 /\ ~opened /\ 1 \in DOMAIN manifests /\ manifests[1].edits = <<FirstEdit>>
      /\ acked = {} /\ durable = {} /\ \A n \in DOMAIN logs : logs[n].recs = <<>> /\ logs[n].lost = {}
  BY <1>1 DEF RecInv, FirstInv, HistoryTypeOK, FirstEdit
<1>4. DiskTypeOK' /\ HistoryTypeOK' /\ NumberInv'
  BY <1>1, <1>2 DEF RecInv, DiskTypeOK, HistoryTypeOK, NumberInv
<1>5. MemoryTypeOK'
  BY <1>1, <1>2 DEF RecInv, MemoryTypeOK, OpenStages, Idle
<1>6. FirstInv'
  BY <1>1, <1>3 DEF RecInv, FirstInv
<1>7. OpenInv' /\ ReplayInv' /\ LaterInv'
  BY <1>1 DEF OpenInv, ReplayInv, LaterInv, Later
<1>8. Full' = FirstView /\ \A v \in Views' : v \in {NoEdits, FirstView}
  <2>1. Full' = FirstView
    BY <1>1, <1>3, FirstViews DEF Full
  <2>2. manifests[1].synced \in Nat /\ \A k \in manifests[1].synced .. 1 : k \in 0 .. 1
    BY <1>3 DEF RecInv, DiskTypeOK, ManifestType
  <2>3. Views' = {Recovered(SubSeq(<<FirstEdit>>, 1, k)) : k \in manifests[1].synced .. 1}
    BY <1>1, <1>3, FirstViews DEF Views, ViewsOf
  <2>4. QED
    BY <2>1, <2>2, <2>3, FirstViews
<1>9. \A n : LogRecs(logs, n) = {}
  <2>1. \A l \in DOMAIN logs : \A r : ~InLog(logs[l], r)
    BY <1>3 DEF InLog
  <2>2. QED
    BY <2>1, InLogs
<1>10. GoodView(FirstView)'
  <2>1. TableRecs(tables', FirstView.files) = {}
    BY InTables DEF FirstView
  <2>2. Reach(tables', logs', FirstView) = {}
    BY <1>1, <1>9, <2>1 DEF Reach
  <2>3. OneEach(Reach(tables', logs', FirstView))
    BY <2>2 DEF OneEach
  <2>4. FirstView.files = {} /\ FirstView.log = 0 /\ FirstView.next = 2 /\ FirstView.last = 0
    BY DEF FirstView
  <2>5. ids' \in Nat
    BY <1>1, RecordFacts
  <2>6. (current < FirstView.next /\ FirstView.log < FirstView.next /\ FirstView.last <= ids
         /\ FirstView.next <= Full.next)'
    BY <1>1, <1>8, <2>4, <2>5
  <2>7. QED
    BY <1>1, <1>3, <2>1, <2>3, <2>4, <2>6 DEF GoodView
<1>11. ViewInv'
  <2>1. ~NoEdits.have
    BY DEF NoEdits
  <2>2. \A v \in Views' : (opened' => v.have) /\ (v.have => GoodView(v)')
    BY <1>1, <1>3, <1>8, <1>10, <2>1
  <2>3. QED
    BY <1>1, <1>3, <2>2 DEF ViewInv
<1>12. QED
  BY <1>1, <1>2, <1>4, <1>5, <1>6, <1>7, <1>11, StaysIdle, OpenNext

-----------------------------------------------------------------------------
(* VersionSet::Recover *)

\* When there is a CURRENT, the descriptor is there and a complete one is good.
LEMMA CurrentFacts ==
    ASSUME RecInv, current # 0
    PROVE  /\ current \in DOMAIN manifests /\ Full \in Views /\ Full \in ViewType
           /\ \A v \in Views : v \in ViewType /\ (opened => v.have) /\ (v.have => GoodView(v))
           /\ opened => Full.have
           /\ Full.have => GoodView(Full) /\ acked \subseteq skipped \cup Reach(tables, logs, Full)
<1>1. current \in DOMAIN manifests
  BY DEF RecInv, FirstInv
<1>2. Full \in Views /\ Full \in ViewType /\ Views \subseteq ViewType
  BY <1>1, ViewFacts DEF RecInv
<1>3. /\ \A v \in Views : (opened => v.have) /\ (v.have => GoodView(v))
      /\ Full.have => acked \subseteq skipped \cup Reach(tables, logs, Full)
  BY DEF RecInv, ViewInv
<1>4. QED
  BY <1>1, <1>2, <1>3

\* Recover
LEMMA RecoverKeeps ==
    ASSUME RecInv, Recover
    PROVE  RecInv'
<1> DEFINE missing == Full.files \ (DOMAIN tables \cup DOMAIN logs \cup DOMAIN manifests \cup temps)
           bad == ~Readable(current) \/ missing # {}
<1>1. /\ pc \in {"recover", "down"} /\ current # 0
      /\ UNCHANGED <<logs, tables, manifests, current, temps, logfile_number, ids, acked, durable,
                     skipped, dropped, opened>>
      /\ UNCHANGED Idle
  BY DEF Recover, history, disk, Idle, RecInv, FirstInv
<1>2. /\ bad => pc' = "corrupt" /\ vs' = vs /\ open' = open
      /\ ~bad => /\ pc' = "replay"
                 /\ vs' = [files |-> Full.files, log |-> Full.log, next |-> Full.next + 1,
                           last |-> Full.last, manifest |-> Full.next]
                 /\ open' = [NoOpen EXCEPT !.logs = {n \in DOMAIN logs : n >= Full.log}]
  BY DEF Recover, Full
<1>3. ~IsUp /\ ~IsUp'
  BY <1>1, <1>2 DEF IsUp
<1>4. /\ DiskTypeOK' /\ HistoryTypeOK' /\ ViewInv' /\ NumberInv' /\ Known' = Known
      /\ Full' = Full /\ Views' = Views
  BY <1>1, SameFiles DEF RecInv, DiskTypeOK
<1>5. /\ current \in DOMAIN manifests /\ Full \in ViewType /\ (opened => Full.have)
      /\ Full.have => GoodView(Full) /\ acked \subseteq skipped \cup Reach(tables, logs, Full)
  BY <1>1, CurrentFacts
<1>6. bad => ~opened
  <2>1. Full.have => missing = {}
    BY <1>5 DEF GoodView
  <2>2. Full.have => Readable(current)
    BY <1>5 DEF Readable, Full
  <2>3. QED
    BY <1>5, <2>1, <2>2
<1>7. FirstInv'
  BY <1>1, <1>2, <1>6 DEF RecInv, FirstInv
<1>8. CASE bad
  <2>1. MemoryTypeOK'
    BY <1>1, <1>2, <1>4, <1>8 DEF RecInv, MemoryTypeOK, Idle
  <2>2. OpenInv' /\ ReplayInv' /\ LaterInv'
    BY <1>2, <1>8 DEF OpenInv, ReplayInv, LaterInv, Later
  <2>3. QED
    BY <1>1, <1>3, <1>4, <1>7, <2>1, <2>2, StaysIdle, OpenNext
<1>9. CASE ~bad
  <2>1. /\ pc' = "replay" /\ vs'.files = Full.files /\ vs'.log = Full.log /\ vs'.next = Full.next + 1
        /\ vs'.last = Full.last /\ vs'.manifest = Full.next
        /\ open' = [logs |-> {n \in DOMAIN logs : n >= Full.log}, add |-> {}, max_sequence |-> 0]
    BY <1>2, <1>9 DEF NoOpen
  <2>2. Full.have /\ GoodView(Full) /\ acked \subseteq skipped \cup Reach(tables, logs, Full)
    BY <1>5, <1>9 DEF Readable, Full
  <2>3. /\ Full.files \subseteq Nat /\ Full.log \in Nat /\ Full.next \in Nat /\ Full.last \in Nat
        /\ Full.log < Full.next /\ Full.last <= ids /\ ids \in Nat
    BY <1>5, <2>2, RecordFacts DEF ViewType, GoodView
  <2>4. \A n \in DOMAIN logs : n \in Nat
    BY DEF RecInv, DiskTypeOK
  <2>5. MemoryTypeOK'
    <3>1. vs' \in [files : SUBSET Nat, log : Nat, next : Nat, last : Nat, manifest : Nat]
      BY <1>2, <1>9, <2>3
    <3>2. open' \in [logs : SUBSET Nat, add : SUBSET Nat, max_sequence : Nat]
      BY <2>1, <2>4
    <3>3. QED
      BY <1>1, <1>4, <2>1, <3>1, <3>2 DEF RecInv, MemoryTypeOK, OpenStages, Idle
  <2>6. TableRecs(tables, {}) = {}
    BY InTables
  <2>7. OpenInv'
    <3>1. \A n \in DOMAIN logs : n < Full.next + 1 \/ n >= Full.log
      BY <2>3, <2>4
    <3>2. Full.next < Full.next + 1 /\ 0 <= ids
      BY <2>3
    <3>3. RecsOf(logs, open'.logs) = LogRecs(logs, Full.log)
      BY <2>1 DEF LogRecs
    <3>4. vs'.files \cup open'.add = Full.files
      BY <2>1
    <3>5. acked \subseteq skipped \cup TableRecs(tables, vs'.files \cup open'.add) \cup RecsOf(logs, open'.logs)
      BY <2>2, <3>3, <3>4 DEF Reach
    <3>6. QED
      BY <1>1, <1>4, <2>1, <2>2, <2>3, <2>6, <3>1, <3>2, <3>5 DEF OpenInv
  <2>8. ReplayInv' /\ LaterInv'
    BY <1>1, <1>4, <2>1, <2>6 DEF ReplayInv, LaterInv, Later
  <2>9. QED
    BY <1>1, <1>3, <1>4, <1>7, <2>5, <2>7, <2>8, StaysIdle, OpenNext
<1>10. QED
  BY <1>8, <1>9

-----------------------------------------------------------------------------
(* Replaying the logs *)

\* Least and greatest number.
LEMMA MinFacts ==
    ASSUME NEW T \in SUBSET Nat, T # {}
    PROVE  Min(T) \in T /\ \A y \in T : Min(T) <= y
<1>1. \E x \in T : \A y \in T : x <= y
  BY LeastNat
<1>2. QED
  BY <1>1 DEF Min

\* The greatest number of a bounded set.
LEMMA MaxFacts ==
    ASSUME NEW T \in SUBSET Nat, T # {}, NEW b \in Nat, \A x \in T : x <= b
    PROVE  Max(T) \in T /\ \A y \in T : y <= Max(T)
<1>1. \E x \in T : \A y \in T : y <= x
  BY GreatestNat
<1>2. \E x \in T : \A y \in T : x >= y
  BY <1>1
<1>3. Max(T) \in T /\ \A y \in T : Max(T) >= y
  BY <1>2 DEF Max
<1>4. QED
  BY <1>3

\* MarkFileNumberUsed
LEMMA MarkFacts ==
    ASSUME NEW next \in Nat, NEW number \in Nat
    PROVE  /\ MarkFileNumberUsed(next, number) \in Nat
           /\ next <= MarkFileNumberUsed(next, number) /\ number < MarkFileNumberUsed(next, number)
<1> DEFINE T == {next, number + 1}
           m == Max(T)
<1>1. \E x \in T : \A y \in T : x >= y
  OBVIOUS
<1>2. m \in T /\ \A y \in T : m >= y
  BY <1>1 DEF Max
<1>3. m >= next /\ m >= number + 1 /\ m \in Nat
  BY <1>2
<1> HIDE DEF m
<1>4. m \in Nat /\ next <= m /\ number < m
  BY <1>3
<1>5. QED
  BY <1>4 DEF MarkFileNumberUsed, m

\* The records of a log as a set.
LEMMA SetOfRecs ==
    ASSUME NEW s \in Seq(Recs)
    PROVE  ToSet(s) = {s[i] : i \in 1 .. Len(s)}
BY DEF ToSet

\* The tables made of a log are not empty and have its records.
Splits(parts, recs) ==
    /\ Len(parts) \in Nat
    /\ \A i \in 1 .. Len(parts) : /\ parts[i] # {}
                                  /\ \A r \in parts[i] : \E j \in 1 .. Len(recs) : r = recs[j]
    /\ \A j \in 1 .. Len(recs) : \E i \in 1 .. Len(parts) : recs[j] \in parts[i]

\* RecoverLogFile divides the records of a log into tables.
LEMMA PartsFacts ==
    ASSUME NEW recs \in Seq(Recs), NEW parts \in Parts(recs)
    PROVE  Splits(parts, recs)
<1>1. CASE recs = <<>>
  BY <1>1 DEF Parts, Splits
<1>2. CASE recs # <<>>
  <2> DEFINE n == Len(recs)
             P(cut) == IF cut = n THEN <<ToSet(recs)>>
                       ELSE <<ToSet(SubSeq(recs, 1, cut)), ToSet(SubSeq(recs, cut + 1, n))>>
  <2>1. n \in Nat /\ 1 \in 1 .. n
    BY <1>2
  <2>2. PICK cut \in 1 .. n : parts = P(cut)
    BY <1>2 DEF Parts
  <2>3. CASE cut = n
    <3>1. parts = <<ToSet(recs)>>
      BY <2>2, <2>3
    <3>2. Len(parts) = 1 /\ parts[1] = ToSet(recs) /\ \A i : i \in 1 .. 1 <=> i = 1
      BY <3>1
    <3>3. ToSet(recs) = {recs[i] : i \in 1 .. n}
      BY SetOfRecs
    <3>4. /\ parts[1] # {} /\ \A r \in parts[1] : \E j \in 1 .. Len(recs) : r = recs[j]
          /\ \A j \in 1 .. Len(recs) : recs[j] \in parts[1]
      BY <2>1, <3>2, <3>3
    <3>5. QED
      BY <3>2, <3>4 DEF Splits
  <2>4. CASE cut # n
    <3> DEFINE a == SubSeq(recs, 1, cut)
               b == SubSeq(recs, cut + 1, n)
    <3>1. parts = <<ToSet(a), ToSet(b)>>
      BY <2>2, <2>4
    <3>2. /\ Len(parts) = 2 /\ parts[1] = ToSet(a) /\ parts[2] = ToSet(b)
          /\ \A i : i \in 1 .. 2 <=> i = 1 \/ i = 2
      BY <3>1
    <3>3. /\ Len(a) = cut /\ \A i \in 1 .. cut : a[i] = recs[i]
          /\ a \in Seq(Recs)
      BY <2>1
    <3>4. /\ Len(b) = n - cut /\ \A i \in 1 .. n - cut : b[i] = recs[cut + i]
          /\ b \in Seq(Recs)
      BY <2>1, <2>4
    <3> HIDE DEF a, b
    <3>5. ToSet(a) = {a[i] : i \in 1 .. cut} /\ ToSet(b) = {b[i] : i \in 1 .. n - cut}
      <4>1. ToSet(a) = {a[i] : i \in 1 .. Len(a)} /\ ToSet(b) = {b[i] : i \in 1 .. Len(b)}
        BY <3>3, <3>4, SetOfRecs
      <4>2. QED
        BY <3>3, <3>4, <4>1
    <3>6. /\ \A i \in 1 .. cut : i \in 1 .. n
          /\ \A i \in 1 .. n - cut : cut + i \in 1 .. n
          /\ \A j \in 1 .. n : j \in 1 .. cut \/ (j - cut \in 1 .. n - cut /\ cut + (j - cut) = j)
          /\ 1 \in 1 .. cut /\ 1 \in 1 .. n - cut
      BY <2>1, <2>4
    <3>7. \A r \in ToSet(a) : \E j \in 1 .. n : r = recs[j]
      BY <3>3, <3>5, <3>6
    <3>8. \A r \in ToSet(b) : \E j \in 1 .. n : r = recs[j]
      BY <3>4, <3>5, <3>6
    <3>9. ToSet(a) # {} /\ ToSet(b) # {}
      BY <3>5, <3>6
    <3>10. \A j \in 1 .. n : recs[j] \in ToSet(a) \/ recs[j] \in ToSet(b)
      <4> TAKE j \in 1 .. n
      <4>1. j \in 1 .. cut => recs[j] \in ToSet(a)
        BY <3>3, <3>5
      <4>2. j - cut \in 1 .. n - cut /\ cut + (j - cut) = j => recs[j] \in ToSet(b)
        BY <3>4, <3>5
      <4>3. QED
        BY <3>6, <4>1, <4>2
    <3>11. QED
      BY <3>2, <3>7, <3>8, <3>9, <3>10 DEF Splits
  <2>5. QED
    BY <2>3, <2>4
<1>3. QED
  BY <1>1, <1>2
\* During Open the descriptor is complete and good.
LEMMA OpenFacts ==
    ASSUME RecInv, pc \in {"replay"} \cup Later
    PROVE  /\ current # 0 /\ current \in DOMAIN manifests /\ Full \in Views /\ Full \in ViewType /\ Full.have
           /\ GoodView(Full) /\ acked \subseteq skipped \cup Reach(tables, logs, Full)
           /\ \A v \in Views : v \in ViewType /\ (opened => v.have) /\ (v.have => GoodView(v))
           /\ Full.next \in Nat /\ vs.next \in Nat /\ Full.next < vs.next /\ vs.manifest = Full.next
           /\ vs.files = Full.files /\ vs.log = Full.log
           /\ \A v \in Views : v.have => \A n \in v.files : n < vs.next
           /\ ~IsUp
<1>1. current # 0 /\ Full.have /\ vs.files = Full.files /\ vs.log = Full.log /\ vs.manifest = Full.next
      /\ vs.manifest < vs.next
  BY DEF RecInv, OpenInv
<1>2. /\ current \in DOMAIN manifests /\ Full \in Views /\ Full \in ViewType
      /\ \A v \in Views : v \in ViewType /\ (opened => v.have) /\ (v.have => GoodView(v))
      /\ GoodView(Full) /\ acked \subseteq skipped \cup Reach(tables, logs, Full)
  BY <1>1, CurrentFacts
<1>3. Full.next \in Nat /\ vs.next \in Nat /\ Full.next < vs.next
  BY <1>1, <1>2, RecordFacts DEF ViewType
<1>4. ASSUME NEW v \in Views, v.have, NEW n \in v.files
      PROVE  n < vs.next
  <2>1. n \in Nat /\ v.next \in Nat /\ n < v.next /\ v.next <= Full.next
    BY <1>2, <1>4 DEF ViewType, GoodView
  <2>2. QED
    BY <1>3, <2>1
<1>5. ~IsUp
  BY DEF IsUp, Later
<1>6. QED
  BY <1>1, <1>2, <1>3, <1>4, <1>5

\* The log to replay next and its sequence numbers.
NextLog == Min(open.logs)
NextRecs == logs[NextLog].recs
NextLost == logs[NextLog].lost
NextSequence == Max({open.max_sequence} \cup {r.seq : r \in ToSet(NextRecs)})

\* It exists, and the sequence numbers in it were given out.
LEMMA ReplayFacts ==
    ASSUME RecInv, pc = "replay", open.logs # {}
    PROVE  /\ NextLog \in open.logs /\ NextLog \in DOMAIN logs /\ NextLog \in Nat /\ NextLog >= Full.log
           /\ NextRecs \in Seq(Recs) /\ ToSet(NextRecs) = {NextRecs[i] : i \in 1 .. Len(NextRecs)}
           /\ \A i \in 1 .. Len(NextRecs) : NextRecs[i] \in Known
           /\ NextLost \subseteq Known
           /\ open.max_sequence \in Nat /\ NextSequence \in Nat
           /\ open.max_sequence <= NextSequence /\ NextSequence <= ids
           /\ \A i \in 1 .. Len(NextRecs) : NextRecs[i].seq <= NextSequence
<1>1. NextLog \in open.logs
  BY MinFacts DEF NextLog, RecInv, MemoryTypeOK
<1>2. NextLog \in DOMAIN logs /\ NextLog \in Nat /\ NextLog >= Full.log
  BY <1>1 DEF RecInv, OpenInv, MemoryTypeOK
<1>3. NextRecs \in Seq(Recs) /\ NextLost \subseteq Known /\ \A i \in 1 .. Len(NextRecs) : NextRecs[i] \in Known
  BY <1>2 DEF NextRecs, NextLost, RecInv, DiskTypeOK, LogType
<1>4. ToSet(NextRecs) = {NextRecs[i] : i \in 1 .. Len(NextRecs)}
  BY <1>3, SetOfRecs
<1> DEFINE T == {open.max_sequence} \cup {r.seq : r \in ToSet(NextRecs)}
<1>5. open.max_sequence \in Nat /\ open.max_sequence <= ids /\ ids \in Nat
  BY RecordFacts DEF RecInv, OpenInv, MemoryTypeOK
<1>6. T \in SUBSET Nat /\ \A x \in T : x <= ids
  <2>1. \A r \in ToSet(NextRecs) : r.seq \in Nat /\ r.seq <= ids
    BY <1>3, <1>4, RecordFacts
  <2>2. QED
    BY <1>5, <2>1
<1>7. open.max_sequence \in T /\ \A i \in 1 .. Len(NextRecs) : NextRecs[i].seq \in T
  BY <1>4
<1> HIDE DEF T
<1>8. Max(T) \in T /\ \A y \in T : y <= Max(T)
  BY <1>5, <1>6, <1>7, MaxFacts
<1>9. NextSequence = Max(T)
  BY DEF NextSequence, T
<1>10. QED
  BY <1>1, <1>2, <1>3, <1>4, <1>5, <1>6, <1>7, <1>8, <1>9

\* RecoverLogFile: a log becomes tables with new numbers.
LEMMA RecoverLogFileKeeps ==
    ASSUME RecInv, RecoverLogFile
    PROVE  RecInv'
<1>1. /\ pc = "replay" /\ pc' = "replay" /\ open.logs # {} /\ pc \in {"replay"} \cup Later
      /\ UNCHANGED <<logs, manifests, current, temps, logfile_number, ids, acked, durable, opened>>
      /\ skipped' = skipped \cup NextLost /\ dropped' = dropped \cup NextLost
      /\ UNCHANGED Idle
  BY DEF RecoverLogFile, Idle, NextLog, NextLost
<1> DEFINE lo == vs.next
           new(parts) == lo .. lo + Len(parts) - 1
<1>2. PICK parts \in Parts(NextRecs) :
        /\ tables' = [n \in DOMAIN tables \cup new(parts) |->
                        IF n \in new(parts) THEN parts[n - lo + 1] ELSE tables[n]]
        /\ open' = [logs |-> open.logs \ {NextLog}, add |-> open.add \cup new(parts),
                    max_sequence |-> NextSequence]
        /\ vs' = [vs EXCEPT !.next = MarkFileNumberUsed(lo + Len(parts), NextLog)]
  BY DEF RecoverLogFile, NextLog, NextRecs, NextSequence
<1> DEFINE N == new(parts)
<1>3. /\ NextLog \in open.logs /\ NextLog \in DOMAIN logs /\ NextLog \in Nat /\ NextLog >= Full.log
      /\ NextRecs \in Seq(Recs)
      /\ \A i \in 1 .. Len(NextRecs) : NextRecs[i] \in Known
      /\ NextLost \subseteq Known
      /\ open.max_sequence \in Nat /\ NextSequence \in Nat
      /\ open.max_sequence <= NextSequence /\ NextSequence <= ids
      /\ \A i \in 1 .. Len(NextRecs) : NextRecs[i].seq <= NextSequence
  BY <1>1, ReplayFacts
<1>4. Splits(parts, NextRecs)
  BY <1>3, PartsFacts
<1>5. Len(parts) \in Nat /\ lo \in Nat
  BY <1>4, RecordFacts DEF Splits
<1>6. \A n \in N : n \in Nat /\ lo <= n /\ n < lo + Len(parts) /\ n - lo + 1 \in 1 .. Len(parts)
  BY <1>5
<1>7. \A i \in 1 .. Len(parts) : lo + i - 1 \in N /\ (lo + i - 1) - lo + 1 = i
  BY <1>5
<1>8. /\ DOMAIN tables' = DOMAIN tables \cup N
      /\ \A n \in N : tables'[n] = parts[n - lo + 1]
      /\ \A n \in DOMAIN tables : n \notin N => tables'[n] = tables[n]
  BY <1>2
<1>9. /\ \A n \in N : /\ tables'[n] # {}
                      /\ \A r \in tables'[n] : \E j \in 1 .. Len(NextRecs) : r = NextRecs[j]
      /\ \A j \in 1 .. Len(NextRecs) : \E n \in N : NextRecs[j] \in tables'[n]
  <2>1. \A n \in N : /\ tables'[n] # {}
                     /\ \A r \in tables'[n] : \E j \in 1 .. Len(NextRecs) : r = NextRecs[j]
    <3> TAKE n \in N
    <3>1. n - lo + 1 \in 1 .. Len(parts) /\ tables'[n] = parts[n - lo + 1]
      BY <1>6, <1>8
    <3> HIDE DEF N
    <3>2. QED
      BY <1>4, <3>1 DEF Splits
  <2>2. \A i \in 1 .. Len(parts) : lo + i - 1 \in N /\ tables'[lo + i - 1] = parts[i]
    <3> TAKE i \in 1 .. Len(parts)
    <3>1. lo + i - 1 \in N /\ (lo + i - 1) - lo + 1 = i
      BY <1>7
    <3> HIDE DEF N
    <3>2. tables'[lo + i - 1] = parts[(lo + i - 1) - lo + 1]
      BY <1>8, <3>1
    <3>3. QED
      BY <3>1, <3>2
  <2> HIDE DEF N
  <2>3. \A j \in 1 .. Len(NextRecs) : \E n \in N : NextRecs[j] \in tables'[n]
    BY <1>4, <2>2 DEF Splits
  <2>4. QED
    BY <2>1, <2>3
<1>10. open'.logs = open.logs \ {NextLog} /\ open'.add = open.add \cup N /\ open'.max_sequence = NextSequence
  BY <1>2
<1>11. /\ vs'.next \in Nat /\ lo + Len(parts) <= vs'.next /\ NextLog < vs'.next
       /\ vs'.files = vs.files /\ vs'.log = vs.log /\ vs'.last = vs.last /\ vs'.manifest = vs.manifest
       /\ vs' \in [files : SUBSET Nat, log : Nat, next : Nat, last : Nat, manifest : Nat]
  <2>1. lo + Len(parts) \in Nat
    BY <1>5
  <2>2. /\ MarkFileNumberUsed(lo + Len(parts), NextLog) \in Nat
        /\ lo + Len(parts) <= MarkFileNumberUsed(lo + Len(parts), NextLog)
        /\ NextLog < MarkFileNumberUsed(lo + Len(parts), NextLog)
    BY <1>3, <2>1, MarkFacts
  <2>3. QED
    BY <1>2, <2>2, RecordFacts
<1>12. \A n \in N : n < vs'.next /\ ~(n < lo)
  BY <1>5, <1>6, <1>11
<1>13. lo <= vs'.next /\ \A n \in Nat : n < lo => n < vs'.next
  BY <1>5, <1>11
<1>14. ~IsUp /\ ~IsUp' /\ Known' = Known
  BY <1>1 DEF IsUp, Known
<1>15. Full' = Full /\ Views' = Views
  BY <1>1, SameViews
<1>16. /\ current # 0 /\ current \in DOMAIN manifests /\ Full \in Views /\ Full \in ViewType /\ Full.have
       /\ GoodView(Full) /\ acked \subseteq skipped \cup Reach(tables, logs, Full)
       /\ \A v \in Views : v \in ViewType /\ (opened => v.have) /\ (v.have => GoodView(v))
       /\ Full.next \in Nat /\ Full.next < lo /\ vs.manifest = Full.next
       /\ vs.files = Full.files /\ vs.log = Full.log
       /\ \A v \in Views : v.have => \A n \in v.files : n < lo
  BY <1>1, OpenFacts
<1> HIDE DEF N, new, lo
<1>17. DiskTypeOK'
  <2>1. \A n \in DOMAIN tables' : n \in Nat /\ tables'[n] \subseteq Known
    <3>1. \A n \in DOMAIN tables : n \in Nat /\ tables[n] \subseteq Known
      BY DEF RecInv, DiskTypeOK
    <3>2. \A n \in N : tables'[n] \subseteq Known
      BY <1>3, <1>9
    <3>3. QED
      BY <1>6, <1>8, <3>1, <3>2
  <2>2. QED
    BY <1>1, <1>14, <2>1 DEF RecInv, DiskTypeOK
<1>18. MemoryTypeOK'
  <2>1. open' \in [logs : SUBSET Nat, add : SUBSET Nat, max_sequence : Nat]
    <3>1. N \subseteq Nat /\ open.add \subseteq Nat /\ open.logs \subseteq Nat
      BY <1>6 DEF RecInv, MemoryTypeOK
    <3>2. open' = [logs |-> open.logs \ {NextLog}, add |-> open.add \cup N, max_sequence |-> NextSequence]
      BY <1>2 DEF N
    <3>3. QED
      BY <1>3, <3>1, <3>2
  <2>2. QED
    BY <1>1, <1>11, <1>14, <2>1 DEF RecInv, MemoryTypeOK, OpenStages, Idle
<1>19. HistoryTypeOK' /\ FirstInv' /\ NumberInv'
  <2>1. HistoryTypeOK'
    BY <1>1, <1>3, <1>14 DEF RecInv, HistoryTypeOK
  <2>2. QED
    BY <1>1, <2>1 DEF RecInv, FirstInv, NumberInv
<1>20. \A v \in Views : v.have => \A n \in v.files : n \in DOMAIN tables' /\ tables'[n] = tables[n]
  BY <1>8, <1>12, <1>16 DEF GoodView
<1>21. \A v \in Views : v.have => GoodView(v)' /\ TableRecs(tables', v.files) = TableRecs(tables, v.files)
  <2> SUFFICES ASSUME NEW v \in Views, v.have
               PROVE  GoodView(v)' /\ TableRecs(tables', v.files) = TableRecs(tables, v.files)
    OBVIOUS
  <2>1. ids \in Nat /\ ids <= ids' /\ ids' \in Nat /\ Full'.next = Full.next /\ Full.next <= Full'.next
    BY <1>1, <1>15, <1>16, RecordFacts
  <2>2. QED
    BY <1>1, <1>16, <1>20, <2>1, ViewStays
<1>22. TableRecs(tables', vs.files) = TableRecs(tables, vs.files)
  BY <1>16, <1>21
<1>23. ViewInv'
  BY <1>1, <1>15, <1>16, <1>21 DEF ViewInv, Reach
<1>24. \A n \in open.add : n \in DOMAIN tables' /\ tables'[n] = tables[n] /\ tables[n] # {}
                           /\ Full.next <= n /\ n < lo /\ n \in Nat
  <2>1. \A n \in open.add : n \in DOMAIN tables /\ tables[n] # {} /\ Full.next <= n /\ n < lo /\ n \in Nat
    BY <1>1 DEF RecInv, OpenInv, MemoryTypeOK, lo
  <2>2. QED
    BY <1>8, <1>12, <2>1
<1>25. TableRecs(tables', open.add) = TableRecs(tables, open.add)
  <2>1. \A n \in open.add : n \in DOMAIN tables
    BY <1>1 DEF RecInv, OpenInv
  <2>2. QED
    BY <1>24, <2>1, TablesSame
<1>26. /\ \A r \in TableRecs(tables', N) : \E j \in 1 .. Len(NextRecs) : r = NextRecs[j]
       /\ \A j \in 1 .. Len(NextRecs) : NextRecs[j] \in TableRecs(tables', N)
  <2>1. ASSUME NEW r \in TableRecs(tables', N)
        PROVE  \E j \in 1 .. Len(NextRecs) : r = NextRecs[j]
    <3>1. \E n \in N : n \in DOMAIN tables' /\ r \in tables'[n]
      BY <2>1, InTables
    <3>2. QED
      BY <1>9, <3>1
  <2>2. ASSUME NEW j \in 1 .. Len(NextRecs)
        PROVE  NextRecs[j] \in TableRecs(tables', N)
    <3>1. PICK n \in N : NextRecs[j] \in tables'[n]
      BY <1>9
    <3>2. n \in DOMAIN tables'
      BY <1>8
    <3>3. QED
      BY <3>1, <3>2, InTables
  <2>3. QED
    BY <2>1, <2>2
<1>27. TableRecs(tables', open'.add) = TableRecs(tables, open.add) \cup TableRecs(tables', N)
  BY <1>10, <1>25, TablesUnion
<1>28. TableRecs(tables', vs'.files \cup open'.add) =
           TableRecs(tables, vs.files) \cup TableRecs(tables, open.add) \cup TableRecs(tables', N)
  BY <1>11, <1>22, <1>27, TablesUnion
<1>29. OpenInv'
  <2>1. \A n \in open'.add : n \in DOMAIN tables' /\ tables'[n] # {} /\ Full.next <= n /\ n < vs'.next
    <3>1. \A n \in N : Full.next <= n
      BY <1>5, <1>6, <1>16
    <3>2. \A n \in N : n \in DOMAIN tables' /\ tables'[n] # {} /\ n < vs'.next
      BY <1>8, <1>9, <1>12
    <3>3. \A n \in open.add : n \in DOMAIN tables' /\ tables'[n] # {} /\ Full.next <= n /\ n < vs'.next
      BY <1>13, <1>24
    <3>4. QED
      BY <1>10, <3>1, <3>2, <3>3
  <2>2. TableRecs(tables', open'.add) \subseteq LogRecs(logs, Full.log)
    <3>1. TableRecs(tables, open.add) \subseteq LogRecs(logs, Full.log)
      BY <1>1 DEF RecInv, OpenInv
    <3>2. \A j \in 1 .. Len(NextRecs) : NextRecs[j] \in LogRecs(logs, Full.log)
      BY <1>3, InLogs DEF NextRecs, InLog
    <3>3. QED
      BY <1>26, <1>27, <3>1, <3>2
  <2>3. \A n \in open'.logs : n \in DOMAIN logs /\ n >= vs.log
    BY <1>1, <1>10 DEF RecInv, OpenInv
  <2>4. \A n \in DOMAIN logs : n < vs'.next \/ n \in open'.logs
    <3>1. \A n \in DOMAIN logs : n \in Nat /\ (n < lo \/ n \in open.logs)
      BY <1>1 DEF RecInv, OpenInv, DiskTypeOK, lo
    <3>2. QED
      BY <1>10, <1>11, <1>13, <3>1
  <2>5. acked \subseteq skipped' \cup TableRecs(tables', vs'.files \cup open'.add) \cup RecsOf(logs, open'.logs)
    <3>1. acked \subseteq skipped \cup TableRecs(tables, vs.files \cup open.add) \cup RecsOf(logs, open.logs)
      BY <1>1 DEF RecInv, OpenInv
    <3>2. TableRecs(tables, vs.files \cup open.add) = TableRecs(tables, vs.files) \cup TableRecs(tables, open.add)
      BY TablesUnion
    <3>3. \A r : InLog(logs[NextLog], r) => r \in NextLost \/ r \in TableRecs(tables', N)
      BY <1>26 DEF InLog, NextRecs, NextLost
    <3>4. \A r \in RecsOf(logs, open.logs) :
              r \in RecsOf(logs, open'.logs) \/ r \in NextLost \/ r \in TableRecs(tables', N)
      BY <1>10, <3>3, InRecsOf
    <3>5. QED
      BY <1>1, <1>28, <3>1, <3>2, <3>4
  <2>6. vs'.manifest < vs'.next
    BY <1>5, <1>11, <1>13, <1>16
  <2>7. vs.last <= ids
    BY <1>1 DEF RecInv, OpenInv
  <2>8. QED
    BY <1>1, <1>3, <1>10, <1>11, <1>15, <1>16, <2>1, <2>2, <2>3, <2>4, <2>5, <2>6, <2>7 DEF OpenInv
<1>30. ReplayInv'
  <2>1. vs.last = Full.last /\ \A r \in TableRecs(tables, open.add) : r.seq <= open.max_sequence
    BY <1>1 DEF RecInv, ReplayInv
  <2>2. \A r \in TableRecs(tables, open.add) : r.seq \in Nat
    BY RecordFacts
  <2>3. \A r \in TableRecs(tables, open.add) : r.seq <= NextSequence
    BY <1>3, <2>1, <2>2
  <2>4. \A r \in TableRecs(tables', open'.add) : r.seq <= NextSequence
    BY <1>3, <1>26, <1>27, <2>3
  <2>5. QED
    BY <1>1, <1>10, <1>11, <1>15, <2>1, <2>4 DEF ReplayInv
<1>31. LaterInv'
  BY <1>1 DEF LaterInv, Later
<1>32. QED
  BY <1>1, <1>14, <1>17, <1>18, <1>19, <1>23, <1>29, <1>30, <1>31, StaysIdle, OpenNext

\* RecoverLogFileFails: the records of the log are skipped.
LEMMA RecoverLogFileFailsKeeps ==
    ASSUME RecInv, RecoverLogFileFails
    PROVE  RecInv'
<1>1. /\ pc = "replay" /\ pc' = "replay" /\ open.logs # {} /\ pc \in {"replay"} \cup Later
      /\ UNCHANGED <<logs, tables, manifests, current, temps, logfile_number, ids, acked, durable, opened>>
      /\ UNCHANGED Idle
      /\ skipped' = skipped \cup ToSet(NextRecs) \cup NextLost /\ dropped' = dropped
  BY DEF RecoverLogFileFails, disk, Idle, NextLog, NextRecs, NextLost
<1>2. \/ /\ open' = [open EXCEPT !.logs = @ \ {NextLog}]
         /\ vs' = [vs EXCEPT !.next = MarkFileNumberUsed(@, NextLog)]
      \/ /\ open' = [open EXCEPT !.logs = @ \ {NextLog}, !.max_sequence = NextSequence]
         /\ vs' = [vs EXCEPT !.next = MarkFileNumberUsed(@ + 1, NextLog)]
  BY DEF RecoverLogFileFails, NextLog, NextRecs, NextSequence
<1>3. /\ NextLog \in open.logs /\ NextLog \in Nat
      /\ ToSet(NextRecs) = {NextRecs[i] : i \in 1 .. Len(NextRecs)}
      /\ \A i \in 1 .. Len(NextRecs) : NextRecs[i] \in Known
      /\ NextLost \subseteq Known
      /\ open.max_sequence \in Nat /\ NextSequence \in Nat
      /\ open.max_sequence <= NextSequence /\ NextSequence <= ids
  BY <1>1, ReplayFacts
<1>4. /\ vs'.next \in Nat /\ vs.next \in Nat /\ vs.next <= vs'.next /\ NextLog < vs'.next
      /\ vs'.files = vs.files /\ vs'.log = vs.log /\ vs'.last = vs.last /\ vs'.manifest = vs.manifest
      /\ vs' \in [files : SUBSET Nat, log : Nat, next : Nat, last : Nat, manifest : Nat]
  <2> DEFINE a == MarkFileNumberUsed(vs.next, NextLog)
             b == MarkFileNumberUsed(vs.next + 1, NextLog)
  <2>1. vs.next \in Nat /\ vs.next + 1 \in Nat
    BY RecordFacts
  <2>2. a \in Nat /\ vs.next <= a /\ NextLog < a /\ b \in Nat /\ vs.next + 1 <= b /\ NextLog < b
    BY <1>3, <2>1, MarkFacts
  <2>3. vs' = [vs EXCEPT !.next = a] \/ vs' = [vs EXCEPT !.next = b]
    BY <1>2
  <2> HIDE DEF a, b
  <2>4. vs.next <= b
    BY <2>1, <2>2
  <2>5. QED
    BY <2>1, <2>2, <2>3, <2>4, RecordFacts
<1>5. /\ open'.logs = open.logs \ {NextLog} /\ open'.add = open.add
      /\ open'.max_sequence \in {open.max_sequence, NextSequence}
      /\ open' \in [logs : SUBSET Nat, add : SUBSET Nat, max_sequence : Nat]
  <2>1. open \in [logs : SUBSET Nat, add : SUBSET Nat, max_sequence : Nat]
    BY DEF RecInv, MemoryTypeOK
  <2>2. QED
    BY <1>2, <1>3, <2>1
<1>6. /\ open'.max_sequence \in Nat /\ open.max_sequence <= open'.max_sequence /\ open'.max_sequence <= ids
  <2>1. open.max_sequence <= ids /\ ids \in Nat
    BY <1>1, RecordFacts DEF RecInv, OpenInv
  <2>2. QED
    BY <1>3, <1>5, <2>1
<1>7. ~IsUp /\ ~IsUp' /\ Known' = Known /\ Full' = Full /\ Views' = Views
  BY <1>1, SameViews DEF IsUp, Known
<1>8. /\ current # 0 /\ Full \in Views /\ Full \in ViewType /\ Full.have
      /\ GoodView(Full) /\ acked \subseteq skipped \cup Reach(tables, logs, Full)
      /\ \A v \in Views : v \in ViewType /\ (opened => v.have) /\ (v.have => GoodView(v))
      /\ Full.next \in Nat /\ Full.next < vs.next /\ vs.manifest = Full.next
      /\ vs.files = Full.files /\ vs.log = Full.log
  BY <1>1, OpenFacts
<1>9. DiskTypeOK' /\ FirstInv' /\ NumberInv'
  BY <1>1, <1>7 DEF RecInv, DiskTypeOK, FirstInv, NumberInv
<1>10. HistoryTypeOK'
  BY <1>1, <1>3, <1>7 DEF RecInv, HistoryTypeOK
<1>11. MemoryTypeOK'
  BY <1>1, <1>4, <1>5, <1>7 DEF RecInv, MemoryTypeOK, OpenStages, Idle
<1>12. \A v \in Views : v.have => GoodView(v)'
  BY <1>1, <1>7, <1>8 DEF GoodView
<1>13. ViewInv'
  BY <1>1, <1>7, <1>8, <1>12 DEF ViewInv
<1>14. OpenInv'
  <2>1. \A n \in open'.add : n \in DOMAIN tables /\ tables[n] # {} /\ Full.next <= n /\ n < vs'.next
    <3>1. \A n \in open.add : n \in Nat /\ n \in DOMAIN tables /\ tables[n] # {} /\ Full.next <= n /\ n < vs.next
      BY <1>1 DEF RecInv, OpenInv, MemoryTypeOK
    <3>2. \A n \in Nat : n < vs.next => n < vs'.next
      BY <1>4
    <3>3. QED
      BY <1>5, <3>1, <3>2
  <2>2. \A n \in DOMAIN logs : n < vs'.next \/ n \in open'.logs
    <3>1. \A n \in DOMAIN logs : n \in Nat /\ (n < vs.next \/ n \in open.logs)
      BY <1>1 DEF RecInv, OpenInv, DiskTypeOK
    <3>2. \A n \in Nat : n < vs.next => n < vs'.next
      BY <1>4
    <3>3. QED
      BY <1>4, <1>5, <3>1, <3>2
  <2>3. acked \subseteq skipped' \cup TableRecs(tables, vs.files \cup open.add) \cup RecsOf(logs, open'.logs)
    <3>1. acked \subseteq skipped \cup TableRecs(tables, vs.files \cup open.add) \cup RecsOf(logs, open.logs)
      BY <1>1 DEF RecInv, OpenInv
    <3>2. \A r : InLog(logs[NextLog], r) => r \in NextLost \/ r \in ToSet(NextRecs)
      BY <1>3 DEF InLog, NextRecs, NextLost
    <3>3. \A r \in RecsOf(logs, open.logs) :
              r \in RecsOf(logs, open'.logs) \/ r \in NextLost \/ r \in ToSet(NextRecs)
      BY <1>5, <3>2, InRecsOf
    <3>4. QED
      BY <1>1, <3>1, <3>3
  <2>4. vs'.manifest < vs'.next
    BY <1>4, <1>8
  <2>5. /\ vs.last <= ids /\ TableRecs(tables, open.add) \subseteq LogRecs(logs, Full.log)
        /\ \A n \in open'.logs : n \in DOMAIN logs /\ n >= vs.log
    BY <1>1, <1>5 DEF RecInv, OpenInv
  <2>6. QED
    BY <1>1, <1>4, <1>5, <1>6, <1>7, <1>8, <2>1, <2>2, <2>3, <2>4, <2>5 DEF OpenInv
<1>15. ReplayInv'
  <2>1. vs.last = Full.last /\ \A r \in TableRecs(tables, open.add) : r.seq <= open.max_sequence
    BY <1>1 DEF RecInv, ReplayInv
  <2>2. \A r \in TableRecs(tables, open.add) : r.seq \in Nat
    BY RecordFacts
  <2>3. \A r \in TableRecs(tables, open.add) : r.seq <= open'.max_sequence
    BY <1>3, <1>6, <2>1, <2>2
  <2>4. QED
    BY <1>1, <1>4, <1>5, <1>7, <2>1, <2>3 DEF ReplayInv
<1>16. LaterInv'
  BY <1>1 DEF LaterInv, Later
<1>17. QED
  BY <1>1, <1>7, <1>9, <1>10, <1>11, <1>13, <1>14, <1>15, <1>16, StaysIdle, OpenNext

-----------------------------------------------------------------------------
(* The log and the descriptor of the new incarnation *)

\* CreateLog: its number is above every log and every descriptor.
LEMMA CreateLogKeeps ==
    ASSUME RecInv, CreateLog
    PROVE  RecInv'
<1>1. /\ pc = "replay" /\ pc' = "manifest" /\ open.logs = {} /\ pc \in {"replay"} \cup Later
      /\ logs' = Put(logs, vs.next, NewLog) /\ logfile_number' = vs.next
      /\ UNCHANGED <<tables, manifests, current, temps, open, ids, acked, durable, skipped, dropped, opened>>
      /\ UNCHANGED Idle
  BY DEF CreateLog, history, Idle
<1>2. vs' = [[vs EXCEPT !.next = @ + 1] EXCEPT !.last = RecoveredLastSequence]
  BY DEF CreateLog, NewFileNumber
<1>3. /\ current # 0 /\ Full \in Views /\ Full \in ViewType /\ Full.have
      /\ GoodView(Full) /\ acked \subseteq skipped \cup Reach(tables, logs, Full)
      /\ \A v \in Views : v \in ViewType /\ (opened => v.have) /\ (v.have => GoodView(v))
      /\ Full.next \in Nat /\ vs.next \in Nat /\ Full.next < vs.next /\ vs.manifest = Full.next
      /\ vs.files = Full.files /\ vs.log = Full.log
  BY <1>1, OpenFacts
<1>4. /\ RecoveredLastSequence \in Nat /\ RecoveredLastSequence <= ids
      /\ vs.last <= RecoveredLastSequence /\ open.max_sequence <= RecoveredLastSequence
      /\ vs.last \in Nat /\ open.max_sequence \in Nat
  <2>1. vs.last \in Nat /\ open.max_sequence \in Nat /\ vs.last <= ids /\ open.max_sequence <= ids /\ ids \in Nat
    BY <1>1, RecordFacts DEF RecInv, OpenInv, MemoryTypeOK
  <2> DEFINE T == {vs.last, open.max_sequence}
  <2>2. T \in SUBSET Nat /\ T # {} /\ \A x \in T : x <= ids
    BY <2>1
  <2>3. Max(T) \in T /\ \A y \in T : y <= Max(T)
    BY <2>1, <2>2, MaxFacts
  <2>4. QED
    BY <2>1, <2>2, <2>3 DEF RecoveredLastSequence
<1>5. /\ vs'.next = vs.next + 1 /\ vs'.last = RecoveredLastSequence
      /\ vs'.files = vs.files /\ vs'.log = vs.log /\ vs'.manifest = vs.manifest
      /\ vs' \in [files : SUBSET Nat, log : Nat, next : Nat, last : Nat, manifest : Nat]
  <2> DEFINE w == [vs EXCEPT !.next = @ + 1]
  <2>1. /\ w.next = vs.next + 1 /\ w.last = vs.last
        /\ w.files = vs.files /\ w.log = vs.log /\ w.manifest = vs.manifest
        /\ w \in [files : SUBSET Nat, log : Nat, next : Nat, last : Nat, manifest : Nat]
    BY <1>3, RecordFacts
  <2>2. vs' = [w EXCEPT !.last = RecoveredLastSequence]
    BY <1>2
  <2> HIDE DEF w
  <2>3. QED
    BY <1>4, <2>1, <2>2
<1>6. \A n \in DOMAIN logs : n \in Nat /\ n < vs.next
  BY <1>1 DEF RecInv, OpenInv, DiskTypeOK
<1>7. vs.next \notin DOMAIN logs
  BY <1>3, <1>6
<1>8. /\ DOMAIN logs' = DOMAIN logs \cup {vs.next}
      /\ \A n \in DOMAIN logs : logs'[n] = logs[n]
      /\ logs'[vs.next] = NewLog /\ logs'[vs.next].recs = <<>> /\ logs'[vs.next].lost = {}
  BY <1>1, <1>7 DEF Put, NewLog
<1>9. /\ \A m : LogRecs(logs', m) = LogRecs(logs, m)
      /\ \A m : SyncedRecs(logs', m) = SyncedRecs(logs, m)
      /\ \A S : RecsOf(logs', S) = RecsOf(logs, S)
  BY <1>1, <1>7, NewLogRecs
<1>10. ~IsUp /\ ~IsUp' /\ Known' = Known /\ Full' = Full /\ Views' = Views
  BY <1>1, SameViews DEF IsUp, Known
<1>11. DiskTypeOK'
  <2>1. /\ NewLog \in LogType /\ NewLog.synced <= Len(NewLog.recs) /\ \A i \in 1 .. Len(NewLog.recs) : FALSE
        /\ NewLog.lost = {}
    BY DEF NewLog, LogType
  <2>2. QED
    BY <1>1, <1>3, <1>8, <1>10, <2>1 DEF RecInv, DiskTypeOK
<1>12. HistoryTypeOK' /\ FirstInv' /\ NumberInv'
  BY <1>1, <1>8, <1>10 DEF RecInv, HistoryTypeOK, FirstInv, NumberInv
<1>13. MemoryTypeOK'
  BY <1>1, <1>3, <1>5, <1>10 DEF RecInv, MemoryTypeOK, OpenStages, Idle
<1>14. \A v \in Views : v.have => GoodView(v)'
  BY <1>1, <1>3, <1>9, <1>10 DEF GoodView, Reach
<1>15. ViewInv'
  BY <1>1, <1>3, <1>9, <1>10, <1>14 DEF ViewInv, Reach
<1>16. OpenInv'
  <2>1. \A n \in Nat : n < vs.next => n < vs'.next
    BY <1>3, <1>5
  <2>2. \A n \in open.add : n \in Nat /\ n \in DOMAIN tables /\ tables[n] # {} /\ Full.next <= n /\ n < vs.next
    BY <1>1 DEF RecInv, OpenInv, MemoryTypeOK
  <2>3. vs.next < vs'.next /\ vs'.manifest < vs'.next
    BY <1>3, <1>5
  <2>4. \A n \in DOMAIN logs' : n < vs'.next
    BY <1>6, <1>8, <2>1, <2>3
  <2>5. /\ open.max_sequence <= ids /\ TableRecs(tables, open.add) \subseteq LogRecs(logs', Full.log)
        /\ acked \subseteq skipped \cup TableRecs(tables, vs.files \cup open.add) \cup RecsOf(logs', open.logs)
    BY <1>1, <1>9 DEF RecInv, OpenInv
  <2>6. QED
    BY <1>1, <1>3, <1>4, <1>5, <1>10, <2>1, <2>2, <2>3, <2>4, <2>5 DEF OpenInv
<1>17. ReplayInv'
  BY <1>1 DEF ReplayInv
<1>18. LaterInv'
  <2>1. vs.next < vs'.next /\ \A n \in DOMAIN logs' : n <= vs.next
    BY <1>3, <1>5, <1>6, <1>8
  <2>2. vs.log <= vs.next
    BY <1>3 DEF GoodView, ViewType
  <2>3. \A m \in DOMAIN manifests \cup {vs.manifest} : m < vs.next
    <3>1. \A m \in DOMAIN manifests : m \in Nat /\ current \in Nat
      BY DEF RecInv, DiskTypeOK
    <3>2. current \in Nat /\ current < Full.next
      BY <1>3 DEF RecInv, DiskTypeOK, GoodView
    <3>3. 1 < vs.next
      BY <1>3, <3>2
    <3>4. \A m \in DOMAIN manifests : m # 1 => \E l \in DOMAIN logs : l > m
      BY DEF RecInv, NumberInv
    <3>5. \A m \in DOMAIN manifests : m # 1 => m < vs.next
      BY <1>3, <1>6, <3>1, <3>4
    <3>6. QED
      BY <1>3, <3>3, <3>5
  <2>4. \A r \in TableRecs(tables, vs.files \cup open.add) : r.seq <= RecoveredLastSequence
    <3>1. TableRecs(tables, vs.files \cup open.add) = TableRecs(tables, vs.files) \cup TableRecs(tables, open.add)
      BY TablesUnion
    <3>2. \A r \in TableRecs(tables, vs.files \cup open.add) : r.seq \in Nat
      BY RecordFacts
    <3>3. \A r \in TableRecs(tables, vs.files) : r.seq <= vs.last
      BY <1>1, <1>3 DEF RecInv, ReplayInv, GoodView
    <3>4. \A r \in TableRecs(tables, open.add) : r.seq <= open.max_sequence
      BY <1>1 DEF RecInv, ReplayInv
    <3>5. \A k \in Nat : k <= vs.last \/ k <= open.max_sequence => k <= RecoveredLastSequence
      BY <1>4
    <3>6. QED
      BY <3>1, <3>2, <3>3, <3>4, <3>5
  <2>5. QED
    BY <1>1, <1>5, <1>8, <2>1, <2>2, <2>3, <2>4 DEF LaterInv
<1>19. QED
  BY <1>1, <1>10, <1>11, <1>12, <1>13, <1>15, <1>16, <1>17, <1>18, StaysIdle, OpenNext
\* The new descriptor, as it is written and synced: the one CURRENT names stays as it is.
Snapshot == <<WriteSnapshot(vs.files), EditNow(logfile_number, open.add, {})>>

\* A step that writes or syncs the new descriptor keeps the invariant.
LEMMA NewDescriptor ==
    ASSUME RecInv, pc \in Later, pc' \in {"open_sync", "open_tmp"},
           UNCHANGED <<logs, tables, current, temps, logfile_number, vs, open,
                       ids, acked, durable, skipped, dropped, opened>>,
           UNCHANGED Idle,
           DOMAIN manifests' = DOMAIN manifests \cup {vs.manifest},
           \A m \in DOMAIN manifests : m # vs.manifest => manifests'[m] = manifests[m],
           manifests'[vs.manifest] \in ManifestType, manifests'[vs.manifest].edits = Snapshot,
           manifests'[vs.manifest].synced <= 2, Len(Snapshot) = 2,
           pc' = "open_tmp" => manifests'[vs.manifest].synced = 2
    PROVE  RecInv'
<1>1. /\ current # 0 /\ current \in DOMAIN manifests /\ Full \in ViewType /\ Full.have
      /\ GoodView(Full) /\ vs.manifest = Full.next /\ ~IsUp
  BY OpenFacts
<1>2. current # vs.manifest /\ vs.manifest \in Nat
  BY <1>1 DEF GoodView, ViewType, RecInv, DiskTypeOK
<1>3. ~IsUp' /\ Known' = Known /\ Full' = Full /\ Views' = Views
  BY <1>1, <1>2, SameViews DEF IsUp, Known
<1>4. DiskTypeOK'
  BY <1>2, <1>3 DEF RecInv, DiskTypeOK
<1>5. MemoryTypeOK' /\ HistoryTypeOK'
  BY <1>3 DEF RecInv, MemoryTypeOK, HistoryTypeOK, OpenStages, Idle
<1>6. FirstInv'
  BY <1>1 DEF RecInv, FirstInv
<1>7. NumberInv'
  <2>1. logfile_number \in DOMAIN logs /\ vs.manifest < logfile_number /\ logfile_number \in Nat
    BY DEF RecInv, LaterInv, MemoryTypeOK
  <2>2. logfile_number > vs.manifest
    BY <1>2, <2>1
  <2>3. QED
    BY <2>1, <2>2 DEF RecInv, NumberInv
<1>8. ViewInv'
  BY <1>3 DEF RecInv, ViewInv, GoodView
<1>9. OpenInv' /\ ReplayInv'
  BY <1>3 DEF RecInv, OpenInv, ReplayInv, Later
<1>10. LaterInv'
  BY <1>3 DEF RecInv, LaterInv, Later, EditNow, Snapshot
<1>11. QED
  BY <1>1, <1>3, <1>4, <1>5, <1>6, <1>7, <1>8, <1>9, <1>10, StaysIdle, OpenNext

\* The two edits of the new descriptor.
LEMMA SnapshotFacts ==
    ASSUME MemoryTypeOK
    PROVE  /\ WriteSnapshot(vs.files) \in EditType /\ EditNow(logfile_number, open.add, {}) \in EditType
           /\ Snapshot \in Seq(EditType) /\ Len(Snapshot) = 2
           /\ Recovered(Snapshot) = [files |-> vs.files \cup open.add, log |-> logfile_number,
                                     next |-> vs.next, last |-> vs.last, have |-> TRUE]
<1>1. WriteSnapshot(vs.files) \in EditType /\ EditNow(logfile_number, open.add, {}) \in EditType
  BY DEF MemoryTypeOK, WriteSnapshot, EditNow, Edit, EditType
<1> DEFINE a == WriteSnapshot(vs.files)
           b == EditNow(logfile_number, open.add, {})
<1>2. Apply(Apply(NoEdits, a), b) = [files |-> vs.files \cup open.add, log |-> logfile_number,
                                     next |-> vs.next, last |-> vs.last, have |-> TRUE]
  BY DEF Apply, NoEdits, WriteSnapshot, EditNow, Edit
<1> HIDE DEF a, b
<1>3. /\ <<>> \in Seq(EditType) /\ <<a>> \in Seq(EditType) /\ <<a>> = Append(<<>>, a)
      /\ <<a, b>> = Append(<<a>>, b) /\ <<a, b>> \in Seq(EditType) /\ Len(<<a, b>>) = 2
  BY <1>1 DEF a, b
<1>4. Recovered(<<a>>) = Apply(NoEdits, a)
  BY <1>1, <1>3, RecoveredEdits DEF a
<1>5. Recovered(<<a, b>>) = Apply(Apply(NoEdits, a), b)
  BY <1>1, <1>3, <1>4, RecoveredEdits DEF b
<1>6. QED
  BY <1>1, <1>2, <1>3, <1>5 DEF Snapshot, a, b

\* CreateManifest
LEMMA CreateManifestKeeps ==
    ASSUME RecInv, CreateManifest
    PROVE  RecInv'
<1>1. /\ pc = "manifest" /\ pc' = "open_sync" /\ pc \in Later
      /\ manifests' = Put(manifests, vs.manifest, [edits |-> Snapshot, synced |-> 0])
      /\ UNCHANGED <<logs, tables, current, temps, logfile_number, vs, open,
                     ids, acked, durable, skipped, dropped, opened>>
      /\ UNCHANGED Idle
  BY DEF CreateManifest, history, Idle, Later, Snapshot
<1>2. Snapshot \in Seq(EditType) /\ Len(Snapshot) = 2
  BY SnapshotFacts DEF RecInv
<1> HIDE DEF Snapshot
<1>3. /\ DOMAIN manifests' = DOMAIN manifests \cup {vs.manifest}
      /\ \A m \in DOMAIN manifests : m # vs.manifest => manifests'[m] = manifests[m]
      /\ manifests'[vs.manifest] = [edits |-> Snapshot, synced |-> 0]
  BY <1>1 DEF Put
<1>4. /\ manifests'[vs.manifest] \in ManifestType /\ manifests'[vs.manifest].edits = Snapshot
      /\ manifests'[vs.manifest].synced <= 2
  BY <1>2, <1>3 DEF ManifestType
<1>5. QED
  BY <1>1, <1>2, <1>3, <1>4, NewDescriptor

\* SyncNewManifest
LEMMA SyncNewManifestKeeps ==
    ASSUME RecInv, SyncNewManifest
    PROVE  RecInv'
<1>1. /\ pc = "open_sync" /\ pc' = "open_tmp" /\ pc \in Later
      /\ manifests' = [manifests EXCEPT ![vs.manifest].synced = Len(manifests[vs.manifest].edits)]
      /\ UNCHANGED <<logs, tables, current, temps, logfile_number, vs, open,
                     ids, acked, durable, skipped, dropped, opened>>
      /\ UNCHANGED Idle
  BY DEF SyncNewManifest, SyncManifest, history, Idle, Later
<1>2. Snapshot \in Seq(EditType) /\ Len(Snapshot) = 2
  BY SnapshotFacts DEF RecInv
<1>3. vs.manifest \in DOMAIN manifests /\ manifests[vs.manifest].edits = Snapshot
  BY <1>1 DEF RecInv, LaterInv, Snapshot
<1> HIDE DEF Snapshot
<1>4. manifests[vs.manifest] \in ManifestType
  BY <1>3 DEF RecInv, DiskTypeOK
<1>5. /\ DOMAIN manifests' = DOMAIN manifests \cup {vs.manifest}
      /\ \A m \in DOMAIN manifests : m # vs.manifest => manifests'[m] = manifests[m]
      /\ manifests'[vs.manifest] = [manifests[vs.manifest] EXCEPT !.synced = 2]
  BY <1>1, <1>2, <1>3
<1>6. /\ manifests'[vs.manifest] \in ManifestType /\ manifests'[vs.manifest].edits = Snapshot
      /\ manifests'[vs.manifest].synced = 2
  BY <1>3, <1>4, <1>5 DEF ManifestType
<1>7. manifests'[vs.manifest].synced <= 2
  BY <1>6
<1>8. QED
  BY <1>1, <1>2, <1>5, <1>6, <1>7, NewDescriptor

\* RenameCurrent: the database is open, with what the old descriptor's tables and logs have.
LEMMA RenameCurrentKeeps ==
    ASSUME RecInv, RenameCurrent
    PROVE  RecInv'
<1> DEFINE files == vs.files \cup open.add
           store == TableRecs(tables, files)
           W == [files |-> files, log |-> logfile_number, next |-> vs.next, last |-> vs.last, have |-> TRUE]
<1>1. /\ pc = "open_rename" /\ pc' = "purge" /\ pc \in {"replay"} \cup Later /\ pc \in Later
      /\ current' = vs.manifest /\ temps' \subseteq temps /\ open' = NoOpen /\ opened'
      /\ acked' = acked \cup store /\ durable' = durable \cup store
      /\ vs' = [vs EXCEPT !.files = files, !.log = logfile_number]
      /\ UNCHANGED <<logs, tables, manifests, logfile_number, ids, skipped, dropped>>
      /\ UNCHANGED Idle
  BY DEF RenameCurrent, Installing, Idle, Later, TableRecs
<1>2. IsUp' /\ Known' = Known /\ ~bg_error' /\ opened' = TRUE
  <2>1. ~bg_error' /\ opened' = TRUE
    BY <1>1 DEF RecInv, IdleInv, Idle, RenameCurrent
  <2>2. QED
    BY <1>1, <2>1 DEF IsUp, Known
<1>3. /\ mem' = {} /\ imm' = {} /\ pending' = {} /\ held' = {} /\ writing' = {}
      /\ flush' = NoFlush /\ comp' = NoCompaction
  BY <1>1 DEF RecInv, IdleInv, Idle
<1>4. /\ Full \in ViewType /\ GoodView(Full) /\ Full.next \in Nat /\ vs.next \in Nat /\ Full.next < vs.next
      /\ vs.manifest = Full.next /\ vs.files = Full.files /\ vs.log = Full.log
  BY <1>1, OpenFacts
<1>5. /\ logfile_number \in DOMAIN logs /\ logs[logfile_number].recs = <<>>
      /\ logs[logfile_number].lost = {}
      /\ logfile_number < vs.next /\ open.logs = {}
      /\ \A n \in DOMAIN logs : n <= logfile_number
      /\ \A m \in DOMAIN manifests : m < logfile_number
      /\ \A r \in store : r.seq <= vs.last
      /\ vs.manifest \in DOMAIN manifests /\ manifests[vs.manifest].edits = Snapshot
      /\ manifests[vs.manifest].synced = 2
  BY <1>1 DEF RecInv, LaterInv, Later, Snapshot
<1>6. /\ vs.last <= ids /\ ids \in Nat /\ vs.last \in Nat /\ logfile_number \in Nat /\ vs.manifest < vs.next
      /\ files \subseteq Nat /\ open.add \subseteq Nat /\ vs.manifest # 0
  <2>1. /\ vs.last <= ids /\ ids \in Nat /\ vs.last \in Nat /\ logfile_number \in Nat /\ vs.manifest < vs.next
        /\ files \subseteq Nat /\ open.add \subseteq Nat
    BY <1>1, RecordFacts DEF RecInv, OpenInv, MemoryTypeOK
  <2>2. current \in Nat /\ current < Full.next
    BY <1>4 DEF RecInv, DiskTypeOK, GoodView
  <2>3. QED
    BY <1>4, <2>1, <2>2
<1>7. /\ vs'.files = files /\ vs'.log = logfile_number /\ vs'.next = vs.next /\ vs'.last = vs.last
      /\ vs'.manifest = vs.manifest
      /\ vs' \in [files : SUBSET Nat, log : Nat, next : Nat, last : Nat, manifest : Nat]
  BY <1>1, <1>6, RecordFacts
<1>8. PICK w : /\ w.files = files /\ w.log = logfile_number /\ w.next = vs.next /\ w.last = vs.last
               /\ w.have /\ w = W
  OBVIOUS
<1>9. Full' = w /\ Views' = {w}
  <2>1. Recovered(Snapshot) = w /\ Len(Snapshot) = 2
    BY <1>8, SnapshotFacts DEF RecInv
  <2>2. Full' = w
    BY <1>1, <1>5, <2>1 DEF Full
  <2>3. manifests[vs.manifest] \in ManifestType /\ manifests[vs.manifest].synced <= Len(manifests[vs.manifest].edits)
    BY <1>5 DEF RecInv, DiskTypeOK
  <2>4. ViewsOf(manifests[vs.manifest]) = {Recovered(Snapshot)}
    BY <1>5, <2>1, <2>3, ManifestViews
  <2>5. QED
    BY <1>1, <2>1, <2>2, <2>4 DEF Views
<1>10. LogRecs(logs, logfile_number) = {} /\ SyncedRecs(logs, logfile_number) = {}
  <2>1. \A l \in DOMAIN logs : l >= logfile_number => l = logfile_number
    BY <1>5, <1>6 DEF RecInv, DiskTypeOK
  <2>2. \A r : ~InLog(logs[logfile_number], r)
    BY <1>5 DEF InLog
  <2>3. LogRecs(logs, logfile_number) = {}
    BY <2>1, <2>2, InLogs
  <2>4. QED
    BY <2>3, RecordFacts
<1>11. Reach(tables, logs, w) = store
  BY <1>8, <1>10 DEF Reach
<1>12. OneEach(store)
  <2>1. store = TableRecs(tables, vs.files) \cup TableRecs(tables, open.add)
    BY TablesUnion
  <2>2. TableRecs(tables, open.add) \subseteq LogRecs(logs, Full.log)
    BY <1>1 DEF RecInv, OpenInv
  <2>3. store \subseteq Reach(tables, logs, Full)
    BY <1>4, <2>1, <2>2 DEF Reach
  <2>4. QED
    BY <1>4, <2>3, FewerOneEach DEF GoodView
<1>13. acked \subseteq skipped \cup store
  <2>1. RecsOf(logs, {}) = {}
    BY InRecsOf
  <2>2. QED
    BY <1>1, <1>5, <2>1 DEF RecInv, OpenInv
<1>14. store \subseteq Known
  BY RecordFacts
<1>15. \A n \in files : n \in DOMAIN tables /\ tables[n] # {} /\ n < vs.next
  <2>1. \A n \in open.add : n \in DOMAIN tables /\ tables[n] # {} /\ n < vs.next
    BY <1>1 DEF RecInv, OpenInv
  <2>2. \A n \in vs.files : n \in Nat /\ n \in DOMAIN tables /\ tables[n] # {} /\ n < Full.next
    BY <1>4, <1>6 DEF GoodView
  <2>3. \A n \in vs.files : n < vs.next
    BY <1>4, <2>2
  <2>4. QED
    BY <2>1, <2>2, <2>3
<1> HIDE DEF files, store
<1>16. DiskTypeOK'
  BY <1>1, <1>2, <1>4 DEF RecInv, DiskTypeOK
<1>17. MemoryTypeOK'
  <2>1. open' \in [logs : SUBSET Nat, add : SUBSET Nat, max_sequence : Nat]
    BY <1>1 DEF NoOpen
  <2>2. QED
    BY <1>1, <1>2, <1>7, <2>1 DEF RecInv, MemoryTypeOK, Idle
<1>18. HistoryTypeOK'
  BY <1>1, <1>2, <1>14 DEF RecInv, HistoryTypeOK
<1>19. GoodView(w)'
  <2>1. (current < w.next /\ w.log < w.next /\ w.last <= ids /\ w.next <= Full.next)'
    BY <1>1, <1>4, <1>5, <1>6, <1>8, <1>9
  <2>2. TableRecs(tables', w.files) = store
    BY <1>1, <1>8 DEF store
  <2>3. durable \subseteq acked
    BY DEF RecInv, HistoryTypeOK
  <2>4. durable' \subseteq skipped' \cup store
    BY <1>1, <1>13, <2>3
  <2>5. QED
    BY <1>1, <1>5, <1>8, <1>11, <1>12, <1>15, <2>1, <2>2, <2>4 DEF GoodView
<1>20. ViewInv'
  BY <1>1, <1>8, <1>9, <1>11, <1>13, <1>19 DEF ViewInv
<1>21. UpNumbers'
  <2>1. /\ vs'.log <= logfile_number /\ Full'.next <= vs'.next /\ vs'.log <= Full'.log
        /\ Full'.last <= vs'.last
        /\ \A v \in Views' : v.log <= logfile_number
    BY <1>4, <1>6, <1>7, <1>8, <1>9
  <2>2. QED
    BY <1>1, <1>2, <1>3, <1>5, <1>6, <1>7, <1>15, <2>1 DEF UpNumbers
<1>22. UpTables'
  BY <1>1, <1>3, <1>7, <1>15 DEF UpTables, NoFlush, NoCompaction
<1>23. UpExact'
  BY <1>3, <1>7, <1>8, <1>9 DEF UpExact, NoFlush, NoCompaction
<1>24. Around' = store /\ TableRecs(tables', vs'.files) = store /\ TableRecs(tables', Full'.files) = store
  BY <1>1, <1>7, <1>8, <1>9, <1>10 DEF Around, store
<1>25. UpRecords'
  BY <1>1, <1>3, <1>10, <1>12, <1>13, <1>24 DEF UpRecords
<1>26. UpSequences'
  BY <1>1, <1>3, <1>5, <1>7, <1>9, <1>11, <1>24 DEF UpSequences
<1>27. QED
  BY <1>1, <1>2, <1>5, <1>16, <1>17, <1>18, <1>20, <1>21, <1>22, <1>23, <1>25, <1>26, UpNext DEF UpInv

-----------------------------------------------------------------------------
(* Open fails, crashes *)

\* When the process has ended, only the disk matters.
LEMMA DownNext ==
    ASSUME RecInv, Forget, UNCHANGED <<current, ids, durable, skipped, dropped, opened>>,
           durable \subseteq acked', acked' \subseteq acked,
           DiskTypeOK', NumberInv', ViewInv',
           current # 0 => current \in DOMAIN manifests',
           ~opened => \A n \in DOMAIN logs' : logs'[n].recs = <<>> /\ logs'[n].lost = {}
    PROVE  RecInv'
<1>1. ~IsUp' /\ pc' = "down" /\ Known' = Known
  BY DEF Forget, IsUp, Known
<1>2. MemoryTypeOK'
  BY <1>1 DEF Forget, MemoryTypeOK, NotOpen, NoOpen, NoFlush, NoCompaction
<1>3. HistoryTypeOK'
  BY <1>1 DEF RecInv, HistoryTypeOK
<1>4. FirstInv'
  BY <1>1 DEF RecInv, FirstInv
<1>5. IdleInv' /\ OpenInv' /\ ReplayInv' /\ LaterInv'
  BY <1>1 DEF Forget, IdleInv, OpenInv, ReplayInv, LaterInv, Later
<1>6. QED
  BY <1>1, <1>2, <1>3, <1>4, <1>5, OpenNext

\* OpenFails: the descriptor that CURRENT names is not the one that is deleted.
LEMMA OpenFailsKeeps ==
    ASSUME RecInv, OpenFails
    PROVE  RecInv'
<1>1. /\ Forget /\ temps' \subseteq temps
      /\ UNCHANGED <<logs, tables, current, ids, acked, durable, skipped, dropped, opened>>
      /\ \/ manifests' = manifests
         \/ pc \in Later /\ manifests' = Without(manifests, {vs.manifest})
  BY DEF OpenFails, Later
<1>2. pc \in Later => current # vs.manifest
  <2> SUFFICES ASSUME pc \in Later
               PROVE  current # vs.manifest
    OBVIOUS
  <2>1. GoodView(Full) /\ vs.manifest = Full.next /\ Full.next \in Nat
    BY OpenFacts
  <2>2. current \in Nat /\ current < Full.next
    BY <2>1 DEF GoodView, RecInv, DiskTypeOK
  <2>3. QED
    BY <2>1, <2>2
<1>3. /\ \A m \in DOMAIN manifests' : m \in DOMAIN manifests /\ manifests'[m] = manifests[m]
      /\ current \in DOMAIN manifests => current \in DOMAIN manifests'
  BY <1>1, <1>2 DEF Without
<1>4. current # 0 => current \in DOMAIN manifests
  BY DEF RecInv, FirstInv
<1>5. Known' = Known
  BY <1>1 DEF Known
<1>6. DiskTypeOK' /\ NumberInv'
  BY <1>1, <1>3, <1>5 DEF RecInv, DiskTypeOK, NumberInv
<1>7. ViewInv'
  <2> SUFFICES ASSUME current # 0
               PROVE  ViewInv'
    BY <1>1 DEF ViewInv
  <2>1. Full' = Full /\ Views' = Views
    BY <1>1, <1>3, <1>4, SameViews
  <2>2. QED
    BY <1>1, <2>1 DEF RecInv, ViewInv, GoodView
<1>8. /\ durable \subseteq acked'
      /\ ~opened => \A n \in DOMAIN logs' : logs'[n].recs = <<>> /\ logs'[n].lost = {}
  BY <1>1 DEF RecInv, HistoryTypeOK, FirstInv
<1>9. QED
  BY <1>1, <1>3, <1>4, <1>6, <1>7, <1>8, DownNext

\* What a crash inside DeleteObsoleteFiles has deleted is not needed.
LEMMA PurgedFacts ==
    ASSUME RecInv, NEW l \in Purged(ObsoleteLogs), NEW t \in Purged(ObsoleteTables),
           NEW m \in Purged(ObsoleteManifests)
    PROVE  /\ current # 0 => \A v \in Views : \A x \in DOMAIN logs : x >= v.log => x \notin l
           /\ current # 0 => \A v \in Views : v.have => \A x \in v.files : x \notin t
           /\ current \notin m
           /\ l = {} \/ (IsUp /\ logfile_number \notin l)
<1>1. CASE pc = "purge" /\ ~bg_error
  <2>1. /\ Views = {Full} /\ Full.files = vs.files /\ Full.log = vs.log
    BY <1>1, PurgeFacts
  <2>2. l \subseteq ObsoleteLogs /\ t \subseteq ObsoleteTables /\ m \subseteq ObsoleteManifests
    BY <1>1 DEF Purged, MayCollect
  <2>3. IsUp
    BY <1>1 DEF IsUp
  <2>4. /\ logfile_number \in Nat /\ vs.log \in Nat /\ vs.log <= logfile_number /\ current = vs.manifest
        /\ vs.manifest \in Nat /\ \A x \in DOMAIN logs : x \in Nat
    BY <2>3, RecordFacts DEF RecInv, MemoryTypeOK, DiskTypeOK, UpInv, UpNumbers
  <2>5. \A x \in DOMAIN logs : x >= vs.log => ~(x < vs.log)
    BY <2>4
  <2>6. ~(vs.manifest < vs.manifest) /\ ~(logfile_number < vs.log)
    BY <2>4
  <2>7. /\ \A x \in DOMAIN logs : x >= vs.log => x \notin l
        /\ \A x \in vs.files : x \notin t
        /\ current \notin m /\ logfile_number \notin l
    BY <2>2, <2>4, <2>5, <2>6 DEF ObsoleteLogs, ObsoleteTables, ObsoleteManifests, Live
  <2>8. QED
    BY <2>1, <2>3, <2>7
<1>2. CASE ~(pc = "purge" /\ ~bg_error)
  <2>1. l = {} /\ t = {} /\ m = {}
    BY <1>2 DEF Purged, MayCollect
  <2>2. QED
    BY <2>1
<1>3. QED
  BY <1>1, <1>2

\* What a crash leaves of logs and of descriptors.
LogsLeft(g, h) ==
    /\ DOMAIN h = DOMAIN g
    /\ \A x \in DOMAIN g : /\ h[x] \in LogType
                           /\ g[x].synced <= h[x].synced /\ h[x].synced <= Len(h[x].recs)
                           /\ Len(h[x].recs) <= Len(g[x].recs) /\ h[x].lost = g[x].lost
                           /\ \A i \in 1 .. Len(h[x].recs) : h[x].recs[i] = g[x].recs[i]
ManifestsLeft(g, h) ==
    /\ DOMAIN h = DOMAIN g
    /\ \A x \in DOMAIN g : /\ h[x] \in ManifestType /\ h[x].synced <= Len(h[x].edits)
                           /\ Recovered(h[x].edits) \in ViewsOf(g[x])
                           /\ h[x] = g[x] \/ ViewsOf(h[x]) = {Recovered(h[x].edits)}

\* A crash: what is left of the descriptor is one of its views.
LEMMA CrashKeeps ==
    ASSUME RecInv, NEW lg, NEW mf, Crash(lg, mf), LogsLeft(logs, lg), ManifestsLeft(manifests, mf),
           acked' = durable \/ (acked' = acked /\ lg = logs /\ mf = manifests)
    PROVE  RecInv'
<1>1. PICK l \in Purged(ObsoleteLogs), t \in Purged(ObsoleteTables), m \in Purged(ObsoleteManifests) :
        /\ logs' = Without(lg, l) /\ tables' = Without(tables, t) /\ manifests' = Without(mf, m)
        /\ temps' \subseteq temps
  BY DEF Crash
<1>2. Forget /\ UNCHANGED <<current, ids, durable, skipped, dropped, opened>>
  BY DEF Crash
<1>3. /\ current # 0 => \A v \in Views : \A x \in DOMAIN logs : x >= v.log => x \notin l
      /\ current # 0 => \A v \in Views : v.have => \A x \in v.files : x \notin t
      /\ current \notin m
      /\ l = {} \/ (IsUp /\ logfile_number \notin l)
  BY PurgedFacts
<1>4. /\ DOMAIN logs' = DOMAIN logs \ l /\ \A x \in DOMAIN logs' : logs'[x] = lg[x]
      /\ DOMAIN tables' = DOMAIN tables \ t /\ \A x \in DOMAIN tables' : tables'[x] = tables[x]
      /\ DOMAIN manifests' = DOMAIN manifests \ m /\ \A x \in DOMAIN manifests' : manifests'[x] = mf[x]
  BY <1>1 DEF Without, LogsLeft, ManifestsLeft
<1>5. Known' = Known
  BY <1>2 DEF Known
<1>6. \A x \in DOMAIN logs : /\ logs[x].synced \in Nat /\ Len(logs[x].recs) \in Nat
                             /\ lg[x].synced \in Nat /\ Len(lg[x].recs) \in Nat
  BY DEF RecInv, DiskTypeOK, LogType, LogsLeft
<1>7. DiskTypeOK'
  <2>1. ASSUME NEW x \in DOMAIN logs'
        PROVE  /\ x \in Nat /\ logs'[x] \in LogType /\ logs'[x].synced <= Len(logs'[x].recs)
               /\ \A i \in 1 .. Len(logs'[x].recs) : logs'[x].recs[i] \in Known
               /\ logs'[x].lost \subseteq Known
    <3>1. x \in DOMAIN logs /\ logs'[x] = lg[x]
      BY <1>4
    <3>2. \A i \in 1 .. Len(lg[x].recs) : i \in 1 .. Len(logs[x].recs)
      BY <1>6, <3>1 DEF LogsLeft
    <3>3. QED
      BY <3>1, <3>2 DEF RecInv, DiskTypeOK, LogsLeft
  <2>2. \A x \in DOMAIN tables' : x \in Nat /\ tables'[x] \subseteq Known
    BY <1>4 DEF RecInv, DiskTypeOK
  <2>3. \A x \in DOMAIN manifests' : /\ x \in Nat /\ manifests'[x] \in ManifestType
                                     /\ manifests'[x].synced <= Len(manifests'[x].edits)
    BY <1>4 DEF RecInv, DiskTypeOK, ManifestsLeft
  <2>4. current' \in Nat /\ temps' \subseteq Nat
    BY <1>1, <1>2 DEF RecInv, DiskTypeOK
  <2>5. QED
    BY <1>5, <2>1, <2>2, <2>3, <2>4 DEF DiskTypeOK
<1>8. NumberInv'
  <2>1. CASE l = {}
    BY <1>4, <2>1 DEF RecInv, NumberInv
  <2>2. CASE IsUp /\ logfile_number \notin l
    <3>1. logfile_number \in DOMAIN logs /\ \A x \in DOMAIN manifests : x < logfile_number
      BY <2>2 DEF RecInv, UpInv, UpNumbers
    <3>2. logfile_number \in Nat /\ \A x \in DOMAIN manifests : x \in Nat
      BY DEF RecInv, MemoryTypeOK, DiskTypeOK
    <3>3. \A x \in DOMAIN manifests : logfile_number > x
      BY <3>1, <3>2
    <3>4. QED
      BY <1>4, <2>2, <3>1, <3>3 DEF NumberInv
  <2>3. QED
    BY <1>3, <2>1, <2>2
<1>9. durable \subseteq acked' /\ acked' \subseteq acked
  BY DEF RecInv, HistoryTypeOK
<1>10. ~opened => \A n \in DOMAIN logs' : logs'[n].recs = <<>> /\ logs'[n].lost = {}
  <2> SUFFICES ASSUME ~opened, NEW n \in DOMAIN logs'
               PROVE  logs'[n].recs = <<>> /\ logs'[n].lost = {}
    OBVIOUS
  <2>1. n \in DOMAIN logs /\ logs'[n] = lg[n] /\ logs[n].recs = <<>> /\ logs[n].lost = {}
    BY <1>4 DEF RecInv, FirstInv
  <2>2. lg[n].recs \in Seq(Recs) /\ Len(lg[n].recs) <= Len(logs[n].recs) /\ lg[n].lost = {}
    BY <2>1 DEF LogsLeft, LogType
  <2>3. QED
    BY <2>1, <2>2
<1>11. current # 0 => current \in DOMAIN manifests'
  BY <1>3, <1>4 DEF RecInv, FirstInv
<1>12. ViewInv'
  <2> SUFFICES ASSUME current # 0
               PROVE  ViewInv'
    BY <1>2 DEF ViewInv
  <2>1. current \in DOMAIN manifests /\ manifests'[current] = mf[current]
    BY <1>4, <1>11
  <2>2. /\ \A v \in Views : v \in ViewType /\ (opened => v.have) /\ (v.have => GoodView(v))
        /\ Full.have => acked \subseteq skipped \cup Reach(tables, logs, Full)
    BY CurrentFacts
  <2>3. Full' \in Views /\ Full' \in ViewType
    BY <1>2, <2>1, <2>2 DEF Full, Views, ManifestsLeft
  <2>4. \A v \in Views' : v \in Views /\ (v.have => v.next <= Full'.next)
    <3>1. CASE mf[current] = manifests[current]
      <4>1. Full' = Full /\ Views' = Views
        BY <1>2, <2>1, <3>1, SameViews
      <4>2. QED
        BY <2>2, <4>1 DEF GoodView
    <3>2. CASE mf[current] # manifests[current]
      <4>1. Views' = {Full'}
        BY <1>2, <2>1, <3>2 DEF Full, Views, ManifestsLeft
      <4>2. Full'.next <= Full'.next
        BY <2>3 DEF ViewType
      <4>3. QED
        BY <2>3, <4>1, <4>2
    <3>3. QED
      BY <3>1, <3>2
  <2>5. ASSUME NEW v \in Views
        PROVE  /\ LogRecs(logs', v.log) \subseteq LogRecs(logs, v.log)
               /\ SyncedRecs(logs, v.log) \subseteq SyncedRecs(logs', v.log)
    <3>1. CutFrom(logs, logs', v.log)
      BY <1>3, <1>4, <1>6 DEF CutFrom, LogsLeft
    <3>2. QED
      BY <3>1, CutLogRecs
  <2>6. ASSUME NEW v \in Views, v.have
        PROVE  TableRecs(tables', v.files) = TableRecs(tables, v.files)
    <3>1. \A x \in v.files : x \in DOMAIN tables /\ x \in DOMAIN tables' /\ tables'[x] = tables[x]
      BY <1>3, <1>4, <2>2, <2>6 DEF GoodView
    <3>2. QED
      BY <3>1, TablesSame
  <2>7. ASSUME NEW v \in Views, v.have, v.next <= Full'.next
        PROVE  GoodView(v)'
    <3>1. GoodView(v)
      BY <2>2, <2>7
    <3>2. (current < v.next /\ v.log < v.next /\ v.last <= ids /\ v.next <= Full.next)'
      BY <1>2, <2>7, <3>1 DEF GoodView
    <3>3. \A x \in v.files : x \in DOMAIN tables' /\ tables'[x] # {} /\ x < v.next
      BY <1>3, <1>4, <2>7, <3>1 DEF GoodView
    <3>4. TableRecs(tables', v.files) = TableRecs(tables, v.files)
      BY <2>6, <2>7
    <3>5. OneEach(Reach(tables', logs', v))
      <4>1. Reach(tables', logs', v) \subseteq Reach(tables, logs, v)
        BY <2>5, <3>4 DEF Reach
      <4>2. QED
        BY <3>1, <4>1, FewerOneEach DEF GoodView
    <3>6. durable' \subseteq skipped' \cup TableRecs(tables', v.files) \cup SyncedRecs(logs', v.log)
      BY <1>2, <2>5, <3>1, <3>4 DEF GoodView
    <3>7. \A r \in TableRecs(tables', v.files) : r.seq <= v.last
      BY <3>1, <3>4 DEF GoodView
    <3>8. QED
      BY <3>2, <3>3, <3>4, <3>5, <3>6, <3>7 DEF GoodView
  <2>8. \A v \in Views' : (opened' => v.have) /\ (v.have => GoodView(v)')
    BY <1>2, <2>2, <2>4, <2>7
  <2>9. Full'.have => acked' \subseteq skipped' \cup Reach(tables', logs', Full')
    <3> SUFFICES ASSUME Full'.have
                 PROVE  acked' \subseteq skipped' \cup Reach(tables', logs', Full')
      OBVIOUS
    <3>1. TableRecs(tables', Full'.files) = TableRecs(tables, Full'.files)
      BY <2>3, <2>6
    <3>2. CASE acked' = durable
      <4>1. durable \subseteq skipped \cup TableRecs(tables, Full'.files) \cup SyncedRecs(logs, Full'.log)
        BY <2>2, <2>3 DEF GoodView
      <4>2. SyncedRecs(logs, Full'.log) \subseteq SyncedRecs(logs', Full'.log)
        BY <2>3, <2>5
      <4>3. SyncedRecs(logs', Full'.log) \subseteq LogRecs(logs', Full'.log)
        <5>1. \A x \in DOMAIN logs' : /\ logs'[x].synced \in Nat /\ Len(logs'[x].recs) \in Nat
                                      /\ logs'[x].synced <= Len(logs'[x].recs)
          BY <1>4, <1>6 DEF LogsLeft
        <5>2. QED
          BY <5>1, SyncedInLogs
      <4>4. QED
        BY <1>2, <3>1, <3>2, <4>1, <4>2, <4>3 DEF Reach
    <3>3. CASE acked' = acked /\ lg = logs /\ mf = manifests
      <4>1. Full' = Full
        BY <1>2, <2>1, <3>3, SameViews
      <4>2. KeptFrom(logs, logs', Full'.log)
        BY <1>3, <1>4, <2>3, <3>3 DEF KeptFrom
      <4>3. LogRecs(logs', Full'.log) = LogRecs(logs, Full'.log)
        BY <4>2, KeptLogs
      <4>4. QED
        BY <1>2, <2>2, <3>1, <3>3, <4>1, <4>3 DEF Reach
    <3>4. QED
      BY <3>2, <3>3
  <2>10. QED
    BY <2>8, <2>9 DEF ViewInv
<1>13. QED
  BY <1>2, <1>7, <1>8, <1>9, <1>10, <1>11, <1>12, DownNext

\* ProcessCrash: nothing that was written is cut.
LEMMA ProcessCrashKeeps ==
    ASSUME RecInv, ProcessCrash
    PROVE  RecInv'
<1>1. Crash(logs, manifests) /\ acked' = acked
  BY DEF ProcessCrash
<1>2. LogsLeft(logs, logs)
  BY DEF RecInv, DiskTypeOK, LogType, LogsLeft
<1>3. ManifestsLeft(manifests, manifests)
  BY ManifestViews DEF RecInv, DiskTypeOK, ManifestsLeft
<1>4. QED
  BY <1>1, <1>2, <1>3, CrashKeeps

\* What is left after a power loss.
LEMMA CutFacts ==
    ASSUME RecInv, NEW lg \in CutLogs, NEW mf \in CutManifests
    PROVE  LogsLeft(logs, lg) /\ ManifestsLeft(manifests, mf)
<1>1. LogsLeft(logs, lg)
  <2>1. PICK k : /\ \A n \in DOMAIN logs : k[n] \in logs[n].synced .. Len(logs[n].recs)
                 /\ lg = [n \in DOMAIN logs |-> [logs[n] EXCEPT !.recs = SubSeq(@, 1, k[n]), !.synced = k[n]]]
    BY DEF CutLogs
  <2>2. DOMAIN lg = DOMAIN logs
    BY <2>1
  <2>3. ASSUME NEW n \in DOMAIN logs
        PROVE  /\ lg[n] \in LogType
               /\ logs[n].synced <= lg[n].synced /\ lg[n].synced <= Len(lg[n].recs)
               /\ Len(lg[n].recs) <= Len(logs[n].recs) /\ lg[n].lost = logs[n].lost
               /\ \A i \in 1 .. Len(lg[n].recs) : lg[n].recs[i] = logs[n].recs[i]
    <3> DEFINE s == logs[n].recs
               j == k[n]
               u == SubSeq(s, 1, j)
    <3>1. s \in Seq(Recs) /\ logs[n].synced \in Nat /\ Len(s) \in Nat /\ logs[n] \in LogType
      BY DEF RecInv, DiskTypeOK, LogType
    <3>2. j \in Nat /\ j \in 0 .. Len(s) /\ logs[n].synced <= j /\ j <= Len(s)
      <4>1. j \in logs[n].synced .. Len(s)
        BY <2>1
      <4> HIDE DEF j, s
      <4>2. QED
        BY <3>1, <4>1
    <3>3. lg[n] = [logs[n] EXCEPT !.recs = u, !.synced = j]
      BY <2>1
    <3>4. u \in Seq(Recs) /\ Len(u) = j /\ \A i \in 1 .. j : u[i] = s[i]
      BY <3>1, <3>2, Begin
    <3> HIDE DEF u, j, s
    <3>5. lg[n].recs = u /\ lg[n].synced = j /\ lg[n].lost = logs[n].lost /\ lg[n] \in LogType
      BY <3>1, <3>2, <3>3, <3>4 DEF LogType
    <3>6. j <= j
      BY <3>2
    <3>7. QED
      BY <3>2, <3>4, <3>5, <3>6 DEF s
  <2>4. QED
    BY <2>2, <2>3 DEF LogsLeft
<1>2. ManifestsLeft(manifests, mf)
  <2>1. PICK k : /\ \A n \in DOMAIN manifests : k[n] \in manifests[n].synced .. Len(manifests[n].edits)
                 /\ mf = [n \in DOMAIN manifests |->
                            [edits |-> SubSeq(manifests[n].edits, 1, k[n]), synced |-> k[n]]]
    BY DEF CutManifests
  <2>2. DOMAIN mf = DOMAIN manifests
    BY <2>1
  <2>3. ASSUME NEW n \in DOMAIN manifests
        PROVE  /\ mf[n] \in ManifestType /\ mf[n].synced <= Len(mf[n].edits)
               /\ Recovered(mf[n].edits) \in ViewsOf(manifests[n])
               /\ ViewsOf(mf[n]) = {Recovered(mf[n].edits)}
    <3> DEFINE s == manifests[n].edits
               j == k[n]
               u == SubSeq(s, 1, j)
    <3>1. /\ manifests[n] \in ManifestType /\ manifests[n].synced <= Len(manifests[n].edits)
          /\ s \in Seq(EditType) /\ manifests[n].synced \in Nat /\ Len(s) \in Nat
      BY DEF RecInv, DiskTypeOK, ManifestType
    <3>2. j \in Nat /\ j \in 0 .. Len(s) /\ j \in manifests[n].synced .. Len(manifests[n].edits)
      BY <2>1, <3>1
    <3>3. mf[n] = [edits |-> u, synced |-> j]
      BY <2>1
    <3>4. u \in Seq(EditType) /\ Len(u) = j
      BY <3>1, <3>2, Begin
    <3>5. mf[n] \in ManifestType /\ mf[n].edits = u /\ mf[n].synced = j
      <4> HIDE DEF u, j, s
      <4>1. QED
        BY <3>2, <3>3, <3>4 DEF ManifestType
    <3>6. j <= Len(u)
      BY <3>2, <3>4
    <3>7. Recovered(mf[n].edits) \in ViewsOf(manifests[n]) /\ ViewsOf(mf[n]) = {Recovered(mf[n].edits)}
      <4>1. mf[n].edits = SubSeq(manifests[n].edits, 1, j) /\ mf[n].synced = j
        BY <3>5
      <4> HIDE DEF u, j, s
      <4>2. \A x \in ManifestType :
              x.edits = SubSeq(manifests[n].edits, 1, j) /\ x.synced = j =>
                  Recovered(x.edits) \in ViewsOf(manifests[n]) /\ ViewsOf(x) = {Recovered(x.edits)}
        BY <3>1, <3>2, ManifestViews
      <4>3. QED
        BY <3>5, <4>1, <4>2
    <3>8. QED
      BY <3>5, <3>6, <3>7
  <2>4. QED
    BY <2>2, <2>3 DEF ManifestsLeft
<1>3. QED
  BY <1>1, <1>2

\* PowerLoss
LEMMA PowerLossKeeps ==
    ASSUME RecInv, PowerLoss
    PROVE  RecInv'
<1>1. PICK lg \in CutLogs, mf \in CutManifests : Crash(lg, mf)
  BY DEF PowerLoss
<1>2. acked' = durable
  BY DEF PowerLoss
<1>3. QED
  BY <1>1, <1>2, CutFacts, CrashKeeps

-----------------------------------------------------------------------------
(* The invariant *)

\* The invariant holds in a directory without a database.
LEMMA RecInvInit ==
    Init => RecInv
<1> SUFFICES ASSUME Init
             PROVE  RecInv
  OBVIOUS
<1>1. DOMAIN logs = {} /\ DOMAIN tables = {} /\ DOMAIN manifests = {}
  BY DEF Init
<1>2. DiskTypeOK
  BY <1>1 DEF Init, DiskTypeOK
<1>3. MemoryTypeOK
  BY DEF Init, MemoryTypeOK, NotOpen, NoOpen, NoFlush, NoCompaction
<1>4. HistoryTypeOK
  <2>1. 0 \in 0 .. MaxWrites
    BY RecoveryAssumption
  <2>2. ids = 0 /\ acked = {} /\ durable = {} /\ skipped = {} /\ dropped = {} /\ opened \in BOOLEAN
    BY DEF Init
  <2>3. QED
    BY <2>1, <2>2 DEF HistoryTypeOK
<1>5. FirstInv /\ NumberInv /\ ViewInv
  BY <1>1 DEF Init, FirstInv, NumberInv, ViewInv
<1>6. IdleInv /\ OpenInv /\ ReplayInv /\ LaterInv
  BY DEF Init, IdleInv, OpenInv, ReplayInv, LaterInv, Later
<1>7. ~IsUp
  BY DEF Init, IsUp
<1>8. UpInv
  BY <1>7 DEF UpInv, UpNumbers, UpTables, UpExact, UpRecords, UpSequences
<1>9. QED
  BY <1>2, <1>3, <1>4, <1>5, <1>6, <1>8 DEF RecInv

\* A step that changes nothing keeps the invariant.
LEMMA RecInvStutter ==
    ASSUME RecInv, UNCHANGED vars
    PROVE  RecInv'
<1>1. /\ logs' = logs /\ tables' = tables /\ manifests' = manifests /\ current' = current /\ temps' = temps
      /\ pc' = pc /\ mem' = mem /\ imm' = imm /\ logfile_number' = logfile_number /\ vs' = vs /\ open' = open
      /\ pending' = pending /\ held' = held /\ writing' = writing /\ flush' = flush /\ comp' = comp
      /\ bg_error' = bg_error
      /\ ids' = ids /\ acked' = acked /\ durable' = durable
      /\ skipped' = skipped /\ dropped' = dropped /\ opened' = opened
  BY DEF vars, disk, memory, history
<1>2. Known' = Known /\ Full' = Full /\ Views' = Views /\ IsUp' = IsUp /\ Around' = Around
  BY <1>1 DEF Known, Full, Views, IsUp, Around
<1>3. /\ DiskTypeOK' /\ MemoryTypeOK' /\ HistoryTypeOK' /\ FirstInv' /\ NumberInv'
      /\ ViewInv' /\ IdleInv' /\ OpenInv' /\ ReplayInv'
  <2>1. DiskTypeOK' /\ MemoryTypeOK'
    BY <1>1, <1>2 DEF RecInv, DiskTypeOK, MemoryTypeOK
  <2>2. HistoryTypeOK' /\ FirstInv' /\ NumberInv'
    BY <1>1, <1>2 DEF RecInv, HistoryTypeOK, FirstInv, NumberInv
  <2>3. ViewInv' /\ IdleInv'
    BY <1>1, <1>2 DEF RecInv, ViewInv, GoodView, IdleInv
  <2>4. OpenInv' /\ ReplayInv'
    BY <1>1, <1>2 DEF RecInv, OpenInv, ReplayInv
  <2>5. QED
    BY <2>1, <2>2, <2>3, <2>4
<1>4. LaterInv'
  BY <1>1, <1>2 DEF RecInv, LaterInv, EditNow
<1>5. UpNumbers' /\ UpTables' /\ UpExact'
  BY <1>1, <1>2 DEF RecInv, UpInv, UpNumbers, UpTables, UpExact
<1>6. UpRecords' /\ UpSequences'
  BY <1>1, <1>2 DEF RecInv, UpInv, UpRecords, UpSequences
<1>7. QED
  BY <1>3, <1>4, <1>5, <1>6 DEF RecInv, UpInv

\* Every step keeps the invariant.
LEMMA RecInvNext ==
    RecInv /\ [Next]_vars => RecInv'
<1> SUFFICES ASSUME RecInv, [Next]_vars
             PROVE  RecInv'
  OBVIOUS
<1>1. CASE DeleteObsoleteFiles
  BY <1>1, DeleteObsoleteFilesKeeps
<1>2. CASE LogRecord(TRUE)
  BY <1>2, LogRecordKeeps
<1>3. CASE LogRecord(FALSE)
  BY <1>3, LogRecordKeeps
<1>4. CASE FinishWrite
  BY <1>4, FinishWriteKeeps
<1>5. CASE SyncFails
  BY <1>5, SyncFailsKeeps
<1>6. CASE SwitchMemTable
  BY <1>6, SwitchMemTableKeeps
<1>7. CASE FlushStart
  BY <1>7, FlushStartKeeps
<1>8. CASE FlushLog
  BY <1>8, FlushLogKeeps
<1>9. CASE FlushInstall
  BY <1>9, FlushInstallKeeps
<1>10. CASE FlushFails
  BY <1>10, FlushFailsKeeps
<1>11. CASE CompactStart
  BY <1>11, CompactStartKeeps
<1>12. CASE CompactLog
  BY <1>12, CompactLogKeeps
<1>13. CASE MoveLog
  BY <1>13, MoveLogKeeps
<1>14. CASE CompactInstall
  BY <1>14, CompactInstallKeeps
<1>15. CASE CompactFails
  BY <1>15, CompactFailsKeeps
<1>16. CASE Ref \/ Unref
  BY <1>16, RefKeeps
<1>17. CASE NewDB
  BY <1>17, NewDBKeeps
<1>18. CASE WriteTemp
  BY <1>18, WriteTempKeeps
<1>19. CASE RenameNewDB
  BY <1>19, RenameNewDBKeeps
<1>20. CASE Recover
  BY <1>20, RecoverKeeps
<1>21. CASE RecoverLogFile
  BY <1>21, RecoverLogFileKeeps
<1>22. CASE RecoverLogFileFails
  BY <1>22, RecoverLogFileFailsKeeps
<1>23. CASE CreateLog
  BY <1>23, CreateLogKeeps
<1>24. CASE CreateManifest
  BY <1>24, CreateManifestKeeps
<1>25. CASE SyncNewManifest
  BY <1>25, SyncNewManifestKeeps
<1>26. CASE RenameCurrent
  BY <1>26, RenameCurrentKeeps
<1>27. CASE OpenFails
  BY <1>27, OpenFailsKeeps
<1>28. CASE ProcessCrash
  BY <1>28, ProcessCrashKeeps
<1>29. CASE PowerLoss
  BY <1>29, PowerLossKeeps
<1>30. CASE Done \/ UNCHANGED vars
  BY <1>30, RecInvStutter DEF Done
<1>31. CASE AppendFails
  BY <1>31, AppendFailsKeeps
<1>32. QED
  BY <1>1, <1>2, <1>3, <1>4, <1>5, <1>6, <1>7, <1>8, <1>9, <1>10, <1>11, <1>12, <1>13, <1>14, <1>15,
     <1>16, <1>17, <1>18, <1>19, <1>20, <1>21, <1>22, <1>23, <1>24, <1>25, <1>26, <1>27, <1>28, <1>29,
     <1>30, <1>31 DEF Next

-----------------------------------------------------------------------------
(* Records are given up only after an I/O failure *)

FailInv ==
    /\ fails \in Nat
    /\ fails = 0 => /\ skipped = {}
                    /\ \A n \in DOMAIN logs : ~logs[n].torn /\ logs[n].lost = {}

\* A step that fails, or leaves the logs' records and what was given up alone.
LEMMA FailInvEasy ==
    ASSUME FailInv,
           \/ fails' = fails + 1
           \/ /\ fails' = fails /\ skipped' = skipped
              /\ \A n \in DOMAIN logs' : \/ n \in DOMAIN logs /\ logs'[n].torn = logs[n].torn
                                            /\ logs'[n].lost = logs[n].lost
                                         \/ ~logs'[n].torn /\ logs'[n].lost = {}
    PROVE  FailInv'
BY DEF FailInv

\* A failure is counted before anything is given up.
LEMMA FailInvNext ==
    RecInv /\ FailInv /\ [Next]_vars => FailInv'
<1> SUFFICES ASSUME RecInv, FailInv, [Next]_vars
             PROVE  FailInv'
  OBVIOUS
<1>1. CASE AppendFails \/ SyncFails \/ FlushFails \/ CompactFails \/ RecoverLogFileFails \/ OpenFails
  <2>1. fails' = fails + 1
    BY <1>1 DEF AppendFails, SyncFails, FlushFails, CompactFails, RecoverLogFileFails, OpenFails
  <2>2. QED
    BY <2>1, FailInvEasy
<1>2. CASE LogRecord(TRUE) \/ LogRecord(FALSE)
  <2>1. /\ IsUp /\ fails' = fails /\ skipped' = skipped
        /\ \E rec : \/ logs' = [logs EXCEPT ![logfile_number].recs = Append(@, rec)]
                    \/ /\ logs[logfile_number].torn
                       /\ logs' = [logs EXCEPT ![logfile_number].lost = @ \cup {rec}]
    BY <1>2 DEF LogRecord, IsUp
  <2>2. \A n \in DOMAIN logs : logs[n] \in LogType
    BY DEF RecInv, DiskTypeOK
  <2>3. logfile_number \in DOMAIN logs
    BY <2>1 DEF RecInv, UpInv, UpNumbers
  <2>4. fails = 0 => ~logs[logfile_number].torn
    BY <2>3 DEF FailInv
  <2>5. fails = 0 => \A n \in DOMAIN logs' : n \in DOMAIN logs /\ logs'[n].torn = logs[n].torn
                                             /\ logs'[n].lost = logs[n].lost
    BY <2>1, <2>2, <2>4 DEF LogType
  <2>6. QED
    BY <2>1, <2>5 DEF FailInv
<1>3. CASE FinishWrite
  <2>1. /\ fails' = fails /\ skipped' = skipped
        /\ \/ logs' = logs
           \/ logs' = [logs EXCEPT ![logfile_number].synced = Len(logs[logfile_number].recs)]
    BY <1>3 DEF FinishWrite
  <2>2. \A n \in DOMAIN logs : logs[n] \in LogType
    BY DEF RecInv, DiskTypeOK
  <2>3. \A n \in DOMAIN logs' : n \in DOMAIN logs /\ logs'[n].torn = logs[n].torn
                                /\ logs'[n].lost = logs[n].lost
    BY <2>1, <2>2 DEF LogType
  <2>4. QED
    BY <2>1, <2>3, FailInvEasy
<1>4. CASE SwitchMemTable \/ CreateLog
  <2>1. fails' = fails /\ skipped' = skipped /\ logs' = Put(logs, vs.next, NewLog)
    BY <1>4 DEF SwitchMemTable, CreateLog, history
  <2>2. ~NewLog.torn /\ NewLog.lost = {}
    BY DEF NewLog
  <2>3. \A n \in DOMAIN logs' : (n \in DOMAIN logs /\ logs'[n] = logs[n]) \/ logs'[n] = NewLog
    BY <2>1 DEF Put
  <2>4. QED
    BY <2>1, <2>2, <2>3, FailInvEasy
<1>5. CASE RecoverLogFile
  <2>1. /\ pc = "replay" /\ open.logs # {} /\ logs' = logs /\ fails' = fails
        /\ skipped' = skipped \cup NextLost
    BY <1>5 DEF RecoverLogFile, NextLost, NextLog
  <2>2. NextLog \in DOMAIN logs
    BY <2>1, ReplayFacts
  <2>3. QED
    BY <2>1, <2>2 DEF FailInv, NextLost
<1>6. CASE DeleteObsoleteFiles
  <2>1. fails' = fails /\ skipped' = skipped /\ (logs' = logs \/ logs' = Without(logs, ObsoleteLogs))
    BY <1>6 DEF DeleteObsoleteFiles, history
  <2>2. \A n \in DOMAIN logs' : n \in DOMAIN logs /\ logs'[n] = logs[n]
    BY <2>1 DEF Without
  <2>3. QED
    BY <2>1, <2>2, FailInvEasy
<1>7. CASE ProcessCrash \/ PowerLoss
  <2>1. PICK lg : /\ \E mf : Crash(lg, mf)
                  /\ lg = logs \/ lg \in CutLogs
    BY <1>7 DEF ProcessCrash, PowerLoss
  <2>2. fails' = fails /\ skipped' = skipped /\ \E l : logs' = Without(lg, l)
    BY <2>1 DEF Crash
  <2>3. \A n \in DOMAIN logs : logs[n] \in LogType
    BY DEF RecInv, DiskTypeOK
  <2>4. \A n \in DOMAIN lg : n \in DOMAIN logs /\ lg[n].torn = logs[n].torn /\ lg[n].lost = logs[n].lost
    BY <2>1, <2>3 DEF CutLogs, LogType
  <2>5. \A n \in DOMAIN logs' : n \in DOMAIN lg /\ logs'[n] = lg[n]
    BY <2>2 DEF Without
  <2>6. QED
    BY <2>2, <2>4, <2>5, FailInvEasy
<1>8. CASE FlushStart \/ FlushLog \/ FlushInstall \/ CompactStart \/ CompactLog \/ MoveLog \/ CompactInstall
           \/ Ref \/ Unref \/ NewDB \/ WriteTemp \/ RenameNewDB \/ Recover \/ CreateManifest
           \/ SyncNewManifest \/ RenameCurrent \/ Done \/ UNCHANGED vars
  <2>1. fails' = fails /\ skipped' = skipped /\ logs' = logs
    BY <1>8 DEF FlushStart, FlushLog, FlushInstall, CompactStart, CompactLog, MoveLog, CompactInstall,
                Ref, Unref, NewDB, WriteTemp, RenameNewDB, Recover, CreateManifest, SyncNewManifest,
                RenameCurrent, Done, vars, disk, history
  <2>2. QED
    BY <2>1, FailInvEasy
<1>9. QED
  BY <1>1, <1>2, <1>3, <1>4, <1>5, <1>6, <1>7, <1>8 DEF Next

-----------------------------------------------------------------------------
(* What it implies *)

\* While the database is open, what can be read is in the descriptor's tables and the logs.
LEMMA StoreFacts ==
    ASSUME RecInv, IsUp
    PROVE  /\ Store = mem \cup imm \cup TableRecs(tables, vs.files)
           /\ Store \subseteq Around /\ OneEach(Store) /\ \A r \in Store : r.seq <= vs.last
<1>1. Store = mem \cup imm \cup TableRecs(tables, vs.files)
  BY DEF Store, TableRecs
<1>2. LogRecs(logs, logfile_number) \subseteq LogRecs(logs, vs.log)
  <2>1. vs.log \in Nat /\ logfile_number \in Nat /\ vs.log <= logfile_number /\ \A l \in DOMAIN logs : l \in Nat
    BY RecordFacts DEF RecInv, MemoryTypeOK, DiskTypeOK, UpInv, UpNumbers
  <2>2. QED
    BY <2>1, LogsMore
<1>3. Store \subseteq Around
  BY <1>1, <1>2 DEF RecInv, UpInv, UpRecords, Around
<1>4. OneEach(Store)
  BY <1>3, FewerOneEach DEF RecInv, UpInv, UpRecords
<1>5. \A r \in Store : r.seq <= vs.last
  BY <1>1 DEF RecInv, UpInv, UpSequences
<1>6. QED
  BY <1>1, <1>3, <1>4, <1>5

\* The invariant implies the properties.
LEMMA RecInvImplies ==
    RecInv /\ FailInv => NothingLost /\ NeededTablesExist /\ NumbersFresh /\ OpensAgain
<1> SUFFICES ASSUME RecInv, FailInv
             PROVE  NothingLost /\ NeededTablesExist /\ NumbersFresh /\ OpensAgain
  OBVIOUS
<1>1. NothingLost
  BY StoreFacts DEF NothingLost, IsUp, RecInv, UpInv, UpRecords, FailInv
<1>2. NeededTablesExist
  BY DEF NeededTablesExist, IsUp, RecInv, UpInv, UpTables
<1>3. OpensAgain
  BY DEF OpensAgain, RecInv, FirstInv
<1>4. NumbersNotReused
  BY StoreFacts DEF NumbersNotReused, IsUp, OneEach
<1>5. FileNumbersFresh
  <2> SUFFICES ASSUME pc = "up"
               PROVE  \A n \in DOMAIN logs \cup DOMAIN tables \cup DOMAIN manifests : n < vs.next
    BY DEF FileNumbersFresh
  <2>1. /\ \A n \in DOMAIN logs : n <= logfile_number /\ n \in Nat
        /\ \A n \in DOMAIN manifests : n < logfile_number /\ n \in Nat
        /\ \A n \in DOMAIN tables : n < vs.next
        /\ logfile_number < vs.next /\ logfile_number \in Nat /\ vs.next \in Nat
    BY RecordFacts DEF IsUp, RecInv, UpInv, UpNumbers, DiskTypeOK, MemoryTypeOK
  <2>2. QED
    BY <2>1
<1>6. TypeOK
  <2>1. Known \subseteq Recs
    BY RecordFacts
  <2>2. \A n \in DOMAIN logs : n \in Nat /\ logs[n].recs \in Seq(Recs) /\ logs[n].lost \subseteq Recs
                               /\ logs[n].synced \in 0 .. Len(logs[n].recs)
    BY DEF RecInv, DiskTypeOK, LogType
  <2>3. \A n \in DOMAIN tables : n \in Nat /\ tables[n] \subseteq Recs
    BY <2>1 DEF RecInv, DiskTypeOK
  <2>4. \A n \in DOMAIN manifests : n \in Nat /\ manifests[n].synced \in 0 .. Len(manifests[n].edits)
    BY DEF RecInv, DiskTypeOK, ManifestType
  <2>5. Cardinality(writing) <= 1
    <3>1. CASE writing = {}
      BY <3>1, FS_EmptySet
    <3>2. CASE writing # {}
      <4>1. IsUp
        BY <3>2 DEF RecInv, IdleInv, IsUp
      <4>2. PICK w \in writing : writing = {w}
        BY <3>2, <4>1 DEF RecInv, UpInv, UpSequences
      <4>3. QED
        BY <4>2, FS_Singleton
    <3>3. QED
      BY <3>1, <3>2
  <2>6. IsUp => vs.log <= logfile_number /\ logfile_number < vs.next
    BY DEF RecInv, UpInv, UpNumbers
  <2>7. /\ current \in Nat /\ temps \subseteq Nat /\ pending \subseteq Nat
        /\ pc \in OpenStages \cup {"down", "up", "purge", "corrupt"}
        /\ mem \subseteq Recs /\ imm \subseteq Recs
        /\ durable \subseteq acked /\ acked \subseteq Recs /\ dropped \subseteq skipped /\ skipped \subseteq Recs
    BY <2>1 DEF RecInv, DiskTypeOK, MemoryTypeOK, HistoryTypeOK
  <2>8. QED
    BY <2>2, <2>3, <2>4, <2>5, <2>6, <2>7 DEF TypeOK, IsUp
<1>7. QED
  BY <1>1, <1>2, <1>3, <1>4, <1>5, <1>6 DEF NumbersFresh

\* The inductive invariant holds in every state of every behaviour.
THEOREM RecoveryInvariant ==
    Spec => [](RecInv /\ FailInv)
<1>1. Init => FailInv
  BY DEF Init, FailInv
<1>2. QED
  BY <1>1, RecInvInit, RecInvNext, FailInvNext, PTL DEF Spec

\* No acknowledged write is lost by process crashes, and after a power loss no write that was
\* synced, flushed or seen by an earlier Open, whatever number of writes, crashes and failures,
\* except what an Open went on without after a failure (see NothingLost).
THEOREM NoWriteLost ==
    Spec => []NothingLost
BY RecoveryInvariant, RecInvImplies, PTL

\* No table of the current Version, of a Version a reader holds or of the compaction under way
\* is deleted.
THEOREM NoTableLost ==
    Spec => []NeededTablesExist
BY RecoveryInvariant, RecInvImplies, PTL

\* Sequence and file numbers are never given out twice.
THEOREM NoNumberReused ==
    Spec => []NumbersFresh
BY RecoveryInvariant, RecInvImplies, PTL

\* A database that was open once opens again after any crash.
THEOREM AlwaysOpens ==
    Spec => []OpensAgain
BY RecoveryInvariant, RecInvImplies, PTL
=============================================================================
