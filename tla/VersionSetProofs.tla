-------------------------- MODULE VersionSetProofs --------------------------
(***************************************************************************)
(* Versions and tables, for any set of readers, keys, levels and flushed   *)
(* memtables, and any number of reads, flushes, compactions and failures:  *)
(* references are exact, so a Version lives as long as somebody holds it   *)
(* and a FileMetaData as long as a Version lists it, and a table stays on  *)
(* disk as long as it may be read (VersionsKept).                          *)
(*                                                                         *)
(* The invariant VsInv counts.  RefState says of both maps that every      *)
(* table's count is the number of Versions that list it, with the one that *)
(* LogAndApply is building; Held, that every Version's count is the number *)
(* of its holders and that only held Versions are alive.  The rest says    *)
(* what each holder relies on while mutex_ is released.                    *)
(***************************************************************************)
EXTENDS VersionSet, FiniteSetTheorems, NatLemmas, TLAPS

Ids == Nat \ {0}
FilesType == [VLevels -> SUBSET Ids]
Upper == 0 .. kNumLevels - 2

IsRecs(recs) == DOMAIN recs \subseteq VersionKeys /\ DOMAIN recs /= {}
IsMeta(m) == /\ {"num", "recs", "refs", "allowed_seeks"} \subseteq DOMAIN m
             /\ m.num \in Nat /\ m.refs \in Nat /\ IsRecs(m.recs)
IsVersion(w) == /\ {"files", "refs", "file_to_compact", "file_to_compact_level"} \subseteq DOMAIN w
                /\ w.files \in FilesType /\ w.refs \in Nat
                /\ w.file_to_compact /= NoFile =>
                      /\ w.file_to_compact_level \in Upper
                      /\ w.file_to_compact \in w.files[w.file_to_compact_level]

\* The Versions that list table o.
Listing(versions, o) == {v \in DOMAIN versions : o \in AllFiles(versions[v].files)}

\* Both maps are finite and every table that is listed, by a Version or in the one that is being
\* built (its tables are B), is there, counted once for each.
RefState(versions, meta, B) ==
    /\ IsFiniteSet(DOMAIN versions) /\ DOMAIN versions \subseteq Ids
    /\ IsFiniteSet(DOMAIN meta) /\ DOMAIN meta \subseteq Ids /\ B \subseteq DOMAIN meta
    /\ \A v \in DOMAIN versions : IsVersion(versions[v]) /\ AllFiles(versions[v].files) \subseteq DOMAIN meta
    /\ \A o \in DOMAIN meta :
          /\ IsMeta(meta[o])
          /\ meta[o].refs = Cardinality(Listing(versions, o)) + (IF o \in B THEN 1 ELSE 0)

\* The Versions that are alive are those somebody holds, H(v) times.
Held(versions, H) ==
    /\ H \in [Ids -> Nat] /\ DOMAIN versions = {v \in Ids : H[v] > 0}
    /\ \A v \in DOMAIN versions : versions[v].refs = H[v]

BuiltFiles == IF vs_built = None THEN {} ELSE AllFiles(vs_built)
Holders == [v \in Ids |-> VersionHolders(v)]

ReadType == [pc : {"idle", "get", "hold", "charge"}, version : Nat, key : VersionKeys \cup {0},
             seek_file : Nat, seek_level : Upper \cup {-1}, reads : Nat,
             got : {"none", "found", "missing", "error"}]

\* Threads
ReadersInv ==
    /\ vs_read \in [VersionReaders -> ReadType]
    /\ \A t \in VersionReaders :
          /\ vs_read[t].pc /= "idle" => vs_read[t].version \in DOMAIN vs_versions
          /\ vs_read[t].pc = "get" => vs_read[t].key \in VersionKeys
          /\ vs_read[t].seek_file /= NoFile =>
                /\ vs_read[t].pc = "charge" /\ vs_read[t].seek_level \in Upper
                /\ vs_read[t].seek_file \in FilesOf(vs_read[t].version, vs_read[t].seek_level)

\* The flush under way: its table is new and protected until LogAndApply has it.
FlushInv ==
    vs_flush /= None =>
        /\ {"num", "base", "recs"} \subseteq DOMAIN vs_flush
        /\ IsRecs(vs_flush.recs) /\ vs_flush.num \in 1 .. vs_next - 1
        /\ IF vs_built = None THEN vs_flush.base \in DOMAIN vs_versions /\ vs_flush.num \in vs_pending
           ELSE vs_flush.base = 0
        /\ vs_built = None =>
              \A o \in DOMAIN vs_meta : vs_meta[o].num /= vs_flush.num
        /\ vs_job /= None => vs_job.num /= vs_flush.num /\ ~vs_job.move

\* The compaction under way: its inputs are tables of the Version it holds.
JobInv ==
    vs_job /= None =>
        /\ {"level", "in", "version", "move", "num"} \subseteq DOMAIN vs_job
        /\ vs_job.move \in BOOLEAN /\ vs_job.version \in DOMAIN vs_versions /\ vs_job.level \in Upper
        /\ vs_job.in[1] \subseteq FilesOf(vs_job.version, vs_job.level)
        /\ vs_job.in[2] \subseteq FilesOf(vs_job.version, vs_job.level + 1)
        /\ vs_job.num \in 0 .. vs_next - 1
        /\ vs_job.num /= 0 => vs_job.num \in vs_pending
        /\ vs_job.move => vs_built /= None /\ vs_job.num = 0

BuiltInv ==
    vs_built /= None => /\ vs_built \in FilesType
                        /\ vs_flush /= None \/ vs_job /= None

\* Files
DiskInv ==
    /\ vs_next \in Ids /\ vs_error \in BOOLEAN
    /\ \A o \in DOMAIN vs_meta : vs_meta[o].num < vs_next
    /\ TablesKept

\* The inductive invariant.
VsInv ==
    /\ RefState(vs_versions, vs_meta, BuiltFiles)
    /\ Held(vs_versions, Holders) /\ vs_current \in DOMAIN vs_versions
    /\ ReadersInv /\ FlushInv /\ JobInv /\ BuiltInv /\ DiskInv

\* A table keeps its number and its records as long as it lives.
KeepsMeta(meta, meta2) ==
    \A o \in DOMAIN meta2 : o \in DOMAIN meta /\ meta2[o].num = meta[o].num /\ meta2[o].recs = meta[o].recs

\* Each table of S has lost a reference, or was deleted with its last one.
LessOne(meta, S, meta2) ==
    /\ DOMAIN meta2 = {o \in DOMAIN meta : o \in S => meta[o].refs > 1}
    /\ \A o \in DOMAIN meta2 :
          /\ o \in DOMAIN meta /\ IsMeta(meta2[o])
          /\ meta2[o].refs = IF o \in S THEN meta[o].refs - 1 ELSE meta[o].refs

\* So does a Version, and it keeps the table it wants compacted.
KeepsVersions(versions, versions2) ==
    \A v \in DOMAIN versions2 :
        /\ v \in DOMAIN versions /\ versions2[v].files = versions[v].files

-----------------------------------------------------------------------------
(* Reference counts *)

\* The Versions that list a table are finitely many.
LEMMA ListingFinite ==
    ASSUME NEW versions, NEW o, IsFiniteSet(DOMAIN versions)
    PROVE  IsFiniteSet(Listing(versions, o)) /\ Cardinality(Listing(versions, o)) \in Nat
<1>1. Listing(versions, o) \in SUBSET DOMAIN versions
  BY DEF Listing
<1>2. IsFiniteSet(Listing(versions, o))
  BY <1>1, FS_Subset
<1>3. QED
  BY <1>2, FS_CardinalityType

\* What ~Version and delete f leave of the tables.
LEMMA UnlinkedMeta ==
    ASSUME NEW meta, NEW S, NEW meta2, meta2 = Unlinked(meta, S),
           \A o \in DOMAIN meta : IsMeta(meta[o])
    PROVE  LessOne(meta, S, meta2) /\ KeepsMeta(meta, meta2)
<1>1. /\ DOMAIN meta2 = {o \in DOMAIN meta : o \in S => meta[o].refs > 1}
      /\ \A o \in DOMAIN meta2 :
            meta2[o] = IF o \in S THEN [meta[o] EXCEPT !.refs = @ - 1] ELSE meta[o]
  BY DEF Unlinked
<1>2. ASSUME NEW o \in DOMAIN meta2
      PROVE  /\ o \in DOMAIN meta /\ IsMeta(meta2[o])
             /\ meta2[o].refs = IF o \in S THEN meta[o].refs - 1 ELSE meta[o].refs
             /\ meta2[o].num = meta[o].num /\ meta2[o].recs = meta[o].recs
  <2>1. o \in DOMAIN meta /\ IsMeta(meta[o]) /\ (o \in S => meta[o].refs > 1)
    BY <1>1
  <2>2. PICK m, m2 : m = meta[o] /\ m2 = meta2[o]
    OBVIOUS
  <2>3. CASE o \in S
    <3>1. m2 = [m EXCEPT !.refs = @ - 1] /\ IsMeta(m) /\ m.refs > 1
      BY <1>1, <2>1, <2>2, <2>3
    <3>2. DOMAIN m2 = DOMAIN m /\ m2.refs = m.refs - 1 /\ m2.num = m.num /\ m2.recs = m.recs
      BY <3>1 DEF IsMeta
    <3>3. IsMeta(m2)
      BY <3>1, <3>2 DEF IsMeta
    <3>4. QED
      BY <2>1, <2>2, <2>3, <3>2, <3>3
  <2>4. CASE o \notin S
    BY <1>1, <2>1, <2>4
  <2>5. QED
    BY <2>3, <2>4
<1>3. QED
  BY <1>1, <1>2 DEF KeepsMeta, LessOne

\* ~Version: the counts stay exact, and a table goes with the last Version that lists it.
LEMMA DropVersion ==
    ASSUME NEW versions, NEW meta, NEW B, NEW v \in DOMAIN versions, RefState(versions, meta, B),
           NEW versions2, versions2 = Restrict(versions, DOMAIN versions \ {v}),
           NEW meta2, meta2 = Unlinked(meta, AllFiles(versions[v].files))
    PROVE  RefState(versions2, meta2, B) /\ KeepsMeta(meta, meta2)
<1>1. PICK S : S = AllFiles(versions[v].files)
  OBVIOUS
<1>2. /\ DOMAIN versions2 = DOMAIN versions \ {v}
      /\ \A u \in DOMAIN versions2 : versions2[u] = versions[u]
  BY DEF Restrict
<1>3. /\ DOMAIN meta2 = {o \in DOMAIN meta : o \in S => meta[o].refs > 1}
      /\ \A o \in DOMAIN meta2 :
            /\ o \in DOMAIN meta /\ IsMeta(meta2[o])
            /\ meta2[o].refs = IF o \in S THEN meta[o].refs - 1 ELSE meta[o].refs
      /\ KeepsMeta(meta, meta2)
  <2>1. (\A o \in DOMAIN meta : IsMeta(meta[o])) /\ meta2 = Unlinked(meta, S)
    BY <1>1 DEF RefState
  <2>2. LessOne(meta, S, meta2) /\ KeepsMeta(meta, meta2)
    BY ONLY <2>1, UnlinkedMeta
  <2>3. QED
    BY <2>2 DEF LessOne
<1>4. ASSUME NEW o \in DOMAIN meta
      PROVE  /\ meta[o].refs = Cardinality(Listing(versions, o)) + (IF o \in B THEN 1 ELSE 0)
             /\ Cardinality(Listing(versions, o)) \in Nat /\ Cardinality(Listing(versions2, o)) \in Nat
             /\ Cardinality(Listing(versions2, o)) =
                   IF o \in S THEN Cardinality(Listing(versions, o)) - 1 ELSE Cardinality(Listing(versions, o))
             /\ \A u \in DOMAIN versions2 : o \in AllFiles(versions[u].files) =>
                   Cardinality(Listing(versions2, o)) > 0
  <2>1. Listing(versions2, o) = Listing(versions, o) \ {v} /\ (v \in Listing(versions, o) <=> o \in S)
    BY <1>1, <1>2 DEF Listing
  <2>2. PICK L, L2 : L = Listing(versions, o) /\ L2 = Listing(versions2, o)
    OBVIOUS
  <2>3. IsFiniteSet(DOMAIN versions) /\ IsFiniteSet(DOMAIN versions2)
    BY <1>2, FS_RemoveElement DEF RefState
  <2>4. IsFiniteSet(L) /\ IsFiniteSet(L2) /\ Cardinality(L) \in Nat /\ Cardinality(L2) \in Nat
    BY <2>2, <2>3, ListingFinite
  <2>5. Cardinality(L2) = IF v \in L THEN Cardinality(L) - 1 ELSE Cardinality(L)
    BY <2>1, <2>2, <2>4, FS_RemoveElement
  <2>6. ASSUME NEW u \in DOMAIN versions2, o \in AllFiles(versions[u].files)
        PROVE  Cardinality(L2) > 0
    <3>1. u \in L2
      BY <1>2, <2>2, <2>6 DEF Listing
    <3>2. QED
      BY <2>4, <3>1, FS_EmptySet
  <2>7. QED
    BY <2>1, <2>2, <2>4, <2>5, <2>6 DEF RefState
<1>5. ASSUME NEW u \in DOMAIN versions2
      PROVE  IsVersion(versions2[u]) /\ AllFiles(versions2[u].files) \subseteq DOMAIN meta2
  <2>1. u \in DOMAIN versions /\ versions2[u] = versions[u] /\ IsVersion(versions[u])
        /\ AllFiles(versions[u].files) \subseteq DOMAIN meta
    BY <1>2 DEF RefState
  <2>2. ASSUME NEW o \in AllFiles(versions[u].files), o \in S
        PROVE  meta[o].refs > 1
    <3>1. o \in DOMAIN meta
      BY <2>1
    <3>2. PICK c, c2 : c = Cardinality(Listing(versions, o)) /\ c2 = Cardinality(Listing(versions2, o))
      OBVIOUS
    <3>3. c \in Nat /\ c2 \in Nat /\ c2 = c - 1 /\ c2 > 0 /\ meta[o].refs = c + (IF o \in B THEN 1 ELSE 0)
      BY <1>4, <2>2, <3>1, <3>2
    <3>4. QED
      BY <3>3
  <2>3. QED
    BY <1>3, <2>1, <2>2
<1>6. B \subseteq DOMAIN meta2
  <2> SUFFICES ASSUME NEW o \in B, o \in S
               PROVE  meta[o].refs > 1
    BY <1>3 DEF RefState
  <2>1. o \in DOMAIN meta
    BY DEF RefState
  <2>2. PICK c, c2 : c = Cardinality(Listing(versions, o)) /\ c2 = Cardinality(Listing(versions2, o))
    OBVIOUS
  <2>3. c \in Nat /\ c2 \in Nat /\ c2 = c - 1 /\ meta[o].refs = c + 1
    BY <1>4, <2>1, <2>2
  <2>4. QED
    BY <2>3
<1>7. ASSUME NEW o \in DOMAIN meta2
      PROVE  meta2[o].refs = Cardinality(Listing(versions2, o)) + (IF o \in B THEN 1 ELSE 0)
  <2>1. o \in DOMAIN meta
    BY <1>3
  <2>2. PICK c, c2 : c = Cardinality(Listing(versions, o)) /\ c2 = Cardinality(Listing(versions2, o))
    OBVIOUS
  <2>3. /\ c \in Nat /\ c2 \in Nat /\ c2 = (IF o \in S THEN c - 1 ELSE c)
        /\ meta[o].refs = c + (IF o \in B THEN 1 ELSE 0)
        /\ meta2[o].refs = IF o \in S THEN meta[o].refs - 1 ELSE meta[o].refs
    BY <1>3, <1>4, <2>1, <2>2
  <2>4. meta2[o].refs = c2 + (IF o \in B THEN 1 ELSE 0)
    BY <2>3
  <2>5. QED
    BY <2>2, <2>4
<1>8. /\ IsFiniteSet(DOMAIN versions2) /\ DOMAIN versions2 \subseteq Ids
      /\ IsFiniteSet(DOMAIN meta2) /\ DOMAIN meta2 \subseteq Ids
  <2>1. DOMAIN meta2 \in SUBSET DOMAIN meta
    BY <1>3
  <2>2. QED
    BY <1>2, <2>1, FS_RemoveElement, FS_Subset DEF RefState
<1>9. QED
  BY <1>3, <1>5, <1>6, <1>7, <1>8 DEF RefState

\* delete v when the descriptor could not be written: the same for the Version that was built.
LEMMA DropBuilt ==
    ASSUME NEW versions, NEW meta, NEW B, RefState(versions, meta, B),
           NEW meta2, meta2 = Unlinked(meta, B)
    PROVE  RefState(versions, meta2, {}) /\ KeepsMeta(meta, meta2)
<1>1. /\ DOMAIN meta2 = {o \in DOMAIN meta : o \in B => meta[o].refs > 1}
      /\ \A o \in DOMAIN meta2 :
            /\ o \in DOMAIN meta /\ IsMeta(meta2[o])
            /\ meta2[o].refs = IF o \in B THEN meta[o].refs - 1 ELSE meta[o].refs
      /\ KeepsMeta(meta, meta2)
  <2>1. (\A o \in DOMAIN meta : IsMeta(meta[o])) /\ meta2 = Unlinked(meta, B)
    BY DEF RefState
  <2>2. LessOne(meta, B, meta2) /\ KeepsMeta(meta, meta2)
    BY ONLY <2>1, UnlinkedMeta
  <2>3. QED
    BY <2>2 DEF LessOne
<1>2. ASSUME NEW o \in DOMAIN meta
      PROVE  /\ meta[o].refs = Cardinality(Listing(versions, o)) + (IF o \in B THEN 1 ELSE 0)
             /\ Cardinality(Listing(versions, o)) \in Nat
             /\ \A u \in DOMAIN versions : o \in AllFiles(versions[u].files) =>
                   Cardinality(Listing(versions, o)) > 0
  <2>1. PICK L : L = Listing(versions, o)
    OBVIOUS
  <2>2. IsFiniteSet(L) /\ Cardinality(L) \in Nat
    BY <2>1, ListingFinite DEF RefState
  <2>3. ASSUME NEW u \in DOMAIN versions, o \in AllFiles(versions[u].files)
        PROVE  Cardinality(L) > 0
    <3>1. u \in L
      BY <2>1, <2>3 DEF Listing
    <3>2. QED
      BY <2>2, <3>1, FS_EmptySet
  <2>4. QED
    BY <2>1, <2>2, <2>3 DEF RefState
<1>3. ASSUME NEW u \in DOMAIN versions
      PROVE  AllFiles(versions[u].files) \subseteq DOMAIN meta2
  <2>1. AllFiles(versions[u].files) \subseteq DOMAIN meta
    BY DEF RefState
  <2>2. ASSUME NEW o \in AllFiles(versions[u].files), o \in B
        PROVE  meta[o].refs > 1
    <3>1. o \in DOMAIN meta
      BY <2>1
    <3>2. PICK c : c = Cardinality(Listing(versions, o))
      OBVIOUS
    <3>3. c \in Nat /\ c > 0 /\ meta[o].refs = c + 1
      BY <1>2, <2>2, <3>1, <3>2
    <3>4. QED
      BY <3>3
  <2>3. QED
    BY <1>1, <2>1, <2>2
<1>4. ASSUME NEW o \in DOMAIN meta2
      PROVE  meta2[o].refs = Cardinality(Listing(versions, o)) + (IF o \in {} THEN 1 ELSE 0)
  <2>1. o \in DOMAIN meta
    BY <1>1
  <2>2. PICK c : c = Cardinality(Listing(versions, o))
    OBVIOUS
  <2>3. /\ c \in Nat /\ meta[o].refs = c + (IF o \in B THEN 1 ELSE 0)
        /\ meta2[o].refs = IF o \in B THEN meta[o].refs - 1 ELSE meta[o].refs
    BY <1>1, <1>2, <2>1, <2>2
  <2>4. meta2[o].refs = c + 0
    BY <2>3
  <2>5. QED
    BY <2>2, <2>4
<1>5. IsFiniteSet(DOMAIN meta2) /\ DOMAIN meta2 \subseteq Ids
  <2>1. DOMAIN meta2 \in SUBSET DOMAIN meta
    BY <1>1
  <2>2. QED
    BY <2>1, FS_Subset DEF RefState
<1>6. QED
  BY <1>1, <1>3, <1>4, <1>5 DEF RefState

\* The maps with other statistics or counts of Versions: the same tables are listed.
LEMMA SameListings ==
    ASSUME NEW versions, NEW meta, NEW B, RefState(versions, meta, B), NEW versions2, NEW meta2,
           DOMAIN versions2 = DOMAIN versions, DOMAIN meta2 = DOMAIN meta,
           \A v \in DOMAIN versions : IsVersion(versions2[v]) /\ versions2[v].files = versions[v].files,
           \A o \in DOMAIN meta : IsMeta(meta2[o]) /\ meta2[o].refs = meta[o].refs
    PROVE  RefState(versions2, meta2, B)
<1>1. ASSUME NEW o
      PROVE  Listing(versions2, o) = Listing(versions, o)
  BY DEF Listing
<1>2. QED
  BY <1>1 DEF RefState

\* The same counts, one more or one less for Version v.
More(H, v) == [H EXCEPT ![v] = @ + 1]
Less(H, v) == [H EXCEPT ![v] = @ - 1]

\* What a step on the maps promises.
StepOK(versions, meta, versions2, meta2, B, H2) ==
    /\ RefState(versions2, meta2, B) /\ Held(versions2, H2)
    /\ KeepsMeta(meta, meta2) /\ KeepsVersions(versions, versions2)

\* Version v has n references, and nothing else is different.
OnlyRefs(versions, v, n, versions2) ==
    /\ DOMAIN versions2 = DOMAIN versions
    /\ \A u \in DOMAIN versions : /\ versions2[u].files = versions[u].files
                                  /\ versions2[u].refs = IF u = v THEN n ELSE versions[u].refs

\* A Version with another count.
LEMMA SetRefs ==
    ASSUME NEW versions, NEW meta, NEW B, RefState(versions, meta, B), NEW v \in DOMAIN versions,
           NEW n \in Nat, NEW versions2, versions2 = [versions EXCEPT ![v].refs = n]
    PROVE  RefState(versions2, meta, B) /\ OnlyRefs(versions, v, n, versions2)
<1>1. PICK w : w = versions[v]
  OBVIOUS
<1>2. PICK w2 : w2 = [w EXCEPT !.refs = n]
  OBVIOUS
<1>3. IsVersion(w)
  BY <1>1 DEF RefState
<1>4. IsVersion(w2) /\ w2.files = w.files /\ w2.refs = n
  BY <1>2, <1>3 DEF IsVersion
<1>5. DOMAIN versions2 = DOMAIN versions /\ \A u \in DOMAIN versions : versions2[u] = IF u = v THEN w2 ELSE versions[u]
  BY <1>1, <1>2
<1>6. \A u \in DOMAIN versions : IsVersion(versions2[u]) /\ versions2[u].files = versions[u].files
  BY <1>1, <1>4, <1>5 DEF RefState
<1>7. \A o \in DOMAIN meta : IsMeta(meta[o]) /\ meta[o].refs = meta[o].refs
  BY DEF RefState
<1>8. RefState(versions2, meta, B)
  BY <1>5, <1>6, <1>7, SameListings
<1>9. QED
  BY <1>1, <1>4, <1>5, <1>8 DEF OnlyRefs

\* Version::Ref
LEMMA RefVersion ==
    ASSUME NEW versions, NEW meta, NEW B, NEW H, RefState(versions, meta, B), Held(versions, H),
           NEW v \in DOMAIN versions,
           NEW st, st = VRef([versions |-> versions, meta |-> meta], v)
    PROVE  /\ StepOK(versions, meta, st.versions, st.meta, B, More(H, v))
           /\ DOMAIN st.versions = DOMAIN versions /\ st.meta = meta
<1>1. /\ v \in Ids /\ H \in [Ids -> Nat] /\ H[v] \in Nat /\ H[v] > 0 /\ versions[v].refs = H[v]
  BY DEF RefState, Held
<1>2. PICK versions2 : versions2 = [versions EXCEPT ![v].refs = @ + 1]
  OBVIOUS
<1>3. st.versions = versions2 /\ st.meta = meta
  BY <1>2 DEF VRef
<1>4. PICK n : n = H[v] + 1
  OBVIOUS
<1>5. versions2 = [versions EXCEPT ![v].refs = n] /\ n \in Nat
  BY <1>1, <1>2, <1>4
<1>6. /\ RefState(versions2, meta, B) /\ DOMAIN versions2 = DOMAIN versions
      /\ \A u \in DOMAIN versions : /\ versions2[u].files = versions[u].files
                                    /\ versions2[u].refs = IF u = v THEN n ELSE versions[u].refs
  <2>1. RefState(versions2, meta, B) /\ OnlyRefs(versions, v, n, versions2)
    BY <1>5, SetRefs
  <2>2. QED
    BY <2>1 DEF OnlyRefs
<1>7. PICK G : G = More(H, v)
  OBVIOUS
<1>8. G \in [Ids -> Nat] /\ \A u \in Ids : G[u] = IF u = v THEN n ELSE H[u]
  BY <1>1, <1>4, <1>7 DEF More
<1>9. DOMAIN versions2 = {u \in Ids : G[u] > 0}
  BY <1>1, <1>4, <1>6, <1>8 DEF Held
<1>10. Held(versions2, G)
  BY <1>6, <1>8, <1>9 DEF Held
<1>11. KeepsMeta(meta, meta) /\ KeepsVersions(versions, versions2)
  BY <1>6 DEF KeepsMeta, KeepsVersions
<1>12. QED
  BY <1>3, <1>6, <1>7, <1>10, <1>11 DEF StepOK

\* Version::Unref
LEMMA UnrefVersion ==
    ASSUME NEW versions, NEW meta, NEW B, NEW H, RefState(versions, meta, B), Held(versions, H),
           NEW v \in DOMAIN versions,
           NEW st, st = VUnref([versions |-> versions, meta |-> meta], v)
    PROVE  StepOK(versions, meta, st.versions, st.meta, B, Less(H, v))
<1>1. /\ v \in Ids /\ H \in [Ids -> Nat] /\ H[v] \in Nat /\ H[v] > 0 /\ versions[v].refs = H[v]
  BY DEF RefState, Held
<1>2. PICK G, n : G = Less(H, v) /\ n = H[v] - 1
  OBVIOUS
<1>3. n \in Nat /\ G \in [Ids -> Nat] /\ \A u \in Ids : G[u] = IF u = v THEN n ELSE H[u]
  BY <1>1, <1>2 DEF Less
<1>4. CASE H[v] > 1
  <2>1. PICK versions2 : versions2 = [versions EXCEPT ![v].refs = @ - 1]
    OBVIOUS
  <2>2. st.versions = versions2 /\ st.meta = meta
    BY <1>1, <1>4, <2>1 DEF VUnref
  <2>3. versions2 = [versions EXCEPT ![v].refs = n]
    BY <1>1, <1>2, <2>1
  <2>4. /\ RefState(versions2, meta, B) /\ DOMAIN versions2 = DOMAIN versions
        /\ \A u \in DOMAIN versions : /\ versions2[u].files = versions[u].files
                                      /\ versions2[u].refs = IF u = v THEN n ELSE versions[u].refs
    <3>1. RefState(versions2, meta, B) /\ OnlyRefs(versions, v, n, versions2)
      BY <1>3, <2>3, SetRefs
    <3>2. QED
      BY <3>1 DEF OnlyRefs
  <2>5. n > 0
    BY <1>1, <1>2, <1>4
  <2>6. DOMAIN versions2 = {u \in Ids : G[u] > 0}
    BY <1>1, <1>3, <2>4, <2>5 DEF Held
  <2>7. Held(versions2, G)
    BY <1>3, <2>4, <2>6 DEF Held
  <2>8. KeepsMeta(meta, meta) /\ KeepsVersions(versions, versions2)
    BY <2>4 DEF KeepsMeta, KeepsVersions
  <2>9. QED
    BY <1>2, <2>2, <2>4, <2>7, <2>8 DEF StepOK
<1>5. CASE ~(H[v] > 1)
  <2>1. PICK versions2, meta2 : /\ versions2 = Restrict(versions, DOMAIN versions \ {v})
                                /\ meta2 = Unlinked(meta, AllFiles(versions[v].files))
    OBVIOUS
  <2>2. st.versions = versions2 /\ st.meta = meta2
    BY <1>1, <1>5, <2>1 DEF VUnref
  <2>3. RefState(versions2, meta2, B) /\ KeepsMeta(meta, meta2)
    BY <2>1, DropVersion
  <2>4. DOMAIN versions2 = DOMAIN versions \ {v} /\ \A u \in DOMAIN versions2 : versions2[u] = versions[u]
    BY <2>1 DEF Restrict
  <2>5. n = 0
    BY <1>1, <1>2, <1>5
  <2>6. DOMAIN versions2 = {u \in Ids : G[u] > 0}
    BY <1>1, <1>3, <2>4, <2>5 DEF Held
  <2>7. Held(versions2, G) /\ KeepsVersions(versions, versions2)
    BY <1>3, <2>4, <2>6 DEF Held, KeepsVersions
  <2>8. QED
    BY <1>2, <2>2, <2>3, <2>7 DEF StepOK
<1>6. QED
  BY <1>4, <1>5

\* Version::UpdateStats, for a table of the Version.
LEMMA UpdatedStats ==
    ASSUME NEW versions, NEW meta, NEW B, NEW H, RefState(versions, meta, B), Held(versions, H),
           NEW v \in DOMAIN versions, NEW f, NEW level,
           f /= NoFile => level \in Upper /\ f \in versions[v].files[level],
           NEW st, st = UpdateStats([versions |-> versions, meta |-> meta], v, f, level)
    PROVE  /\ StepOK(versions, meta, st.versions, st.meta, B, H)
           /\ st = [versions |-> st.versions, meta |-> st.meta]
           /\ DOMAIN st.versions = DOMAIN versions /\ DOMAIN st.meta = DOMAIN meta
<1>1. CASE f = NoFile
  <2>1. st = [versions |-> versions, meta |-> meta]
    BY <1>1 DEF UpdateStats
  <2>2. st.versions = versions /\ st.meta = meta
    BY <2>1
  <2>3. KeepsMeta(meta, meta) /\ KeepsVersions(versions, versions)
    BY DEF KeepsMeta, KeepsVersions
  <2>4. QED
    BY <2>1, <2>2, <2>3 DEF StepOK
<1>2. CASE f /= NoFile
  <2>1. PICK meta2 : meta2 = [meta EXCEPT ![f].allowed_seeks = @ - 1]
    OBVIOUS
  <2>2. PICK versions2 : versions2 = [versions EXCEPT ![v].file_to_compact = f, ![v].file_to_compact_level = level]
    OBVIOUS
  <2>3. \/ st = [versions |-> versions, meta |-> meta2]
        \/ st = [versions |-> versions2, meta |-> meta2]
    BY <1>2, <2>1, <2>2 DEF UpdateStats
  <2>4. DOMAIN meta2 = DOMAIN meta /\ \A o \in DOMAIN meta :
            IsMeta(meta2[o]) /\ meta2[o].refs = meta[o].refs /\ meta2[o].num = meta[o].num
            /\ meta2[o].recs = meta[o].recs
    <3> SUFFICES ASSUME NEW o \in DOMAIN meta
                 PROVE  IsMeta(meta2[o]) /\ meta2[o].refs = meta[o].refs /\ meta2[o].num = meta[o].num
                        /\ meta2[o].recs = meta[o].recs
      BY <2>1
    <3>1. PICK m, m2 : m = meta[o] /\ m2 = meta2[o]
      OBVIOUS
    <3>2. IsMeta(m)
      BY <3>1 DEF RefState
    <3>3. m2 = m \/ m2 = [m EXCEPT !.allowed_seeks = @ - 1]
      BY <2>1, <3>1
    <3>4. IsMeta(m2) /\ m2.refs = m.refs /\ m2.num = m.num /\ m2.recs = m.recs
      BY <3>2, <3>3 DEF IsMeta
    <3>5. QED
      BY <3>1, <3>4
  <2>5. DOMAIN versions2 = DOMAIN versions /\ \A u \in DOMAIN versions :
            IsVersion(versions2[u]) /\ versions2[u].refs = versions[u].refs
            /\ versions2[u].files = versions[u].files
    <3> SUFFICES ASSUME NEW u \in DOMAIN versions
                 PROVE  IsVersion(versions2[u]) /\ versions2[u].refs = versions[u].refs
                        /\ versions2[u].files = versions[u].files
      BY <2>2
    <3>1. PICK w, w2 : w = versions[u] /\ w2 = versions2[u]
      OBVIOUS
    <3>2. IsVersion(w) /\ (u = v => f \in w.files[level]) /\ level \in Upper
      BY <1>2, <3>1 DEF RefState
    <3>3. \/ w2 = w
          \/ u = v /\ w2 = [w EXCEPT !.file_to_compact = f, !.file_to_compact_level = level]
      BY <2>2, <3>1
    <3>4. IsVersion(w2) /\ w2.refs = w.refs /\ w2.files = w.files
      BY <3>2, <3>3 DEF IsVersion
    <3>5. QED
      BY <3>1, <3>4
  <2>6. PICK versions3 : st = [versions |-> versions3, meta |-> meta2] /\ versions3 \in {versions, versions2}
    BY <2>3
  <2>7. st.versions = versions3 /\ st.meta = meta2
    BY <2>6
  <2>8. DOMAIN versions3 = DOMAIN versions /\ \A u \in DOMAIN versions :
            IsVersion(versions3[u]) /\ versions3[u].refs = versions[u].refs
            /\ versions3[u].files = versions[u].files
    BY <2>5, <2>6 DEF RefState
  <2>9. RefState(versions3, meta2, B)
    BY <2>4, <2>8, SameListings
  <2>10. Held(versions3, H)
    BY <2>8 DEF Held
  <2>11. KeepsMeta(meta, meta2) /\ KeepsVersions(versions, versions3)
    BY <2>4, <2>8 DEF KeepsMeta, KeepsVersions
  <2>12. QED
    BY <2>4, <2>6, <2>7, <2>8, <2>9, <2>10, <2>11 DEF StepOK
<1>3. QED
  BY <1>1, <1>2

\* The id of a new object is not in use.
LEMMA FreshId ==
    ASSUME NEW used, IsFiniteSet(used)
    PROVE  FreeId(used) \in Ids \ used
<1>1. PICK n \in Nat : n = Cardinality(used)
  BY FS_CardinalityType
<1>2. PICK T : T = (1 .. n + 1) \ used
  OBVIOUS
<1>3. T \in SUBSET Nat /\ \A x \in T : x \in Ids \ used
  BY <1>2 DEF Ids
<1>4. T /= {}
  <2> SUFFICES ASSUME T = {}
               PROVE  FALSE
    OBVIOUS
  <2>1. 1 .. n + 1 \in SUBSET used
    BY <1>2
  <2>2. Cardinality(1 .. n + 1) <= n
    BY <1>1, <2>1, FS_Subset
  <2>3. Cardinality(1 .. n + 1) = n + 1
    <3>1. 1 \in Int /\ n + 1 \in Int /\ ~(1 > n + 1) /\ (n + 1) - 1 + 1 = n + 1
      OBVIOUS
    <3>2. QED
      BY <3>1, FS_Interval
  <2>4. QED
    BY <2>2, <2>3
<1>5. \E x \in T : \A y \in T : x <= y
  BY <1>3, <1>4, LeastNat
<1>6. Min(T) \in T
  BY <1>5 DEF Min
<1>7. QED
  BY <1>1, <1>2, <1>3, <1>6 DEF FreeId

\* AppendVersion: the Version that was built becomes one of the list.
LEMMA AddVersion ==
    ASSUME NEW versions, NEW meta, NEW B, NEW H, RefState(versions, meta, B), Held(versions, H),
           NEW files \in FilesType, AllFiles(files) = B, NEW v \in Ids, v \notin DOMAIN versions,
           NEW new, new = [files |-> files, refs |-> 1, file_to_compact |-> NoFile,
                           file_to_compact_level |-> -1],
           NEW versions2, versions2 = Adding(versions, v, new)
    PROVE  /\ RefState(versions2, meta, {}) /\ Held(versions2, More(H, v))
           /\ DOMAIN versions2 = DOMAIN versions \cup {v} /\ versions2[v].files = files
           /\ \A u \in DOMAIN versions : versions2[u] = versions[u]
<1>1. /\ DOMAIN versions2 = DOMAIN versions \cup {v} /\ versions2[v] = new
      /\ \A u \in DOMAIN versions : versions2[u] = versions[u]
  BY DEF Adding
<1>2. IsVersion(new) /\ new.files = files /\ new.refs = 1
  BY DEF IsVersion
<1>3. ASSUME NEW o \in DOMAIN meta
      PROVE  meta[o].refs = Cardinality(Listing(versions2, o)) + (IF o \in {} THEN 1 ELSE 0)
  <2>1. PICK L, L2 : L = Listing(versions, o) /\ L2 = Listing(versions2, o)
    OBVIOUS
  <2>2. IsFiniteSet(L) /\ Cardinality(L) \in Nat
    BY <2>1, ListingFinite DEF RefState
  <2>3. v \notin L /\ L2 = IF o \in B THEN L \cup {v} ELSE L
    BY <1>1, <1>2, <2>1 DEF Listing
  <2>4. Cardinality(L2) = IF o \in B THEN Cardinality(L) + 1 ELSE Cardinality(L)
    BY <2>2, <2>3, FS_AddElement
  <2>5. meta[o].refs = Cardinality(L) + (IF o \in B THEN 1 ELSE 0)
    BY <2>1 DEF RefState
  <2>6. meta[o].refs = Cardinality(L2)
    BY <2>2, <2>4, <2>5
  <2>7. Cardinality(L2) \in Nat
    BY <2>2, <2>4
  <2>8. QED
    BY <2>1, <2>6, <2>7
<1>4. ASSUME NEW u \in DOMAIN versions2
      PROVE  IsVersion(versions2[u]) /\ AllFiles(versions2[u].files) \subseteq DOMAIN meta
  BY <1>1, <1>2 DEF RefState
<1>5. IsFiniteSet(DOMAIN versions2) /\ DOMAIN versions2 \subseteq Ids
  BY <1>1, FS_AddElement DEF RefState
<1>6. RefState(versions2, meta, {})
  BY <1>3, <1>4, <1>5 DEF RefState
<1>7. PICK G : G = More(H, v)
  OBVIOUS
<1>8. H \in [Ids -> Nat] /\ H[v] = 0
  BY DEF Held
<1>9. G \in [Ids -> Nat] /\ \A u \in Ids : G[u] = IF u = v THEN 1 ELSE H[u]
  BY <1>7, <1>8 DEF More
<1>10. DOMAIN versions2 = {u \in Ids : G[u] > 0}
  BY <1>1, <1>9 DEF Held
<1>11. \A u \in DOMAIN versions2 : versions2[u].refs = G[u]
  BY <1>1, <1>2, <1>9, <1>10 DEF Held
<1>12. QED
  BY <1>1, <1>2, <1>6, <1>7, <1>9, <1>10, <1>11 DEF Held

\* What Builder makes of a good edit: the tables of current_ it keeps and the one it adds.
BuildOK(versions, meta, cur, edit, b) ==
    /\ b.files \in FilesType /\ RefState(versions, b.meta, AllFiles(b.files))
    /\ DOMAIN meta \subseteq DOMAIN b.meta
    /\ \A o \in DOMAIN meta : b.meta[o].num = meta[o].num /\ b.meta[o].recs = meta[o].recs
    /\ \A o \in DOMAIN b.meta \ DOMAIN meta : edit.recs /= None /\ b.meta[o].num = edit.num
    /\ \A o \in AllFiles(b.files) \cap DOMAIN meta : o \in AllFiles(versions[cur].files)

\* Builder::Apply and SaveTo.
LEMMA BuiltVersion ==
    ASSUME NEW versions, NEW meta, RefState(versions, meta, {}), vs_current \in DOMAIN versions,
           NEW edit, edit.recs /= None => IsRecs(edit.recs) /\ edit.num \in Nat,
           NEW b, b = Build(edit, [versions |-> versions, meta |-> meta])
    PROVE  BuildOK(versions, meta, vs_current, edit, b)
<1>1. PICK o : o = FreeId(DOMAIN meta)
  OBVIOUS
<1>2. o \in Ids /\ o \notin DOMAIN meta
  BY <1>1, FreshId DEF RefState
<1>3. PICK new : new = [num |-> edit.num, recs |-> edit.recs, refs |-> 0, allowed_seeks |-> kMinSeeks]
  OBVIOUS
<1>4. PICK metas : metas = IF edit.recs = None THEN meta ELSE Adding(meta, o, new)
  OBVIOUS
<1>5. PICK cf : cf = versions[vs_current].files
  OBVIOUS
<1>6. PICK files : files = [l \in VLevels |->
          {f \in cf[l] : <<l, meta[f].num>> \notin edit.deleted}
          \cup IF edit.recs /= None /\ l = edit.level THEN {o} ELSE {}]
  OBVIOUS
<1>7. PICK F : F = AllFiles(files)
  OBVIOUS
<1>8. b = [meta |-> VersionLinked(metas, F), files |-> files]
  BY <1>1, <1>3, <1>4, <1>5, <1>6, <1>7 DEF Build
<1>9. PICK meta2 : meta2 = VersionLinked(metas, F)
  OBVIOUS
<1>10. b.meta = meta2 /\ b.files = files
  BY <1>8, <1>9
<1>11. cf \in FilesType /\ AllFiles(cf) \subseteq DOMAIN meta
  BY <1>5 DEF RefState, IsVersion
<1>12. /\ files \in FilesType
       /\ \A f \in F : f \in AllFiles(cf) \/ (f = o /\ edit.recs /= None)
  <2>1. \A l \in VLevels : files[l] \subseteq cf[l] \cup (IF edit.recs /= None THEN {o} ELSE {})
    BY <1>6
  <2>2. \A l \in VLevels : cf[l] \subseteq Ids
    BY <1>11 DEF FilesType
  <2>3. \A l \in VLevels : files[l] \subseteq Ids
    BY <1>2, <2>1, <2>2
  <2>4. files \in FilesType
    BY <1>6, <2>3 DEF FilesType
  <2>5. QED
    BY <1>7, <2>1, <2>4 DEF AllFiles
<1>13. /\ DOMAIN metas = (IF edit.recs = None THEN DOMAIN meta ELSE DOMAIN meta \cup {o})
       /\ \A x \in DOMAIN meta : metas[x] = meta[x]
       /\ edit.recs /= None => metas[o] = new
  BY <1>2, <1>4 DEF Adding
<1>14. edit.recs /= None => IsMeta(new) /\ new.refs = 0 /\ new.num = edit.num
  BY <1>3 DEF IsMeta
<1>15. \A x \in DOMAIN metas : IsMeta(metas[x]) /\ metas[x].refs = Cardinality(Listing(versions, x))
  <2>1. ASSUME NEW x \in DOMAIN meta
        PROVE  IsMeta(metas[x]) /\ metas[x].refs = Cardinality(Listing(versions, x))
    <3>1. PICK c \in Nat : c = Cardinality(Listing(versions, x))
      BY ListingFinite DEF RefState
    <3>2. meta[x].refs = c + 0 /\ IsMeta(meta[x])
      BY <3>1 DEF RefState
    <3>3. meta[x].refs = c
      BY <3>2
    <3>4. QED
      BY <1>13, <3>1, <3>2, <3>3
  <2>2. ASSUME edit.recs /= None
        PROVE  IsMeta(metas[o]) /\ metas[o].refs = Cardinality(Listing(versions, o))
    <3>1. Listing(versions, o) = {}
      BY <1>2 DEF Listing, RefState
    <3>2. QED
      BY <1>13, <1>14, <2>2, <3>1, FS_EmptySet
  <2>3. QED
    BY <1>13, <2>1, <2>2
<1>16. ASSUME NEW x \in DOMAIN metas
       PROVE  /\ x \in DOMAIN meta2 /\ IsMeta(meta2[x])
              /\ meta2[x].num = metas[x].num /\ meta2[x].recs = metas[x].recs
              /\ meta2[x].refs = Cardinality(Listing(versions, x)) + (IF x \in F THEN 1 ELSE 0)
  <2>1. PICK m, m2 : m = metas[x] /\ m2 = meta2[x]
    OBVIOUS
  <2>2. IsMeta(m)
    BY <1>15, <2>1
  <2>3. x \in DOMAIN meta2 /\ m2 = IF x \in F THEN [m EXCEPT !.refs = @ + 1] ELSE m
    BY <1>9, <2>1 DEF VersionLinked
  <2>4. IsMeta(m2) /\ m2.num = m.num /\ m2.recs = m.recs /\ m2.refs = m.refs + (IF x \in F THEN 1 ELSE 0)
    BY <2>2, <2>3 DEF IsMeta
  <2>5. QED
    BY <1>15, <2>1, <2>3, <2>4
<1>17. DOMAIN meta2 = DOMAIN metas
  BY <1>9 DEF VersionLinked
<1>18. IsFiniteSet(DOMAIN metas) /\ DOMAIN metas \subseteq Ids
  BY <1>2, <1>13, FS_AddElement DEF RefState
<1>19. F \subseteq DOMAIN meta2
  BY <1>11, <1>12, <1>13, <1>17
<1>20. RefState(versions, meta2, F)
  BY <1>13, <1>16, <1>17, <1>18, <1>19 DEF RefState
<1>21. QED
  BY <1>2, <1>5, <1>7, <1>10, <1>12, <1>13, <1>14, <1>16, <1>17, <1>20 DEF BuildOK

-----------------------------------------------------------------------------
(* Who holds a Version *)

\* The readers of Version v.
Reading(read, v) == {t \in VersionReaders : read[t].pc /= "idle" /\ read[t].version = v}

\* There are finitely many.
LEMMA ReadingFinite ==
    ASSUME NEW read, NEW v
    PROVE  IsFiniteSet(Reading(read, v)) /\ Cardinality(Reading(read, v)) \in Nat
<1>1. Reading(read, v) \in SUBSET VersionReaders /\ IsFiniteSet(VersionReaders)
  BY VersionSetAssumption DEF Reading
<1>2. IsFiniteSet(Reading(read, v))
  BY <1>1, FS_Subset
<1>3. QED
  BY <1>2, FS_CardinalityType

\* One counts for a holder, none otherwise.
One(p) == IF p THEN 1 ELSE 0
HoldsJob(job, v) == job /= None /\ job.version = v
HoldsFlush(flush, v) == flush /= None /\ flush.base = v

\* The four kinds of holders.
HoldersExact ==
    /\ Holders \in [Ids -> Nat]
    /\ \A v \in Ids : Holders[v] = Cardinality(Reading(vs_read, v)) + One(v = vs_current)
                                   + One(HoldsJob(vs_job, v)) + One(HoldsFlush(vs_flush, v))

\* VersionHolders is their number.
LEMMA HoldersSum == HoldersExact
<1>1. ASSUME NEW u \in Ids
      PROVE  /\ Holders[u] = Cardinality(Reading(vs_read, u)) + One(u = vs_current)
                             + One(HoldsJob(vs_job, u)) + One(HoldsFlush(vs_flush, u))
             /\ Holders[u] \in Nat
  <2>1. PICK c \in Nat : c = Cardinality(Reading(vs_read, u))
    BY ReadingFinite
  <2>2. Holders[u] = c + (IF u = vs_current THEN 1 ELSE 0)
                     + (IF vs_job /= None THEN IF vs_job.version = u THEN 1 ELSE 0 ELSE 0)
                     + (IF vs_flush /= None THEN IF vs_flush.base = u THEN 1 ELSE 0 ELSE 0)
    BY <2>1 DEF Holders, VersionHolders, Reading
  <2>3. /\ (IF vs_job /= None THEN IF vs_job.version = u THEN 1 ELSE 0 ELSE 0) = One(HoldsJob(vs_job, u))
        /\ (IF vs_flush /= None THEN IF vs_flush.base = u THEN 1 ELSE 0 ELSE 0) = One(HoldsFlush(vs_flush, u))
        /\ (IF u = vs_current THEN 1 ELSE 0) = One(u = vs_current)
    BY DEF One, HoldsJob, HoldsFlush
  <2>4. /\ One(u = vs_current) \in Nat /\ One(HoldsJob(vs_job, u)) \in Nat
        /\ One(HoldsFlush(vs_flush, u)) \in Nat
    BY DEF One
  <2>5. QED
    BY <2>1, <2>2, <2>3, <2>4
<1>2. QED
  BY <1>1 DEF Holders, HoldersExact

\* A Version that has a holder is alive.
HeldExactly == Held(vs_versions, Holders)
HeldAlive ==
    /\ vs_current \in Ids => vs_current \in DOMAIN vs_versions
    /\ \A t \in VersionReaders : vs_read[t].pc /= "idle" /\ vs_read[t].version \in Ids =>
          vs_read[t].version \in DOMAIN vs_versions
    /\ vs_job /= None /\ vs_job.version \in Ids => vs_job.version \in DOMAIN vs_versions
    /\ vs_flush /= None /\ vs_flush.base \in Ids => vs_flush.base \in DOMAIN vs_versions

\* A count above zero means that VUnref has not deleted it.
LEMMA HeldMembers == HeldExactly => HeldAlive
<1> SUFFICES ASSUME HeldExactly
             PROVE  HeldAlive
  OBVIOUS
<1>1. ASSUME NEW v \in Ids,
             \/ v = vs_current \/ HoldsJob(vs_job, v) \/ HoldsFlush(vs_flush, v)
             \/ \E t \in VersionReaders : vs_read[t].pc /= "idle" /\ vs_read[t].version = v
      PROVE  v \in DOMAIN vs_versions
  <2>1. PICK c \in Nat : c = Cardinality(Reading(vs_read, v))
    BY ReadingFinite
  <2>2. PICK x, y, z : x = One(v = vs_current) /\ y = One(HoldsJob(vs_job, v)) /\ z = One(HoldsFlush(vs_flush, v))
    OBVIOUS
  <2>3. x \in {0, 1} /\ y \in {0, 1} /\ z \in {0, 1} /\ Holders[v] = c + x + y + z
    BY <2>1, <2>2, HoldersSum DEF One, HoldersExact
  <2>4. x = 1 \/ y = 1 \/ z = 1 \/ c > 0
    <3>1. CASE \E t \in VersionReaders : vs_read[t].pc /= "idle" /\ vs_read[t].version = v
      <4>1. Reading(vs_read, v) /= {}
        BY <3>1 DEF Reading
      <4>2. QED
        BY <2>1, <4>1, ReadingFinite, FS_EmptySet
    <3>2. QED
      BY <1>1, <2>2, <3>1 DEF One
  <2>5. Holders[v] > 0
    BY <2>3, <2>4
  <2>6. QED
    BY <2>5 DEF Held, HeldExactly
<1>2. QED
  BY <1>1 DEF HoldsJob, HoldsFlush, HeldAlive

\* A thread starts to read a Version, ends reading it, or goes on: the readers of v.
Recounted(read, t, r, read2, v) ==
    LET n == Cardinality(Reading(read, v))
        n2 == Cardinality(Reading(read2, v))
    IN  /\ (read[t].pc = "idle" /\ r.pc /= "idle") => n2 = n + One(v = r.version)
        /\ (read[t].pc /= "idle" /\ r.pc = "idle") => n2 + One(v = read[t].version) = n
        /\ (read[t].pc /= "idle" /\ r.pc /= "idle" /\ r.version = read[t].version) => n2 = n

\* The record of thread t is replaced by r.
LEMMA ReaderChanges ==
    ASSUME NEW read \in [VersionReaders -> ReadType], NEW t \in VersionReaders, NEW r,
           NEW read2, read2 = [read EXCEPT ![t] = r], NEW v
    PROVE  Recounted(read, t, r, read2, v)
<1>1. PICK S, S2 : S = Reading(read, v) /\ S2 = Reading(read2, v)
  OBVIOUS
<1>2. IsFiniteSet(S) /\ IsFiniteSet(S2) /\ Cardinality(S) \in Nat /\ Cardinality(S2) \in Nat
  BY <1>1, ReadingFinite
<1>3. read2[t] = r /\ \A u \in VersionReaders : u /= t => read2[u] = read[u]
  OBVIOUS
<1>4. ASSUME read[t].pc = "idle", r.pc /= "idle"
      PROVE  Cardinality(S2) = Cardinality(S) + One(v = r.version)
  <2>1. t \notin S /\ S2 = IF v = r.version THEN S \cup {t} ELSE S
    BY <1>1, <1>3, <1>4 DEF Reading
  <2>2. Cardinality(S2) = IF v = r.version THEN Cardinality(S) + 1 ELSE Cardinality(S)
    BY <1>2, <2>1, FS_AddElement
  <2>3. QED
    BY <1>2, <2>2 DEF One
<1>5. ASSUME read[t].pc /= "idle", r.pc = "idle"
      PROVE  Cardinality(S2) + One(v = read[t].version) = Cardinality(S)
  <2>1. S2 = S \ {t} /\ (t \in S <=> v = read[t].version)
    BY <1>1, <1>3, <1>5 DEF Reading
  <2>2. Cardinality(S2) = IF t \in S THEN Cardinality(S) - 1 ELSE Cardinality(S)
    BY <1>2, <2>1, FS_RemoveElement
  <2>3. QED
    BY <1>2, <2>1, <2>2 DEF One
<1>6. ASSUME read[t].pc /= "idle", r.pc /= "idle", r.version = read[t].version
      PROVE  S2 = S
  BY <1>1, <1>3, <1>6 DEF Reading
<1>7. QED
  BY <1>1, <1>4, <1>5, <1>6 DEF Recounted

\* The same in the state after a step.
LEMMA HoldersAfter == HoldersExact' /\ (HeldExactly' => HeldAlive')
BY HoldersSum, HeldMembers, PTL

-----------------------------------------------------------------------------
(* What a step on the maps leaves alone *)

\* Tables stay on disk with the Versions that list them.
LEMMA DiskFrame ==
    ASSUME VsInv, RefState(vs_versions', vs_meta', BuiltFiles'),
           KeepsMeta(vs_meta, vs_meta'), KeepsVersions(vs_versions, vs_versions'),
           vs_built' = vs_built, vs_next' = vs_next, vs_error' = vs_error, vs_disk' = vs_disk,
           vs_pending' = vs_pending
    PROVE  DiskInv' /\ BuiltFiles' = BuiltFiles
<1>1. BuiltFiles' = BuiltFiles
  BY DEF BuiltFiles
<1>2. ASSUME NEW v \in DOMAIN vs_versions', NEW o \in AllFiles(vs_versions'[v].files)
      PROVE  o \in DOMAIN vs_meta' /\ vs_meta'[o].num \in vs_disk
  <2>1. v \in DOMAIN vs_versions /\ vs_versions'[v].files = vs_versions[v].files
    BY DEF KeepsVersions
  <2>2. o \in DOMAIN vs_meta /\ vs_meta[o].num \in vs_disk
    BY <2>1 DEF VsInv, DiskInv, TablesKept
  <2>3. o \in DOMAIN vs_meta'
    BY DEF RefState
  <2>4. QED
    BY <2>2, <2>3 DEF KeepsMeta
<1>3. ASSUME vs_built /= None, NEW o \in AllFiles(vs_built)
      PROVE  vs_meta'[o].num \in vs_disk
  <2>1. vs_meta[o].num \in vs_disk
    BY <1>3 DEF VsInv, DiskInv, TablesKept
  <2>2. o \in DOMAIN vs_meta'
    BY <1>1, <1>3 DEF RefState, BuiltFiles
  <2>3. QED
    BY <2>1, <2>2 DEF KeepsMeta
<1>4. \A o \in DOMAIN vs_meta' : vs_meta'[o].num < vs_next
  BY DEF VsInv, DiskInv, KeepsMeta
<1>5. TablesKept'
  BY <1>2, <1>3 DEF TablesKept, VsInv, DiskInv
<1>6. QED
  BY <1>1, <1>4, <1>5 DEF VsInv, DiskInv

\* The compaction under way and its inputs.
LEMMA JobFrame ==
    ASSUME VsInv, HeldExactly', KeepsVersions(vs_versions, vs_versions'),
           vs_job' = vs_job, vs_next \in Nat, vs_next' \in Nat, vs_next <= vs_next',
           vs_job /= None => (vs_job.num \in vs_pending => vs_job.num \in vs_pending'),
           vs_job /= None /\ vs_job.move => vs_built' /= None
    PROVE  JobInv'
<1> SUFFICES ASSUME vs_job /= None
             PROVE  JobInv'
  BY DEF JobInv
<1>1. /\ {"level", "in", "version", "move", "num"} \subseteq DOMAIN vs_job
      /\ vs_job.move \in BOOLEAN /\ vs_job.version \in DOMAIN vs_versions /\ vs_job.level \in Upper
      /\ vs_job.in[1] \subseteq vs_versions[vs_job.version].files[vs_job.level]
      /\ vs_job.in[2] \subseteq vs_versions[vs_job.version].files[vs_job.level + 1]
      /\ vs_job.num \in 0 .. vs_next - 1 /\ (vs_job.num /= 0 => vs_job.num \in vs_pending)
      /\ (vs_job.move => vs_job.num = 0)
  BY DEF VsInv, JobInv, FilesOf
<1>2. vs_job.version \in Ids
  BY <1>1 DEF VsInv, RefState
<1>3. vs_job.version \in DOMAIN vs_versions'
  BY <1>2, HoldersAfter DEF HeldAlive
<1>4. vs_versions'[vs_job.version].files = vs_versions[vs_job.version].files
  BY <1>3 DEF KeepsVersions
<1>5. vs_job.num \in 0 .. vs_next' - 1
  BY <1>1
<1>6. QED
  BY <1>1, <1>3, <1>4, <1>5 DEF JobInv, FilesOf

\* The readers.
LEMMA ReadersFrame ==
    ASSUME VsInv, HeldExactly', KeepsVersions(vs_versions, vs_versions'), vs_read' = vs_read
    PROVE  ReadersInv'
<1>1. ASSUME NEW t \in VersionReaders, vs_read[t].pc /= "idle"
      PROVE  /\ vs_read[t].version \in DOMAIN vs_versions'
             /\ vs_versions'[vs_read[t].version].files = vs_versions[vs_read[t].version].files
  <2>1. vs_read[t].version \in Ids
    BY <1>1 DEF VsInv, ReadersInv, RefState
  <2>2. vs_read[t].version \in DOMAIN vs_versions'
    BY <1>1, <2>1, HoldersAfter DEF HeldAlive
  <2>3. QED
    BY <2>2 DEF KeepsVersions
<1>2. QED
  BY <1>1 DEF VsInv, ReadersInv, FilesOf

\* The flush under way.
LEMMA FlushFrame ==
    ASSUME VsInv, HeldExactly', KeepsMeta(vs_meta, vs_meta'), vs_flush' = vs_flush, vs_job' = vs_job,
           vs_built' = vs_built, vs_next' = vs_next, vs_pending' = vs_pending
    PROVE  FlushInv'
<1> SUFFICES ASSUME vs_flush /= None
             PROVE  FlushInv'
  BY DEF FlushInv
<1>1. ASSUME vs_built = None
      PROVE  vs_flush.base \in DOMAIN vs_versions'
  <2>1. vs_flush.base \in Ids
    BY <1>1 DEF VsInv, FlushInv, RefState
  <2>2. QED
    BY <2>1, HoldersAfter DEF HeldAlive
<1>2. ASSUME vs_built = None, NEW o \in DOMAIN vs_meta'
      PROVE  vs_meta'[o].num /= vs_flush.num
  BY <1>2 DEF VsInv, FlushInv, KeepsMeta
<1>3. QED
  BY <1>1, <1>2 DEF VsInv, FlushInv

-----------------------------------------------------------------------------
(* Tables a search meets *)

\* files_[level] is not empty: it has a first table.
LEMMA FirstFileIn ==
    ASSUME NEW os, os /= {}, \A o \in os : IsMeta(vs_meta[o])
    PROVE  FirstFile(os) \in os
<1>1. ASSUME NEW o \in os
      PROVE  FirstKey(o) \in Nat /\ vs_meta[o].num \in Nat
  <2>1. IsRecs(vs_meta[o].recs) /\ vs_meta[o].num \in Nat
    BY DEF IsMeta
  <2>2. PICK K : K = DOMAIN vs_meta[o].recs
    OBVIOUS
  <2>3. K \in SUBSET Nat /\ K /= {}
    BY <2>1, <2>2, VersionSetAssumption DEF IsRecs
  <2>4. \E x \in K : \A y \in K : x <= y
    BY <2>3, LeastNat
  <2>5. Min(K) \in K
    BY <2>4 DEF Min
  <2>6. QED
    BY <2>1, <2>2, <2>3, <2>5 DEF FirstKey
<1>2. PICK T : T = {FirstKey(o) : o \in os}
  OBVIOUS
<1>3. T \in SUBSET Nat /\ T /= {}
  BY <1>1, <1>2
<1>4. PICK k \in T : \A j \in T : k <= j
  BY <1>3, LeastNat
<1>5. PICK U : U = {vs_meta[o].num : o \in {x \in os : FirstKey(x) = k}}
  OBVIOUS
<1>6. U \in SUBSET Nat /\ U /= {}
  BY <1>1, <1>2, <1>4, <1>5
<1>7. PICK n \in U : \A m \in U : n <= m
  BY <1>6, LeastNat
<1>8. PICK a \in os : FirstKey(a) = k /\ vs_meta[a].num = n
  BY <1>5, <1>7
<1>9. ASSUME NEW b \in os
      PROVE  BySmallestKey(a, b)
  <2>1. FirstKey(b) \in Nat /\ k \in Nat /\ k <= FirstKey(b)
    BY <1>1, <1>2, <1>3, <1>4
  <2>2. FirstKey(b) = k => n <= vs_meta[b].num
    BY <1>5, <1>7
  <2>3. QED
    BY <1>8, <2>1, <2>2 DEF BySmallestKey
<1>10. QED
  BY <1>9 DEF FirstFile

\* The tables Get looks at are tables of the Version, at most one per level but the first.
LEMMA TablesListed ==
    ASSUME RefState(vs_versions, vs_meta, BuiltFiles), NEW v \in DOMAIN vs_versions, NEW k,
           NEW x \in TablesFor(v, k)
    PROVE  /\ x[1] \in VLevels /\ x[2] \in FilesOf(v, x[1]) /\ x[2] \in DOMAIN vs_meta
           /\ x = <<x[1], x[2]>>
           /\ \A y \in TablesFor(v, k) : x[1] /= 0 /\ y[1] = x[1] => y = x
<1>1. ASSUME NEW l \in VLevels
      PROVE  FilesOf(v, l) \subseteq DOMAIN vs_meta
  BY DEF FilesOf, RefState, AllFiles
<1>2. 0 \in VLevels
  BY VersionSetAssumption DEF VLevels
<1>3. ASSUME NEW l \in VLevels
      PROVE  TableInLevel(v, l, k) \subseteq FilesOf(v, l) /\ \A a, b \in TableInLevel(v, l, k) : a = b
  <2>1. PICK os : os = NotBefore(FilesOf(v, l), k)
    OBVIOUS
  <2>2. os \subseteq FilesOf(v, l)
    BY <2>1 DEF NotBefore
  <2>3. CASE os = {}
    BY <2>1, <2>3 DEF TableInLevel
  <2>4. CASE os /= {}
    <3>1. \A o \in os : IsMeta(vs_meta[o])
      BY <1>1, <2>2 DEF RefState
    <3>2. FirstFile(os) \in os
      BY <2>4, <3>1, FirstFileIn
    <3>3. TableInLevel(v, l, k) \subseteq {FirstFile(os)}
      BY <2>1, <2>4 DEF TableInLevel
    <3>4. QED
      BY <2>2, <3>2, <3>3
  <2>5. QED
    BY <2>3, <2>4
<1>4. TouchingFiles(v, 0, k, k) \subseteq FilesOf(v, 0)
  BY DEF TouchingFiles
<1>5. ASSUME NEW y \in TablesFor(v, k)
      PROVE  /\ y = <<y[1], y[2]>> /\ y[1] \in VLevels /\ y[2] \in FilesOf(v, y[1])
             /\ y[1] /= 0 => y[2] \in TableInLevel(v, y[1], k)
  <2>1. CASE y \in {0} \X TouchingFiles(v, 0, k, k)
    <3>1. y = <<y[1], y[2]>> /\ y[1] = 0 /\ y[2] \in TouchingFiles(v, 0, k, k)
      BY <2>1
    <3>2. QED
      BY <1>2, <1>4, <3>1
  <2>2. CASE y \in UNION {{l} \X TableInLevel(v, l, k) : l \in VLevels \ {0}}
    <3>1. PICK l \in VLevels \ {0} : y \in {l} \X TableInLevel(v, l, k)
      BY <2>2
    <3>2. y = <<y[1], y[2]>> /\ y[1] = l /\ y[2] \in TableInLevel(v, l, k)
      BY <3>1
    <3>3. QED
      BY <1>3, <3>1, <3>2
  <2>3. QED
    BY <2>1, <2>2 DEF TablesFor
<1>6. ASSUME NEW y \in TablesFor(v, k), x[1] /= 0, y[1] = x[1]
      PROVE  y = x
  <2>1. /\ x = <<x[1], x[2]>> /\ x[1] \in VLevels /\ x[2] \in TableInLevel(v, x[1], k)
        /\ y = <<y[1], y[2]>> /\ y[2] \in TableInLevel(v, x[1], k)
    BY <1>5, <1>6
  <2>2. x[2] = y[2]
    BY <1>3, <2>1
  <2>3. QED
    BY <1>6, <2>1, <2>2
<1>7. QED
  BY <1>1, <1>5, <1>6

\* The table that is charged when there is a second one: a table of the Version, and not in the
\* last level.
LEMMA FirstTableIn ==
    ASSUME RefState(vs_versions, vs_meta, BuiltFiles), NEW v \in DOMAIN vs_versions, NEW k,
           NEW T, T = TablesFor(v, k), NEW p \in T, NEW q \in T, p /= q,
           NEW n \in Nat, \A o \in DOMAIN vs_meta : vs_meta[o].num < n
    PROVE  /\ FirstTable(T)[1] \in Upper /\ FirstTable(T)[2] \in FilesOf(v, FirstTable(T)[1])
<1>1. ASSUME NEW x \in T
      PROVE  /\ x[1] \in VLevels /\ x[1] \in Nat /\ x[2] \in FilesOf(v, x[1])
             /\ vs_meta[x[2]].num \in Nat /\ vs_meta[x[2]].num < n
             /\ \A y \in T : x[1] /= 0 /\ y[1] = x[1] => y = x
  <2>1. /\ x[1] \in VLevels /\ x[2] \in FilesOf(v, x[1]) /\ x[2] \in DOMAIN vs_meta
        /\ \A y \in T : x[1] /= 0 /\ y[1] = x[1] => y = x
    BY TablesListed
  <2>2. vs_meta[x[2]].num \in Nat
    BY <2>1 DEF RefState, IsMeta
  <2>3. x[1] \in Nat
    BY <2>1, VersionSetAssumption DEF VLevels
  <2>4. QED
    BY <2>1, <2>2, <2>3
<1>2. PICK L : L = {x[1] : x \in T}
  OBVIOUS
<1>3. L \in SUBSET Nat /\ L /= {}
  BY <1>1, <1>2
<1>4. PICK l \in L : \A m \in L : l <= m
  BY <1>3, LeastNat
<1>5. PICK U : U = {vs_meta[x[2]].num : x \in {y \in T : y[1] = l}}
  OBVIOUS
<1>6. U \in SUBSET Nat /\ U /= {} /\ \A m \in U : m <= n
  <2>1. \A m \in U : m \in Nat /\ m < n
    BY <1>1, <1>5
  <2>2. PICK y \in T : y[1] = l
    BY <1>2, <1>4
  <2>3. vs_meta[y[2]].num \in U
    BY <1>5, <2>2
  <2>4. \A m \in U : m <= n
    BY <2>1
  <2>5. QED
    BY <2>1, <2>3, <2>4
<1>7. PICK g \in U : \A m \in U : m <= g
  BY <1>6, GreatestNat
<1>8. PICK f \in T : f[1] = l /\ vs_meta[f[2]].num = g
  BY <1>5, <1>7
<1>9. ASSUME NEW y \in T
      PROVE  SearchOrder(f, y)
  <2>1. y[1] \in Nat /\ l \in Nat /\ l <= y[1]
    BY <1>1, <1>2, <1>3, <1>4
  <2>2. CASE l < y[1]
    BY <1>8, <2>2 DEF SearchOrder
  <2>3. CASE l = y[1]
    <3>1. vs_meta[y[2]].num \in U
      BY <1>5, <2>3
    <3>2. vs_meta[y[2]].num \in Nat /\ g \in Nat /\ vs_meta[y[2]].num <= g
      BY <1>6, <1>7, <3>1
    <3>3. ~NewestFirst(y[2], f[2])
      BY <1>8, <3>2 DEF NewestFirst
    <3>4. QED
      BY <1>8, <2>3, <3>3 DEF SearchOrder
  <2>4. QED
    BY <2>1, <2>2, <2>3
<1>10. PICK h : h = FirstTable(T)
  OBVIOUS
<1>11. h \in T /\ \A y \in T : SearchOrder(h, y)
  BY <1>9, <1>10 DEF FirstTable
<1>12. h[1] \in Upper
  <2>1. h[1] \in 0 .. kNumLevels - 1 /\ kNumLevels \in Nat /\ kNumLevels > 1
    BY <1>1, <1>11, VersionSetAssumption DEF VLevels
  <2>2. ASSUME h[1] = kNumLevels - 1
        PROVE  FALSE
    <3>1. ASSUME NEW y \in T
          PROVE  y = h
      <4>1. y[1] \in 0 .. kNumLevels - 1 /\ (h[1] < y[1] \/ h[1] = y[1])
        BY <1>1, <1>11 DEF SearchOrder, VLevels
      <4>2. y[1] = h[1] /\ h[1] /= 0
        BY <2>1, <2>2, <4>1
      <4>3. QED
        BY <1>1, <1>11, <4>2
    <3>2. QED
      BY <3>1
  <2>3. QED
    BY <2>1, <2>2 DEF Upper
<1>13. QED
  BY <1>1, <1>10, <1>11, <1>12

\* The charge of a search that read n tables, of S or of all that it would.
LEMMA ChargedTable ==
    ASSUME RefState(vs_versions, vs_meta, BuiltFiles), NEW v \in DOMAIN vs_versions, NEW k,
           NEW m \in Nat, \A o \in DOMAIN vs_meta : vs_meta[o].num < m,
           NEW T, T = TablesFor(v, k), NEW S \in SUBSET T,
           NEW n \in (1 .. Cardinality(S)) \cup {Cardinality(S)}
    PROVE  /\ SeekFile(T, n) \in Nat /\ SeekLevel(T, n) \in Upper \cup {-1}
           /\ SeekFile(T, n) /= NoFile =>
                 SeekLevel(T, n) \in Upper /\ SeekFile(T, n) \in FilesOf(v, SeekLevel(T, n))
<1>1. CASE n < 2
  BY <1>1 DEF SeekFile, SeekLevel, NoFile
<1>2. CASE ~(n < 2)
  <2>1. S /= {}
    <3> SUFFICES ASSUME S = {}
                 PROVE  FALSE
      OBVIOUS
    <3>1. Cardinality(S) = 0
      BY FS_EmptySet
    <3>2. QED
      BY <1>2, <3>1
  <2>2. PICK p \in S : TRUE
    BY <2>1
  <2>3. S /= {p}
    <3> SUFFICES ASSUME S = {p}
                 PROVE  FALSE
      OBVIOUS
    <3>1. Cardinality(S) = 1
      BY FS_Singleton
    <3>2. QED
      BY <1>2, <3>1
  <2>4. PICK q \in S : q /= p
    BY <2>2, <2>3
  <2>5. FirstTable(T)[1] \in Upper /\ FirstTable(T)[2] \in FilesOf(v, FirstTable(T)[1])
    BY <2>2, <2>4, FirstTableIn
  <2>6. FirstTable(T)[1] \in VLevels
    BY <2>5, VersionSetAssumption DEF Upper, VLevels
  <2>7. FirstTable(T)[2] \in Ids
    BY <2>5, <2>6 DEF RefState, IsVersion, FilesType, FilesOf
  <2>8. QED
    BY <1>2, <2>5, <2>7 DEF SeekFile, SeekLevel, Ids
<1>3. QED
  BY <1>1, <1>2

-----------------------------------------------------------------------------
(* Reads *)

\* One more holder of Version c.
LEMMA HoldersMore ==
    ASSUME NEW c \in Ids, NEW G, G \in [Ids -> Nat], NEW G2, G2 \in [Ids -> Nat],
           \A v \in Ids : G2[v] = G[v] + One(v = c)
    PROVE  G2 = More(G, c)
<1>1. \A v \in Ids : G2[v] = More(G, c)[v]
  BY DEF More, One
<1>2. More(G, c) = [v \in Ids |-> More(G, c)[v]]
  BY DEF More
<1>3. QED
  BY <1>1, <1>2

\* One less.
LEMMA HoldersLess ==
    ASSUME NEW c \in Ids, NEW G, G \in [Ids -> Nat], NEW G2, G2 \in [Ids -> Nat],
           \A v \in Ids : G2[v] + One(v = c) = G[v]
    PROVE  G2 = Less(G, c)
<1>1. \A v \in Ids : G2[v] = Less(G, c)[v]
  BY DEF Less, One
<1>2. Less(G, c) = [v \in Ids |-> Less(G, c)[v]]
  BY DEF Less
<1>3. QED
  BY <1>1, <1>2

\* What a read leaves alone.
ReadFrame == UNCHANGED <<vs_current, vs_built, vs_next, vs_pointer, vs_disk, vs_pending, vs_flush, vs_job,
                         vs_error, vs_count>>

\* A step of a read that keeps the maps in order.
LEMMA ReadStep ==
    ASSUME VsInv, ReadFrame, ReadersInv',
           StepOK(vs_versions, vs_meta, vs_versions', vs_meta', BuiltFiles, Holders')
    PROVE  VsInv'
<1>1. BuiltFiles' = BuiltFiles
  BY DEF ReadFrame, BuiltFiles
<1>2. RefState(vs_versions', vs_meta', BuiltFiles') /\ Held(vs_versions', Holders')
      /\ KeepsMeta(vs_meta, vs_meta') /\ KeepsVersions(vs_versions, vs_versions')
  BY <1>1 DEF StepOK
<1>3. HeldExactly'
  BY <1>2 DEF HeldExactly
<1>4. DiskInv'
  BY <1>2, DiskFrame DEF ReadFrame
<1>5. JobInv'
  <2>1. vs_next \in Nat /\ vs_next <= vs_next /\ (vs_job /= None /\ vs_job.move => vs_built /= None)
    BY DEF VsInv, DiskInv, Ids, JobInv
  <2>2. QED
    BY <1>2, <1>3, <2>1, JobFrame DEF ReadFrame
<1>6. FlushInv'
  BY <1>2, <1>3, FlushFrame DEF ReadFrame
<1>7. vs_current' \in DOMAIN vs_versions'
  <2>1. vs_current \in Ids
    BY DEF VsInv, RefState
  <2>2. QED
    BY <1>3, <2>1, HoldersAfter DEF HeldAlive, ReadFrame
<1>8. BuiltInv'
  BY DEF VsInv, BuiltInv, ReadFrame
<1>9. QED
  BY <1>2, <1>4, <1>5, <1>6, <1>7, <1>8 DEF VsInv

\* The readers, when thread t goes on with r.
LEMMA ReadersStep ==
    ASSUME VsInv, HeldExactly', KeepsVersions(vs_versions, vs_versions'),
           NEW t \in VersionReaders, NEW r \in ReadType, vs_read' = [vs_read EXCEPT ![t] = r],
           r.pc /= "idle" => r.version \in Ids, r.pc = "get" => r.key \in VersionKeys,
           r.seek_file /= NoFile => /\ r.pc = "charge" /\ r.seek_level \in Upper
                                    /\ r.seek_file \in vs_versions[r.version].files[r.seek_level]
    PROVE  ReadersInv'
<1>1. vs_read \in [VersionReaders -> ReadType] /\ vs_read' \in [VersionReaders -> ReadType]
  BY DEF VsInv, ReadersInv
<1>2. vs_read'[t] = r /\ \A u \in VersionReaders : u /= t => vs_read'[u] = vs_read[u]
  BY <1>1
<1>3. ASSUME NEW u \in VersionReaders, vs_read'[u].pc /= "idle"
      PROVE  /\ vs_read'[u].version \in DOMAIN vs_versions'
             /\ vs_versions'[vs_read'[u].version].files = vs_versions[vs_read'[u].version].files
  <2>1. vs_read'[u].version \in Ids
    BY <1>2, <1>3 DEF VsInv, ReadersInv, RefState
  <2>2. vs_read'[u].version \in DOMAIN vs_versions'
    BY <1>3, <2>1, HoldersAfter DEF HeldAlive
  <2>3. QED
    BY <2>2 DEF KeepsVersions
<1>4. ASSUME NEW u \in VersionReaders
      PROVE  /\ vs_read'[u].pc = "get" => vs_read'[u].key \in VersionKeys
             /\ vs_read'[u].seek_file /= NoFile =>
                   /\ vs_read'[u].pc = "charge" /\ vs_read'[u].seek_level \in Upper
                   /\ vs_read'[u].seek_file \in vs_versions'[vs_read'[u].version].files[vs_read'[u].seek_level]
  <2>1. CASE u = t
    BY <1>2, <1>3, <2>1
  <2>2. CASE u /= t
    <3>1. vs_read'[u] = vs_read[u]
      BY <1>2, <2>2
    <3>2. QED
      BY <1>3, <3>1 DEF VsInv, ReadersInv, FilesOf
  <2>3. QED
    BY <2>1, <2>2
<1>5. QED
  BY <1>1, <1>3, <1>4 DEF ReadersInv, FilesOf

\* Get, NewIterator and GetApproximateSizes take a reference.
LEMMA ReadStartStep ==
    ASSUME VsInv, NEW t \in VersionReaders, ReadStart(t)
    PROVE  VsInv'
<1>1. PICK r : /\ vs_read' = [vs_read EXCEPT ![t] = r] /\ r \in ReadType /\ r.pc \in {"get", "hold"}
               /\ r.version = vs_current /\ r.seek_file = NoFile
               /\ r.pc = "get" => r.key \in VersionKeys
  <2>1. vs_read[t].reads + 1 \in Nat /\ vs_current \in Nat
    BY DEF VsInv, ReadersInv, ReadType, RefState, Ids
  <2>2. CASE \E k \in VersionKeys :
               vs_read' = [vs_read EXCEPT ![t] = [NotReading EXCEPT !.pc = "get", !.version = vs_current,
                                                    !.key = k, !.reads = vs_read[t].reads + 1]]
    <3>1. PICK k \in VersionKeys :
             vs_read' = [vs_read EXCEPT ![t] = [NotReading EXCEPT !.pc = "get", !.version = vs_current,
                                                  !.key = k, !.reads = vs_read[t].reads + 1]]
      BY <2>2
    <3>2. PICK r : r = [NotReading EXCEPT !.pc = "get", !.version = vs_current,
                                          !.key = k, !.reads = vs_read[t].reads + 1]
      OBVIOUS
    <3>3. r \in ReadType /\ r.pc = "get" /\ r.version = vs_current /\ r.seek_file = NoFile /\ r.key = k
      BY <2>1, <3>2 DEF NotReading, ReadType, NoFile
    <3>4. vs_read' = [vs_read EXCEPT ![t] = r]
      BY <3>1, <3>2
    <3>5. QED
      BY <3>3, <3>4
  <2>3. CASE vs_read' = [vs_read EXCEPT ![t] = [NotReading EXCEPT !.pc = "hold", !.version = vs_current,
                                                  !.reads = vs_read[t].reads + 1]]
    <3>1. PICK r : r = [NotReading EXCEPT !.pc = "hold", !.version = vs_current,
                                          !.reads = vs_read[t].reads + 1]
      OBVIOUS
    <3>2. r \in ReadType /\ r.pc = "hold" /\ r.version = vs_current /\ r.seek_file = NoFile
      BY <2>1, <3>1 DEF NotReading, ReadType, NoFile
    <3>3. vs_read' = [vs_read EXCEPT ![t] = r]
      BY <2>3, <3>1
    <3>4. QED
      BY <3>2, <3>3
  <2>4. QED
    BY <2>2, <2>3 DEF ReadStart
<1>2. /\ vs_read[t].pc = "idle" /\ vs_current \in DOMAIN vs_versions /\ vs_current \in Ids
      /\ vs_read \in [VersionReaders -> ReadType] /\ ReadFrame
  BY DEF ReadStart, VsInv, ReadersInv, RefState, ReadFrame
<1>3. PICK st : st = VRef(Maps, vs_current)
  OBVIOUS
<1>4. vs_versions' = st.versions /\ vs_meta' = st.meta
  BY <1>3 DEF ReadStart, Become
<1>5. StepOK(vs_versions, vs_meta, vs_versions', vs_meta', BuiltFiles, More(Holders, vs_current))
  BY <1>2, <1>3, <1>4, RefVersion DEF VsInv, Maps
<1>6. Holders' = More(Holders, vs_current)
  <2>1. ASSUME NEW v \in Ids
        PROVE  Holders'[v] = Holders[v] + One(v = vs_current)
    <3>1. PICK n, n2 : n = Cardinality(Reading(vs_read, v)) /\ n2 = Cardinality(Reading(vs_read', v))
      OBVIOUS
    <3>2. n2 = n + One(v = vs_current)
      <4>1. Recounted(vs_read, t, r, vs_read', v)
        BY <1>1, <1>2, ReaderChanges
      <4>2. r.pc /= "idle"
        BY <1>1
      <4>3. QED
        BY <1>1, <1>2, <3>1, <4>1, <4>2 DEF Recounted
    <3>3. n \in Nat /\ n2 \in Nat
      BY <3>1, ReadingFinite
    <3>4. PICK x, y, z : x = One(v = vs_current) /\ y = One(HoldsJob(vs_job, v)) /\ z = One(HoldsFlush(vs_flush, v))
      OBVIOUS
    <3>5. x \in Nat /\ y \in Nat /\ z \in Nat
      BY <3>4 DEF One
    <3>6. Holders[v] = n + x + y + z
      BY <3>1, <3>4, HoldersSum DEF HoldersExact
    <3>7. Holders'[v] = n2 + x + y + z
      BY <1>2, <3>1, <3>4, HoldersAfter DEF HoldersExact, ReadFrame
    <3>8. QED
      BY <3>2, <3>3, <3>4, <3>5, <3>6, <3>7
  <2>2. Holders \in [Ids -> Nat] /\ Holders' \in [Ids -> Nat]
    BY HoldersSum, HoldersAfter DEF HoldersExact
  <2>3. QED
    BY <1>2, <2>1, <2>2, HoldersMore
<1>7. ReadersInv'
  <2>1. HeldExactly' /\ KeepsVersions(vs_versions, vs_versions')
    BY <1>5, <1>6 DEF StepOK, HeldExactly
  <2>2. QED
    BY <1>1, <1>2, <2>1, ReadersStep
<1>8. QED
  BY <1>2, <1>5, <1>6, <1>7, ReadStep

\* Two steps on the maps, one after the other.
LEMMA StepsCompose ==
    ASSUME NEW versions, NEW meta, NEW versions1, NEW meta1, NEW versions2, NEW meta2,
           KeepsMeta(meta, meta1), KeepsMeta(meta1, meta2),
           KeepsVersions(versions, versions1), KeepsVersions(versions1, versions2)
    PROVE  KeepsMeta(meta, meta2) /\ KeepsVersions(versions, versions2)
BY DEF KeepsMeta, KeepsVersions

\* A read goes on: nobody else holds a Version.
LEMMA SameReaders ==
    ASSUME VsInv, ReadFrame, NEW t \in VersionReaders, NEW r \in ReadType,
           vs_read' = [vs_read EXCEPT ![t] = r], vs_read[t].pc /= "idle", r.pc /= "idle",
           r.version = vs_read[t].version
    PROVE  Holders' = Holders
<1>1. vs_read \in [VersionReaders -> ReadType]
  BY DEF VsInv, ReadersInv
<1>2. ASSUME NEW v \in Ids
      PROVE  Holders'[v] = Holders[v]
  <2>1. Recounted(vs_read, t, r, vs_read', v)
    BY <1>1, ReaderChanges
  <2>2. Cardinality(Reading(vs_read', v)) = Cardinality(Reading(vs_read, v))
    BY <2>1 DEF Recounted
  <2>3. PICK n : n = Cardinality(Reading(vs_read, v))
    OBVIOUS
  <2>4. PICK x, y, z : x = One(v = vs_current) /\ y = One(HoldsJob(vs_job, v)) /\ z = One(HoldsFlush(vs_flush, v))
    OBVIOUS
  <2>5. Holders[v] = n + x + y + z
    BY <2>3, <2>4, HoldersSum DEF HoldersExact
  <2>6. Holders'[v] = n + x + y + z
    BY <2>2, <2>3, <2>4, HoldersAfter DEF HoldersExact, ReadFrame
  <2>7. QED
    BY <2>5, <2>6
<1>3. Holders = [v \in Ids |-> Holders[v]] /\ Holders' = [v \in Ids |-> Holders'[v]]
  BY DEF Holders
<1>4. QED
  BY <1>2, <1>3

\* Version::Get with mutex_ released.
LEMMA ReadTablesStep ==
    ASSUME VsInv, NEW t \in VersionReaders, ReadTables(t)
    PROVE  VsInv'
<1>1. /\ vs_read[t].pc = "get" /\ vs_versions' = vs_versions /\ vs_meta' = vs_meta /\ ReadFrame
      /\ vs_read \in [VersionReaders -> ReadType] /\ vs_read[t] \in ReadType
  BY DEF ReadTables, ReadFrame, VsInv, ReadersInv
<1>2. PICK r, v, k, T, S : /\ r = vs_read[t] /\ v = r.version /\ k = r.key /\ T = TablesFor(v, k)
                           /\ S = Searched(v, k)
  OBVIOUS
<1>3. /\ r \in ReadType /\ r.pc = "get" /\ v \in DOMAIN vs_versions /\ k \in VersionKeys
      /\ r.seek_file = NoFile /\ v \in Ids /\ r.got \in {"none", "found", "missing", "error"}
  BY <1>1, <1>2 DEF VsInv, ReadersInv, RefState, ReadType
<1>4. S \subseteq T
  BY <1>2 DEF Searched
<1>5. VersionGet(v, k) \subseteq {"found", "missing"}
  BY DEF VersionGet, Value
<1>6. \E new : /\ vs_read' = [vs_read EXCEPT ![t] = new]
               /\ \/ new = [r EXCEPT !.pc = "hold"]
                  \/ \E n \in (1 .. Cardinality(S)) \cup {Cardinality(S)}, g \in {"found", "missing", "error"} :
                        new = [r EXCEPT !.seek_file = SeekFile(T, n), !.seek_level = SeekLevel(T, n),
                                        !.pc = "charge", !.got = g]
  <2>1. PICK new \in {[r EXCEPT !.pc = "hold"]}
           \cup {[[r EXCEPT !.seek_file = SeekFile(T, Cardinality(S)), !.seek_level = SeekLevel(T, Cardinality(S))]
                    EXCEPT !.pc = "charge", !.got = g] : g \in VersionGet(v, k)}
           \cup {[[r EXCEPT !.seek_file = SeekFile(T, n), !.seek_level = SeekLevel(T, n)]
                    EXCEPT !.pc = "charge", !.got = "error"] : n \in 1 .. Cardinality(S)} :
           vs_read' = [vs_read EXCEPT ![t] = new]
    BY <1>2, ZenonT(30) DEF ReadTables
  <2>2. QED
    BY <1>5, <2>1
<1>7. PICK new : /\ vs_read' = [vs_read EXCEPT ![t] = new] /\ new \in ReadType /\ new.version = v
                 /\ new.pc \in {"hold", "charge"}
                 /\ new.seek_file /= NoFile =>
                       /\ new.pc = "charge" /\ new.seek_level \in Upper
                       /\ new.seek_file \in vs_versions[v].files[new.seek_level]
  <2>1. PICK new : /\ vs_read' = [vs_read EXCEPT ![t] = new]
                   /\ \/ new = [r EXCEPT !.pc = "hold"]
                      \/ \E n \in (1 .. Cardinality(S)) \cup {Cardinality(S)}, g \in {"found", "missing", "error"} :
                            new = [r EXCEPT !.seek_file = SeekFile(T, n), !.seek_level = SeekLevel(T, n),
                                            !.pc = "charge", !.got = g]
    BY <1>6
  <2>2. CASE new = [r EXCEPT !.pc = "hold"]
    <3>1. new \in ReadType /\ new.version = v /\ new.pc = "hold" /\ new.seek_file = NoFile
      BY <1>2, <1>3, <2>2 DEF ReadType
    <3>2. QED
      BY <2>1, <3>1
  <2>3. ASSUME NEW n \in (1 .. Cardinality(S)) \cup {Cardinality(S)}, NEW g \in {"found", "missing", "error"},
               new = [r EXCEPT !.seek_file = SeekFile(T, n), !.seek_level = SeekLevel(T, n),
                               !.pc = "charge", !.got = g]
        PROVE  /\ new \in ReadType /\ new.version = v /\ new.pc = "charge"
               /\ new.seek_file /= NoFile => /\ new.seek_level \in Upper
                                             /\ new.seek_file \in vs_versions[v].files[new.seek_level]
    <3>1. PICK f, l : f = SeekFile(T, n) /\ l = SeekLevel(T, n)
      OBVIOUS
    <3>2. vs_next \in Nat /\ \A o \in DOMAIN vs_meta : vs_meta[o].num < vs_next
      BY DEF VsInv, DiskInv, Ids
    <3>3. f \in Nat /\ l \in Upper \cup {-1} /\ (f /= NoFile => l \in Upper /\ f \in vs_versions[v].files[l])
      BY <1>2, <1>3, <1>4, <3>1, <3>2, ChargedTable DEF VsInv, FilesOf
    <3>4. new = [r EXCEPT !.seek_file = f, !.seek_level = l, !.pc = "charge", !.got = g]
      BY <2>3, <3>1
    <3>5. /\ new \in ReadType /\ new.version = v /\ new.pc = "charge" /\ new.seek_file = f
          /\ new.seek_level = l
      BY <1>2, <1>3, <3>3, <3>4 DEF ReadType
    <3>6. QED
      BY <3>3, <3>5
  <2>4. QED
    BY <2>1, <2>2, <2>3
<1>8. Holders' = Holders
  BY <1>1, <1>2, <1>7, SameReaders
<1>9. StepOK(vs_versions, vs_meta, vs_versions', vs_meta', BuiltFiles, Holders')
  BY <1>1, <1>8 DEF StepOK, VsInv, KeepsMeta, KeepsVersions
<1>10. ReadersInv'
  <2>1. HeldExactly' /\ KeepsVersions(vs_versions, vs_versions')
    BY <1>9 DEF StepOK, HeldExactly
  <2>2. QED
    BY <1>3, <1>7, <2>1, ReadersStep
<1>11. QED
  BY <1>1, <1>9, <1>10, ReadStep

\* The end of a read: UpdateStats and Unref.
LEMMA ReadEndStep ==
    ASSUME VsInv, NEW t \in VersionReaders, ReadEnd(t)
    PROVE  VsInv'
<1>1. PICK r, v : r = vs_read[t] /\ v = r.version
  OBVIOUS
<1>2. PICK new : new = [NotReading EXCEPT !.reads = r.reads]
  OBVIOUS
<1>3. /\ r.pc /= "idle" /\ vs_read' = [vs_read EXCEPT ![t] = new] /\ ReadFrame
      /\ vs_read \in [VersionReaders -> ReadType] /\ r \in ReadType
  BY <1>1, <1>2 DEF ReadEnd, ReadFrame, VsInv, ReadersInv
<1>4. new \in ReadType /\ new.pc = "idle" /\ new.seek_file = NoFile
  BY <1>2, <1>3 DEF ReadType, NotReading, NoFile
<1>5. /\ v \in DOMAIN vs_versions /\ v \in Ids
      /\ r.seek_file /= NoFile => r.seek_level \in Upper /\ r.seek_file \in vs_versions[v].files[r.seek_level]
  BY <1>1, <1>3 DEF VsInv, ReadersInv, RefState, FilesOf
<1>6. PICK st1 : st1 = UpdateStats(Maps, v, r.seek_file, r.seek_level)
  OBVIOUS
<1>7. /\ StepOK(vs_versions, vs_meta, st1.versions, st1.meta, BuiltFiles, Holders)
      /\ st1 = [versions |-> st1.versions, meta |-> st1.meta]
      /\ DOMAIN st1.versions = DOMAIN vs_versions
  <2>1. RefState(vs_versions, vs_meta, BuiltFiles) /\ Held(vs_versions, Holders)
        /\ st1 = UpdateStats([versions |-> vs_versions, meta |-> vs_meta], v, r.seek_file, r.seek_level)
    BY <1>6 DEF VsInv, Maps
  <2>2. QED
    BY <1>5, <2>1, UpdatedStats
<1>8. PICK st : st = VUnref(st1, v)
  OBVIOUS
<1>9. StepOK(st1.versions, st1.meta, st.versions, st.meta, BuiltFiles, Less(Holders, v))
  <2>1. PICK a, b : a = st1.versions /\ b = st1.meta
    OBVIOUS
  <2>2. RefState(a, b, BuiltFiles) /\ Held(a, Holders) /\ v \in DOMAIN a
        /\ st = VUnref([versions |-> a, meta |-> b], v)
    BY <1>5, <1>7, <1>8, <2>1 DEF StepOK
  <2>3. StepOK(a, b, st.versions, st.meta, BuiltFiles, Less(Holders, v))
    BY <2>2, UnrefVersion
  <2>4. QED
    BY <2>1, <2>3
<1>10. vs_versions' = st.versions /\ vs_meta' = st.meta
  BY <1>1, <1>6, <1>8 DEF ReadEnd, Become, ChargedVersion
<1>11. Holders' = Less(Holders, v)
  <2>1. ASSUME NEW u \in Ids
        PROVE  Holders'[u] + One(u = v) = Holders[u]
    <3>1. PICK n, n2 : n = Cardinality(Reading(vs_read, u)) /\ n2 = Cardinality(Reading(vs_read', u))
      OBVIOUS
    <3>2. n2 + One(u = v) = n
      <4>1. Recounted(vs_read, t, new, vs_read', u)
        BY <1>3, ReaderChanges
      <4>2. QED
        BY <1>1, <1>3, <1>4, <3>1, <4>1 DEF Recounted
    <3>3. n \in Nat /\ n2 \in Nat
      BY <3>1, ReadingFinite
    <3>4. PICK x, y, z, w : /\ x = One(u = vs_current) /\ y = One(HoldsJob(vs_job, u))
                            /\ z = One(HoldsFlush(vs_flush, u)) /\ w = One(u = v)
      OBVIOUS
    <3>5. x \in Nat /\ y \in Nat /\ z \in Nat /\ w \in Nat
      BY <3>4 DEF One
    <3>6. Holders[u] = n + x + y + z
      BY <3>1, <3>4, HoldersSum DEF HoldersExact
    <3>7. Holders'[u] = n2 + x + y + z
      BY <1>3, <3>1, <3>4, HoldersAfter DEF HoldersExact, ReadFrame
    <3>8. n2 + w = n
      BY <3>2, <3>4
    <3>9. Holders'[u] + w = Holders[u]
      BY <3>3, <3>5, <3>6, <3>7, <3>8
    <3>10. QED
      BY <3>4, <3>9
  <2>2. Holders \in [Ids -> Nat] /\ Holders' \in [Ids -> Nat]
    BY HoldersSum, HoldersAfter DEF HoldersExact
  <2>3. QED
    BY <1>5, <2>1, <2>2, HoldersLess
<1>12. StepOK(vs_versions, vs_meta, vs_versions', vs_meta', BuiltFiles, Holders')
  BY <1>7, <1>9, <1>10, <1>11, StepsCompose DEF StepOK
<1>13. ReadersInv'
  <2>1. HeldExactly' /\ KeepsVersions(vs_versions, vs_versions')
    BY <1>12 DEF StepOK, HeldExactly
  <2>2. QED
    BY <1>3, <1>4, <2>1, ReadersStep
<1>14. QED
  BY <1>3, <1>12, <1>13, ReadStep

\* RecordReadSample
LEMMA ReadSampleStep ==
    ASSUME VsInv, NEW t \in VersionReaders, ReadSample(t)
    PROVE  VsInv'
<1>1. PICK r, new : r = vs_read[t] /\ new = [r EXCEPT !.reads = @ + 1]
  OBVIOUS
<1>2. /\ r.pc = "hold" /\ vs_read' = [vs_read EXCEPT ![t] = new] /\ ReadFrame
      /\ vs_read \in [VersionReaders -> ReadType] /\ r \in ReadType
  BY <1>1 DEF ReadSample, ReadFrame, VsInv, ReadersInv
<1>3. /\ new \in ReadType /\ new.pc = "hold" /\ new.version = r.version /\ new.seek_file = r.seek_file
  BY <1>1, <1>2 DEF ReadType
<1>4. r.seek_file = NoFile /\ r.version \in Ids
  BY <1>1, <1>2 DEF VsInv, ReadersInv, RefState
<1>5. PICK k \in VersionKeys : Become(UpdateStats(Maps, vs_current,
                SeekFile(TablesFor(vs_current, k), Cardinality(TablesFor(vs_current, k))),
                SeekLevel(TablesFor(vs_current, k), Cardinality(TablesFor(vs_current, k)))))
  BY DEF ReadSample
<1>6. PICK T, n : T = TablesFor(vs_current, k) /\ n = Cardinality(T)
  OBVIOUS
<1>7. PICK f, l : f = SeekFile(T, n) /\ l = SeekLevel(T, n)
  OBVIOUS
<1>8. vs_current \in DOMAIN vs_versions /\ (f /= NoFile => l \in Upper /\ f \in vs_versions[vs_current].files[l])
  <2>1. vs_next \in Nat /\ \A o \in DOMAIN vs_meta : vs_meta[o].num < vs_next
    BY DEF VsInv, DiskInv, Ids
  <2>2. RefState(vs_versions, vs_meta, BuiltFiles) /\ vs_current \in DOMAIN vs_versions
    BY DEF VsInv
  <2>3. T \in SUBSET T /\ n \in (1 .. Cardinality(T)) \cup {Cardinality(T)}
    BY <1>6
  <2>4. QED
    BY <1>6, <1>7, <2>1, <2>2, <2>3, ChargedTable DEF FilesOf
<1>9. PICK st : st = UpdateStats(Maps, vs_current, f, l)
  OBVIOUS
<1>10. vs_versions' = st.versions /\ vs_meta' = st.meta
  BY <1>5, <1>6, <1>7, <1>9 DEF Become
<1>11. StepOK(vs_versions, vs_meta, st.versions, st.meta, BuiltFiles, Holders)
  <2>1. RefState(vs_versions, vs_meta, BuiltFiles) /\ Held(vs_versions, Holders)
        /\ st = UpdateStats([versions |-> vs_versions, meta |-> vs_meta], vs_current, f, l)
    BY <1>9 DEF VsInv, Maps
  <2>2. QED
    BY <1>8, <2>1, UpdatedStats
<1>12. Holders' = Holders
  BY <1>1, <1>2, <1>3, SameReaders
<1>13. ReadersInv'
  <2>1. HeldExactly' /\ KeepsVersions(vs_versions, vs_versions')
    BY <1>10, <1>11, <1>12 DEF StepOK, HeldExactly
  <2>2. QED
    BY <1>2, <1>3, <1>4, <2>1, ReadersStep
<1>14. QED
  BY <1>2, <1>10, <1>11, <1>12, <1>13, ReadStep

-----------------------------------------------------------------------------
(* Flushes and compactions *)

\* The background thread changes who holds a Version, and no reader does.
LEMMA HolderParts ==
    ASSUME vs_read' = vs_read, NEW v \in Ids
    PROVE  \E n \in Nat :
              /\ Holders[v] = n + One(v = vs_current) + One(HoldsJob(vs_job, v)) + One(HoldsFlush(vs_flush, v))
              /\ Holders'[v] = n + One(v = vs_current') + One(HoldsJob(vs_job', v)) + One(HoldsFlush(vs_flush', v))
<1>1. PICK n : n = Cardinality(Reading(vs_read, v))
  OBVIOUS
<1>2. n \in Nat
  BY <1>1, ReadingFinite
<1>3. Holders[v] = n + One(v = vs_current) + One(HoldsJob(vs_job, v)) + One(HoldsFlush(vs_flush, v))
  BY <1>1, HoldersSum DEF HoldersExact
<1>4. Holders'[v] = n + One(v = vs_current') + One(HoldsJob(vs_job', v)) + One(HoldsFlush(vs_flush', v))
  BY <1>1, HoldersAfter DEF HoldersExact
<1>5. QED
  BY <1>2, <1>3, <1>4

\* WriteLevel0Table takes a reference of current_ and a number for its table.
LEMMA FlushStartStep ==
    ASSUME VsInv, FlushStart
    PROVE  VsInv'
<1>1. PICK m \in FlushContents :
         vs_flush' = [num |-> vs_next, base |-> vs_current,
                      recs |-> [k \in DOMAIN m |-> [seq |-> vs_next, type |-> m[k]]]]
  BY DEF FlushStart
<1>2. /\ vs_flush = None /\ vs_built = None /\ (vs_job /= None => ~vs_job.move)
      /\ vs_next' = vs_next + 1 /\ vs_disk' = vs_disk \cup {vs_next} /\ vs_pending' = vs_pending \cup {vs_next}
      /\ vs_current' = vs_current /\ vs_built' = vs_built /\ vs_job' = vs_job /\ vs_read' = vs_read
      /\ vs_error' = vs_error
  BY DEF FlushStart, BackgroundFree
<1>3. PICK st : st = VRef(Maps, vs_current)
  OBVIOUS
<1>4. vs_versions' = st.versions /\ vs_meta' = st.meta
  BY <1>3 DEF FlushStart, Become
<1>5. vs_current \in DOMAIN vs_versions /\ vs_current \in Ids /\ vs_next \in Ids
  BY DEF VsInv, RefState, DiskInv
<1>6. /\ StepOK(vs_versions, vs_meta, vs_versions', vs_meta', BuiltFiles, More(Holders, vs_current))
      /\ vs_meta' = vs_meta
  BY <1>3, <1>4, <1>5, RefVersion DEF VsInv, Maps
<1>7. vs_flush'.num = vs_next /\ vs_flush'.base = vs_current /\ IsRecs(vs_flush'.recs) /\ vs_flush' /= None
      /\ {"num", "base", "recs"} \subseteq DOMAIN vs_flush'
  <2>1. DOMAIN m \subseteq VersionKeys /\ DOMAIN m /= {}
    BY VersionSetAssumption
  <2>2. vs_flush'.num = vs_next /\ vs_flush'.base = vs_current
        /\ {"num", "base", "recs"} \subseteq DOMAIN vs_flush'
        /\ DOMAIN (vs_flush'.recs) = DOMAIN m
    BY <1>1
  <2>3. vs_flush' /= None
    BY <2>2 DEF None
  <2>4. QED
    BY <2>1, <2>2, <2>3 DEF IsRecs
<1>8. Holders' = More(Holders, vs_current)
  <2>1. ASSUME NEW v \in Ids
        PROVE  Holders'[v] = Holders[v] + One(v = vs_current)
    <3>1. PICK n \in Nat :
              /\ Holders[v] = n + One(v = vs_current) + One(HoldsJob(vs_job, v)) + One(HoldsFlush(vs_flush, v))
              /\ Holders'[v] = n + One(v = vs_current') + One(HoldsJob(vs_job', v)) + One(HoldsFlush(vs_flush', v))
      BY <1>2, HolderParts
    <3>2. PICK x, y : x = One(v = vs_current) /\ y = One(HoldsJob(vs_job, v))
      OBVIOUS
    <3>3. x \in Nat /\ y \in Nat
      BY <3>2 DEF One
    <3>4. One(HoldsFlush(vs_flush, v)) = 0 /\ One(HoldsFlush(vs_flush', v)) = x
      BY <1>2, <1>7, <3>2 DEF HoldsFlush, One
    <3>5. Holders[v] = n + x + y + 0 /\ Holders'[v] = n + x + y + x
      BY <1>2, <3>1, <3>2, <3>4
    <3>6. QED
      BY <3>2, <3>3, <3>5
  <2>2. Holders \in [Ids -> Nat] /\ Holders' \in [Ids -> Nat]
    BY HoldersSum, HoldersAfter DEF HoldersExact
  <2>3. QED
    BY <1>5, <2>1, <2>2, HoldersMore
<1>9. BuiltFiles' = BuiltFiles
  BY <1>2 DEF BuiltFiles
<1>10. /\ RefState(vs_versions', vs_meta', BuiltFiles') /\ Held(vs_versions', Holders') /\ HeldExactly'
       /\ KeepsVersions(vs_versions, vs_versions')
  BY <1>6, <1>8, <1>9 DEF StepOK, HeldExactly
<1>11. vs_current' \in DOMAIN vs_versions'
  BY <1>2, <1>5, <1>10, HoldersAfter DEF HeldAlive
<1>12. ReadersInv'
  BY <1>2, <1>10, ReadersFrame
<1>13. JobInv'
  <2>1. vs_next \in Nat /\ vs_next' \in Nat /\ vs_next <= vs_next'
    BY <1>2, <1>5 DEF Ids
  <2>2. QED
    BY <1>2, <1>10, <2>1, JobFrame
<1>14. FlushInv'
  <2>1. vs_flush'.num \in 1 .. vs_next' - 1
    BY <1>2, <1>5, <1>7 DEF Ids
  <2>2. \A o \in DOMAIN vs_meta : vs_meta[o].num /= vs_next
    BY <1>5 DEF VsInv, DiskInv, RefState, IsMeta, Ids
  <2>3. vs_job /= None => vs_job.num /= vs_next
    BY <1>5 DEF VsInv, JobInv, Ids
  <2>4. QED
    BY <1>2, <1>6, <1>7, <1>11, <2>1, <2>2, <2>3 DEF FlushInv
<1>15. DiskInv'
  <2>1. vs_next' \in Ids /\ vs_error' \in BOOLEAN
    BY <1>2, <1>5 DEF VsInv, DiskInv, Ids
  <2>2. \A o \in DOMAIN vs_meta' : vs_meta'[o].num < vs_next'
    BY <1>2, <1>5, <1>6 DEF VsInv, DiskInv, RefState, IsMeta, Ids
  <2>3. TablesKept'
    BY <1>2, <1>6, <1>10 DEF VsInv, DiskInv, TablesKept, KeepsVersions
  <2>4. QED
    BY <2>1, <2>2, <2>3 DEF DiskInv
<1>16. BuiltInv'
  BY <1>2 DEF BuiltInv
<1>17. QED
  BY <1>10, <1>11, <1>12, <1>13, <1>14, <1>15, <1>16 DEF VsInv

\* What LogAndApply does before it unlocks: the tables of the Version it has built are counted and
\* on disk.
AppliedOK ==
    /\ RefState(vs_versions', vs_meta', BuiltFiles')
    /\ vs_built' \in FilesType /\ vs_built' /= None /\ DiskInv'

\* LogAndApply of an edit whose table, if it adds one, is on disk.
LEMMA AppliedEdit ==
    ASSUME VsInv, NEW a, NEW b, RefState(a, b, {}), KeepsMeta(vs_meta, b), KeepsVersions(vs_versions, a),
           vs_current \in DOMAIN a,
           NEW edit, edit.recs /= None => /\ IsRecs(edit.recs) /\ edit.num \in Nat
                                          /\ edit.num < vs_next /\ edit.num \in vs_disk,
           LogAndApply(edit, [versions |-> a, meta |-> b]),
           vs_next' = vs_next, vs_error' = vs_error, vs_disk' = vs_disk,
           vs_pending' \subseteq vs_pending
    PROVE  AppliedOK /\ vs_versions' = a
<1>1. PICK x, files, metas : x = Build(edit, [versions |-> a, meta |-> b]) /\ files = x.files /\ metas = x.meta
  OBVIOUS
<1>2. vs_built' = files /\ vs_versions' = a /\ vs_meta' = metas
  BY <1>1 DEF LogAndApply
<1>3. BuildOK(a, b, vs_current, edit, x)
  BY <1>1, BuiltVersion
<1>4. /\ files \in FilesType /\ RefState(a, metas, AllFiles(files))
      /\ \A o \in DOMAIN b : metas[o].num = b[o].num
      /\ \A o \in DOMAIN metas \ DOMAIN b : edit.recs /= None /\ metas[o].num = edit.num
      /\ \A o \in AllFiles(files) \cap DOMAIN b : o \in AllFiles(a[vs_current].files)
  BY <1>1, <1>3 DEF BuildOK
<1>5. files /= None
  <2>1. 0 \in VLevels /\ DOMAIN files = VLevels
    BY <1>4, VersionSetAssumption DEF VLevels, FilesType
  <2>2. QED
    BY <2>1 DEF None
<1>6. BuiltFiles' = AllFiles(files)
  BY <1>2, <1>5 DEF BuiltFiles
<1>7. \A o \in DOMAIN b : o \in DOMAIN vs_meta /\ b[o].num = vs_meta[o].num
  BY DEF KeepsMeta
<1>8. \A o \in DOMAIN metas : metas[o].num < vs_next
  BY <1>4, <1>7 DEF VsInv, DiskInv
<1>9. ASSUME NEW v \in DOMAIN a, NEW o \in AllFiles(a[v].files)
      PROVE  o \in DOMAIN metas /\ metas[o].num \in vs_disk
  <2>1. o \in DOMAIN metas
    BY <1>4 DEF RefState
  <2>2. v \in DOMAIN vs_versions /\ o \in AllFiles(vs_versions[v].files)
    BY DEF KeepsVersions
  <2>3. vs_meta[o].num \in vs_disk
    BY <2>2 DEF VsInv, DiskInv, TablesKept
  <2>4. o \in DOMAIN b => metas[o].num \in vs_disk
    BY <1>4, <1>7, <2>3
  <2>5. QED
    BY <1>4, <2>1, <2>4
<1>10. ASSUME NEW o \in AllFiles(files)
       PROVE  metas[o].num \in vs_disk
  <2>1. o \in DOMAIN metas
    BY <1>4 DEF RefState
  <2>2. o \in DOMAIN b => metas[o].num \in vs_disk
    BY <1>4, <1>9
  <2>3. QED
    BY <1>4, <2>1, <2>2
<1>11. TablesKept'
  <2>1. vs_pending' \subseteq vs_disk'
    BY DEF VsInv, DiskInv, TablesKept
  <2>2. QED
    BY <1>2, <1>9, <1>10, <2>1 DEF TablesKept
<1>12. DiskInv'
  BY <1>2, <1>8, <1>11 DEF VsInv, DiskInv
<1>13. QED
  BY <1>2, <1>4, <1>5, <1>6, <1>12 DEF AppliedOK

\* The flush no longer holds the Version it started from.
LEMMA FlushReleases ==
    ASSUME VsInv, vs_read' = vs_read, vs_current' = vs_current, vs_job' = vs_job,
           vs_flush /= None, vs_flush.base \in Ids, vs_flush' = None \/ vs_flush'.base = 0
    PROVE  Holders' = Less(Holders, vs_flush.base)
<1>1. PICK c : c = vs_flush.base
  OBVIOUS
<1>2. ASSUME NEW v \in Ids
      PROVE  Holders'[v] + One(v = c) = Holders[v]
  <2>1. PICK n \in Nat :
            /\ Holders[v] = n + One(v = vs_current) + One(HoldsJob(vs_job, v)) + One(HoldsFlush(vs_flush, v))
            /\ Holders'[v] = n + One(v = vs_current') + One(HoldsJob(vs_job', v)) + One(HoldsFlush(vs_flush', v))
    BY HolderParts
  <2>2. PICK x, y, z : x = One(v = vs_current) /\ y = One(HoldsJob(vs_job, v)) /\ z = One(v = c)
    OBVIOUS
  <2>3. x \in Nat /\ y \in Nat /\ z \in Nat
    BY <2>2 DEF One
  <2>4. One(HoldsFlush(vs_flush, v)) = z /\ One(HoldsFlush(vs_flush', v)) = 0
    BY <1>1, <2>2 DEF HoldsFlush, One, Ids
  <2>5. Holders[v] = n + x + y + z /\ Holders'[v] = n + x + y + 0
    BY <2>1, <2>2, <2>4
  <2>6. QED
    BY <2>2, <2>3, <2>5
<1>3. Holders \in [Ids -> Nat] /\ Holders' \in [Ids -> Nat]
  BY HoldersSum, HoldersAfter DEF HoldersExact
<1>4. QED
  BY <1>1, <1>2, <1>3, HoldersLess

\* WriteLevel0Table with mutex_ again, and LogAndApply up to its unlock.
LEMMA FlushApplyStep ==
    ASSUME VsInv, FlushApply
    PROVE  VsInv'
<1>1. PICK f, edit, st :
         /\ f = vs_flush /\ st = VUnref(Maps, f.base)
         /\ edit = [deleted |-> {}, level |-> LevelForMemTable(f.base, Min(DOMAIN f.recs), Max(DOMAIN f.recs)),
                    num |-> f.num, recs |-> f.recs]
  OBVIOUS
<1>2. /\ vs_flush /= None /\ vs_built = None /\ LogAndApply(edit, st)
      /\ vs_flush' = [f EXCEPT !.base = 0] /\ vs_pending' = vs_pending \ {f.num}
      /\ vs_current' = vs_current /\ vs_next' = vs_next /\ vs_disk' = vs_disk /\ vs_job' = vs_job
      /\ vs_read' = vs_read /\ vs_error' = vs_error
  BY <1>1 DEF FlushApply
<1>3. /\ {"num", "base", "recs"} \subseteq DOMAIN f /\ IsRecs(f.recs) /\ f.num \in 1 .. vs_next - 1
      /\ f.base \in DOMAIN vs_versions /\ f.base \in Ids /\ f.num \in vs_pending
      /\ vs_job /= None => vs_job.num /= f.num /\ ~vs_job.move
  BY <1>1, <1>2 DEF VsInv, FlushInv, RefState
<1>4. /\ vs_flush'.base = 0 /\ vs_flush'.num = f.num /\ vs_flush'.recs = f.recs /\ DOMAIN vs_flush' = DOMAIN f
      /\ vs_flush' /= None
  <2>1. /\ vs_flush'.base = 0 /\ vs_flush'.num = f.num /\ vs_flush'.recs = f.recs /\ DOMAIN vs_flush' = DOMAIN f
    BY <1>2, <1>3
  <2>2. QED
    BY <1>3, <2>1 DEF None
<1>5. Holders' = Less(Holders, f.base)
  BY <1>1, <1>2, <1>3, <1>4, FlushReleases
<1>6. PICK a, b : a = st.versions /\ b = st.meta
  OBVIOUS
<1>7. BuiltFiles = {}
  BY <1>2 DEF BuiltFiles
<1>8. StepOK(vs_versions, vs_meta, a, b, {}, Holders')
  <2>1. RefState(vs_versions, vs_meta, {}) /\ Held(vs_versions, Holders)
        /\ st = VUnref([versions |-> vs_versions, meta |-> vs_meta], f.base)
    BY <1>1, <1>7 DEF VsInv, Maps
  <2>2. QED
    BY <1>3, <1>5, <1>6, <2>1, UnrefVersion
<1>9. vs_versions' = a
  BY <1>2, <1>6 DEF LogAndApply
<1>10. HeldExactly' /\ KeepsVersions(vs_versions, vs_versions') /\ Held(vs_versions', Holders')
  BY <1>8, <1>9 DEF StepOK, HeldExactly
<1>11. vs_current' \in DOMAIN vs_versions'
  <2>1. vs_current \in Ids
    BY DEF VsInv, RefState
  <2>2. QED
    BY <1>2, <1>10, <2>1, HoldersAfter DEF HeldAlive
<1>12. AppliedOK
  <2>1. LogAndApply(edit, [versions |-> a, meta |-> b])
    BY <1>2, <1>6 DEF LogAndApply, Build
  <2>2. edit.recs = f.recs /\ edit.num = f.num
    BY <1>1
  <2>3. edit.num \in Nat /\ edit.num < vs_next /\ edit.num \in vs_disk /\ IsRecs(edit.recs)
    BY <1>3, <2>2 DEF VsInv, DiskInv, TablesKept, Ids
  <2>4. RefState(a, b, {}) /\ KeepsMeta(vs_meta, b) /\ KeepsVersions(vs_versions, a) /\ vs_current \in DOMAIN a
    BY <1>2, <1>8, <1>9, <1>11 DEF StepOK
  <2>5. vs_pending' \subseteq vs_pending
    BY <1>2
  <2>6. QED
    BY <1>2, <2>1, <2>3, <2>4, <2>5, AppliedEdit
<1>13. ReadersInv'
  BY <1>2, <1>10, ReadersFrame
<1>14. JobInv'
  <2>1. vs_next \in Nat /\ vs_next' \in Nat /\ vs_next <= vs_next'
    BY <1>2 DEF VsInv, DiskInv, Ids
  <2>2. QED
    BY <1>2, <1>3, <1>10, <1>12, <2>1, JobFrame DEF AppliedOK
<1>15. FlushInv'
  BY <1>2, <1>3, <1>4, <1>12 DEF FlushInv, AppliedOK
<1>16. BuiltInv'
  BY <1>4, <1>12 DEF BuiltInv, AppliedOK
<1>17. QED
  BY <1>10, <1>11, <1>12, <1>13, <1>14, <1>15, <1>16 DEF VsInv, AppliedOK

\* BuildTable fails.
LEMMA FlushFailsStep ==
    ASSUME VsInv, FlushFails
    PROVE  VsInv'
<1>1. PICK f, st : f = vs_flush /\ st = VUnref(Maps, f.base)
  OBVIOUS
<1>2. /\ vs_flush /= None /\ vs_built = None /\ vs_flush' = None /\ vs_error' = TRUE
      /\ vs_pending' = vs_pending \ {f.num} /\ vs_disk' = vs_disk \ {f.num}
      /\ vs_versions' = st.versions /\ vs_meta' = st.meta
      /\ vs_current' = vs_current /\ vs_next' = vs_next /\ vs_job' = vs_job /\ vs_built' = vs_built
      /\ vs_read' = vs_read
  BY <1>1 DEF FlushFails, Become
<1>3. /\ f.base \in DOMAIN vs_versions /\ f.base \in Ids
      /\ \A o \in DOMAIN vs_meta : vs_meta[o].num /= f.num
      /\ vs_job /= None => vs_job.num /= f.num /\ ~vs_job.move
  BY <1>1, <1>2 DEF VsInv, FlushInv, RefState
<1>4. Holders' = Less(Holders, f.base)
  BY <1>1, <1>2, <1>3, FlushReleases
<1>5. BuiltFiles' = BuiltFiles
  BY <1>2 DEF BuiltFiles
<1>6. StepOK(vs_versions, vs_meta, vs_versions', vs_meta', BuiltFiles', Holders')
  <2>1. RefState(vs_versions, vs_meta, BuiltFiles) /\ Held(vs_versions, Holders)
        /\ st = VUnref([versions |-> vs_versions, meta |-> vs_meta], f.base)
    BY <1>1 DEF VsInv, Maps
  <2>2. StepOK(vs_versions, vs_meta, st.versions, st.meta, BuiltFiles, Less(Holders, f.base))
    BY <1>3, <2>1, UnrefVersion
  <2>3. QED
    BY <1>2, <1>4, <1>5, <2>2
<1>7. /\ RefState(vs_versions', vs_meta', BuiltFiles') /\ Held(vs_versions', Holders') /\ HeldExactly'
      /\ KeepsVersions(vs_versions, vs_versions') /\ KeepsMeta(vs_meta, vs_meta')
  BY <1>6 DEF StepOK, HeldExactly
<1>8. vs_current' \in DOMAIN vs_versions'
  <2>1. vs_current \in Ids
    BY DEF VsInv, RefState
  <2>2. QED
    BY <1>2, <1>7, <2>1, HoldersAfter DEF HeldAlive
<1>9. ReadersInv'
  BY <1>2, <1>7, ReadersFrame
<1>10. JobInv'
  <2>1. vs_next \in Nat /\ vs_next' \in Nat /\ vs_next <= vs_next'
    BY <1>2 DEF VsInv, DiskInv, Ids
  <2>2. QED
    BY <1>2, <1>3, <1>7, <2>1, JobFrame
<1>11. FlushInv' /\ BuiltInv'
  BY <1>2 DEF FlushInv, BuiltInv
<1>12. DiskInv'
  <2>1. \A o \in DOMAIN vs_meta' : o \in DOMAIN vs_meta /\ vs_meta'[o].num = vs_meta[o].num
    BY <1>7 DEF KeepsMeta
  <2>2. ASSUME NEW v \in DOMAIN vs_versions', NEW o \in AllFiles(vs_versions'[v].files)
        PROVE  o \in DOMAIN vs_meta' /\ vs_meta'[o].num \in vs_disk'
    <3>1. o \in DOMAIN vs_meta'
      BY <1>7, <2>2 DEF RefState
    <3>2. v \in DOMAIN vs_versions /\ o \in AllFiles(vs_versions[v].files)
      BY <1>7 DEF KeepsVersions
    <3>3. vs_meta[o].num \in vs_disk
      BY <3>2 DEF VsInv, DiskInv, TablesKept
    <3>4. QED
      BY <1>2, <1>3, <2>1, <3>1, <3>3
  <2>3. vs_pending' \subseteq vs_disk'
    BY <1>2 DEF VsInv, DiskInv, TablesKept
  <2>4. TablesKept'
    BY <1>2, <2>2, <2>3 DEF TablesKept
  <2>5. QED
    BY <1>2, <2>1, <2>4 DEF VsInv, DiskInv
<1>13. QED
  BY <1>7, <1>8, <1>9, <1>10, <1>11, <1>12 DEF VsInv

\* The compaction goes on with the Version it holds.
LEMMA SameHolders ==
    ASSUME vs_read' = vs_read, vs_current' = vs_current, vs_flush' = vs_flush,
           vs_job /= None, vs_job' /= None, vs_job'.version = vs_job.version
    PROVE  Holders' = Holders
<1>1. ASSUME NEW v \in Ids
      PROVE  Holders'[v] = Holders[v]
  <2>1. PICK n \in Nat :
            /\ Holders[v] = n + One(v = vs_current) + One(HoldsJob(vs_job, v)) + One(HoldsFlush(vs_flush, v))
            /\ Holders'[v] = n + One(v = vs_current') + One(HoldsJob(vs_job', v)) + One(HoldsFlush(vs_flush', v))
    BY HolderParts
  <2>2. One(HoldsJob(vs_job', v)) = One(HoldsJob(vs_job, v))
    BY DEF HoldsJob, One
  <2>3. QED
    BY <2>1, <2>2
<1>2. Holders = [v \in Ids |-> Holders[v]] /\ Holders' = [v \in Ids |-> Holders'[v]]
  BY DEF Holders
<1>3. QED
  BY <1>1, <1>2

\* OpenCompactionOutputFile
LEMMA CompactionOutputStep ==
    ASSUME VsInv, CompactionOutput
    PROVE  VsInv'
<1>1. PICK j : j = vs_job
  OBVIOUS
<1>2. /\ vs_job /= None /\ vs_flush = None /\ vs_built = None /\ ~j.move
      /\ vs_job' = [j EXCEPT !.num = vs_next]
      /\ vs_next' = vs_next + 1 /\ vs_disk' = vs_disk \cup {vs_next} /\ vs_pending' = vs_pending \cup {vs_next}
      /\ vs_meta' = vs_meta /\ vs_versions' = vs_versions /\ vs_current' = vs_current /\ vs_built' = vs_built
      /\ vs_flush' = vs_flush /\ vs_read' = vs_read /\ vs_error' = vs_error
  BY <1>1 DEF CompactionOutput, Merging, BackgroundFree
<1>3. /\ {"level", "in", "version", "move", "num"} \subseteq DOMAIN j
      /\ j.move \in BOOLEAN /\ j.version \in DOMAIN vs_versions /\ j.level \in Upper
      /\ j.in[1] \subseteq FilesOf(j.version, j.level)
      /\ j.in[2] \subseteq FilesOf(j.version, j.level + 1)
      /\ vs_next \in Nat \ {0}
  BY <1>1, <1>2 DEF VsInv, JobInv, DiskInv, Ids
<1>4. /\ DOMAIN vs_job' = DOMAIN j /\ vs_job'.num = vs_next /\ vs_job'.move = j.move /\ vs_job'.level = j.level
      /\ vs_job'.version = j.version /\ vs_job'.in = j.in /\ vs_job' /= None
  <2>1. /\ DOMAIN vs_job' = DOMAIN j /\ vs_job'.num = vs_next /\ vs_job'.move = j.move /\ vs_job'.level = j.level
        /\ vs_job'.version = j.version /\ vs_job'.in = j.in
    BY <1>2, <1>3
  <2>2. QED
    BY <1>3, <2>1 DEF None
<1>5. Holders' = Holders
  BY <1>1, <1>2, <1>4, SameHolders
<1>6. BuiltFiles' = BuiltFiles
  BY <1>2 DEF BuiltFiles
<1>7. /\ RefState(vs_versions', vs_meta', BuiltFiles') /\ Held(vs_versions', Holders') /\ HeldExactly'
      /\ KeepsVersions(vs_versions, vs_versions')
  BY <1>2, <1>5, <1>6 DEF VsInv, HeldExactly, KeepsVersions
<1>8. ReadersInv'
  BY <1>2, <1>7, ReadersFrame
<1>9. JobInv'
  <2>1. vs_job'.num \in 0 .. vs_next' - 1 /\ vs_job'.num \in vs_pending'
    BY <1>2, <1>3, <1>4
  <2>2. vs_job'.in[1] \subseteq vs_versions'[vs_job'.version].files[vs_job'.level]
        /\ vs_job'.in[2] \subseteq vs_versions'[vs_job'.version].files[vs_job'.level + 1]
    BY <1>2, <1>3, <1>4 DEF FilesOf
  <2>3. /\ {"level", "in", "version", "move", "num"} \subseteq DOMAIN vs_job' /\ vs_job'.move = FALSE
        /\ vs_job'.version \in DOMAIN vs_versions' /\ vs_job'.level \in Upper
    BY <1>2, <1>3, <1>4
  <2>4. QED
    BY <2>1, <2>2, <2>3 DEF JobInv, FilesOf
<1>10. FlushInv' /\ BuiltInv'
  BY <1>2 DEF FlushInv, BuiltInv
<1>11. DiskInv'
  <2>1. vs_next' \in Ids /\ vs_error' \in BOOLEAN
    BY <1>2, <1>3 DEF VsInv, DiskInv, Ids
  <2>2. \A o \in DOMAIN vs_meta' : vs_meta'[o].num < vs_next'
    BY <1>2, <1>3 DEF VsInv, DiskInv, RefState, IsMeta
  <2>3. TablesKept'
    BY <1>2 DEF VsInv, DiskInv, TablesKept
  <2>4. QED
    BY <2>1, <2>2, <2>3 DEF DiskInv
<1>12. vs_current' \in DOMAIN vs_versions'
  BY <1>2 DEF VsInv
<1>13. QED
  BY <1>7, <1>8, <1>9, <1>10, <1>11, <1>12 DEF VsInv

\* The records a merge keeps are of keys that its inputs hold.
LEMMA CompactionRecordsOf ==
    ASSUME VsInv, vs_job /= None
    PROVE  DOMAIN CompactionRecords \subseteq VersionKeys
<1>1. PICK all : all = vs_job.in[1] \cup vs_job.in[2]
  OBVIOUS
<1>2. ASSUME NEW o \in all
      PROVE  DOMAIN vs_meta[o].recs \subseteq VersionKeys
  <2>1. PICK v, l : v = vs_job.version /\ l = vs_job.level
    OBVIOUS
  <2>2. /\ v \in DOMAIN vs_versions /\ l \in Upper
        /\ vs_job.in[1] \subseteq FilesOf(v, l) /\ vs_job.in[2] \subseteq FilesOf(v, l + 1)
    BY <2>1 DEF VsInv, JobInv
  <2>3. l \in VLevels /\ l + 1 \in VLevels
    BY <2>2, VersionSetAssumption DEF Upper, VLevels
  <2>4. o \in AllFiles(vs_versions[v].files)
    BY <1>1, <2>2, <2>3 DEF AllFiles, FilesOf
  <2>5. o \in DOMAIN vs_meta
    BY <2>2, <2>4 DEF VsInv, RefState
  <2>6. QED
    BY <2>5 DEF VsInv, RefState, IsMeta, IsRecs
<1>3. DOMAIN CompactionRecords \subseteq UNION {DOMAIN vs_meta[o].recs : o \in all}
  BY <1>1 DEF CompactionRecords
<1>4. QED
  BY <1>2, <1>3

\* InstallCompactionResults, and LogAndApply up to its unlock.
LEMMA CompactionApplyStep ==
    ASSUME VsInv, CompactionApply
    PROVE  VsInv'
<1>1. PICK edit : edit = [deleted |-> Deletions(vs_job.level, vs_job.in), level |-> vs_job.level + 1,
                          num |-> vs_job.num,
                          recs |-> IF vs_job.num = 0 THEN None ELSE CompactionRecords]
  OBVIOUS
<1>2. /\ vs_job /= None /\ vs_flush = None /\ vs_built = None /\ ~vs_job.move
      /\ (vs_job.num = 0 <=> DOMAIN CompactionRecords = {}) /\ LogAndApply(edit, Maps)
      /\ vs_current' = vs_current /\ vs_next' = vs_next /\ vs_disk' = vs_disk /\ vs_pending' = vs_pending
      /\ vs_flush' = vs_flush /\ vs_job' = vs_job /\ vs_read' = vs_read /\ vs_error' = vs_error
  BY <1>1 DEF CompactionApply, Merging, BackgroundFree
<1>3. vs_job.num \in 0 .. vs_next - 1 /\ (vs_job.num /= 0 => vs_job.num \in vs_pending) /\ vs_next \in Nat
  BY <1>2 DEF VsInv, JobInv, DiskInv, Ids
<1>4. AppliedOK /\ vs_versions' = vs_versions
  <2>1. edit.num = vs_job.num /\ edit.recs = IF vs_job.num = 0 THEN None ELSE CompactionRecords
    BY <1>1
  <2>2. edit.recs /= None => /\ IsRecs(edit.recs) /\ edit.num \in Nat
                             /\ edit.num < vs_next /\ edit.num \in vs_disk
    <3>1. vs_job.num /= 0 => IsRecs(CompactionRecords)
      BY <1>2, CompactionRecordsOf DEF IsRecs
    <3>2. vs_job.num /= 0 => vs_job.num \in Nat /\ vs_job.num < vs_next /\ vs_job.num \in vs_disk
      BY <1>3 DEF VsInv, DiskInv, TablesKept
    <3>3. QED
      BY <2>1, <3>1, <3>2
  <2>3. RefState(vs_versions, vs_meta, {})
    BY <1>2 DEF VsInv, BuiltFiles
  <2>4. KeepsMeta(vs_meta, vs_meta) /\ KeepsVersions(vs_versions, vs_versions) /\ vs_current \in DOMAIN vs_versions
    BY DEF KeepsMeta, KeepsVersions, VsInv
  <2>5. LogAndApply(edit, [versions |-> vs_versions, meta |-> vs_meta])
    BY <1>2 DEF Maps
  <2>6. QED
    BY <1>2, <2>2, <2>3, <2>4, <2>5, AppliedEdit
<1>5. Holders' = Holders
  BY <1>2, SameHolders
<1>6. Held(vs_versions', Holders') /\ HeldExactly' /\ KeepsVersions(vs_versions, vs_versions')
      /\ vs_current' \in DOMAIN vs_versions'
  BY <1>2, <1>4, <1>5 DEF VsInv, HeldExactly, KeepsVersions
<1>7. ReadersInv'
  BY <1>2, <1>6, ReadersFrame
<1>8. JobInv'
  <2>1. vs_next' \in Nat /\ vs_next <= vs_next'
    BY <1>2, <1>3
  <2>2. QED
    BY <1>2, <1>3, <1>6, <2>1, JobFrame
<1>9. FlushInv' /\ BuiltInv'
  BY <1>2, <1>4 DEF FlushInv, BuiltInv, AppliedOK
<1>10. QED
  BY <1>4, <1>6, <1>7, <1>8, <1>9 DEF VsInv, AppliedOK

\* The holders of a Version while a flush or a compaction ends: H, with Version c as current_.
HoldersWith(H, c) ==
    /\ H \in [Ids -> Nat]
    /\ \A v \in Ids : H[v] = Cardinality(Reading(vs_read, v)) + One(v = c)
                             + One(HoldsJob(vs_job, v)) + One(HoldsFlush(vs_flush, v))

\* The Versions of the list are those there were, and the one that was built.
ListedFiles(versions) ==
    \A v \in DOMAIN versions :
        IF v \in DOMAIN vs_versions THEN versions[v].files = vs_versions[v].files
        ELSE vs_built /= None /\ versions[v].files = vs_built

\* ReleaseInputs: the compaction, or else the flush, no longer holds a Version.
LEMMA EndHolders ==
    ASSUME NEW G, HoldersWith(G, vs_current'), vs_read' = vs_read, vs_flush' = None,
           vs_flush /= None => vs_flush.base = 0, vs_job' = IF vs_flush /= None THEN vs_job ELSE None,
           vs_flush = None => vs_job /= None /\ vs_job.version \in Ids
    PROVE  Holders' = IF vs_flush /= None THEN G ELSE Less(G, vs_job.version)
<1>1. Holders' \in [Ids -> Nat] /\ G \in [Ids -> Nat]
  BY HoldersAfter DEF HoldersExact, HoldersWith
<1>2. ASSUME NEW v \in Ids
      PROVE  Holders'[v] + One(vs_flush = None /\ v = vs_job.version) = G[v]
  <2>1. PICK n, x, y, w : /\ n = Cardinality(Reading(vs_read, v)) /\ x = One(v = vs_current')
                          /\ y = One(HoldsJob(vs_job, v)) /\ w = One(vs_flush = None /\ v = vs_job.version)
    OBVIOUS
  <2>2. n \in Nat /\ x \in Nat /\ y \in Nat /\ w \in Nat
    BY <2>1, ReadingFinite DEF One
  <2>3. One(HoldsFlush(vs_flush, v)) = 0 /\ One(HoldsFlush(vs_flush', v)) = 0
    BY DEF One, HoldsFlush, Ids
  <2>4. G[v] = n + x + y + 0
    BY <2>1, <2>3 DEF HoldersWith
  <2>5. Holders'[v] = n + x + One(HoldsJob(vs_job', v)) + 0
    BY <2>1, <2>3, HoldersAfter DEF HoldersExact
  <2>6. CASE vs_flush = None
    <3>1. One(HoldsJob(vs_job', v)) = 0 /\ w = y
      BY <2>1, <2>6 DEF One, HoldsJob
    <3>2. QED
      BY <2>1, <2>2, <2>4, <2>5, <3>1
  <2>7. CASE vs_flush /= None
    <3>1. One(HoldsJob(vs_job', v)) = y /\ w = 0
      BY <2>1, <2>7 DEF One, HoldsJob
    <3>2. QED
      BY <2>1, <2>2, <2>4, <2>5, <3>1
  <2>8. QED
    BY <2>6, <2>7
<1>3. CASE vs_flush = None
  <2>1. \A v \in Ids : Holders'[v] + One(v = vs_job.version) = G[v]
    BY <1>2, <1>3 DEF One
  <2>2. QED
    BY <1>1, <1>3, <2>1, HoldersLess
<1>4. CASE vs_flush /= None
  <2>1. \A v \in Ids : Holders'[v] = G[v]
    <3>1. ASSUME NEW v \in Ids
          PROVE  Holders'[v] = G[v]
      <4>1. One(vs_flush = None /\ v = vs_job.version) = 0
        BY <1>4 DEF One
      <4>2. Holders'[v] \in Nat
        BY <1>1
      <4>3. QED
        BY <1>2, <4>1, <4>2
    <3>2. QED
      BY <3>1
  <2>2. Holders' = G
    BY <1>1, <2>1
  <2>3. QED
    BY <1>4, <2>2
<1>5. QED
  BY <1>3, <1>4

\* DeleteObsoleteFiles keeps what a Version of the list needs.
LEMMA EndDisk ==
    ASSUME VsInv, NEW st, RefState(st.versions, st.meta, {}),
           KeepsMeta(vs_meta, st.meta), ListedFiles(st.versions),
           NEW keeps \in BOOLEAN,
           vs_versions' = st.versions, vs_meta' = st.meta, vs_built' = None, vs_next' = vs_next,
           vs_error' \in BOOLEAN, vs_pending' \subseteq vs_pending,
           vs_disk' = IF keeps THEN vs_disk ELSE vs_disk \cap (vs_pending' \cup LiveNumbers(st))
    PROVE  DiskInv'
<1>1. \A o \in DOMAIN vs_meta' : o \in DOMAIN vs_meta /\ vs_meta'[o].num = vs_meta[o].num
  BY DEF KeepsMeta
<1>2. ASSUME NEW v \in DOMAIN vs_versions', NEW o \in AllFiles(vs_versions'[v].files)
      PROVE  o \in DOMAIN vs_meta' /\ vs_meta'[o].num \in vs_disk'
  <2>1. o \in DOMAIN vs_meta'
    BY <1>2 DEF RefState
  <2>2. vs_meta[o].num \in vs_disk
    <3>1. CASE v \in DOMAIN vs_versions
      BY <1>2, <3>1 DEF ListedFiles, VsInv, DiskInv, TablesKept
    <3>2. CASE v \notin DOMAIN vs_versions
      BY <1>2, <3>2 DEF ListedFiles, VsInv, DiskInv, TablesKept
    <3>3. QED
      BY <3>1, <3>2
  <2>3. vs_meta'[o].num \in LiveNumbers(st)
    BY <1>2 DEF LiveNumbers
  <2>4. QED
    BY <1>1, <2>1, <2>2, <2>3
<1>3. vs_pending' \subseteq vs_disk'
  BY DEF VsInv, DiskInv, TablesKept
<1>4. TablesKept'
  BY <1>2, <1>3 DEF TablesKept
<1>5. QED
  BY <1>1, <1>4 DEF VsInv, DiskInv

\* What follows LogAndApply or a failed merge.
LEMMA EndWorkStep ==
    ASSUME VsInv, NEW a, NEW b, NEW failed \in BOOLEAN, EndWork([versions |-> a, meta |-> b], failed),
           RefState(a, b, {}), KeepsMeta(vs_meta, b), ListedFiles(a),
           NEW G, Held(a, G), HoldersWith(G, vs_current'), vs_current' \in Ids,
           vs_flush /= None => vs_flush.base = 0 /\ vs_built /= None, vs_flush = None => vs_job /= None,
           vs_next' = vs_next, vs_read' = vs_read
    PROVE  VsInv'
<1>1. PICK st : st = IF vs_flush /= None THEN [versions |-> a, meta |-> b]
                     ELSE VUnref([versions |-> a, meta |-> b], vs_job.version)
  OBVIOUS
<1>2. PICK keeps \in BOOLEAN : keeps = (failed \/ vs_error \/ (~(vs_flush /= None) /\ vs_job.move))
  OBVIOUS
<1>3. /\ vs_versions' = st.versions /\ vs_meta' = st.meta /\ vs_flush' = None /\ vs_built' = None
      /\ vs_job' = IF vs_flush /= None THEN vs_job ELSE None
      /\ vs_pending' = IF vs_flush /= None THEN vs_pending ELSE vs_pending \ {vs_job.num}
      /\ vs_disk' = IF keeps THEN vs_disk ELSE vs_disk \cap (vs_pending' \cup LiveNumbers(st))
      /\ vs_error' \in BOOLEAN
  BY <1>1, <1>2 DEF EndWork, Become, Released
<1>4. vs_job /= None => vs_job.version \in DOMAIN vs_versions /\ vs_job.version \in Ids
  BY DEF VsInv, JobInv, RefState
<1>5. Holders' = IF vs_flush /= None THEN G ELSE Less(G, vs_job.version)
  BY <1>3, <1>4, EndHolders
<1>6. /\ RefState(st.versions, st.meta, {}) /\ Held(st.versions, Holders')
      /\ KeepsMeta(b, st.meta) /\ KeepsVersions(a, st.versions)
  <2>1. CASE vs_flush /= None
    BY <1>1, <1>5, <2>1 DEF KeepsMeta, KeepsVersions
  <2>2. CASE vs_flush = None
    <3>1. PICK v : v = vs_job.version
      OBVIOUS
    <3>2. v \in DOMAIN a
      <4>1. PICK n \in Nat, x \in Nat, z \in Nat : G[v] = n + x + 1 + z
        <5>1. One(HoldsJob(vs_job, v)) = 1
          BY <2>2, <3>1 DEF One, HoldsJob
        <5>2. Cardinality(Reading(vs_read, v)) \in Nat /\ One(v = vs_current') \in Nat
              /\ One(HoldsFlush(vs_flush, v)) \in Nat
          BY ReadingFinite DEF One
        <5>3. v \in Ids
          BY <1>4, <2>2, <3>1
        <5>4. QED
          BY <5>1, <5>2, <5>3 DEF HoldersWith
      <4>2. G[v] > 0
        BY <4>1
      <4>3. QED
        BY <1>4, <2>2, <3>1, <4>2 DEF Held
    <3>3. st = VUnref([versions |-> a, meta |-> b], v)
      BY <1>1, <2>2, <3>1
    <3>4. StepOK(a, b, st.versions, st.meta, {}, Less(G, v))
      BY <3>2, <3>3, UnrefVersion
    <3>5. QED
      BY <1>5, <2>2, <3>1, <3>4 DEF StepOK
  <2>3. QED
    BY <2>1, <2>2
<1>7. KeepsMeta(vs_meta, st.meta) /\ ListedFiles(st.versions)
  <2>1. KeepsMeta(vs_meta, st.meta)
    BY <1>6 DEF KeepsMeta
  <2>2. ListedFiles(st.versions)
    BY <1>6 DEF KeepsVersions, ListedFiles
  <2>3. QED
    BY <2>1, <2>2
<1>8. BuiltFiles' = {}
  BY <1>3 DEF BuiltFiles
<1>9. RefState(vs_versions', vs_meta', BuiltFiles') /\ Held(vs_versions', Holders') /\ HeldExactly'
  BY <1>3, <1>6, <1>8 DEF HeldExactly
<1>10. vs_current' \in DOMAIN vs_versions'
  BY <1>9, HoldersAfter DEF HeldAlive
<1>11. DiskInv'
  <2>1. vs_pending' \subseteq vs_pending
    BY <1>3
  <2>2. QED
    BY <1>3, <1>6, <1>7, <2>1, EndDisk
<1>12. ReadersInv'
  <2>1. ASSUME NEW t \in VersionReaders, vs_read[t].pc /= "idle"
        PROVE  /\ vs_read[t].version \in DOMAIN vs_versions'
               /\ vs_versions'[vs_read[t].version].files = vs_versions[vs_read[t].version].files
    <3>1. vs_read[t].version \in DOMAIN vs_versions /\ vs_read[t].version \in Ids
      BY <2>1 DEF VsInv, ReadersInv, RefState
    <3>2. vs_read[t].version \in DOMAIN vs_versions'
      BY <1>9, <2>1, <3>1, HoldersAfter DEF HeldAlive
    <3>3. QED
      BY <1>3, <1>7, <3>1, <3>2 DEF ListedFiles
  <2>2. QED
    BY <2>1 DEF VsInv, ReadersInv, FilesOf
<1>13. JobInv'
  <2>1. CASE vs_flush = None
    BY <1>3, <2>1 DEF JobInv
  <2>2. CASE vs_flush /= None
    <3>1. vs_job' = vs_job /\ vs_pending' = vs_pending
      BY <1>3, <2>2
    <3>2. vs_job /= None => /\ vs_job.version \in DOMAIN vs_versions'
                            /\ vs_versions'[vs_job.version].files = vs_versions[vs_job.version].files
      <4>1. vs_job /= None => vs_job.version \in DOMAIN vs_versions'
        BY <1>4, <1>9, <3>1, HoldersAfter DEF HeldAlive
      <4>2. QED
        BY <1>3, <1>4, <1>7, <4>1 DEF ListedFiles
    <3>3. vs_job /= None => ~vs_job.move
      BY <2>2 DEF VsInv, FlushInv
    <3>4. QED
      BY <3>1, <3>2, <3>3 DEF VsInv, JobInv, FilesOf
  <2>3. QED
    BY <2>1, <2>2
<1>14. FlushInv' /\ BuiltInv'
  BY <1>3 DEF FlushInv, BuiltInv
<1>15. QED
  BY <1>9, <1>10, <1>11, <1>12, <1>13, <1>14 DEF VsInv

\* DoCompactionWork ends with an error.
LEMMA CompactionFailsStep ==
    ASSUME VsInv, CompactionFails
    PROVE  VsInv'
<1>1. /\ vs_job /= None /\ vs_flush = None /\ vs_built = None /\ EndWork(Maps, TRUE)
      /\ vs_current' = vs_current /\ vs_next' = vs_next /\ vs_read' = vs_read
  BY DEF CompactionFails, Merging, BackgroundFree
<1>2. RefState(vs_versions, vs_meta, {}) /\ vs_current \in Ids /\ Held(vs_versions, Holders)
  BY <1>1 DEF VsInv, BuiltFiles, RefState
<1>3. KeepsMeta(vs_meta, vs_meta) /\ ListedFiles(vs_versions)
  BY DEF KeepsMeta, ListedFiles
<1>4. HoldersWith(Holders, vs_current')
  BY <1>1, HoldersSum DEF HoldersExact, HoldersWith
<1>5. EndWork([versions |-> vs_versions, meta |-> vs_meta], TRUE)
  BY <1>1 DEF Maps
<1>6. QED
  BY <1>1, <1>2, <1>3, <1>4, <1>5, EndWorkStep

\* The descriptor cannot be written.
LEMMA InstallFailsStep ==
    ASSUME VsInv, InstallFails
    PROVE  VsInv'
<1>1. PICK b : b = Unlinked(vs_meta, AllFiles(vs_built))
  OBVIOUS
<1>2. /\ vs_built /= None /\ EndWork([Maps EXCEPT !.meta = b], TRUE)
      /\ vs_current' = vs_current /\ vs_next' = vs_next /\ vs_read' = vs_read
  BY <1>1 DEF InstallFails, Maps
<1>3. RefState(vs_versions, vs_meta, AllFiles(vs_built)) /\ vs_current \in Ids /\ Held(vs_versions, Holders)
  BY <1>2 DEF VsInv, BuiltFiles, RefState
<1>4. RefState(vs_versions, b, {}) /\ KeepsMeta(vs_meta, b)
  BY <1>1, <1>3, DropBuilt
<1>5. ListedFiles(vs_versions)
  BY DEF ListedFiles
<1>6. HoldersWith(Holders, vs_current')
  BY <1>2, HoldersSum DEF HoldersExact, HoldersWith
<1>7. EndWork([versions |-> vs_versions, meta |-> b], TRUE)
  <2>1. [Maps EXCEPT !.meta = b] = [versions |-> vs_versions, meta |-> b]
    BY DEF Maps
  <2>2. QED
    BY <1>2, <2>1
<1>8. (vs_flush /= None => vs_flush.base = 0) /\ (vs_flush = None => vs_job /= None)
  BY <1>2 DEF VsInv, FlushInv, BuiltInv
<1>9. QED
  BY <1>2, <1>3, <1>4, <1>5, <1>6, <1>7, <1>8, EndWorkStep

\* current_ passes from Version c to Version v.
LEMMA CurrentMoves ==
    ASSUME NEW c \in Ids, NEW v \in Ids, vs_current = c
    PROVE  HoldersWith(Less(More(Holders, v), c), v)
<1>1. PICK H, G, G2 : H = Holders /\ G = More(H, v) /\ G2 = Less(G, c)
  OBVIOUS
<1>2. H \in [Ids -> Nat]
  BY <1>1, HoldersSum DEF HoldersExact
<1>3. ASSUME NEW u \in Ids
      PROVE  G2[u] = Cardinality(Reading(vs_read, u)) + One(u = v)
                     + One(HoldsJob(vs_job, u)) + One(HoldsFlush(vs_flush, u)) /\ G2[u] \in Nat
  <2>1. PICK n, y, z, p, q : /\ n = Cardinality(Reading(vs_read, u)) /\ y = One(HoldsJob(vs_job, u))
                             /\ z = One(HoldsFlush(vs_flush, u)) /\ p = One(u = v) /\ q = One(u = c)
    OBVIOUS
  <2>2. n \in Nat /\ y \in Nat /\ z \in Nat /\ p \in Nat /\ q \in Nat
    BY <2>1, ReadingFinite DEF One
  <2>3. H[u] = n + q + y + z
    BY <1>1, <2>1, HoldersSum DEF HoldersExact
  <2>4. G[u] = H[u] + p
    BY <1>1, <1>2, <2>1 DEF More, One
  <2>5. DOMAIN G = Ids
    BY <1>1, <1>2 DEF More
  <2>6. G2[u] = G[u] - q
    <3>1. G[u] \in Nat
      BY <2>2, <2>3, <2>4
    <3>2. CASE u = c
      BY <1>1, <2>1, <2>5, <3>2 DEF Less, One
    <3>3. CASE u /= c
      BY <1>1, <2>1, <2>5, <3>1, <3>3 DEF Less, One
    <3>4. QED
      BY <3>2, <3>3
  <2>7. G2[u] = n + p + y + z
    BY <2>2, <2>3, <2>4, <2>6
  <2>8. QED
    BY <2>1, <2>2, <2>7
<1>4. G2 \in [Ids -> Nat]
  <2>1. DOMAIN G2 = Ids /\ G2 = [u \in Ids |-> G2[u]]
    BY <1>1, <1>2 DEF More, Less
  <2>2. QED
    BY <1>3, <2>1
<1>5. QED
  BY <1>1, <1>3, <1>4 DEF HoldersWith

\* AppendVersion, and what follows LogAndApply.
LEMMA InstallStep ==
    ASSUME VsInv, Install
    PROVE  VsInv'
<1>1. PICK v, new, versions1 :
         /\ v = FreeId(DOMAIN vs_versions)
         /\ new = [files |-> vs_built, refs |-> 1, file_to_compact |-> NoFile, file_to_compact_level |-> -1]
         /\ versions1 = Adding(vs_versions, v, new)
  OBVIOUS
<1>2. PICK st : st = VUnref([versions |-> versions1, meta |-> vs_meta], vs_current)
  OBVIOUS
<1>3. /\ vs_built /= None /\ vs_current' = v /\ vs_next' = vs_next /\ vs_read' = vs_read
      /\ EndWork(VUnref([Maps EXCEPT !.versions = versions1], vs_current), FALSE)
  BY <1>1 DEF Install, Maps
<1>4. EndWork(st, FALSE)
  <2>1. [Maps EXCEPT !.versions = versions1] = [versions |-> versions1, meta |-> vs_meta]
    BY DEF Maps
  <2>2. QED
    BY <1>2, <1>3, <2>1
<1>5. v \in Ids /\ v \notin DOMAIN vs_versions /\ vs_current \in DOMAIN vs_versions /\ vs_current \in Ids
  <2>1. IsFiniteSet(DOMAIN vs_versions)
    BY DEF VsInv, RefState
  <2>2. v \in Ids \ DOMAIN vs_versions
    BY <1>1, <2>1, FreshId
  <2>3. QED
    BY <2>2 DEF VsInv, RefState
<1>6. /\ RefState(versions1, vs_meta, {}) /\ Held(versions1, More(Holders, v))
      /\ DOMAIN versions1 = DOMAIN vs_versions \cup {v} /\ versions1[v].files = vs_built
      /\ \A u \in DOMAIN vs_versions : versions1[u] = vs_versions[u]
  <2>1. RefState(vs_versions, vs_meta, AllFiles(vs_built)) /\ Held(vs_versions, Holders) /\ vs_built \in FilesType
    BY <1>3 DEF VsInv, BuiltFiles, BuiltInv
  <2>2. PICK B, H, files, vers, meta : /\ B = AllFiles(vs_built) /\ H = Holders /\ files = vs_built
                                       /\ vers = vs_versions /\ meta = vs_meta
    OBVIOUS
  <2>3. RefState(vers, meta, B) /\ AllFiles(files) = B /\ Held(vers, H) /\ files \in FilesType
        /\ v \in Ids /\ v \notin DOMAIN vers /\ versions1 = Adding(vers, v, new)
        /\ new = [files |-> files, refs |-> 1, file_to_compact |-> NoFile, file_to_compact_level |-> -1]
    BY <1>1, <1>5, <2>1, <2>2
  <2>4. /\ RefState(versions1, meta, {}) /\ Held(versions1, More(H, v))
        /\ DOMAIN versions1 = DOMAIN vers \cup {v} /\ versions1[v].files = files
        /\ \A u \in DOMAIN vers : versions1[u] = vers[u]
    BY <2>3, AddVersion
  <2>5. QED
    BY <2>2, <2>4
<1>7. StepOK(versions1, vs_meta, st.versions, st.meta, {}, Less(More(Holders, v), vs_current))
  <2>1. vs_current \in DOMAIN versions1
    BY <1>5, <1>6
  <2>2. QED
    BY <1>2, <1>6, <2>1, UnrefVersion
<1>8. HoldersWith(Less(More(Holders, v), vs_current), v)
  BY <1>5, CurrentMoves
<1>9. PICK a, b, G : a = st.versions /\ b = st.meta /\ G = Less(More(Holders, v), vs_current)
  OBVIOUS
<1>10. /\ RefState(a, b, {}) /\ Held(a, G) /\ KeepsMeta(vs_meta, b) /\ KeepsVersions(versions1, a)
       /\ HoldersWith(G, vs_current')
  BY <1>3, <1>7, <1>8, <1>9 DEF StepOK
<1>11. ListedFiles(a)
  BY <1>3, <1>5, <1>6, <1>10 DEF KeepsVersions, ListedFiles
<1>12. EndWork([versions |-> a, meta |-> b], FALSE)
  <2>1. st = [versions |-> a, meta |-> b]
    BY <1>2, <1>9 DEF VUnref
  <2>2. QED
    BY <1>4, <2>1
<1>13. (vs_flush /= None => vs_flush.base = 0) /\ (vs_flush = None => vs_job /= None)
  BY <1>3 DEF VsInv, FlushInv, BuiltInv
<1>14. QED
  BY <1>3, <1>5, <1>10, <1>11, <1>12, <1>13, EndWorkStep

-----------------------------------------------------------------------------
(* Picking a compaction *)

\* Products keep the order of their first factor.
LEMMA ProductOrder ==
    ASSUME NEW x \in Nat, NEW y \in Nat, NEW k \in Nat \ {0}
    PROVE  (x <= y => x * k <= y * k) /\ (x < y => x * k < y * k)
<1>1. ASSUME x <= y
      PROVE  x * k <= y * k
  <2>1. PICK z \in Nat : y = x + z
    <3>1. y - x \in Nat /\ y = x + (y - x)
      BY <1>1
    <3>2. QED
      BY <3>1
  <2>2. y * k = x * k + z * k /\ z * k \in Nat /\ x * k \in Nat
    BY <2>1
  <2>3. QED
    BY <2>2
<1>2. ASSUME x < y
      PROVE  x * k < y * k
  <2>1. PICK z \in Nat \ {0} : y = x + z
    <3>1. y - x \in Nat \ {0} /\ y = x + (y - x)
      BY <1>2
    <3>2. QED
      BY <3>1
  <2>2. y * k = x * k + z * k /\ z * k \in Nat /\ x * k \in Nat
    BY <2>1
  <2>3. z * k > 0
    BY <2>1
  <2>4. QED
    BY <2>2, <2>3
<1>3. QED
  BY <1>1, <1>2

\* What is below e/f is above nothing that is: c/d <= a/b < e/f, multiplied out.
LEMMA BelowAgain ==
    ASSUME NEW a \in Nat, NEW b \in Nat \ {0}, NEW c \in Nat, NEW d \in Nat \ {0},
           NEW e \in Nat, NEW f \in Nat \ {0}, ~(a * d < c * b), a * f < e * b
    PROVE  c * f < e * d
<1>1. PICK ad, cb, af, eb, cf, ed :
         /\ ad = a * d /\ cb = c * b /\ af = a * f /\ eb = e * b /\ cf = c * f /\ ed = e * d
  OBVIOUS
<1>2. ad \in Nat /\ cb \in Nat /\ af \in Nat /\ eb \in Nat /\ cf \in Nat /\ ed \in Nat
  BY <1>1
<1>3. cb <= ad /\ af < eb
  BY <1>1, <1>2
<1>4. cb * f <= ad * f /\ af * d < eb * d
  BY <1>2, <1>3, ProductOrder
<1>5. cb * f = cf * b /\ ad * f = af * d /\ eb * d = ed * b
  BY <1>1
<1>6. cf * b < ed * b
  <2>1. cf * b \in Nat /\ ed * b \in Nat /\ af * d \in Nat
    BY <1>2
  <2>2. QED
    BY <1>4, <1>5, <2>1
<1>7. ed <= cf => ed * b <= cf * b
  BY <1>2, ProductOrder
<1>8. cf < ed
  <2>1. cf * b \in Nat /\ ed * b \in Nat
    BY <1>2
  <2>2. QED
    BY <1>2, <1>6, <1>7, <2>1
<1>9. QED
  BY <1>1, <1>8

\* Level l is the first with the best score of 0 .. n.
IsBest(num, den, l, n) ==
    \A m \in 0 .. n : /\ ~(num[l] * den[m] < num[m] * den[l])
                      /\ m < l => num[m] * den[l] < num[l] * den[m]

\* Finalize's loop finds one.
LEMMA BestExists ==
    ASSUME NEW N \in Nat, NEW num \in [0 .. N -> Nat], NEW den \in [0 .. N -> Nat \ {0}]
    PROVE  \E l \in 0 .. N : IsBest(num, den, l, N)
<1>1. PICK Bad : Bad = {n \in 0 .. N : ~\E l \in 0 .. n : IsBest(num, den, l, n)}
  OBVIOUS
<1>2. ASSUME NEW l \in 0 .. N, NEW m \in 0 .. N
      PROVE  num[l] \in Nat /\ den[l] \in Nat \ {0} /\ num[l] * den[m] \in Nat /\ num[m] * den[l] \in Nat
  BY <1>2
<1>3. Bad = {}
  <2>1. SUFFICES ASSUME Bad /= {} PROVE FALSE
    OBVIOUS
  <2>2. PICK n \in Bad : \A y \in Bad : n <= y
    <3>1. Bad \in SUBSET Nat
      BY <1>1
    <3>2. QED
      BY <2>1, <3>1, LeastNat
  <2>3. n \in 0 .. N /\ ~\E l \in 0 .. n : IsBest(num, den, l, n)
    BY <1>1, <2>2
  <2>4. n /= 0
    <3>1. ASSUME n = 0 PROVE FALSE
      <4>1. num[0] * den[0] \in Nat
        BY <1>2, <2>3
      <4>2. IsBest(num, den, 0, 0)
        BY <4>1 DEF IsBest
      <4>3. QED
        BY <2>3, <3>1, <4>2
    <3>2. QED
      BY <3>1
  <2>5. n - 1 \in 0 .. N /\ n - 1 \notin Bad
    BY <2>2, <2>3, <2>4
  <2>6. PICK l \in 0 .. n - 1 : IsBest(num, den, l, n - 1)
    BY <1>1, <2>5
  <2>7. l \in 0 .. N /\ l < n /\ l \in 0 .. n
    BY <2>3, <2>6
  <2>8. CASE num[l] * den[n] < num[n] * den[l]
    <3>1. ASSUME NEW m \in 0 .. n, m < n
          PROVE  num[m] * den[n] < num[n] * den[m]
      <4>1. m \in 0 .. n - 1 /\ m \in 0 .. N
        BY <2>3, <3>1
      <4>2. ~(num[l] * den[m] < num[m] * den[l])
        BY <2>6, <4>1 DEF IsBest
      <4>3. /\ num[l] \in Nat /\ num[m] \in Nat /\ num[n] \in Nat
            /\ den[l] \in Nat \ {0} /\ den[m] \in Nat \ {0} /\ den[n] \in Nat \ {0}
        BY <1>2, <2>3, <2>7, <4>1
      <4>4. QED
        BY <2>8, <4>2, <4>3, BelowAgain
    <3>2. ASSUME NEW m \in 0 .. n
          PROVE  ~(num[n] * den[m] < num[m] * den[n])
      <4>1. m \in 0 .. N
        BY <2>3
      <4>2. num[n] * den[m] \in Nat /\ num[m] * den[n] \in Nat
        BY <1>2, <2>3, <4>1
      <4>3. CASE m = n
        BY <4>2, <4>3
      <4>4. CASE m < n
        BY <3>1, <4>2, <4>4
      <4>5. QED
        BY <2>3, <4>3, <4>4
    <3>3. IsBest(num, den, n, n)
      BY <3>1, <3>2 DEF IsBest
    <3>4. n \in 0 .. n
      BY <2>3
    <3>5. QED
      BY <2>3, <3>3, <3>4
  <2>9. CASE ~(num[l] * den[n] < num[n] * den[l])
    <3>1. ASSUME NEW m \in 0 .. n
          PROVE  /\ ~(num[l] * den[m] < num[m] * den[l])
                 /\ m < l => num[m] * den[l] < num[l] * den[m]
      <4>1. CASE m = n
        BY <2>7, <2>9, <4>1
      <4>2. CASE m /= n
        <5>1. m \in 0 .. n - 1
          BY <2>3, <4>2
        <5>2. QED
          BY <2>6, <5>1 DEF IsBest
      <4>3. QED
        BY <4>1, <4>2
    <3>2. IsBest(num, den, l, n)
      BY <3>1 DEF IsBest
    <3>3. QED
      BY <2>3, <2>7, <3>2
  <2>10. QED
    BY <2>8, <2>9
<1>4. QED
  <2>1. N \in 0 .. N /\ N \notin Bad
    BY <1>3
  <2>2. QED
    BY <1>1, <2>1

\* MaxBytesForLevel is never zero.
LEMMA MaxBytesPositive == \A l \in VLevels : MaxBytesForLevel[l] \in Nat \ {0}
<1> DEFINE N == kNumLevels - 1
           S == Nat \ {0}
           A(f) == [l \in VLevels |-> IF l <= 1 THEN kLevelBase ELSE 10 * f[l - 1]]
           mb == CHOOSE f : f = A(f)
           g == [k \in Nat |-> [x \in S |-> IF k <= 1 THEN kLevelBase ELSE 10 * x]]
<1>1. N \in Nat /\ kLevelBase \in S /\ VLevels = 0 .. N
  BY VersionSetAssumption DEF VLevels
<1>2. MaxBytesForLevel = mb
  BY DEF MaxBytesForLevel
<1>3. PICK f \in [0 .. N -> S] : IsRun(f, kLevelBase, g, N)
  <2>1. g \in [Nat -> [S -> S]]
    BY <1>1
  <2> HIDE DEF g, N, A, mb, S
  <2>2. QED
    BY <1>1, <2>1, RunExists
<1>4. \A k \in 0 .. N : f[k] = IF k <= 1 THEN kLevelBase ELSE 10 * f[k - 1]
  <2> TAKE k \in 0 .. N
  <2>1. k # 0 => f[k - 1] \in S /\ k \in Nat
    BY <1>1
  <2>2. k # 0 => g[k][f[k - 1]] = IF k <= 1 THEN kLevelBase ELSE 10 * f[k - 1]
    BY <2>1
  <2>3. QED
    BY <1>3, <2>2 DEF IsRun
<1>5. f = A(f)
  BY <1>1, <1>4
<1>6. mb = A(mb)
  <2> HIDE DEF A
  <2>1. \E h : h = A(h)
    BY <1>5
  <2>2. QED
    BY <2>1, Zenon
<1> HIDE DEF mb
<1>7. \A k \in VLevels : mb[k] = IF k <= 1 THEN kLevelBase ELSE 10 * mb[k - 1]
  <2>1. \A k \in VLevels : A(mb)[k] = IF k <= 1 THEN kLevelBase ELSE 10 * mb[k - 1]
    OBVIOUS
  <2> HIDE DEF A
  <2>2. QED
    BY <1>6, <2>1
<1> DEFINE T == {k \in 0 .. N : mb[k] \notin S}
<1>8. T = {}
  <2>1. SUFFICES ASSUME T # {} PROVE FALSE
    OBVIOUS
  <2>2. PICK n \in T : \A y \in T : n <= y
    <3>1. T \in SUBSET Nat
      BY <1>1
    <3> HIDE DEF T
    <3>2. QED
      BY <2>1, <3>1, LeastNat
  <2>3. n \in 0 .. N /\ mb[n] \notin S
    BY <2>2
  <2>4. ~(n <= 1)
    BY <1>1, <1>7, <2>3
  <2>5. n - 1 \in 0 .. N /\ mb[n - 1] \in S
    BY <1>1, <2>2, <2>3, <2>4
  <2>6. mb[n] = 10 * mb[n - 1]
    BY <1>1, <1>7, <2>3, <2>4
  <2>7. QED
    BY <2>3, <2>5, <2>6
<1>9. QED
  BY <1>1, <1>2, <1>8

\* The inputs GetOverlappingInputs finds are tables of the level.
LEMMA OverlappingListed ==
    ASSUME NEW v, NEW level, NEW lo, NEW hi, IsFiniteSet(FilesOf(v, level))
    PROVE  OverlappingInputs(v, level, lo, hi) \subseteq FilesOf(v, level)
<1> DEFINE N == Cardinality(FilesOf(v, level))
           S == SUBSET FilesOf(v, level)
           B(n, os) == IF n = 0 \/ level > 0 THEN TouchingFiles(v, level, lo, hi)
                       ELSE TouchingFiles(v, level, Min({lo} \cup {FirstKey(o) : o \in os}),
                                                    Max({hi} \cup {LastKey(o) : o \in os}))
           A(f) == [n \in 0 .. N |-> B(n, f[n - 1])]
           w == CHOOSE f : f = A(f)
           g == [n \in Nat |-> [os \in S |-> B(n, os)]]
<1>1. N \in Nat
  BY FS_CardinalityType
<1>2. OverlappingInputs(v, level, lo, hi) = w[N]
  BY DEF OverlappingInputs
<1>3. \A n, os : B(n, os) \in S
  BY DEF TouchingFiles
<1>4. B(0, {}) = TouchingFiles(v, level, lo, hi) /\ \A os : B(0, os) = B(0, {})
  OBVIOUS
<1> HIDE DEF B, S
<1>5. PICK f \in [0 .. N -> S] : IsRun(f, B(0, {}), g, N)
  <2>1. g \in [Nat -> [S -> S]] /\ B(0, {}) \in S
    BY <1>3
  <2> HIDE DEF g, N, A, w
  <2>2. QED
    BY <1>1, <2>1, RunExists
<1>6. \A k \in 0 .. N : f[k] = B(k, f[k - 1])
  <2> TAKE k \in 0 .. N
  <2>1. k # 0 => f[k - 1] \in S /\ k \in Nat
    BY <1>1
  <2>2. k # 0 => g[k][f[k - 1]] = B(k, f[k - 1])
    BY <2>1
  <2>3. QED
    BY <1>4, <1>5, <2>2 DEF IsRun
<1>7. f = A(f)
  BY <1>6
<1>8. w = A(w)
  <2> HIDE DEF A
  <2>1. \E h : h = A(h)
    BY <1>7
  <2>2. QED
    BY <2>1, Zenon
<1> HIDE DEF w
<1>9. w[N] = B(N, w[N - 1])
  <2>1. A(w)[N] = B(N, w[N - 1])
    BY <1>1
  <2> HIDE DEF A
  <2>2. QED
    BY <1>8, <2>1
<1>10. QED
  BY <1>2, <1>3, <1>9 DEF S

\* The tables of a level of current_.
LEMMA LevelFiles ==
    ASSUME VsInv, NEW l \in VLevels
    PROVE  /\ FilesOf(vs_current, l) \subseteq DOMAIN vs_meta /\ IsFiniteSet(FilesOf(vs_current, l))
           /\ \A o \in FilesOf(vs_current, l) : /\ IsMeta(vs_meta[o]) /\ vs_meta[o].num < vs_next
                                                /\ vs_meta[o].num \in vs_disk
<1>1. FilesOf(vs_current, l) \subseteq AllFiles(vs_versions[vs_current].files)
  BY DEF FilesOf, AllFiles
<1>2. FilesOf(vs_current, l) \subseteq DOMAIN vs_meta /\ IsFiniteSet(DOMAIN vs_meta)
  BY <1>1 DEF VsInv, RefState
<1>3. IsFiniteSet(FilesOf(vs_current, l))
  BY <1>2, FS_Subset
<1>4. \A o \in FilesOf(vs_current, l) : /\ IsMeta(vs_meta[o]) /\ vs_meta[o].num < vs_next
                                        /\ vs_meta[o].num \in vs_disk
  BY <1>1, <1>2 DEF VsInv, RefState, DiskInv, TablesKept
<1>5. QED
  BY <1>2, <1>3, <1>4

\* The size of a level is a number, and zero for one without tables.
LEMMA LevelSize ==
    ASSUME VsInv, NEW l \in VLevels
    PROVE  /\ TotalFileSize(FilesOf(vs_current, l)) \in Nat /\ Cardinality(FilesOf(vs_current, l)) \in Nat
           /\ FilesOf(vs_current, l) = {} =>
                 TotalFileSize(FilesOf(vs_current, l)) = 0 /\ Cardinality(FilesOf(vs_current, l)) = 0
<1>1. PICK os : os = FilesOf(vs_current, l)
  OBVIOUS
<1>2. IsFiniteSet(os) /\ \A o \in os : DOMAIN vs_meta[o].recs \subseteq VersionKeys
  BY <1>1, LevelFiles DEF IsMeta, IsRecs
<1>3. PICK U : U = UNION {{o} \X DOMAIN vs_meta[o].recs : o \in os}
  OBVIOUS
<1>4. U \in SUBSET (os \X VersionKeys)
  BY <1>2, <1>3
<1>5. IsFiniteSet(os \X VersionKeys)
  BY <1>2, FS_Product, VersionSetAssumption
<1>6. IsFiniteSet(U)
  BY <1>4, <1>5, FS_Subset
<1>7. Cardinality(U) \in Nat /\ Cardinality(os) \in Nat
  BY <1>2, <1>6, FS_CardinalityType
<1>8. os = {} => U = {}
  BY <1>3
<1>9. Cardinality({}) = 0
  BY FS_EmptySet
<1>10. QED
  BY <1>1, <1>3, <1>7, <1>8, <1>9 DEF TotalFileSize

\* Finalize finds a level, and one that needs a compaction has tables.
LEMMA BestLevel ==
    ASSUME VsInv
    PROVE  /\ CompactionLevel(vs_current) \in Upper
           /\ SizeCompaction(vs_current) => FilesOf(vs_current, CompactionLevel(vs_current)) /= {}
<1>1. PICK N, c : N = kNumLevels - 2 /\ c = vs_current
  OBVIOUS
<1>2. N \in Nat /\ Upper = 0 .. N /\ Upper \subseteq VLevels
  BY <1>1, VersionSetAssumption DEF Upper, VLevels
<1>3. ASSUME NEW l \in Upper
      PROVE  /\ Score(c, l)[1] \in Nat /\ Score(c, l)[2] \in Nat \ {0}
             /\ FilesOf(c, l) = {} => Score(c, l)[1] = 0
  <2>1. l \in VLevels
    BY <1>2
  <2>2. /\ TotalFileSize(FilesOf(c, l)) \in Nat /\ Cardinality(FilesOf(c, l)) \in Nat
        /\ FilesOf(c, l) = {} => TotalFileSize(FilesOf(c, l)) = 0 /\ Cardinality(FilesOf(c, l)) = 0
    BY <1>1, <2>1, LevelSize
  <2>3. MaxBytesForLevel[l] \in Nat \ {0} /\ kL0_CompactionTrigger \in Nat \ {0}
    BY <2>1, MaxBytesPositive, VersionSetAssumption
  <2>4. CASE l = 0
    BY <2>2, <2>3, <2>4 DEF Score
  <2>5. CASE l /= 0
    BY <2>2, <2>3, <2>5 DEF Score
  <2>6. QED
    BY <2>4, <2>5
<1>4. PICK num, den : /\ num = [l \in 0 .. N |-> Score(c, l)[1]] /\ den = [l \in 0 .. N |-> Score(c, l)[2]]
  OBVIOUS
<1>5. num \in [0 .. N -> Nat] /\ den \in [0 .. N -> Nat \ {0}]
  BY <1>2, <1>3, <1>4
<1>6. PICK best \in 0 .. N : IsBest(num, den, best, N)
  BY <1>2, <1>5, BestExists
<1>7. \A m \in 0 .. N : /\ ~Lower(Score(c, best), Score(c, m))
                        /\ m < best => Lower(Score(c, m), Score(c, best))
  BY <1>4, <1>6 DEF IsBest, Lower
<1>8. CompactionLevel(c) \in 0 .. N
  BY <1>1, <1>7 DEF CompactionLevel
<1>9. ASSUME SizeCompaction(c), FilesOf(c, CompactionLevel(c)) = {}
      PROVE  FALSE
  <2>1. PICK x, y : x = Score(c, CompactionLevel(c))[1] /\ y = Score(c, CompactionLevel(c))[2]
    OBVIOUS
  <2>2. x = 0 /\ y \in Nat \ {0}
    BY <1>2, <1>3, <1>8, <1>9, <2>1
  <2>3. ~(x * 1 < 1 * y)
    BY <1>9, <2>1 DEF SizeCompaction, Lower
  <2>4. QED
    BY <2>2, <2>3
<1>10. QED
  BY <1>1, <1>2, <1>8, <1>9

\* The table PickCompaction starts from is one of its level.
LEMMA PickedListed ==
    ASSUME VsInv, SizeCompaction(vs_current) \/ SeekCompaction(vs_current)
    PROVE  PickedLevel \in Upper /\ PickedFile \in FilesOf(vs_current, PickedLevel)
<1>1. CASE SizeCompaction(vs_current)
  <2>1. PICK l : l = CompactionLevel(vs_current)
    OBVIOUS
  <2>2. PickedLevel = l /\ PickedFile = AfterPointer(l) /\ l \in Upper /\ FilesOf(vs_current, l) /= {}
    BY <1>1, <2>1, BestLevel DEF PickedLevel, PickedFile
  <2>3. l \in VLevels
    BY <2>2, VersionSetAssumption DEF Upper, VLevels
  <2>4. PICK os, after : /\ os = FilesOf(vs_current, l)
                         /\ after = {o \in os : vs_pointer[l] = 0 \/ LastKey(o) > vs_pointer[l]}
    OBVIOUS
  <2>5. PICK x : x = IF after = {} THEN os ELSE after
    OBVIOUS
  <2>6. x \subseteq os /\ x /= {} /\ \A o \in x : IsMeta(vs_meta[o])
    BY <2>2, <2>3, <2>4, <2>5, LevelFiles
  <2>7. FirstFile(x) \in x
    BY <2>6, FirstFileIn
  <2>8. AfterPointer(l) = FirstFile(x)
    BY <2>4, <2>5 DEF AfterPointer
  <2>9. QED
    BY <2>2, <2>4, <2>6, <2>7, <2>8
<1>2. CASE ~SizeCompaction(vs_current)
  <2>1. /\ PickedLevel = vs_versions[vs_current].file_to_compact_level
        /\ PickedFile = vs_versions[vs_current].file_to_compact
        /\ PickedFile /= NoFile
    BY <1>2 DEF PickedLevel, PickedFile, SeekCompaction
  <2>2. IsVersion(vs_versions[vs_current])
    BY DEF VsInv, RefState
  <2>3. QED
    BY <2>1, <2>2 DEF IsVersion, FilesOf
<1>3. QED
  BY <1>1, <1>2

\* SetupOtherInputs adds tables of the two levels.
LEMMA InputsListed ==
    ASSUME VsInv, NEW l \in Upper, NEW in0, in0 \subseteq FilesOf(vs_current, l), NEW in, in = Inputs(l, in0)
    PROVE  in[1] \subseteq FilesOf(vs_current, l) /\ in[2] \subseteq FilesOf(vs_current, l + 1)
<1>1. l \in VLevels /\ l + 1 \in VLevels
  BY VersionSetAssumption DEF Upper, VLevels
<1>2. IsFiniteSet(FilesOf(vs_current, l)) /\ IsFiniteSet(FilesOf(vs_current, l + 1))
  BY <1>1, LevelFiles
<1>3. \A lo, hi : /\ OverlappingInputs(vs_current, l, lo, hi) \subseteq FilesOf(vs_current, l)
                  /\ OverlappingInputs(vs_current, l + 1, lo, hi) \subseteq FilesOf(vs_current, l + 1)
  BY <1>2, OverlappingListed
<1>4. PICK in1, more0, more1 :
         /\ in1 = OverlappingInputs(vs_current, l + 1, Low(in0), High(in0))
         /\ more0 = OverlappingInputs(vs_current, l, Low(in0 \cup in1), High(in0 \cup in1))
         /\ more1 = OverlappingInputs(vs_current, l + 1, Low(more0), High(more0))
  OBVIOUS
<1>5. in1 \subseteq FilesOf(vs_current, l + 1) /\ more0 \subseteq FilesOf(vs_current, l)
      /\ more1 \subseteq FilesOf(vs_current, l + 1)
  BY <1>3, <1>4
<1>6. in = <<more0, more1>> \/ in = <<in0, in1>>
  BY <1>4 DEF Inputs
<1>7. QED
  BY <1>5, <1>6

\* PickCompaction, and LogAndApply for a table that is only moved.
LEMMA PickCompactionStep ==
    ASSUME VsInv, PickCompaction
    PROVE  VsInv'
<1>1. PICK level, f : level = PickedLevel /\ f = PickedFile
  OBVIOUS
<1>2. PICK in0 : in0 = IF level = 0 THEN OverlappingInputs(vs_current, 0, FirstKey(f), LastKey(f)) ELSE {f}
  OBVIOUS
<1>3. PICK in, move, st : /\ in = Inputs(level, in0) /\ move = (Cardinality(in[1]) = 1 /\ in[2] = {})
                          /\ st = VRef(Maps, vs_current)
  OBVIOUS
<1>4. PICK o, edit : /\ o = CHOOSE x \in in[1] : TRUE
                     /\ edit = [deleted |-> Deletions(level, in), level |-> level + 1,
                                num |-> vs_meta[o].num, recs |-> vs_meta[o].recs]
  OBVIOUS
<1>5. /\ vs_flush = None /\ vs_built = None /\ vs_job = None
      /\ SizeCompaction(vs_current) \/ SeekCompaction(vs_current)
      /\ vs_job' = [level |-> level, in |-> in, version |-> vs_current, move |-> move, num |-> 0]
      /\ vs_current' = vs_current /\ vs_next' = vs_next /\ vs_disk' = vs_disk /\ vs_pending' = vs_pending
      /\ vs_flush' = vs_flush /\ vs_read' = vs_read /\ vs_error' = vs_error
  BY <1>1, <1>2, <1>3 DEF PickCompaction, BackgroundFree
<1>6. IF move THEN LogAndApply(edit, st)
      ELSE vs_versions' = st.versions /\ vs_meta' = st.meta /\ vs_built' = vs_built
  BY <1>1, <1>2, <1>3, <1>4 DEF PickCompaction, Become
<1>7. /\ level \in Upper /\ level \in VLevels
      /\ in[1] \subseteq FilesOf(vs_current, level) /\ in[2] \subseteq FilesOf(vs_current, level + 1)
  <2>1. level \in Upper /\ f \in FilesOf(vs_current, level)
    BY <1>1, <1>5, PickedListed
  <2>2. level \in VLevels
    BY <2>1, VersionSetAssumption DEF Upper, VLevels
  <2>3. in0 \subseteq FilesOf(vs_current, level)
    <3>1. CASE level = 0
      <4>1. IsFiniteSet(FilesOf(vs_current, 0))
        BY <2>2, <3>1, LevelFiles
      <4>2. QED
        BY <1>2, <3>1, <4>1, OverlappingListed
    <3>2. CASE level /= 0
      BY <1>2, <2>1, <3>2
    <3>3. QED
      BY <3>1, <3>2
  <2>4. QED
    BY <1>3, <2>1, <2>2, <2>3, InputsListed
<1>8. vs_current \in DOMAIN vs_versions /\ vs_current \in Ids /\ vs_next \in Nat \ {0} /\ BuiltFiles = {}
  BY <1>5 DEF VsInv, RefState, DiskInv, Ids, BuiltFiles
<1>9. PICK a, b : a = st.versions /\ b = st.meta
  OBVIOUS
<1>10. /\ StepOK(vs_versions, vs_meta, a, b, {}, More(Holders, vs_current))
       /\ st = [versions |-> a, meta |-> b] /\ DOMAIN a = DOMAIN vs_versions /\ b = vs_meta
  <2>1. RefState(vs_versions, vs_meta, {}) /\ Held(vs_versions, Holders)
        /\ st = VRef([versions |-> vs_versions, meta |-> vs_meta], vs_current)
    BY <1>3, <1>8 DEF VsInv, Maps
  <2>2. /\ StepOK(vs_versions, vs_meta, st.versions, st.meta, {}, More(Holders, vs_current))
        /\ DOMAIN st.versions = DOMAIN vs_versions /\ st.meta = vs_meta
    BY <1>8, <2>1, RefVersion
  <2>3. st = [versions |-> st.versions, meta |-> st.meta]
    BY <2>1 DEF VRef
  <2>4. QED
    BY <1>9, <2>2, <2>3
<1>11. /\ vs_job' /= None /\ vs_job'.version = vs_current /\ vs_job'.level = level /\ vs_job'.in = in
       /\ vs_job'.move = move /\ vs_job'.num = 0
       /\ {"level", "in", "version", "move", "num"} \subseteq DOMAIN vs_job'
  <2>1. /\ vs_job'.version = vs_current /\ vs_job'.level = level /\ vs_job'.in = in
        /\ vs_job'.move = move /\ vs_job'.num = 0
        /\ {"level", "in", "version", "move", "num"} \subseteq DOMAIN vs_job'
    BY <1>5
  <2>2. QED
    BY <2>1 DEF None
<1>12. Holders' = More(Holders, vs_current)
  <2>1. ASSUME NEW v \in Ids
        PROVE  Holders'[v] = Holders[v] + One(v = vs_current)
    <3>1. PICK n \in Nat :
              /\ Holders[v] = n + One(v = vs_current) + One(HoldsJob(vs_job, v)) + One(HoldsFlush(vs_flush, v))
              /\ Holders'[v] = n + One(v = vs_current') + One(HoldsJob(vs_job', v)) + One(HoldsFlush(vs_flush', v))
      BY <1>5, HolderParts
    <3>2. PICK x, y : x = One(v = vs_current) /\ y = One(HoldsFlush(vs_flush, v))
      OBVIOUS
    <3>3. x \in Nat /\ y \in Nat
      BY <3>2 DEF One
    <3>4. One(HoldsJob(vs_job, v)) = 0 /\ One(HoldsJob(vs_job', v)) = x
      BY <1>5, <1>11, <3>2 DEF HoldsJob, One
    <3>5. Holders[v] = n + x + 0 + y /\ Holders'[v] = n + x + x + y
      BY <1>5, <3>1, <3>2, <3>4
    <3>6. QED
      BY <3>2, <3>3, <3>5
  <2>2. Holders \in [Ids -> Nat] /\ Holders' \in [Ids -> Nat]
    BY HoldersSum, HoldersAfter DEF HoldersExact
  <2>3. QED
    BY <1>8, <2>1, <2>2, HoldersMore
<1>13. vs_versions' = a /\ RefState(vs_versions', vs_meta', BuiltFiles') /\ DiskInv'
       /\ (vs_built' /= None => vs_built' \in FilesType) /\ (move => vs_built' /= None)
  <2>1. RefState(a, b, {}) /\ KeepsMeta(vs_meta, b) /\ KeepsVersions(vs_versions, a) /\ vs_current \in DOMAIN a
    BY <1>8, <1>10 DEF StepOK
  <2>2. CASE move
    <3>1. LogAndApply(edit, [versions |-> a, meta |-> b])
      BY <1>6, <1>10, <2>2
    <3>2. in[1] /= {}
      <4>1. Cardinality(in[1]) = 1 /\ Cardinality({}) = 0
        BY <1>3, <2>2, FS_EmptySet
      <4>2. QED
        BY <4>1
    <3>3. o \in FilesOf(vs_current, level)
      BY <1>4, <1>7, <3>2
    <3>4. edit.recs = vs_meta[o].recs /\ edit.num = vs_meta[o].num
      BY <1>4
    <3>5. IsRecs(edit.recs) /\ edit.num \in Nat /\ edit.num < vs_next /\ edit.num \in vs_disk
      BY <1>7, <3>3, <3>4, LevelFiles DEF IsMeta
    <3>6. vs_pending' \subseteq vs_pending
      BY <1>5
    <3>7. AppliedOK /\ vs_versions' = a
      BY <1>5, <2>1, <3>1, <3>5, <3>6, AppliedEdit
    <3>8. QED
      BY <3>7 DEF AppliedOK
  <2>3. CASE ~move
    <3>1. vs_versions' = a /\ vs_meta' = b /\ vs_built' = vs_built
      BY <1>6, <1>9, <2>3
    <3>2. RefState(vs_versions', vs_meta', BuiltFiles')
      BY <1>5, <2>1, <3>1 DEF BuiltFiles
    <3>3. KeepsMeta(vs_meta, vs_meta') /\ KeepsVersions(vs_versions, vs_versions')
      BY <2>1, <3>1
    <3>4. DiskInv'
      BY <1>5, <3>1, <3>2, <3>3, DiskFrame
    <3>5. QED
      BY <1>5, <2>3, <3>1, <3>2, <3>4
  <2>4. QED
    BY <1>3, <2>2, <2>3
<1>14. Held(vs_versions', Holders') /\ HeldExactly' /\ KeepsVersions(vs_versions, vs_versions')
       /\ vs_current \in DOMAIN vs_versions'
  BY <1>8, <1>10, <1>12, <1>13 DEF StepOK, HeldExactly
<1>15. ReadersInv'
  BY <1>5, <1>14, ReadersFrame
<1>16. JobInv'
  <2>1. vs_versions'[vs_current].files = vs_versions[vs_current].files
    BY <1>14 DEF KeepsVersions
  <2>2. vs_job'.in[1] \subseteq vs_versions'[vs_job'.version].files[vs_job'.level]
        /\ vs_job'.in[2] \subseteq vs_versions'[vs_job'.version].files[vs_job'.level + 1]
    BY <1>7, <1>11, <2>1 DEF FilesOf
  <2>3. vs_job'.num \in 0 .. vs_next' - 1 /\ vs_job'.num = 0
    BY <1>5, <1>8, <1>11
  <2>4. vs_job'.move \in BOOLEAN
    BY <1>3, <1>11
  <2>5. QED
    BY <1>7, <1>11, <1>13, <1>14, <2>2, <2>3, <2>4 DEF JobInv, FilesOf
<1>17. FlushInv' /\ BuiltInv'
  BY <1>5, <1>11, <1>13 DEF FlushInv, BuiltInv
<1>18. QED
  BY <1>5, <1>13, <1>14, <1>15, <1>16, <1>17 DEF VsInv

-----------------------------------------------------------------------------
(* The theorem *)

\* A database just opened, with no table yet.
LEMMA VersionSetStarts == VersionSetInit => VsInv
<1> SUFFICES ASSUME VersionSetInit PROVE VsInv
  OBVIOUS
<1>1. PICK w : w = [files |-> [l \in VLevels |-> {}], refs |-> 1, file_to_compact |-> NoFile,
                    file_to_compact_level |-> -1]
  OBVIOUS
<1>2. /\ vs_meta = <<>> /\ vs_current = 1 /\ vs_built = None /\ vs_next = 2 /\ vs_versions = <<w>>
      /\ vs_disk = {} /\ vs_pending = {} /\ vs_flush = None /\ vs_job = None
      /\ vs_read = [t \in VersionReaders |-> NotReading] /\ vs_error = FALSE
  BY <1>1 DEF VersionSetInit
<1>3. DOMAIN vs_versions = {1} /\ vs_versions[1] = w /\ DOMAIN vs_meta = {}
  BY <1>2
<1>4. IsVersion(w) /\ AllFiles(w.files) = {} /\ w.refs = 1
  BY <1>1 DEF IsVersion, FilesType, AllFiles, NoFile
<1>5. RefState(vs_versions, vs_meta, BuiltFiles)
  <2>1. BuiltFiles = {} /\ IsFiniteSet({}) /\ IsFiniteSet({1})
    BY <1>2, FS_EmptySet, FS_Singleton DEF BuiltFiles
  <2>2. QED
    BY <1>3, <1>4, <2>1 DEF RefState, Ids
<1>6. \A t \in VersionReaders : vs_read[t] = NotReading
  BY <1>2
<1>7. Held(vs_versions, Holders)
  <2>1. ASSUME NEW v \in Ids
        PROVE  Holders[v] = One(v = 1)
    <3>1. Reading(vs_read, v) = {}
      BY <1>6 DEF Reading, NotReading
    <3>2. Cardinality(Reading(vs_read, v)) = 0
      BY <3>1, FS_EmptySet
    <3>3. One(HoldsJob(vs_job, v)) = 0 /\ One(HoldsFlush(vs_flush, v)) = 0
      BY <1>2 DEF One, HoldsJob, HoldsFlush
    <3>4. Holders[v] = 0 + One(v = 1) + 0 + 0
      BY <1>2, <3>2, <3>3, HoldersSum DEF HoldersExact
    <3>5. QED
      BY <3>4 DEF One
  <2>2. Holders \in [Ids -> Nat]
    BY HoldersSum DEF HoldersExact
  <2>3. QED
    BY <1>3, <1>4, <2>1, <2>2 DEF Held, One, Ids
<1>8. ReadersInv
  <2>1. NotReading \in ReadType /\ NotReading.pc = "idle" /\ NotReading.seek_file = NoFile
    BY DEF NotReading, ReadType, NoFile
  <2>2. vs_read \in [VersionReaders -> ReadType]
    BY <1>2, <2>1
  <2>3. QED
    BY <1>6, <2>1, <2>2 DEF ReadersInv
<1>9. FlushInv /\ JobInv /\ BuiltInv
  BY <1>2 DEF FlushInv, JobInv, BuiltInv
<1>10. DiskInv
  <2>1. \A v \in DOMAIN vs_versions : AllFiles(vs_versions[v].files) = {}
    BY <1>3, <1>4
  <2>2. TablesKept
    BY <1>2, <2>1 DEF TablesKept
  <2>3. vs_next \in Ids /\ vs_error \in BOOLEAN
    <3>1. vs_next = 2 /\ 2 \in Ids
      BY <1>2 DEF Ids
    <3>2. vs_error = FALSE
      BY <1>2
    <3>3. QED
      BY <3>1, <3>2
  <2>4. QED
    BY <1>3, <2>2, <2>3 DEF DiskInv
<1>11. QED
  BY <1>3, <1>2, <1>5, <1>7, <1>8, <1>9, <1>10 DEF VsInv

\* A step that changes nothing.
LEMMA VersionSetStutters == VsInv /\ UNCHANGED vs_vars => VsInv'
<1>1. VsInv /\ UNCHANGED vs_vars => BuiltFiles' = BuiltFiles /\ Holders' = Holders
  BY DEF vs_vars, BuiltFiles, Holders, VersionHolders
<1>2. QED
  BY <1>1 DEF VsInv, vs_vars, ReadersInv, FlushInv, JobInv, BuiltInv, DiskInv, TablesKept, FilesOf

\* Every step keeps the invariant.
LEMMA VersionSetSteps == VsInv /\ [VersionSetNext]_vs_vars => VsInv'
<1> SUFFICES ASSUME VsInv, [VersionSetNext]_vs_vars PROVE VsInv'
  OBVIOUS
<1>1. ASSUME NEW t \in VersionReaders, ReadStart(t) \/ ReadTables(t) \/ ReadEnd(t) \/ ReadSample(t)
      PROVE  VsInv'
  BY <1>1, ReadStartStep, ReadTablesStep, ReadEndStep, ReadSampleStep
<1>2. CASE FlushStart \/ FlushApply \/ FlushFails
  BY <1>2, FlushStartStep, FlushApplyStep, FlushFailsStep
<1>3. CASE PickCompaction \/ CompactionOutput \/ CompactionApply \/ CompactionFails
  BY <1>3, PickCompactionStep, CompactionOutputStep, CompactionApplyStep, CompactionFailsStep
<1>4. CASE Install \/ InstallFails
  BY <1>4, InstallStep, InstallFailsStep
<1>5. CASE VersionSetQuiet \/ UNCHANGED vs_vars
  BY <1>5, VersionSetStutters DEF VersionSetQuiet
<1>6. QED
  BY <1>1, <1>2, <1>3, <1>4, <1>5 DEF VersionSetNext

\* The invariant says that references are exact and that tables are kept.
LEMMA VsInvKept == VsInv => VersionsKept
<1> SUFFICES ASSUME VsInv PROVE VersionRefsExact /\ TablesKept
  BY DEF VersionsKept
<1>1. ASSUME NEW v \in DOMAIN vs_versions
      PROVE  vs_versions[v].refs = VersionHolders(v) /\ VersionHolders(v) > 0
  <2>1. v \in Ids /\ vs_versions[v].refs = Holders[v] /\ Holders[v] > 0
    BY DEF VsInv, RefState, Held
  <2>2. Holders[v] = VersionHolders(v)
    BY <2>1 DEF Holders
  <2>3. QED
    BY <2>1, <2>2
<1>2. ASSUME NEW o \in DOMAIN vs_meta
      PROVE  vs_meta[o].refs = Cardinality({v \in DOMAIN vs_versions : o \in AllFiles(vs_versions[v].files)})
                               + (IF vs_built /= None THEN IF o \in AllFiles(vs_built) THEN 1 ELSE 0 ELSE 0)
  <2>1. vs_meta[o].refs = Cardinality(Listing(vs_versions, o)) + (IF o \in BuiltFiles THEN 1 ELSE 0)
    BY DEF VsInv, RefState
  <2>2. (IF o \in BuiltFiles THEN 1 ELSE 0)
           = (IF vs_built /= None THEN IF o \in AllFiles(vs_built) THEN 1 ELSE 0 ELSE 0)
    BY DEF BuiltFiles
  <2>3. QED
    BY <2>1, <2>2 DEF Listing
<1>3. QED
  BY <1>1, <1>2 DEF VersionRefsExact, VsInv, DiskInv

\* For any number of readers, flushes, compactions and I/O failures, in any order: a Version lives
\* exactly as long as current_, a reader, the flush or the compaction holds it, a table's metadata as
\* long as a Version lists it, and its file stays on disk as long.
THEOREM VersionsAreKept == VersionSetInit /\ [][VersionSetNext]_vs_vars => []VersionsKept
<1>1. VersionSetInit => VsInv
  BY VersionSetStarts
<1>2. VsInv /\ [VersionSetNext]_vs_vars => VsInv'
  BY VersionSetSteps
<1>3. VsInv => VersionsKept
  BY VsInvKept
<1>4. QED
  BY <1>1, <1>2, <1>3, PTL
=============================================================================
