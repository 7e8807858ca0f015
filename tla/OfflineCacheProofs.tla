-------------------------- MODULE OfflineCacheProofs --------------------------
(***************************************************************************)
(* Theorems about OfflineCache, for any tabs, files, versions, number of   *)
(* chunks and budget of a clean-up: what plays offline is whole and of one *)
(* version, the rows make sense together, leases end with their downloads, *)
(* what is late stays out, and the tables implement SavedBook.             *)
(***************************************************************************)
EXTENDS OfflineCache, FiniteSetTheorems, TLAPS

-----------------------------------------------------------------------------
(***************************************************************************)
(* The inductive invariant.                                                *)
(***************************************************************************)

(* Stored bytes of an earlier version of the program, of which nobody knows *)
(* the validator.                                                           *)
Legacy(f) ==
    /\ files[f] = None
    /\ manifests[f].validator = None
    /\ Stored(f) # {}

(* Where a download may be while there are such bytes: it goes through     *)
(* restartFileDownload before it writes anything.                           *)
Early == {"none", "lock", "sweep", "prepare", "restart", "leave"}

(* The rows of a file: a complete file has no manifest and all of its chunks, *)
(* the chunks a validator describes are of its version, a manifest counts the *)
(* chunks, and deletions are in the past.                                     *)
RowSound(f) ==
    /\ files[f] # None => manifests[f] = NoManifest /\ \A i \in Chunks : chunks[f][i] = files[f]
    /\ manifests[f].validator # None =>
          \A i \in Stored(f) : chunks[f][i] = manifests[f].validator
    /\ manifests[f].stored = (IF manifests[f] = NoManifest THEN 0 ELSE Cardinality(Stored(f)))
    /\ Stored(f) # {} => manifests[f] # NoManifest \/ files[f] # None
    /\ lastDeleted[f] <= generation

Tables ==
    /\ \A f \in Files : RowSound(f)
    /\ RemovedIsGone

FrameSound(t, f) ==
    /\ downloads[t][f].pc \in {"owned", "put"} => downloads[t][f].data \in Versions
    /\ downloads[t][f].pc \notin {"none", "leave"} => downloads[t][f].generation # -1
    /\ Legacy(f) => downloads[t][f].pc \in Early

Frames == \A t \in Tabs, f \in Files : FrameSound(t, f)

(* A browser with navigator.locks uses no lease. *)
Leases ==
    /\ LeaseHasHolder
    /\ webLocks => \A f \in Files : leases[f] = None

IInv == TypeOK /\ Tables /\ Frames /\ Leases

-----------------------------------------------------------------------------
(***************************************************************************)
(* Numbers and sets of chunks.                                             *)
(***************************************************************************)

(* Min and Max of two integers. *)
LEMMA OfTwo ==
    ASSUME NEW a \in Int, NEW b \in Int
    PROVE  /\ Min({a, b}) = IF a <= b THEN a ELSE b
           /\ Max({a, b}) = IF a >= b THEN a ELSE b
<1>1. \E x \in {a, b} : \A y \in {a, b} : x <= y
  OBVIOUS
<1>2. \E x \in {a, b} : \A y \in {a, b} : x >= y
  OBVIOUS
<1> QED BY <1>1, <1>2 DEF Min, Max

(* The chunks of a file are finitely many, and so are any of them. *)
LEMMA ChunkSets ==
    ASSUME NEW S \in SUBSET Chunks
    PROVE  /\ IsFiniteSet(S)
           /\ Cardinality(S) \in 0 .. ChunkCount
           /\ Cardinality(S) = 0 <=> S = {}
<1>1. IsFiniteSet(Chunks) /\ Cardinality(Chunks) = ChunkCount
  BY CountsAssumption, FS_Interval DEF Chunks
<1>2. IsFiniteSet(S) /\ Cardinality(S) <= ChunkCount
  BY <1>1, FS_Subset
<1> QED BY <1>2, FS_CardinalityType, FS_EmptySet, CountsAssumption

-----------------------------------------------------------------------------
(***************************************************************************)
(* Type correctness.                                                       *)
(***************************************************************************)

ManifestType == [generation : Generations \union {-1}, stored : 0 .. ChunkCount,
                 validator : Versions \union {None}]
DownloadType == [pc : Pcs, generation : Generations \union {-1},
                 aborted : BOOLEAN, lost : BOOLEAN,
                 expected : Versions \union {None}, pending : SUBSET Chunks,
                 data : Versions \union {None}]

(* The empty values have their types. *)
LEMMA EmptyValues ==
    /\ NoManifest \in ManifestType
    /\ NoDownload \in DownloadType
    /\ NoChunks \in [Chunks -> Versions \union {None}]
    /\ \A g \in Generations, n \in 0 .. ChunkCount, v \in Versions \union {None} :
          Manifest(g, n, v) \in ManifestType
    /\ \A d \in DownloadType : Ending(d) \in DownloadType
<1>1. 0 \in 0 .. ChunkCount
  BY CountsAssumption
<1>2. NoManifest \in ManifestType
  BY <1>1 DEF NoManifest, ManifestType
<1>3. NoDownload \in DownloadType
  BY DEF NoDownload, DownloadType, Pcs
<1>4. NoChunks \in [Chunks -> Versions \union {None}]
  BY DEF NoChunks
<1>5. \A g \in Generations, n \in 0 .. ChunkCount, v \in Versions \union {None} :
          Manifest(g, n, v) \in ManifestType
  BY DEF Manifest, ManifestType
<1>6. \A d \in DownloadType : Ending(d) \in DownloadType
  BY DEF Ending, NoDownload, DownloadType, Pcs
<1> QED BY <1>2, <1>3, <1>4, <1>5, <1>6

(* The types by name. *)
LEMMA Types ==
    TypeOK <=>
        /\ files \in [Files -> Versions \union {None}]
        /\ manifests \in [Files -> ManifestType]
        /\ chunks \in [Files -> [Chunks -> Versions \union {None}]]
        /\ generation \in Generations /\ removed \in BOOLEAN /\ torrent \in BOOLEAN
        /\ leases \in [Files -> Tabs \union {None}]
        /\ downloads \in [Tabs -> [Files -> DownloadType]]
        /\ cleaned \in [Tabs -> BOOLEAN]
        /\ webLocks \in BOOLEAN
        /\ served \in [Files -> Versions]
        /\ lastDeleted \in [Files -> Generations]
BY DEF TypeOK, ManifestType, DownloadType

(* A step that only moves the frame of one download. *)
LEMMA FrameStep ==
    ASSUME downloads \in [Tabs -> [Files -> DownloadType]],
           NEW t \in Tabs, NEW f \in Files, NEW d \in DownloadType,
           downloads' = [downloads EXCEPT ![t][f] = d]
    PROVE  downloads' \in [Tabs -> [Files -> DownloadType]]
OBVIOUS

(* Changes of single fields, which is how the actions write. *)
LEMMA FieldSteps ==
    ASSUME downloads \in [Tabs -> [Files -> DownloadType]],
           NEW t \in Tabs, NEW f \in Files
    PROVE  /\ \A pc \in Pcs :
                 [downloads EXCEPT ![t][f].pc = pc] \in [Tabs -> [Files -> DownloadType]]
           /\ Lost(t, f) \in [Tabs -> [Files -> DownloadType]]
           /\ [downloads EXCEPT ![t][f] = NoDownload] \in [Tabs -> [Files -> DownloadType]]
<1> DEFINE d == downloads[t][f]
<1>1. d \in DownloadType
  OBVIOUS
<1>2. ASSUME NEW pc \in Pcs
      PROVE  [downloads EXCEPT ![t][f].pc = pc] \in [Tabs -> [Files -> DownloadType]]
  <2>1. [d EXCEPT !.pc = pc] \in DownloadType
    BY <1>1 DEF DownloadType
  <2>2. [downloads EXCEPT ![t][f].pc = pc] = [downloads EXCEPT ![t][f] = [d EXCEPT !.pc = pc]]
    OBVIOUS
  <2> QED BY <2>1, <2>2
<1>3. Lost(t, f) \in [Tabs -> [Files -> DownloadType]]
  <2>1. [d EXCEPT !.lost = TRUE, !.aborted = TRUE] \in DownloadType
    BY <1>1 DEF DownloadType
  <2>2. Lost(t, f) = [downloads EXCEPT ![t][f] = [d EXCEPT !.lost = TRUE, !.aborted = TRUE]]
    BY DEF Lost
  <2> QED BY <2>1, <2>2
<1>4. [downloads EXCEPT ![t][f] = NoDownload] \in [Tabs -> [Files -> DownloadType]]
  BY EmptyValues
<1> QED BY <1>2, <1>3, <1>4

(* An operation that rejects. *)
LEMMA ThrowType ==
    ASSUME TypeOK, NEW t \in Tabs, NEW f \in Files, Throw(t, f)
    PROVE  TypeOK'
<1>1. downloads \in [Tabs -> [Files -> DownloadType]]
  BY Types
<1>2. Ending(downloads[t][f]) \in DownloadType
  BY <1>1, EmptyValues
<1>3. downloads' = [downloads EXCEPT ![t][f] = Ending(downloads[t][f])]
  BY <1>1 DEF Throw
<1>4. downloads' \in [Tabs -> [Files -> DownloadType]]
  BY <1>1, <1>2, <1>3, FrameStep
<1> QED BY <1>4, Types DEF Throw, TypeOK, DownloadType, tables, book, world

(* The initial states. *)
LEMMA InitType == Init => TypeOK
<1> SUFFICES ASSUME Init PROVE TypeOK
  OBVIOUS
<1>1. PICK legacy \in SUBSET Files, v \in Versions :
        /\ manifests = [f \in Files |-> IF f \in legacy THEN Manifest(0, 1, None) ELSE NoManifest]
        /\ chunks = [f \in Files |->
               [i \in Chunks |-> IF f \in legacy /\ i = 0 THEN v ELSE None]]
  BY DEF Init
<1>2. 0 \in Generations /\ 1 \in 0 .. ChunkCount
  BY CountsAssumption DEF Generations
<1>3. Manifest(0, 1, None) \in ManifestType
  BY <1>2, EmptyValues
<1>4. manifests \in [Files -> ManifestType]
  BY <1>1, <1>3, EmptyValues
<1>5. chunks \in [Files -> [Chunks -> Versions \union {None}]]
  BY <1>1
<1>6. downloads \in [Tabs -> [Files -> DownloadType]]
  BY EmptyValues DEF Init
<1> QED BY <1>2, <1>4, <1>5, <1>6, Types DEF Init

(* What a step of a download keeps, one action after the other. *)
LEMMA StepType ==
    ASSUME TypeOK, NEW t \in Tabs, NEW f \in Files,
           Step(t, f) \/ LoseLease(t, f) \/ CacheFile(t, f) \/ Cancel(t, f)
    PROVE  TypeOK'
<1> DEFINE d == downloads[t][f]
<1>1. /\ files \in [Files -> Versions \union {None}]
      /\ manifests \in [Files -> ManifestType]
      /\ chunks \in [Files -> [Chunks -> Versions \union {None}]]
      /\ generation \in Generations /\ removed \in BOOLEAN /\ torrent \in BOOLEAN
      /\ leases \in [Files -> Tabs \union {None}]
      /\ downloads \in [Tabs -> [Files -> DownloadType]]
      /\ cleaned \in [Tabs -> BOOLEAN]
      /\ webLocks \in BOOLEAN
      /\ served \in [Files -> Versions]
      /\ lastDeleted \in [Files -> Generations]
  BY Types
<1>2. d \in DownloadType
  BY <1>1
<1> DEFINE Fits == /\ files' \in [Files -> Versions \union {None}]
                   /\ manifests' \in [Files -> ManifestType]
                   /\ chunks' \in [Files -> [Chunks -> Versions \union {None}]]
                   /\ leases' \in [Files -> Tabs \union {None}]
                   /\ downloads' \in [Tabs -> [Files -> DownloadType]]
                   /\ cleaned' \in [Tabs -> BOOLEAN]
                   /\ UNCHANGED <<book, world>>
<1>3. SUFFICES Fits
  BY <1>1, Types DEF TypeOK, ManifestType, DownloadType, book, world
<1>4. CASE Lock(t, f)
  BY <1>1, <1>4, FieldSteps DEF Lock, Goto, Pcs
<1>5. CASE LockAborts(t, f)
  BY <1>1, <1>5, FieldSteps DEF LockAborts, Forget, tables
<1>6. CASE SweepStale(t, f)
  <2>1. downloads' \in [Tabs -> [Files -> DownloadType]]
    BY <1>1, <1>6, FieldSteps DEF SweepStale, Goto, Pcs
  <2>2. CASE UNCHANGED <<manifests, chunks>>
    BY <1>1, <1>6, <2>1, <2>2 DEF SweepStale
  <2>3. CASE \E swept \in SUBSET Files, gone \in [Files -> SUBSET Chunks] :
               /\ manifests' = [g \in Files |->
                     IF g \in swept THEN NoManifest
                     ELSE IF gone[g] = {} THEN manifests[g]
                     ELSE [manifests[g] EXCEPT !.stored = Max({0, @ - Cardinality(gone[g])})]]
               /\ chunks' = [g \in Files |->
                     [i \in Chunks |-> IF i \in gone[g] THEN None ELSE chunks[g][i]]]
    <3>1. PICK swept \in SUBSET Files, gone \in [Files -> SUBSET Chunks] :
               /\ manifests' = [g \in Files |->
                     IF g \in swept THEN NoManifest
                     ELSE IF gone[g] = {} THEN manifests[g]
                     ELSE [manifests[g] EXCEPT !.stored = Max({0, @ - Cardinality(gone[g])})]]
               /\ chunks' = [g \in Files |->
                     [i \in Chunks |-> IF i \in gone[g] THEN None ELSE chunks[g][i]]]
      BY <2>3
    <3>2. ASSUME NEW g \in Files
          PROVE  [manifests[g] EXCEPT !.stored = Max({0, @ - Cardinality(gone[g])})]
                    \in ManifestType
      <4>1. manifests[g].stored \in 0 .. ChunkCount
        BY <1>1 DEF ManifestType
      <4>2. Cardinality(gone[g]) \in 0 .. ChunkCount
        BY <3>1, ChunkSets
      <4> DEFINE m == manifests[g].stored - Cardinality(gone[g])
                 n == Max({0, m})
      <4>3. m \in Int /\ m <= ChunkCount
        BY <4>1, <4>2, CountsAssumption
      <4> HIDE DEF m
      <4>4. n = IF 0 >= m THEN 0 ELSE m
        BY <4>3, OfTwo
      <4>5. n \in 0 .. ChunkCount
        BY <4>3, <4>4, CountsAssumption
      <4> HIDE DEF n
      <4>6. manifests[g] \in ManifestType
        BY <1>1
      <4>7. [manifests[g] EXCEPT !.stored = n] \in ManifestType
        BY <4>5, <4>6 DEF ManifestType
      <4> QED BY <4>7 DEF n, m
    <3>3. manifests' \in [Files -> ManifestType]
      BY <1>1, <3>1, <3>2, EmptyValues
    <3>4. chunks' \in [Files -> [Chunks -> Versions \union {None}]]
      BY <1>1, <3>1
    <3> QED BY <1>1, <1>6, <2>1, <3>3, <3>4 DEF SweepStale
  <2> QED BY <1>6, <2>2, <2>3 DEF SweepStale
<1>7. CASE Prepare(t, f)
  <2>1. d.generation \in Generations
    BY <1>1, <1>7 DEF Prepare, Valid
  <2>2. Cardinality(Stored(f)) \in 0 .. ChunkCount
    BY ChunkSets DEF Stored
  <2>3. CASE files[f] # None
    <3>1. downloads' = [downloads EXCEPT ![t][f] = Ending(d)]
      BY <1>1, <1>7, <2>3 DEF Prepare
    <3>2. downloads' \in [Tabs -> [Files -> DownloadType]]
      BY <1>1, <1>2, <3>1, EmptyValues, FrameStep
    <3> QED BY <1>1, <1>7, <2>3, <3>2 DEF Prepare
  <2>4. CASE files[f] = None
    <3>1. manifests[f].validator \in Versions \union {None} /\ 0 \in 0 .. ChunkCount
      BY <1>1, CountsAssumption DEF ManifestType
    <3>2. /\ Manifest(d.generation, 0, None) \in ManifestType
          /\ Manifest(d.generation, Cardinality(Stored(f)), manifests[f].validator)
                \in ManifestType
      BY <2>1, <2>2, <3>1, EmptyValues
    <3>3. manifests' \in [Files -> ManifestType]
      BY <1>1, <1>7, <2>4, <3>2 DEF Prepare
    <3>4. chunks' \in [Files -> [Chunks -> Versions \union {None}]]
      BY <1>1, <1>7, <2>4, EmptyValues DEF Prepare
    <3> DEFINE new == [d EXCEPT
                 !.pc = IF manifests'[f].stored > 0 /\ manifests'[f].validator = None
                        THEN "restart" ELSE "indexes",
                 !.expected = manifests'[f].validator]
    <3>5. new \in DownloadType
      BY <1>2, <3>3 DEF DownloadType, ManifestType, Pcs
    <3>6. downloads' = [downloads EXCEPT
                 ![t][f].pc = IF manifests'[f].stored > 0 /\ manifests'[f].validator = None
                              THEN "restart" ELSE "indexes",
                 ![t][f].expected = manifests'[f].validator]
      BY <1>7, <2>4 DEF Prepare
    <3>7. downloads' = [downloads EXCEPT ![t][f] = new]
      BY <1>1, <3>6
    <3>8. downloads' \in [Tabs -> [Files -> DownloadType]]
      BY <1>1, <3>5, <3>7, FrameStep
    <3> QED BY <1>1, <1>7, <3>3, <3>4, <3>8 DEF Prepare
  <2> QED BY <2>3, <2>4
<1>8. CASE Restart(t, f)
  <2>1. Manifest(d.generation, 0, None) \in ManifestType
    <3>1. d.generation \in Generations /\ 0 \in 0 .. ChunkCount
      BY <1>1, <1>8, CountsAssumption DEF Restart, Valid
    <3> QED BY <3>1, EmptyValues
  <2>2. [d EXCEPT !.pc = "indexes", !.expected = files[f]] \in DownloadType
    BY <1>1, <1>2 DEF DownloadType, Pcs
  <2>3. downloads' = [downloads EXCEPT ![t][f] = [d EXCEPT !.pc = "indexes", !.expected = files[f]]]
    BY <1>1, <1>8 DEF Restart
  <2>4. downloads' \in [Tabs -> [Files -> DownloadType]]
    BY <1>1, <2>2, <2>3, FrameStep
  <2>5. manifests' \in [Files -> ManifestType]
    BY <1>1, <1>8, <2>1 DEF Restart
  <2>6. chunks' \in [Files -> [Chunks -> Versions \union {None}]]
    BY <1>1, <1>8, EmptyValues DEF Restart
  <2> QED BY <1>1, <1>8, <2>4, <2>5, <2>6 DEF Restart
<1>9. CASE Indexes(t, f)
  <2>1. [d EXCEPT !.pc = "loop", !.pending = Chunks \ Stored(f)] \in DownloadType
    BY <1>2 DEF DownloadType, Pcs
  <2>2. downloads' = [downloads EXCEPT
                         ![t][f] = [d EXCEPT !.pc = "loop", !.pending = Chunks \ Stored(f)]]
    BY <1>1, <1>9 DEF Indexes
  <2>3. downloads' \in [Tabs -> [Files -> DownloadType]]
    BY <1>1, <2>1, <2>2, FrameStep
  <2> QED BY <1>1, <1>9, <2>3 DEF Indexes, tables
<1>10. CASE NextChunk(t, f)
  <2>1. PICK pc \in Pcs : Goto(t, f, pc)
    BY <1>10 DEF NextChunk, Pcs
  <2>2. downloads' = [downloads EXCEPT ![t][f].pc = pc]
    BY <2>1 DEF Goto
  <2>3. downloads' \in [Tabs -> [Files -> DownloadType]]
    BY <1>1, <2>2, FieldSteps
  <2> QED BY <1>1, <1>10, <2>3 DEF NextChunk, tables
<1>11. CASE AssertOwner(t, f, "own", "fetch")
  BY <1>1, <1>11, FieldSteps DEF AssertOwner, Goto, Pcs, tables
<1>12. CASE AssertOwner(t, f, "owned", "put")
  BY <1>1, <1>12, FieldSteps DEF AssertOwner, Goto, Pcs, tables
<1>13. CASE Fetch(t, f)
  <2>1. [d EXCEPT !.pc = "owned", !.data = served[f]] \in DownloadType
    BY <1>1, <1>2 DEF DownloadType, Pcs
  <2>2. downloads' = [downloads EXCEPT ![t][f] = [d EXCEPT !.pc = "owned", !.data = served[f]]]
    BY <1>1, <1>13 DEF Fetch
  <2>3. downloads' \in [Tabs -> [Files -> DownloadType]]
    BY <1>1, <2>1, <2>2, FrameStep
  <2> QED BY <1>1, <1>13, <2>3 DEF Fetch, tables
<1>14. CASE AssertFails(t, f)
  <2>1. [d EXCEPT !.lost = TRUE, !.aborted = TRUE] \in DownloadType
    BY <1>2 DEF DownloadType
  <2>2. downloads' = [downloads EXCEPT
                         ![t][f] = Ending([d EXCEPT !.lost = TRUE, !.aborted = TRUE])]
    BY <1>1, <1>14 DEF AssertFails, Lost
  <2>3. downloads' \in [Tabs -> [Files -> DownloadType]]
    BY <1>1, <2>1, <2>2, EmptyValues, FrameStep
  <2> QED BY <1>1, <1>14, <2>3 DEF AssertFails, tables
<1>15. CASE PutChunk(t, f)
  <2>1. PICK i \in d.pending :
          /\ chunks' = [chunks EXCEPT ![f][i] = d.data]
          /\ manifests' = [manifests EXCEPT ![f] =
                 Manifest(d.generation, Min({ChunkCount, StoredWith(f, i)}),
                          IF @.validator = None THEN d.data ELSE @.validator)]
          /\ downloads' = [downloads EXCEPT ![t][f].pc = "loop", ![t][f].pending = @ \ {i},
                 ![t][f].expected = manifests'[f].validator, ![t][f].data = None]
    BY <1>15 DEF PutChunk
  <2>2. d.generation \in Generations
    BY <1>1, <1>15 DEF PutChunk, MayPut, Valid
  <2>3. StoredWith(f, i) \in Nat
    BY <1>1 DEF StoredWith, ManifestType
  <2>4. Min({ChunkCount, StoredWith(f, i)}) \in 0 .. ChunkCount
    BY <2>3, OfTwo, CountsAssumption
  <2>5. (IF manifests[f].validator = None THEN d.data ELSE manifests[f].validator)
           \in Versions \union {None}
    BY <1>1, <1>2 DEF ManifestType, DownloadType
  <2>6. manifests' \in [Files -> ManifestType]
    BY <1>1, <2>1, <2>2, <2>4, <2>5, EmptyValues
  <2>7. chunks' \in [Files -> [Chunks -> Versions \union {None}]]
    BY <1>1, <1>2, <2>1 DEF DownloadType
  <2> DEFINE new == [d EXCEPT !.pc = "loop", !.pending = @ \ {i},
                        !.expected = manifests'[f].validator, !.data = None]
  <2>8. new \in DownloadType
    BY <1>2, <2>6 DEF DownloadType, ManifestType, Pcs
  <2>9. downloads' = [downloads EXCEPT ![t][f] = new]
    <3>1. downloads' = [downloads EXCEPT ![t][f].pc = "loop", ![t][f].pending = @ \ {i},
                 ![t][f].expected = manifests'[f].validator, ![t][f].data = None]
      BY <2>1
    <3> QED BY <1>1, <3>1 DEF DownloadType
  <2>10. downloads' \in [Tabs -> [Files -> DownloadType]]
    BY <1>1, <2>8, <2>9, FrameStep
  <2> QED BY <1>1, <1>15, <2>6, <2>7, <2>10 DEF PutChunk
<1>16. CASE Complete(t, f)
  <2>1. files' \in [Files -> Versions \union {None}]
    BY <1>1, <1>16 DEF Complete, ManifestType
  <2>2. manifests' \in [Files -> ManifestType]
    BY <1>1, <1>16, EmptyValues DEF Complete
  <2>3. downloads' = [downloads EXCEPT ![t][f] = Ending(d)]
    BY <1>1, <1>16 DEF Complete
  <2> QED BY <1>1, <1>2, <1>16, <2>1, <2>2, <2>3, FrameStep, EmptyValues DEF Complete
<1>17. CASE Throw(t, f)
  BY <1>1, <1>2, <1>17, EmptyValues, FrameStep DEF Throw, tables
<1>18. CASE Leave(t, f)
  BY <1>1, <1>18, FieldSteps DEF Leave, Forget
<1>19. CASE LoseLease(t, f)
  BY <1>1, <1>19, FieldSteps DEF LoseLease, tables
<1>20. CASE CacheFile(t, f)
  <2>1. [d EXCEPT !.pc = "lock", !.generation = generation] \in DownloadType
    BY <1>1, <1>2 DEF DownloadType, Pcs
  <2>2. downloads' = [downloads EXCEPT
                         ![t][f] = [d EXCEPT !.pc = "lock", !.generation = generation]]
    BY <1>1, <1>20 DEF CacheFile
  <2>3. downloads' \in [Tabs -> [Files -> DownloadType]]
    BY <1>1, <2>1, <2>2, FrameStep
  <2> QED BY <1>1, <1>20, <2>3 DEF CacheFile, tables
<1>21. CASE Cancel(t, f)
  <2>1. [d EXCEPT !.aborted = TRUE] \in DownloadType
    BY <1>2 DEF DownloadType
  <2>2. downloads' = [downloads EXCEPT ![t][f] = [d EXCEPT !.aborted = TRUE]]
    BY <1>1, <1>21 DEF Cancel
  <2>3. downloads' \in [Tabs -> [Files -> DownloadType]]
    BY <1>1, <2>1, <2>2, FrameStep
  <2> QED BY <1>1, <1>21, <2>3 DEF Cancel, tables
<1> QED BY <1>4, <1>5, <1>6, <1>7, <1>8, <1>9, <1>10, <1>11, <1>12, <1>13, <1>14, <1>15,
           <1>16, <1>17, <1>18, <1>19, <1>20, <1>21 DEF Step, Refuse, Fails

(* Deletions, additions and the surroundings keep the types. *)
LEMMA RotateType ==
    ASSUME generation \in Generations, NEW to \in BOOLEAN, Rotate(to)
    PROVE  generation' \in Generations /\ removed' \in BOOLEAN
BY CountsAssumption DEF Rotate, Generations

(* Deletions, additions, the server and closing tabs keep the types. *)
LEMMA OtherType ==
    ASSUME TypeOK,
           \/ \E f \in Files : RemoveFile(f)
           \/ RemoveFilesByIh \/ RemoveFilesAndTorrent \/ AddTorrent
           \/ \E f \in Files, v \in Versions : ServerChanges(f, v)
           \/ \E t \in Tabs : CloseTab(t)
    PROVE  TypeOK'
<1>1. ASSUME NEW fs \in SUBSET Files, NEW to \in BOOLEAN, Rotate(to), Delete(fs),
             torrent' \in BOOLEAN
      PROVE  TypeOK'
  <2>1. generation + 1 \in Generations
    BY <1>1, CountsAssumption, Types DEF Rotate, Generations
  <2>2. generation' \in Generations /\ removed' \in BOOLEAN
    BY <1>1, RotateType, Types
  <2>3. /\ manifests' \in [Files -> ManifestType]
        /\ chunks' \in [Files -> [Chunks -> Versions \union {None}]]
        /\ files' \in [Files -> Versions \union {None}]
        /\ lastDeleted' \in [Files -> Generations]
    BY <1>1, <2>1, Types, EmptyValues DEF Delete
  <2> QED BY <1>1, <2>2, <2>3, Types DEF TypeOK, ManifestType, DownloadType, Delete, tabs
<1>2. CASE AddTorrent
  BY <1>2, RotateType DEF AddTorrent, TypeOK, tabs, world
<1>3. CASE \E f \in Files, v \in Versions : ServerChanges(f, v)
  BY <1>3 DEF ServerChanges, TypeOK, tables, book, tabs
<1>4. CASE \E t \in Tabs : CloseTab(t)
  <2>1. PICK t \in Tabs : CloseTab(t)
    BY <1>4
  <2>2. downloads' \in [Tabs -> [Files -> DownloadType]]
    BY <2>1, Types, EmptyValues DEF CloseTab
  <2>3. leases' \in [Files -> Tabs \union {None}]
    BY <2>1, Types DEF CloseTab
  <2> QED BY <2>1, <2>2, <2>3, Types DEF TypeOK, DownloadType, CloseTab, book, world
<1> QED BY <1>1, <1>2, <1>3, <1>4, Types
        DEF RemoveFile, RemoveFilesByIh, RemoveFilesAndTorrent

(* Every step keeps the types. *)
LEMMA NextType == TypeOK /\ [Next]_vars => TypeOK'
<1> SUFFICES ASSUME TypeOK, [Next]_vars PROVE TypeOK'
  OBVIOUS
<1>1. CASE UNCHANGED vars
  BY <1>1 DEF TypeOK, vars, tables, book, tabs, world
<1> QED BY <1>1, StepType, OtherType DEF Next

-----------------------------------------------------------------------------
(***************************************************************************)
(* The tables.                                                             *)
(***************************************************************************)

(* The rows of a file that a step does not write. *)
LEMMA OtherRows ==
    ASSUME TypeOK, NEW g \in Files, RowSound(g),
           files'[g] = files[g], manifests'[g] = manifests[g], chunks'[g] = chunks[g],
           lastDeleted'[g] = lastDeleted[g],
           generation' \in Nat, generation' >= generation
    PROVE  RowSound(g)' /\ (Legacy(g)' => Legacy(g))
<1>1. Stored(g)' = Stored(g)
  BY DEF Stored
<1>2. lastDeleted[g] \in Nat /\ generation \in Nat
  BY DEF TypeOK, Generations
<1> QED BY <1>1, <1>2 DEF RowSound, Legacy

(* The rows of a file of which nothing is left but perhaps an empty manifest. *)
LEMMA EmptyRows ==
    ASSUME NEW g \in Files,
           files'[g] = None, chunks'[g] = NoChunks, manifests'[g].stored = 0,
           lastDeleted'[g] <= generation'
    PROVE  RowSound(g)' /\ ~Legacy(g)' /\ Stored(g)' = {}
<1>1. Stored(g)' = {}
  BY DEF Stored, NoChunks
<1> QED BY <1>1, FS_EmptySet DEF RowSound, Legacy

(* A step that writes no table. *)
LEMMA QuietTables ==
    ASSUME TypeOK, Tables, UNCHANGED <<files, manifests, chunks, generation, removed, lastDeleted>>
    PROVE  Tables' /\ \A g \in Files : Legacy(g)' => Legacy(g)
<1>1. generation \in Nat
  BY DEF TypeOK, Generations
<1>2. \A g \in Files : RowSound(g)' /\ (Legacy(g)' => Legacy(g))
  BY <1>1, OtherRows DEF Tables
<1>3. RemovedIsGone'
  BY DEF Tables, RemovedIsGone, Stored
<1> QED BY <1>2, <1>3 DEF Tables

(* cleanupStalePartialDownloads *)
LEMMA SweepTables ==
    ASSUME TypeOK, Tables, NEW t \in Tabs, NEW f \in Files, SweepStale(t, f)
    PROVE  Tables' /\ \A g \in Files : Legacy(g)' => Legacy(g)
<1>1. UNCHANGED <<files, generation, removed, lastDeleted>>
  BY DEF SweepStale, book, world
<1>2. CASE UNCHANGED <<manifests, chunks>>
  BY <1>1, <1>2, QuietTables
<1>3. ASSUME NEW swept \in SUBSET Files, NEW gone \in [Files -> SUBSET Chunks],
             Sweeps(swept, gone),
             manifests' = [g \in Files |->
                     IF g \in swept THEN NoManifest
                     ELSE IF gone[g] = {} THEN manifests[g]
                     ELSE [manifests[g] EXCEPT !.stored = Max({0, @ - Cardinality(gone[g])})]],
             chunks' = [g \in Files |->
                     [i \in Chunks |-> IF i \in gone[g] THEN None ELSE chunks[g][i]]]
      PROVE  Tables' /\ \A g \in Files : Legacy(g)' => Legacy(g)
  <2>1. ASSUME NEW g \in Files
        PROVE  /\ RowSound(g)'
               /\ Legacy(g)' => Legacy(g)
               /\ Stored(g)' \subseteq Stored(g)
               /\ manifests[g] = NoManifest => manifests'[g] = NoManifest
    <3>1. Stored(g)' = Stored(g) \ gone[g] /\ RowSound(g) /\ lastDeleted'[g] <= generation'
      BY <1>1, <1>3 DEF Stored, Tables, RowSound
    <3>2. chunks[g] \in [Chunks -> Versions \union {None}] /\ manifests[g] \in ManifestType
          /\ generation \in Nat
      BY Types DEF Generations
    <3>3. CASE g \in swept /\ files[g] = None
      <4>1. gone[g] = Stored(g)
        BY <1>3, <3>3 DEF Sweeps
      <4>2. Stored(g)' = {} /\ manifests'[g] = NoManifest
        BY <1>3, <3>1, <3>3, <4>1
      <4>3. chunks'[g] = NoChunks
        BY <1>3, <4>1 DEF Stored, NoChunks
      <4>4. files'[g] = None /\ manifests'[g].stored = 0
        BY <1>1, <3>3, <4>2 DEF NoManifest
      <4> QED BY <3>1, <4>2, <4>3, <4>4, EmptyRows
    <3>4. CASE g \in swept /\ files[g] # None
      <4>1. gone[g] = {}
        BY <1>3, <3>4 DEF Sweeps
      <4>2. chunks'[g] = chunks[g]
        BY <1>3, <3>2, <4>1
      <4>3. manifests'[g] = manifests[g] /\ manifests'[g] = NoManifest
        BY <1>3, <3>1, <3>4 DEF RowSound
      <4>4. RowSound(g)' /\ (Legacy(g)' => Legacy(g))
        <5>1. manifests'[g] = manifests[g]
          BY <4>3
        <5> QED BY <1>1, <3>1, <3>2, <4>2, <5>1, OtherRows
      <4> QED BY <3>1, <4>3, <4>4
    <3>5. CASE g \notin swept /\ gone[g] = {}
      <4>1. manifests'[g] = manifests[g] /\ chunks'[g] = chunks[g]
        BY <1>3, <3>2, <3>5
      <4> QED BY <1>1, <3>1, <3>2, <3>5, <4>1, OtherRows
    <3>6. CASE g \notin swept /\ gone[g] # {}
      <4>1. /\ manifests[g] # NoManifest
            /\ files[g] = None
            /\ gone[g] \subseteq Stored(g) /\ gone[g] # Stored(g)
        BY <1>3, <3>6 DEF Sweeps
      <4> DEFINE m == manifests[g].stored - Cardinality(gone[g])
                 n == Max({0, m})
      <4>2. manifests'[g] = [manifests[g] EXCEPT !.stored = n]
        BY <1>3, <3>6
      <4>3. /\ IsFiniteSet(Stored(g))
            /\ Cardinality(gone[g]) \in Nat /\ Cardinality(Stored(g)) \in Nat
            /\ Cardinality(Stored(g) \ gone[g]) \in Nat
        BY <1>3, ChunkSets DEF Stored
      <4>4. Cardinality(Stored(g) \ gone[g]) = Cardinality(Stored(g)) - Cardinality(gone[g])
        <5>1. Stored(g) \cap gone[g] = gone[g]
          BY <4>1
        <5> QED BY <4>3, <5>1, FS_Difference
      <4>5. m = Cardinality(Stored(g)')
        BY <3>1, <4>1, <4>4 DEF RowSound
      <4>6. n = Cardinality(Stored(g)')
        <5>1. m \in Nat
          BY <3>1, <4>3, <4>5
        <5> HIDE DEF m
        <5> QED BY <4>5, <5>1, OfTwo
      <4> HIDE DEF n
      <4>7. /\ manifests'[g].stored = n
            /\ manifests'[g].validator = manifests[g].validator
        BY <3>2, <4>2 DEF ManifestType
      <4>8. n # 0
        <5>1. Stored(g)' # {}
          BY <3>1, <4>1
        <5>2. Stored(g)' \in SUBSET Chunks
          BY DEF Stored
        <5> QED BY <4>6, <5>1, <5>2, ChunkSets
      <4>9. \A i \in Stored(g)' : i \in Stored(g) /\ chunks'[g][i] = chunks[g][i]
        BY <1>3, <3>1 DEF Stored
      <4> QED BY <1>1, <3>1, <4>1, <4>6, <4>7, <4>8, <4>9 DEF RowSound, Legacy, NoManifest
    <3> QED BY <3>3, <3>4, <3>5, <3>6
  <2>2. RemovedIsGone'
    BY <1>1, <2>1 DEF Tables, RemovedIsGone
  <2> QED BY <2>1, <2>2 DEF Tables
<1> QED BY <1>2, <1>3 DEF SweepStale

(* prepareFileDownload.  What goes on without restartFileDownload is not Legacy. *)
LEMMA PrepareTables ==
    ASSUME TypeOK, Tables, NEW t \in Tabs, NEW f \in Files, Prepare(t, f),
           downloads[t][f].generation # -1
    PROVE  /\ Tables'
           /\ \A g \in Files : Legacy(g)' => Legacy(g)
           /\ Legacy(f)' => downloads'[t][f].pc \in Early
<1> DEFINE d == downloads[t][f]
           count == Cardinality(Stored(f))
<1>1. UNCHANGED <<files, generation, removed, lastDeleted>> /\ ~removed
  BY DEF Prepare, book, world, Valid
<1>2. generation \in Nat /\ d \in DownloadType /\ manifests[f] \in ManifestType
  BY Types DEF Generations
<1>3. CASE files[f] # None
  <2>1. UNCHANGED <<manifests, chunks>>
    BY <1>3 DEF Prepare
  <2> QED BY <1>1, <1>3, <2>1, QuietTables DEF Legacy
<1>4. CASE files[f] = None
  <2>1. /\ manifests' = [manifests EXCEPT ![f] = manifests'[f]]
        /\ chunks' = [chunks EXCEPT ![f] = chunks'[f]]
    BY <1>4, Types DEF Prepare
  <2>2. \A g \in Files \ {f} : RowSound(g)' /\ (Legacy(g)' => Legacy(g))
    <3>1. TAKE g \in Files \ {f}
    <3>2. files'[g] = files[g] /\ lastDeleted'[g] = lastDeleted[g]
      BY <1>1
    <3>3. manifests'[g] = manifests[g] /\ chunks'[g] = chunks[g]
      BY <2>1, Types
    <3> QED BY <1>1, <1>2, <3>2, <3>3, OtherRows DEF Tables
  <2>3. RemovedIsGone'
    BY <1>1 DEF RemovedIsGone
  <2>4. count \in Nat /\ (count = 0 <=> Stored(f) = {})
    BY ChunkSets DEF Stored
  <2>5. downloads'[t][f].pc = IF manifests'[f].stored > 0 /\ manifests'[f].validator = None
                              THEN "restart" ELSE "indexes"
    BY <1>4, Types DEF Prepare, DownloadType
  <2>6. CASE manifests[f] = NoManifest
    <3>1. chunks'[f] = NoChunks /\ manifests'[f] = Manifest(d.generation, 0, None)
      BY <1>4, <2>6, Types DEF Prepare
    <3>2. manifests'[f].stored = 0
      BY <3>1 DEF Manifest
    <3>3. files'[f] = None /\ lastDeleted'[f] <= generation'
      BY <1>1, <1>4 DEF Tables, RowSound
    <3> QED BY <2>2, <2>3, <3>1, <3>2, <3>3, EmptyRows DEF Tables
  <2>7. CASE manifests[f] # NoManifest
    <3>1. /\ chunks'[f] = chunks[f]
          /\ manifests'[f] = Manifest(d.generation, count, manifests[f].validator)
      BY <1>4, <2>7, Types DEF Prepare
    <3>2. /\ manifests'[f].validator = manifests[f].validator
          /\ manifests'[f].stored = count
          /\ manifests'[f] # NoManifest
      BY <3>1 DEF Manifest, NoManifest
    <3>3. Stored(f)' = Stored(f)
      BY <3>1 DEF Stored
    <3>4. RowSound(f)' /\ (Legacy(f)' => Legacy(f))
      BY <1>1, <1>4, <3>1, <3>2, <3>3 DEF Tables, RowSound, Legacy
    <3>5. Legacy(f)' => downloads'[t][f].pc \in Early
      BY <2>4, <2>5, <3>2, <3>3 DEF Legacy, Early
    <3> QED BY <2>2, <2>3, <3>4, <3>5 DEF Tables
  <2> QED BY <2>6, <2>7
<1> QED BY <1>3, <1>4

(* restartFileDownload *)
LEMMA RestartTables ==
    ASSUME TypeOK, Tables, NEW t \in Tabs, NEW f \in Files, Restart(t, f)
    PROVE  /\ Tables'
           /\ \A g \in Files : Legacy(g)' => Legacy(g)
           /\ ~Legacy(f)'
<1>1. UNCHANGED <<files, generation, removed, lastDeleted>> /\ ~removed
  BY DEF Restart, book, world, Valid
<1>2. generation \in Nat
  BY Types DEF Generations
<1>3. CASE files[f] # None
  <2>1. UNCHANGED <<manifests, chunks>>
    BY <1>3 DEF Restart
  <2> QED BY <1>1, <1>3, <2>1, QuietTables DEF Legacy
<1>4. CASE files[f] = None
  <2>1. /\ manifests' = [manifests EXCEPT ![f] = Manifest(downloads[t][f].generation, 0, None)]
        /\ chunks' = [chunks EXCEPT ![f] = NoChunks]
    BY <1>4 DEF Restart
  <2>2. \A g \in Files \ {f} : RowSound(g)' /\ (Legacy(g)' => Legacy(g))
    <3>1. TAKE g \in Files \ {f}
    <3>2. files'[g] = files[g] /\ lastDeleted'[g] = lastDeleted[g]
      BY <1>1
    <3>3. manifests'[g] = manifests[g] /\ chunks'[g] = chunks[g]
      BY <2>1, Types
    <3> QED BY <1>1, <1>2, <3>2, <3>3, OtherRows DEF Tables
  <2>3. RemovedIsGone'
    BY <1>1 DEF RemovedIsGone
  <2>4. chunks'[f] = NoChunks /\ manifests'[f].stored = 0
    BY <2>1, Types DEF Manifest
  <2>5. files'[f] = None /\ lastDeleted'[f] <= generation'
    BY <1>1, <1>4 DEF Tables, RowSound
  <2> QED BY <2>2, <2>3, <2>4, <2>5, EmptyRows DEF Tables
<1> QED BY <1>3, <1>4

(* putFileChunk: what it checks makes the chunk one of the version that is there. *)
LEMMA PutTables ==
    ASSUME TypeOK, Tables, NEW t \in Tabs, NEW f \in Files, PutChunk(t, f),
           FrameSound(t, f)
    PROVE  Tables' /\ \A g \in Files : Legacy(g)' => Legacy(g)
<1> DEFINE d == downloads[t][f]
<1>1. UNCHANGED <<files, generation, removed, lastDeleted>> /\ ~removed
  BY DEF PutChunk, MayPut, book, world, Valid
<1>2. /\ generation \in Nat /\ d \in DownloadType /\ manifests[f] \in ManifestType
      /\ chunks[f] \in [Chunks -> Versions \union {None}]
  BY Types DEF Generations
<1>3. PICK i \in d.pending :
        /\ chunks' = [chunks EXCEPT ![f][i] = d.data]
        /\ manifests' = [manifests EXCEPT ![f] =
               Manifest(d.generation, Min({ChunkCount, StoredWith(f, i)}),
                        IF @.validator = None THEN d.data ELSE @.validator)]
  BY DEF PutChunk
<1>4. i \in Chunks
  BY <1>2 DEF DownloadType
<1>5. d.data \in Versions /\ d.data # None /\ d.generation # -1 /\ ~Legacy(f)
  BY NamesAssumption DEF FrameSound, PutChunk, At, Early
<1>6. manifests[f].generation = d.generation /\ manifests[f].validator \in {None, d.data}
  BY DEF PutChunk, MayPut
<1>7. manifests[f] # NoManifest /\ RowSound(f)
  BY <1>5, <1>6 DEF NoManifest, Tables
<1>8. files[f] = None
  BY <1>7 DEF RowSound
<1>9. Stored(f)' = Stored(f) \union {i}
  BY <1>2, <1>3, <1>4, <1>5, Types DEF Stored
<1> DEFINE n == Min({ChunkCount, StoredWith(f, i)})
<1>10. n = Cardinality(Stored(f) \union {i})
  <2>1. /\ IsFiniteSet(Stored(f)) /\ Cardinality(Stored(f)) \in Nat
        /\ Cardinality(Stored(f) \union {i}) <= ChunkCount
        /\ Cardinality(Stored(f) \union {i}) \in Nat
    BY <1>4, ChunkSets, CountsAssumption DEF Stored
  <2>2. Cardinality(Stored(f) \union {i}) =
           IF i \in Stored(f) THEN Cardinality(Stored(f)) ELSE Cardinality(Stored(f)) + 1
    BY <2>1, FS_AddElement
  <2>3. StoredWith(f, i) = Cardinality(Stored(f) \union {i})
    BY <1>4, <1>7, <2>1, <2>2 DEF StoredWith, RowSound, Stored
  <2>4. StoredWith(f, i) \in Int /\ StoredWith(f, i) <= ChunkCount /\ ChunkCount \in Int
    BY <2>1, <2>3, CountsAssumption
  <2>5. n = StoredWith(f, i)
    BY <2>4, OfTwo
  <2> QED BY <2>3, <2>5
<1> HIDE DEF n
<1>11. manifests'[f] = Manifest(d.generation, n, d.data)
  BY <1>3, <1>6, Types DEF n
<1>12. /\ manifests'[f].validator = d.data
       /\ manifests'[f].stored = n
       /\ manifests'[f] # NoManifest
  BY <1>5, <1>11 DEF Manifest, NoManifest
<1>13. \A j \in Stored(f)' : chunks'[f][j] = d.data
  <2>1. TAKE j \in Stored(f)'
  <2>2. CASE j = i
    BY <1>2, <1>3, <1>4, <2>2, Types
  <2>3. CASE j # i
    <3>1. j \in Stored(f) /\ chunks'[f][j] = chunks[f][j]
      BY <1>2, <1>3, <1>9, <2>3, Types
    <3>2. manifests[f].validator = d.data
      BY <1>5, <1>6, <1>8, <3>1 DEF Legacy
    <3> QED BY <1>5, <1>7, <3>1, <3>2 DEF RowSound
  <2> QED BY <2>2, <2>3
<1>14. RowSound(f)' /\ ~Legacy(f)'
  BY <1>1, <1>5, <1>7, <1>8, <1>9, <1>10, <1>12, <1>13 DEF RowSound, Legacy
<1>15. \A g \in Files \ {f} : RowSound(g)' /\ (Legacy(g)' => Legacy(g))
  <2>1. TAKE g \in Files \ {f}
  <2>2. files'[g] = files[g] /\ lastDeleted'[g] = lastDeleted[g]
    BY <1>1
  <2>3. manifests'[g] = manifests[g] /\ chunks'[g] = chunks[g]
    BY <1>3, Types
  <2> QED BY <1>1, <1>2, <2>2, <2>3, OtherRows DEF Tables
<1>16. RemovedIsGone'
  BY <1>1 DEF RemovedIsGone
<1> QED BY <1>14, <1>15, <1>16 DEF Tables

(* completeFileDownload.  A file it puts where none was has a version. *)
LEMMA CompleteTables ==
    ASSUME TypeOK, Tables, NEW t \in Tabs, NEW f \in Files, Complete(t, f),
           FrameSound(t, f)
    PROVE  /\ Tables'
           /\ \A g \in Files : Legacy(g)' => Legacy(g)
           /\ \/ files' = files
              \/ /\ ~removed /\ files[f] = None
                 /\ \E v \in Versions : files' = [files EXCEPT ![f] = v]
<1> DEFINE v == manifests[f].validator
<1>1. UNCHANGED <<chunks, generation, removed, lastDeleted>> /\ ~removed
  BY DEF Complete, book, world, Valid
<1>2. generation \in Nat /\ manifests[f] \in ManifestType
  BY Types DEF Generations
<1>3. CASE files[f] # None
  <2>1. UNCHANGED <<manifests, files>>
    BY <1>3 DEF Complete
  <2> QED BY <1>1, <2>1, QuietTables
<1>4. CASE files[f] = None
  <2>1. /\ Whole(f)
        /\ files' = [files EXCEPT ![f] = v]
        /\ manifests' = [manifests EXCEPT ![f] = NoManifest]
    BY <1>4 DEF Complete
  <2>2. Stored(f) # {}
    <3>1. 0 \in Chunks
      BY CountsAssumption DEF Chunks
    <3> QED BY <2>1, <3>1 DEF Whole
  <2>3. ~Legacy(f)
    BY DEF FrameSound, Complete, At, Early
  <2>4. v \in Versions /\ v # None
    BY <1>2, <1>4, <2>2, <2>3 DEF Legacy, ManifestType
  <2>5. files'[f] = v /\ manifests'[f] = NoManifest /\ Stored(f)' = Stored(f)
    BY <1>1, <2>1, Types DEF Stored
  <2>6. \A i \in Chunks : chunks'[f][i] = v
    BY <1>1, <2>1, <2>4 DEF Tables, RowSound, Whole
  <2>7. RowSound(f)' /\ ~Legacy(f)'
    BY <1>1, <2>4, <2>5, <2>6 DEF Tables, RowSound, Legacy, NoManifest
  <2>8. \A g \in Files \ {f} : RowSound(g)' /\ (Legacy(g)' => Legacy(g))
    <3>1. TAKE g \in Files \ {f}
    <3>2. chunks'[g] = chunks[g] /\ lastDeleted'[g] = lastDeleted[g]
      BY <1>1
    <3>3. manifests'[g] = manifests[g] /\ files'[g] = files[g]
      BY <2>1, Types
    <3> QED BY <1>1, <1>2, <3>2, <3>3, OtherRows DEF Tables
  <2>9. RemovedIsGone'
    BY <1>1 DEF RemovedIsGone
  <2> QED BY <1>1, <1>4, <2>1, <2>4, <2>7, <2>8, <2>9 DEF Tables
<1> QED BY <1>3, <1>4

(* The deletions, which clear all that there is of a file. *)
LEMMA DeleteTables ==
    ASSUME TypeOK, Tables, NEW fs \in SUBSET Files, NEW to \in BOOLEAN,
           Rotate(to), Delete(fs), to => fs = Files
    PROVE  Tables' /\ \A g \in Files : Legacy(g)' => Legacy(g)
<1>1. generation \in Nat /\ generation' = generation + 1 /\ removed' = to
  BY Types DEF Rotate, Generations
<1>2. ASSUME NEW g \in fs
      PROVE  /\ RowSound(g)' /\ ~Legacy(g)'
             /\ files'[g] = None /\ manifests'[g] = NoManifest /\ Stored(g)' = {}
  <2>1. /\ files'[g] = None /\ manifests'[g] = NoManifest /\ chunks'[g] = NoChunks
        /\ lastDeleted'[g] = generation + 1
    BY <1>2 DEF Delete
  <2>2. manifests'[g].stored = 0 /\ lastDeleted'[g] <= generation'
    BY <1>1, <2>1 DEF NoManifest
  <2> QED BY <2>1, <2>2, EmptyRows
<1>3. ASSUME NEW g \in Files \ fs
      PROVE  RowSound(g)' /\ (Legacy(g)' => Legacy(g))
  <2>1. /\ files'[g] = files[g] /\ manifests'[g] = manifests[g] /\ chunks'[g] = chunks[g]
        /\ lastDeleted'[g] = lastDeleted[g]
    BY DEF Delete
  <2>2. generation' \in Nat /\ generation' >= generation /\ RowSound(g)
    BY <1>1 DEF Tables
  <2> QED BY <2>1, <2>2, OtherRows
<1>4. RemovedIsGone'
  BY <1>1, <1>2 DEF RemovedIsGone
<1> QED BY <1>2, <1>3, <1>4 DEF Tables

(* addTorrent *)
LEMMA AddTables ==
    ASSUME TypeOK, Tables, AddTorrent
    PROVE  Tables' /\ \A g \in Files : Legacy(g)' => Legacy(g)
<1>1. UNCHANGED <<files, manifests, chunks, lastDeleted>>
  BY DEF AddTorrent, world
<1>2. generation' \in Nat /\ generation' >= generation /\ (removed' => removed)
  BY Types DEF AddTorrent, Rotate, Generations
<1>3. \A g \in Files : RowSound(g)' /\ (Legacy(g)' => Legacy(g))
  BY <1>1, <1>2, OtherRows DEF Tables
<1>4. RemovedIsGone'
  BY <1>1, <1>2 DEF Tables, RemovedIsGone, Stored
<1> QED BY <1>3, <1>4 DEF Tables

-----------------------------------------------------------------------------
(***************************************************************************)
(* The frames of the downloads and the leases.                             *)
(***************************************************************************)

(* A step that moves one frame at most, and restarts what it must. *)
LEMMA FrameKept ==
    ASSUME TypeOK, Frames, NEW t \in Tabs, NEW f \in Files, NEW d \in DownloadType,
           downloads' = [downloads EXCEPT ![t][f] = d],
           \A g \in Files : Legacy(g)' => Legacy(g),
           d.pc \in {"owned", "put"} => d.data \in Versions,
           d.pc \notin {"none", "leave"} => d.generation # -1,
           Legacy(f)' => d.pc \in Early
    PROVE  Frames'
<1>1. downloads'[t][f] = d
  BY Types
<1>2. \A u \in Tabs, g \in Files : u # t \/ g # f => downloads'[u][g] = downloads[u][g]
  BY Types
<1>3. ASSUME NEW u \in Tabs, NEW g \in Files
      PROVE  FrameSound(u, g)'
  <2>1. CASE u = t /\ g = f
    BY <1>1, <2>1 DEF FrameSound
  <2>2. CASE u # t \/ g # f
    BY <1>2, <2>2 DEF FrameSound, Frames
  <2> QED BY <2>1, <2>2
<1> QED BY <1>3 DEF Frames

(* A step that leaves the frames alone. *)
LEMMA FramesUnmoved ==
    ASSUME Frames, UNCHANGED downloads, \A g \in Files : Legacy(g)' => Legacy(g)
    PROVE  Frames'
BY DEF Frames, FrameSound

(* Leases when the download that holds one goes on and no lease is given. *)
LEMMA LeasesKept ==
    ASSUME Leases, UNCHANGED <<leases, webLocks>>,
           \A t \in Tabs, f \in Files : Running(t, f) => Running(t, f)'
    PROVE  Leases'
BY DEF Leases, LeaseHasHolder, Mine

(* Every step of a download keeps tables, frames and leases. *)
LEMMA StepKept ==
    ASSUME TypeOK, Tables, Frames, Leases, NEW t \in Tabs, NEW f \in Files,
           Step(t, f) \/ LoseLease(t, f) \/ CacheFile(t, f) \/ Cancel(t, f)
    PROVE  Tables' /\ Frames' /\ Leases'
<1> DEFINE d == downloads[t][f]
           Kept == \A g \in Files : Legacy(g)' => Legacy(g)
<1>1. /\ d \in DownloadType /\ FrameSound(t, f)
      /\ downloads \in [Tabs -> [Files -> DownloadType]]
      /\ \A g \in Generations : g # -1
      /\ generation \in Generations
  BY Types DEF Frames, Generations
<1>2. ASSUME NEW e \in DownloadType, downloads' = [downloads EXCEPT ![t][f] = e],
             Kept,
             e.pc \in {"owned", "put"} => e.data \in Versions,
             e.pc \notin {"none", "leave"} => e.generation # -1,
             e.pc \in Early \/ d.pc \notin Early \/ ~Legacy(f)'
      PROVE  /\ Frames'
             /\ downloads'[t][f] = e
             /\ \A u \in Tabs, g \in Files :
                   u # t \/ g # f => (Running(u, g)' <=> Running(u, g))
  <2>1. Legacy(f)' => e.pc \in Early
    BY <1>1, <1>2 DEF FrameSound
  <2>2. Frames'
    BY <1>2, <2>1, FrameKept
  <2> QED BY <1>1, <1>2, <2>2 DEF Running
(* Steps that write neither table nor lease. *)
<1>3. ASSUME NEW e \in DownloadType, downloads' = [downloads EXCEPT ![t][f] = e],
             UNCHANGED <<tables, world>>,
             e.pc \in {"owned", "put"} => e.data \in Versions,
             e.pc \notin {"none", "leave"} => e.generation # -1,
             e.pc \in Early \/ d.pc \notin Early,
             Running(t, f) => e.pc \notin {"none", "lock"}
      PROVE  Tables' /\ Frames' /\ Leases'
  <2>1. Tables' /\ Kept
    BY <1>3, QuietTables DEF tables, book, world
  <2>2. /\ Frames'
        /\ downloads'[t][f] = e
        /\ \A u \in Tabs, g \in Files :
              u # t \/ g # f => (Running(u, g)' <=> Running(u, g))
    BY <1>2, <1>3, <2>1
  <2>3. \A u \in Tabs, g \in Files : Running(u, g) => Running(u, g)'
    BY <1>3, <2>2 DEF Running
  <2> QED BY <1>3, <2>1, <2>2, <2>3, LeasesKept DEF tables, world
(* Steps that write tables, of a download that goes on: no lease is written. *)
<1>4. ASSUME NEW e \in DownloadType, downloads' = [downloads EXCEPT ![t][f] = e],
             UNCHANGED <<leases, webLocks>>, Tables', Kept,
             e.pc \notin {"none", "lock", "owned", "put"},
             e.pc # "leave" => e.generation # -1,
             e.pc \in Early \/ d.pc \notin Early \/ ~Legacy(f)'
      PROVE  Tables' /\ Frames' /\ Leases'
  <2>1. /\ Frames'
        /\ downloads'[t][f] = e
        /\ \A u \in Tabs, g \in Files :
              u # t \/ g # f => (Running(u, g)' <=> Running(u, g))
    BY <1>2, <1>4
  <2>2. \A u \in Tabs, g \in Files : Running(u, g) => Running(u, g)'
    BY <1>4, <2>1 DEF Running
  <2> QED BY <1>4, <2>1, <2>2, LeasesKept
<1>5. d.pc \notin {"none", "leave"} => d.generation # -1
  BY <1>1 DEF FrameSound
<1>6. CASE Lock(t, f)
  <2> DEFINE e == [d EXCEPT !.pc = "sweep"]
  <2>1. /\ e \in DownloadType /\ e.pc = "sweep" /\ e.generation = d.generation
        /\ d.pc = "lock"
    BY <1>1, <1>6 DEF DownloadType, Pcs, Lock, At
  <2>2. downloads' = [downloads EXCEPT ![t][f] = e]
    BY <1>1, <1>6 DEF Lock, Goto
  <2>3. Tables' /\ Kept
    BY <1>6, QuietTables DEF Lock, book, world
  <2> HIDE DEF e
  <2>4. /\ Frames'
        /\ downloads'[t][f] = e
        /\ \A u \in Tabs, g \in Files :
              u # t \/ g # f => (Running(u, g)' <=> Running(u, g))
    BY <1>2, <1>5, <2>1, <2>2, <2>3 DEF Early
  <2>5. Running(t, f)' /\ webLocks' = webLocks
    BY <1>6, <2>1, <2>4 DEF Running, Lock, world
  <2>6. ASSUME NEW u \in Tabs, NEW g \in Files, Mine(g, u)'
        PROVE  Running(u, g)'
    <3>1. CASE u = t /\ g = f
      BY <2>5, <3>1
    <3>2. CASE u # t \/ g # f
      <4>1. Mine(g, u)
        BY <1>6, <2>6, <3>2, Types DEF Lock, Mine
      <4> QED BY <2>4, <3>2, <4>1 DEF Leases, LeaseHasHolder
    <3> QED BY <3>1, <3>2
  <2>7. webLocks' => \A g \in Files : leases'[g] = None
    BY <1>6, <2>5 DEF Lock, Leases
  <2> QED BY <2>3, <2>4, <2>6, <2>7 DEF Leases, LeaseHasHolder
<1>7. CASE LockAborts(t, f)
  <2>1. /\ NoDownload \in DownloadType /\ NoDownload.pc = "none"
        /\ ~Running(t, f)
    BY <1>7, EmptyValues DEF NoDownload, Running, LockAborts, At
  <2>2. downloads' = [downloads EXCEPT ![t][f] = NoDownload]
    BY <1>7 DEF LockAborts, Forget
  <2>3. UNCHANGED <<tables, world>>
    BY <1>7 DEF LockAborts
  <2> QED BY <1>3, <2>1, <2>2, <2>3 DEF Early
<1>8. CASE SweepStale(t, f)
  <2> DEFINE e == [d EXCEPT !.pc = "prepare"]
  <2>1. /\ e \in DownloadType /\ e.pc = "prepare" /\ e.generation = d.generation
        /\ d.pc = "sweep"
    BY <1>1, <1>8 DEF DownloadType, Pcs, SweepStale, At
  <2>2. downloads' = [downloads EXCEPT ![t][f] = e]
    BY <1>1, <1>8 DEF SweepStale, Goto
  <2>3. Tables' /\ Kept /\ UNCHANGED <<leases, webLocks>>
    BY <1>8, SweepTables DEF SweepStale, world
  <2> HIDE DEF e
  <2> QED BY <1>4, <1>5, <2>1, <2>2, <2>3 DEF Early
<1>9. CASE Prepare(t, f)
  <2>1. d.pc = "prepare" /\ d.generation # -1
    BY <1>5, <1>9 DEF Prepare, At
  <2>2. /\ Tables' /\ Kept /\ UNCHANGED <<leases, webLocks>>
        /\ Legacy(f)' => downloads'[t][f].pc \in Early
    BY <1>9, <2>1, PrepareTables DEF Prepare, world
  <2>3. CASE files[f] # None
    <3>1. downloads' = [downloads EXCEPT ![t][f] = Ending(d)]
      BY <1>1, <1>9, <2>3 DEF Prepare
    <3>2. Ending(d) \in DownloadType /\ Ending(d).pc = "leave"
      BY <1>1, EmptyValues DEF Ending, NoDownload
    <3> QED BY <1>4, <2>2, <3>1, <3>2 DEF Early
  <2>4. CASE files[f] = None
    <3> DEFINE pc == IF manifests'[f].stored > 0 /\ manifests'[f].validator = None
                     THEN "restart" ELSE "indexes"
               e == [d EXCEPT !.pc = pc, !.expected = manifests'[f].validator]
    <3>1. manifests'[f].validator \in Versions \union {None}
      <4>1. Manifest(d.generation, 0, None).validator = None
        BY DEF Manifest
      <4>2. \A n : Manifest(d.generation, n, manifests[f].validator).validator
                      = manifests[f].validator
        BY DEF Manifest
      <4>3. manifests[f].validator \in Versions \union {None}
        BY Types DEF ManifestType
      <4>4. \/ manifests'[f] = Manifest(d.generation, 0, None)
            \/ manifests'[f] = Manifest(d.generation, Cardinality(Stored(f)),
                                        manifests[f].validator)
        BY <1>9, <2>4, Types DEF Prepare
      <4> QED BY <4>1, <4>2, <4>3, <4>4
    <3>2. /\ e \in DownloadType /\ e.pc = pc /\ e.generation = d.generation
      BY <1>1, <3>1 DEF DownloadType, Pcs
    <3>3. downloads' = [downloads EXCEPT
                 ![t][f].pc = IF manifests'[f].stored > 0 /\ manifests'[f].validator = None
                              THEN "restart" ELSE "indexes",
                 ![t][f].expected = manifests'[f].validator]
      BY <1>9, <2>4 DEF Prepare
    <3>4. downloads' = [downloads EXCEPT ![t][f] = e]
      BY <1>1, <3>3
    <3>5. e.pc \in {"restart", "indexes"}
      BY <3>2
    <3> HIDE DEF e, pc
    <3>6. downloads'[t][f] = e
      BY <1>1, <3>4
    <3> QED BY <1>4, <2>1, <2>2, <3>2, <3>4, <3>5, <3>6
  <2> QED BY <2>3, <2>4
<1>10. CASE Restart(t, f)
  <2> DEFINE e == [d EXCEPT !.pc = "indexes", !.expected = files[f]]
  <2>1. /\ e \in DownloadType /\ e.pc = "indexes" /\ e.generation = d.generation
        /\ d.pc = "restart"
    BY <1>1, <1>10, Types DEF DownloadType, Pcs, Restart, At
  <2>2. downloads' = [downloads EXCEPT ![t][f] = e]
    BY <1>1, <1>10 DEF Restart
  <2>3. Tables' /\ Kept /\ ~Legacy(f)' /\ UNCHANGED <<leases, webLocks>>
    BY <1>10, RestartTables DEF Restart, world
  <2> HIDE DEF e
  <2> QED BY <1>4, <1>5, <2>1, <2>2, <2>3
<1>11. CASE Indexes(t, f)
  <2> DEFINE e == [d EXCEPT !.pc = "loop", !.pending = Chunks \ Stored(f)]
  <2>1. /\ e \in DownloadType /\ e.pc = "loop" /\ e.generation = d.generation
        /\ d.pc = "indexes"
    BY <1>1, <1>11 DEF DownloadType, Pcs, Indexes, At
  <2>2. downloads' = [downloads EXCEPT ![t][f] = e] /\ UNCHANGED <<tables, world>>
    BY <1>1, <1>11 DEF Indexes
  <2> HIDE DEF e
  <2> QED BY <1>3, <1>5, <2>1, <2>2 DEF Early
<1>12. CASE NextChunk(t, f)
  <2>1. PICK pc \in {"complete", "own"} : Goto(t, f, pc)
    BY <1>12 DEF NextChunk
  <2> DEFINE e == [d EXCEPT !.pc = pc]
  <2>2. /\ e \in DownloadType /\ e.pc = pc /\ e.generation = d.generation
        /\ d.pc = "loop"
    BY <1>1, <1>12, <2>1 DEF DownloadType, Pcs, NextChunk, At
  <2>3. downloads' = [downloads EXCEPT ![t][f] = e] /\ UNCHANGED <<tables, world>>
    BY <1>1, <1>12, <2>1 DEF NextChunk, Goto
  <2> HIDE DEF e
  <2> QED BY <1>3, <1>5, <2>1, <2>2, <2>3 DEF Early
<1>13. CASE AssertOwner(t, f, "own", "fetch") \/ AssertOwner(t, f, "owned", "put")
  <2>1. PICK pc \in {"fetch", "put"} : Goto(t, f, pc) /\ d.pc = IF pc = "fetch" THEN "own" ELSE "owned"
    BY <1>13 DEF AssertOwner, At
  <2> DEFINE e == [d EXCEPT !.pc = pc]
  <2>2. /\ e \in DownloadType /\ e.pc = pc /\ e.generation = d.generation /\ e.data = d.data
    BY <1>1, <2>1 DEF DownloadType, Pcs
  <2>3. downloads' = [downloads EXCEPT ![t][f] = e] /\ UNCHANGED <<tables, world>>
    BY <1>1, <1>13, <2>1 DEF AssertOwner, Goto
  <2>4. d.pc = "owned" => d.data \in Versions
    BY <1>1 DEF FrameSound
  <2> HIDE DEF e
  <2> QED BY <1>3, <1>5, <2>1, <2>2, <2>3, <2>4 DEF Early
<1>14. CASE Fetch(t, f)
  <2> DEFINE e == [d EXCEPT !.pc = "owned", !.data = served[f]]
  <2>1. /\ e \in DownloadType /\ e.pc = "owned" /\ e.generation = d.generation
        /\ e.data \in Versions /\ d.pc = "fetch"
    BY <1>1, <1>14, Types DEF DownloadType, Pcs, Fetch, At
  <2>2. downloads' = [downloads EXCEPT ![t][f] = e] /\ UNCHANGED <<tables, world>>
    BY <1>1, <1>14 DEF Fetch
  <2> HIDE DEF e
  <2> QED BY <1>3, <1>5, <2>1, <2>2 DEF Early
<1>15. CASE AssertFails(t, f) \/ Throw(t, f)
  <2>1. PICK c \in DownloadType : /\ downloads' = [downloads EXCEPT ![t][f] = Ending(c)]
                                  /\ UNCHANGED <<tables, world>>
    <3>1. [d EXCEPT !.lost = TRUE, !.aborted = TRUE] \in DownloadType
      BY <1>1 DEF DownloadType
    <3>2. CASE AssertFails(t, f)
      <4>1. downloads' = [downloads EXCEPT
                             ![t][f] = Ending([d EXCEPT !.lost = TRUE, !.aborted = TRUE])]
        BY <1>1, <3>2 DEF AssertFails, Lost
      <4> QED BY <3>1, <3>2, <4>1 DEF AssertFails
    <3>3. CASE Throw(t, f)
      BY <1>1, <3>3 DEF Throw
    <3> QED BY <1>15, <3>2, <3>3
  <2>2. Ending(c) \in DownloadType /\ Ending(c).pc = "leave"
    BY EmptyValues DEF Ending, NoDownload
  <2> QED BY <1>3, <2>1, <2>2 DEF Early
<1>16. CASE PutChunk(t, f)
  <2>1. PICK i \in d.pending :
          downloads' = [downloads EXCEPT ![t][f].pc = "loop", ![t][f].pending = @ \ {i},
                 ![t][f].expected = manifests'[f].validator, ![t][f].data = None]
    BY <1>16 DEF PutChunk
  <2> DEFINE e == [d EXCEPT !.pc = "loop", !.pending = @ \ {i},
                      !.expected = manifests'[f].validator, !.data = None]
  <2>2. downloads' = [downloads EXCEPT ![t][f] = e]
    BY <1>1, <2>1 DEF DownloadType
  <2>3. e \in DownloadType
    <3>1. TypeOK'
      BY <1>16, StepType DEF Step
    <3>2. downloads'[t][f] = e
      BY <1>1, <2>2
    <3>3. downloads' \in [Tabs -> [Files -> DownloadType]]
      BY <3>1 DEF TypeOK, DownloadType
    <3> HIDE DEF e
    <3> QED BY <3>2, <3>3
  <2>4. e.pc = "loop" /\ e.generation = d.generation /\ d.pc = "put"
    BY <1>1, <1>16 DEF DownloadType, PutChunk, At
  <2>5. Tables' /\ Kept /\ UNCHANGED <<leases, webLocks>>
    BY <1>1, <1>16, PutTables DEF PutChunk, world
  <2> HIDE DEF e
  <2> QED BY <1>4, <1>5, <2>2, <2>3, <2>4, <2>5 DEF Early
<1>17. CASE Complete(t, f)
  <2>1. downloads' = [downloads EXCEPT ![t][f] = Ending(d)]
    BY <1>1, <1>17 DEF Complete
  <2>2. Ending(d) \in DownloadType /\ Ending(d).pc = "leave"
    BY <1>1, EmptyValues DEF Ending, NoDownload
  <2>3. Tables' /\ Kept /\ UNCHANGED <<leases, webLocks>>
    BY <1>1, <1>17, CompleteTables DEF Complete, world
  <2> QED BY <1>4, <2>1, <2>2, <2>3 DEF Early
<1>18. CASE Leave(t, f)
  <2>1. NoDownload \in DownloadType /\ NoDownload.pc = "none"
    BY EmptyValues DEF NoDownload
  <2>2. downloads' = [downloads EXCEPT ![t][f] = NoDownload]
    BY <1>18 DEF Leave, Forget
  <2>3. Tables' /\ Kept
    BY <1>18, QuietTables DEF Leave, book, world
  <2>4. /\ Frames'
        /\ \A u \in Tabs, g \in Files :
              u # t \/ g # f => (Running(u, g)' <=> Running(u, g))
    BY <1>2, <2>1, <2>2, <2>3 DEF Early
  <2>5. webLocks' = webLocks /\ t # None
    BY <1>18, NamesAssumption DEF Leave, world
  <2>6. ASSUME NEW u \in Tabs, NEW g \in Files, Mine(g, u)'
        PROVE  Running(u, g)'
    <3>1. u # None
      BY NamesAssumption
    <3>2. Mine(g, u) /\ ~(u = t /\ g = f)
      BY <1>18, <2>5, <2>6, <3>1, Types DEF Leave, Mine, Leases
    <3> QED BY <2>4, <3>2 DEF Leases, LeaseHasHolder
  <2>7. webLocks' => \A g \in Files : leases'[g] = None
    BY <1>18, <2>5 DEF Leave, Leases
  <2> QED BY <2>3, <2>4, <2>6, <2>7 DEF Leases, LeaseHasHolder
<1>19. CASE LoseLease(t, f)
  <2> DEFINE e == [d EXCEPT !.lost = TRUE, !.aborted = TRUE]
  <2>1. /\ e \in DownloadType /\ e.pc = d.pc /\ e.generation = d.generation /\ e.data = d.data
    BY <1>1 DEF DownloadType
  <2>2. downloads' = [downloads EXCEPT ![t][f] = e] /\ UNCHANGED <<tables, world>>
    BY <1>1, <1>19 DEF LoseLease, Lost
  <2>3. d.pc \in {"owned", "put"} => d.data \in Versions
    BY <1>1 DEF FrameSound
  <2> HIDE DEF e
  <2> QED BY <1>3, <1>5, <2>1, <2>2, <2>3 DEF Running
<1>20. CASE CacheFile(t, f)
  <2> DEFINE e == [d EXCEPT !.pc = "lock", !.generation = generation]
  <2>1. /\ e \in DownloadType /\ e.pc = "lock" /\ e.generation # -1
        /\ ~Running(t, f)
    BY <1>1, <1>20 DEF DownloadType, Pcs, CacheFile, At, Running
  <2>2. downloads' = [downloads EXCEPT ![t][f] = e] /\ UNCHANGED <<tables, world>>
    BY <1>1, <1>20 DEF CacheFile
  <2> HIDE DEF e
  <2> QED BY <1>3, <2>1, <2>2 DEF Early
<1>21. CASE Cancel(t, f)
  <2> DEFINE e == [d EXCEPT !.aborted = TRUE]
  <2>1. /\ e \in DownloadType /\ e.pc = d.pc /\ e.generation = d.generation /\ e.data = d.data
    BY <1>1 DEF DownloadType
  <2>2. downloads' = [downloads EXCEPT ![t][f] = e] /\ UNCHANGED <<tables, world>>
    BY <1>1, <1>21 DEF Cancel
  <2>3. d.pc \in {"owned", "put"} => d.data \in Versions
    BY <1>1 DEF FrameSound
  <2> HIDE DEF e
  <2> QED BY <1>3, <1>5, <2>1, <2>2, <2>3 DEF Running
<1> QED BY <1>6, <1>7, <1>8, <1>9, <1>10, <1>11, <1>12, <1>13, <1>14, <1>15, <1>16, <1>17,
           <1>18, <1>19, <1>20, <1>21 DEF Step, Refuse, Fails

(* Deletions, additions and the surroundings. *)
LEMMA OtherKept ==
    ASSUME TypeOK, Tables, Frames, Leases,
           \/ \E f \in Files : RemoveFile(f)
           \/ RemoveFilesByIh \/ RemoveFilesAndTorrent \/ AddTorrent
           \/ \E f \in Files, v \in Versions : ServerChanges(f, v)
           \/ \E t \in Tabs : CloseTab(t)
    PROVE  Tables' /\ Frames' /\ Leases'
<1> DEFINE Kept == \A g \in Files : Legacy(g)' => Legacy(g)
<1>1. CASE (\E f \in Files : RemoveFile(f)) \/ RemoveFilesByIh \/ RemoveFilesAndTorrent
  <2>1. PICK fs \in SUBSET Files, to \in BOOLEAN : Rotate(to) /\ Delete(fs) /\ (to => fs = Files)
    BY <1>1 DEF RemoveFile, RemoveFilesByIh, RemoveFilesAndTorrent
  <2>2. Tables' /\ Kept
    BY <2>1, DeleteTables
  <2>3. UNCHANGED <<leases, webLocks, downloads>>
    BY <2>1 DEF Delete, tabs
  <2> QED BY <2>2, <2>3, FramesUnmoved, LeasesKept DEF Running
<1>2. CASE AddTorrent
  <2>1. UNCHANGED <<leases, webLocks, downloads>>
    BY <1>2 DEF AddTorrent, tabs, world
  <2> QED BY <1>2, <2>1, AddTables, FramesUnmoved, LeasesKept DEF Running
<1>3. CASE \E f \in Files, v \in Versions : ServerChanges(f, v)
  <2>1. UNCHANGED <<leases, webLocks, downloads, files, manifests, chunks, generation, removed,
                    lastDeleted>>
    BY <1>3 DEF ServerChanges, tabs, tables, book
  <2> QED BY <2>1, QuietTables, FramesUnmoved, LeasesKept DEF Running
<1>4. CASE \E t \in Tabs : CloseTab(t)
  <2>1. PICK t \in Tabs : CloseTab(t)
    BY <1>4
  <2>2. Tables' /\ Kept
    BY <2>1, QuietTables DEF CloseTab, book, world
  <2>3. /\ \A f \in Files : downloads'[t][f] = NoDownload
        /\ \A u \in Tabs \ {t}, f \in Files : downloads'[u][f] = downloads[u][f]
    BY <2>1, Types DEF CloseTab
  <2>4. Frames'
    BY <2>2, <2>3 DEF Frames, FrameSound, NoDownload, Early
  <2>5. ASSUME NEW u \in Tabs, NEW g \in Files, Mine(g, u)'
        PROVE  Running(u, g)'
    <3>1. u # None
      BY NamesAssumption
    <3>2. Mine(g, u) /\ u # t
      BY <2>1, <2>5, <3>1 DEF CloseTab, Mine
    <3> QED BY <2>3, <3>2 DEF Leases, LeaseHasHolder, Running
  <2>6. webLocks' => \A g \in Files : leases'[g] = None
    BY <2>1 DEF CloseTab, Leases, world
  <2> QED BY <2>2, <2>4, <2>5, <2>6 DEF Leases, LeaseHasHolder
<1> QED BY <1>1, <1>2, <1>3, <1>4

(* The initial states satisfy the invariant. *)
LEMMA InitKept == Init => IInv
<1> SUFFICES ASSUME Init PROVE IInv
  OBVIOUS
<1>1. TypeOK
  BY InitType
<1>2. PICK legacy \in SUBSET Files, v \in Versions :
        /\ manifests = [f \in Files |-> IF f \in legacy THEN Manifest(0, 1, None) ELSE NoManifest]
        /\ chunks = [f \in Files |->
               [i \in Chunks |-> IF f \in legacy /\ i = 0 THEN v ELSE None]]
  BY DEF Init
<1>3. 0 \in Chunks /\ v # None
  BY CountsAssumption, NamesAssumption DEF Chunks
<1>4. ASSUME NEW f \in Files
      PROVE  RowSound(f)
  <2>1. files[f] = None /\ lastDeleted[f] <= generation
    BY DEF Init
  <2>2. CASE f \in legacy
    <3>1. Stored(f) = {0}
      BY <1>2, <1>3, <2>2 DEF Stored
    <3>2. Cardinality(Stored(f)) = 1
      BY <3>1, FS_Singleton
    <3>3. /\ manifests[f] # NoManifest /\ manifests[f].stored = 1
          /\ manifests[f].validator = None
      BY <1>2, <2>2 DEF Manifest, NoManifest
    <3> QED BY <2>1, <3>2, <3>3 DEF RowSound
  <2>3. CASE f \notin legacy
    <3>1. Stored(f) = {}
      BY <1>2, <2>3 DEF Stored
    <3>2. manifests[f] = NoManifest /\ manifests[f].stored = 0 /\ manifests[f].validator = None
      BY <1>2, <2>3 DEF NoManifest
    <3> QED BY <2>1, <3>1, <3>2 DEF RowSound
  <2> QED BY <2>2, <2>3
<1>5. RemovedIsGone
  BY DEF Init, RemovedIsGone
<1>6. \A t \in Tabs, f \in Files : downloads[t][f].pc = "none"
  BY DEF Init, NoDownload
<1>7. Frames
  BY <1>6 DEF Frames, FrameSound, Early
<1>8. Leases
  BY NamesAssumption DEF Init, Leases, LeaseHasHolder, Mine
<1> QED BY <1>1, <1>4, <1>5, <1>7, <1>8 DEF IInv, Tables

(* Every step keeps the inductive invariant. *)
LEMMA NextKept == IInv /\ [Next]_vars => IInv'
<1> SUFFICES ASSUME IInv, [Next]_vars PROVE IInv'
  OBVIOUS
<1>1. TypeOK'
  BY NextType DEF IInv
<1>2. CASE UNCHANGED vars
  <2>1. UNCHANGED <<leases, webLocks, downloads, files, manifests, chunks, generation, removed,
                    lastDeleted>>
    BY <1>2 DEF vars, tables, book, tabs, world
  <2>2. Tables' /\ \A g \in Files : Legacy(g)' => Legacy(g)
    BY <2>1, QuietTables DEF IInv
  <2>3. Frames'
    BY <2>1, <2>2, FramesUnmoved DEF IInv
  <2>4. Leases'
    BY <2>1, LeasesKept DEF Running, IInv
  <2> QED BY <1>1, <2>2, <2>3, <2>4 DEF IInv
<1>3. CASE Next
  <2>1. Tables' /\ Frames' /\ Leases'
    BY <1>3, StepKept, OtherKept DEF Next, IInv
  <2> QED BY <1>1, <2>1 DEF IInv
<1> QED BY <1>2, <1>3

-----------------------------------------------------------------------------
(***************************************************************************)
(* The theorems.                                                           *)
(***************************************************************************)

(* The inductive invariant holds in every reachable state. *)
THEOREM Invariance == Spec => []IInv
BY InitKept, NextKept, PTL DEF Spec

(* Types, what manifests count, and no trace of a removed book, whatever tabs *)
(* write, delete, sweep and close in whatever order.                          *)
THEOREM SoundTables == Spec => []TablesSound
<1>1. IInv => TablesSound
  BY DEF IInv, Tables, RowSound, TablesSound, ChunksAccounted
<1> QED BY <1>1, Invariance, PTL

(* What plays offline is whole and of one version, and so are the chunks that *)
(* a validator describes, although a tab that lost its lease may still write. *)
THEOREM OneVersionPlays == Spec => []OneVersion
<1>1. IInv => OneVersion
  BY DEF IInv, Tables, RowSound, OneVersion
<1> QED BY <1>1, Invariance, PTL

(* A lease that a tab holds belongs to a download of that tab that will end. *)
THEOREM LeasesEnd == Spec => []LeaseHasHolder
<1>1. IInv => LeaseHasHolder
  BY DEF IInv, Leases
<1> QED BY <1>1, Invariance, PTL

(* Only putFileChunk adds to a chunk, and it has asserted the generation. *)
LEMMA ChunksComeFromPut ==
    ASSUME IInv, Next, NEW f \in Files, NEW i \in Chunks,
           chunks'[f][i] # chunks[f][i], chunks'[f][i] # None
    PROVE  \E t \in Tabs : At(t, f, "put") /\ downloads[t][f].generation >= lastDeleted[f]
<1>1. UNCHANGED chunks => FALSE
  OBVIOUS
<1>2. ASSUME NEW t \in Tabs, NEW g \in Files,
             Step(t, g) \/ LoseLease(t, g) \/ CacheFile(t, g) \/ Cancel(t, g)
      PROVE  PutChunk(t, g)
  <2>1. ~SweepStale(t, g)
    BY <1>1 DEF SweepStale
  <2>2. ~Prepare(t, g)
    BY <1>1, Types DEF Prepare, NoChunks, IInv
  <2>3. ~Restart(t, g)
    <3>1. Restart(t, g) => chunks' = chunks \/ chunks' = [chunks EXCEPT ![g] = NoChunks]
      BY DEF Restart
    <3>2. chunks' # [chunks EXCEPT ![g] = NoChunks]
      BY Types DEF NoChunks, IInv
    <3> QED BY <1>1, <3>1, <3>2
  <2>4. ~(Lock(t, g) \/ LockAborts(t, g) \/ Indexes(t, g) \/ NextChunk(t, g))
    BY <1>1 DEF Lock, LockAborts, Indexes, NextChunk, tables
  <2>5. ~(AssertOwner(t, g, "own", "fetch") \/ Fetch(t, g) \/ AssertOwner(t, g, "owned", "put")
          \/ AssertFails(t, g) \/ Complete(t, g) \/ Throw(t, g) \/ Leave(t, g))
    BY <1>1 DEF AssertOwner, Fetch, AssertFails, Complete, Throw, Leave, tables
  <2>6. ~(LoseLease(t, g) \/ CacheFile(t, g) \/ Cancel(t, g))
    BY <1>1 DEF LoseLease, CacheFile, Cancel, tables
  <2> QED BY <1>2, <2>1, <2>2, <2>3, <2>4, <2>5, <2>6 DEF Step, Refuse, Fails
<1>3. \A fs \in SUBSET Files : ~Delete(fs)
  <2>1. TAKE fs \in SUBSET Files
  <2>2. Delete(fs) => chunks'[f] = IF f \in fs THEN NoChunks ELSE chunks[f]
    BY DEF Delete
  <2> QED BY <2>2 DEF NoChunks
<1>4. ~((\E g \in Files : RemoveFile(g)) \/ RemoveFilesByIh \/ RemoveFilesAndTorrent)
  BY <1>3 DEF RemoveFile, RemoveFilesByIh, RemoveFilesAndTorrent
<1>5. ~(AddTorrent \/ (\E g \in Files, v \in Versions : ServerChanges(g, v))
        \/ \E t \in Tabs : CloseTab(t))
  BY <1>1 DEF AddTorrent, ServerChanges, CloseTab, tables
<1>6. PICK t \in Tabs, g \in Files : PutChunk(t, g)
  BY <1>2, <1>4, <1>5 DEF Next
<1>7. g = f
  BY <1>6, Types DEF PutChunk, IInv
<1>8. downloads[t][f].generation = generation
  BY <1>6, <1>7 DEF PutChunk, MayPut, Valid
<1>9. lastDeleted[f] <= generation /\ lastDeleted[f] \in Nat /\ generation \in Nat
  BY Types DEF IInv, Tables, RowSound, Generations
<1> QED BY <1>6, <1>7, <1>8, <1>9 DEF PutChunk

(* Only fetchChunk brings data, to a download that is not aborted. *)
LEMMA DataComesFromFetch ==
    ASSUME IInv, Next, NEW t \in Tabs, NEW f \in Files, downloads[t][f].aborted
    PROVE  downloads'[t][f].data \in {None, downloads[t][f].data}
<1>1. /\ downloads \in [Tabs -> [Files -> DownloadType]]
      /\ \A c : Ending(c).data = None
      /\ NoDownload.data = None
  BY Types DEF IInv, Ending, NoDownload
<1>2. ASSUME NEW u \in Tabs, NEW g \in Files, NEW d \in DownloadType,
             downloads' = [downloads EXCEPT ![u][g] = d],
             d.data \in {None, downloads[u][g].data}
      PROVE  downloads'[t][f].data \in {None, downloads[t][f].data}
  BY <1>1, <1>2
<1>3. ASSUME NEW u \in Tabs, NEW g \in Files,
             Step(u, g) \/ LoseLease(u, g) \/ CacheFile(u, g) \/ Cancel(u, g)
      PROVE  downloads'[t][f].data \in {None, downloads[t][f].data}
  <2> DEFINE d == downloads[u][g]
             Fine == downloads'[t][f].data \in {None, downloads[t][f].data}
  <2>1. d \in DownloadType
    BY <1>1
  <2>2. ASSUME NEW pc, Goto(u, g, pc)
        PROVE  Fine
    BY <1>1, <2>2 DEF Goto, DownloadType
  <2>3. CASE \/ Lock(u, g) \/ SweepStale(u, g) \/ NextChunk(u, g)
             \/ AssertOwner(u, g, "own", "fetch") \/ AssertOwner(u, g, "owned", "put")
    BY <2>2, <2>3 DEF Lock, SweepStale, NextChunk, AssertOwner
  <2>4. CASE LockAborts(u, g) \/ Leave(u, g)
    <3>1. downloads' = [downloads EXCEPT ![u][g] = NoDownload]
      BY <2>4 DEF LockAborts, Leave, Forget
    <3>2. NoDownload \in DownloadType
      BY EmptyValues
    <3> QED BY <1>1, <1>2, <3>1, <3>2
  <2>5. CASE Prepare(u, g)
    <3>1. CASE files[g] # None
      BY <1>1, <2>5, <3>1 DEF Prepare
    <3>2. CASE files[g] = None
      <4> DEFINE pc == IF manifests'[g].stored > 0 /\ manifests'[g].validator = None
                       THEN "restart" ELSE "indexes"
                 w == manifests'[g].validator
      <4>1. downloads' = [downloads EXCEPT ![u][g].pc = pc, ![u][g].expected = w]
        BY <2>5, <3>2 DEF Prepare
      <4> HIDE DEF pc, w
      <4> QED BY <1>1, <4>1 DEF DownloadType
    <3> QED BY <3>1, <3>2
  <2>6. CASE Restart(u, g)
    BY <1>1, <2>6 DEF Restart, DownloadType
  <2>7. CASE Indexes(u, g)
    BY <1>1, <2>7 DEF Indexes, DownloadType
  <2>8. CASE Fetch(u, g)
    <3>1. ~(u = t /\ g = f)
      BY <2>8 DEF Fetch
    <3> QED BY <1>1, <2>8, <3>1 DEF Fetch, DownloadType
  <2>9. CASE AssertFails(u, g)
    BY <1>1, <2>9 DEF AssertFails, Lost
  <2>10. CASE PutChunk(u, g)
    <3>1. PICK i \in d.pending :
          downloads' = [downloads EXCEPT ![u][g].pc = "loop", ![u][g].pending = @ \ {i},
                 ![u][g].expected = manifests'[g].validator, ![u][g].data = None]
      BY <2>10 DEF PutChunk
    <3> QED BY <1>1, <3>1 DEF DownloadType
  <2>11. CASE Complete(u, g)
    BY <1>1, <2>11 DEF Complete
  <2>12. CASE Throw(u, g)
    BY <1>1, <2>12 DEF Throw
  <2>13. CASE LoseLease(u, g) \/ CacheFile(u, g) \/ Cancel(u, g)
    BY <1>1, <2>13 DEF LoseLease, Lost, CacheFile, Cancel, DownloadType
  <2> QED BY <1>3, <2>3, <2>4, <2>5, <2>6, <2>7, <2>8, <2>9, <2>10, <2>11, <2>12, <2>13
          DEF Step, Refuse, Fails
<1>4. CASE (\E g \in Files : RemoveFile(g)) \/ RemoveFilesByIh \/ RemoveFilesAndTorrent
  BY <1>4 DEF RemoveFile, RemoveFilesByIh, RemoveFilesAndTorrent, Delete, tabs
<1>5. CASE AddTorrent \/ \E g \in Files, v \in Versions : ServerChanges(g, v)
  BY <1>5 DEF AddTorrent, ServerChanges, tabs
<1>6. CASE \E u \in Tabs : CloseTab(u)
  BY <1>1, <1>6 DEF CloseTab
<1> QED BY <1>3, <1>4, <1>5, <1>6 DEF Next

(* Deletions win: no byte of a download from before the deletion of a file is *)
(* stored after it; and what is aborted fetches nothing more.                 *)
THEOREM LateStaysOut == Spec => NothingLate
<1>1. IInv /\ [Next]_vars =>
        [\A f \in Files : (\E i \in Chunks : chunks[f][i] # chunks'[f][i] /\ chunks'[f][i] # None)
          => \E t \in Tabs : At(t, f, "put") /\ downloads[t][f].generation >= lastDeleted[f]]_vars
  BY ChunksComeFromPut
<1>2. IInv /\ [Next]_vars =>
        [\A t \in Tabs, f \in Files :
          downloads[t][f].aborted => downloads'[t][f].data \in {None, downloads[t][f].data}]_vars
  BY DataComesFromFetch
<1>3. Spec => DeletedStaysDeleted
  BY <1>1, Invariance, PTL DEF Spec, DeletedStaysDeleted
<1>4. Spec => AbortedFetchesNothing
  BY <1>2, Invariance, PTL DEF Spec, AbortedFetchesNothing
<1> QED BY <1>3, <1>4 DEF NothingLate

-----------------------------------------------------------------------------
(***************************************************************************)
(* The refinement.                                                         *)
(***************************************************************************)

(* What a player gets is what the files table says. *)
LEMMA PlayableIsFiles == IInv => Playable = files
<1> SUFFICES ASSUME IInv PROVE Playable = files
  OBVIOUS
<1>1. files = [f \in Files |-> files[f]]
  BY Types DEF IInv
<1>2. \A f \in Files : files[f] # None => \A i \in Chunks : chunks[f][i] = files[f]
  BY DEF IInv, Tables, RowSound
<1> QED BY <1>1, <1>2 DEF Playable

(* The same of the next state. *)
LEMMA PlayableNext == IInv' => (Playable = files)'
BY PlayableIsFiles, PTL

(* The initial states are initial states of SavedBook. *)
LEMMA RefinesInit == Init => Saved!Init
<1> SUFFICES ASSUME Init PROVE Saved!Init
  OBVIOUS
<1>1. Playable = files
  BY InitKept, PlayableIsFiles
<1> QED BY <1>1 DEF Init, Saved!Init

(* What a step of the downloads does to the files: completeFileDownload saves *)
(* one, nothing else writes them.                                             *)
LEMMA RefinesStep ==
    ASSUME IInv, NEW t \in Tabs, NEW f \in Files,
           Step(t, f) \/ LoseLease(t, f) \/ CacheFile(t, f) \/ Cancel(t, f)
    PROVE  /\ removed' = removed
           /\ \/ files' = files
              \/ /\ ~removed /\ files[f] = None
                 /\ \E v \in Versions : files' = [files EXCEPT ![f] = v]
<1>1. CASE Complete(t, f)
  <2>1. FrameSound(t, f) /\ removed' = removed
    BY <1>1 DEF IInv, Frames, Complete, book
  <2> QED BY <1>1, <2>1, CompleteTables DEF IInv
<1>2. CASE \/ SweepStale(t, f) \/ Prepare(t, f) \/ Restart(t, f) \/ PutChunk(t, f)
           \/ Lock(t, f) \/ Leave(t, f)
  BY <1>2 DEF SweepStale, Prepare, Restart, PutChunk, Lock, Leave, book
<1>3. CASE \/ LockAborts(t, f) \/ Indexes(t, f) \/ NextChunk(t, f) \/ Fetch(t, f)
           \/ AssertOwner(t, f, "own", "fetch") \/ AssertOwner(t, f, "owned", "put")
           \/ AssertFails(t, f) \/ Throw(t, f)
           \/ LoseLease(t, f) \/ CacheFile(t, f) \/ Cancel(t, f)
  BY <1>3 DEF LockAborts, Indexes, NextChunk, Fetch, AssertOwner, AssertFails, Throw,
              LoseLease, CacheFile, Cancel, tables, book
<1> QED BY <1>1, <1>2, <1>3 DEF Step, Refuse, Fails

(* Every step is a step of SavedBook or leaves what it speaks of. *)
LEMMA RefinesNext == IInv /\ IInv' /\ [Next]_vars => [Saved!Next]_(Saved!vars)
<1> SUFFICES ASSUME IInv, IInv', [Next]_vars
             PROVE  Saved!Next \/ UNCHANGED <<Playable, removed>>
  BY DEF Saved!vars
<1>1. Playable = files /\ Playable' = files'
  BY PlayableIsFiles, PlayableNext
<1>2. files \in [Files -> Versions \union {None}] /\ removed \in BOOLEAN
  BY Types DEF IInv
<1>3. CASE UNCHANGED vars
  BY <1>1, <1>3 DEF vars, tables, book
<1>4. ASSUME NEW t \in Tabs, NEW f \in Files,
             Step(t, f) \/ LoseLease(t, f) \/ CacheFile(t, f) \/ Cancel(t, f)
      PROVE  Saved!Next \/ UNCHANGED <<Playable, removed>>
  <2>1. removed' = removed
    BY <1>4, RefinesStep
  <2>2. CASE files' = files
    BY <1>1, <2>1, <2>2
  <2>3. CASE /\ ~removed /\ files[f] = None
             /\ \E v \in Versions : files' = [files EXCEPT ![f] = v]
    <3>1. PICK v \in Versions : files' = [files EXCEPT ![f] = v]
      BY <2>3
    <3>2. Saved!Save(f, v)
      BY <1>1, <2>1, <2>3, <3>1 DEF Saved!Save
    <3> QED BY <3>2 DEF Saved!Next
  <2> QED BY <1>4, <2>2, <2>3, RefinesStep
<1>5. ASSUME NEW fs \in SUBSET Files, Rotate(FALSE), Delete(fs)
      PROVE  Saved!Next \/ UNCHANGED <<Playable, removed>>
  <2>1. /\ ~removed'
        /\ files' = [f \in Files |-> IF f \in fs THEN None ELSE files[f]]
    BY <1>5 DEF Rotate, Delete
  <2>2. CASE removed
    <3>1. \A f \in Files : files[f] = None
      BY <2>2 DEF IInv, Tables, RemovedIsGone
    <3>2. files' = files
      BY <1>2, <2>1, <3>1
    <3>3. Saved!AddBook
      BY <1>1, <2>1, <3>2 DEF Saved!AddBook
    <3> QED BY <3>3 DEF Saved!Next
  <2>3. CASE ~removed
    <3>1. Saved!Delete(fs)
      BY <1>1, <2>1, <2>3 DEF Saved!Delete
    <3> QED BY <3>1 DEF Saved!Next
  <2> QED BY <2>2, <2>3
<1>6. CASE (\E f \in Files : RemoveFile(f)) \/ RemoveFilesByIh
  BY <1>5, <1>6 DEF RemoveFile, RemoveFilesByIh
<1>7. CASE RemoveFilesAndTorrent
  <2>1. removed' /\ files' = [f \in Files |-> None]
    BY <1>7 DEF RemoveFilesAndTorrent, Rotate, Delete
  <2>2. Saved!RemoveBook
    BY <1>1, <2>1 DEF Saved!RemoveBook
  <2> QED BY <2>2 DEF Saved!Next
<1>8. CASE AddTorrent
  <2>1. files' = files
    BY <1>8 DEF AddTorrent
  <2>2. CASE removed
    <3>1. ~removed'
      BY <1>8, <2>2 DEF AddTorrent, Rotate
    <3>2. Saved!AddBook
      BY <1>1, <2>1, <3>1 DEF Saved!AddBook
    <3> QED BY <3>2 DEF Saved!Next
  <2>3. CASE ~removed
    BY <1>1, <1>8, <2>1, <2>3 DEF AddTorrent
  <2> QED BY <2>2, <2>3
<1>9. CASE (\E f \in Files, v \in Versions : ServerChanges(f, v)) \/ (\E t \in Tabs : CloseTab(t))
  BY <1>1, <1>9 DEF ServerChanges, CloseTab, tables, book
<1> QED BY <1>3, <1>4, <1>6, <1>7, <1>8, <1>9 DEF Next

(* The tabs with their leases, transactions and partial downloads implement the *)
(* promise of SavedBook: every step is one of its steps or changes nothing that *)
(* a player can see.                                                            *)
THEOREM Refinement == Spec => KeepsPromise
BY RefinesInit, RefinesNext, Invariance, PTL DEF Spec, KeepsPromise, Saved!Spec

=============================================================================
