------------------------------ MODULE OfflineCache -----------------------------
(***************************************************************************)
(* The audiobook files a browser keeps for offline listening:              *)
(* OfflineCacheManager (src/src/routes/Playlist/offlineCache.ts), one in   *)
(* every open tab, over the tables of src/src/storage/index.ts, which all  *)
(* tabs share.  One book with its files is modelled.                       *)
(*                                                                         *)
(* An IndexedDB transaction is atomic and is one action; so is what a tab  *)
(* executes between two awaits.  Tabs that have navigator.locks exclude    *)
(* each other with them; the others take a lease, a row that expires when  *)
(* its tab sleeps too long, and that the next tab then takes over.  Time   *)
(* is not kept: any time may pass between two steps.                       *)
(*                                                                         *)
(* Faulty... definitions are variants of the definition after them with a  *)
(* plausible bug; nothing uses them.                                       *)
(***************************************************************************)
EXTENDS Integers, SequencesExt

CONSTANTS
    Tabs,           \* browser tabs
    Files,          \* audio files of the book, by path
    ChunkCount,     \* chunks of a file (OFFLINE_CACHE_CHUNK_BYTES each)
    Versions,       \* contents the server serves, as told apart by its etag
    SweepChunks,    \* maxChunks of a clean-up of stale partial downloads
    MaxGeneration   \* bound: deletions and additions of the book

ASSUME CountsAssumption ==
    /\ ChunkCount \in Nat \ {0}
    /\ SweepChunks \in Nat \ {0}
    /\ MaxGeneration \in Nat
ASSUME SetsAssumption == IsFiniteSet(Files) /\ IsFiniteSet(Tabs)

Chunks == 0 .. ChunkCount - 1
Generations == 0 .. MaxGeneration
None == "none"
ASSUME NamesAssumption == None \notin Versions /\ None \notin Tabs

VARIABLES
    \* IndexedDB
    files,        \* files: the validator of a complete file, or None
    manifests,    \* fileDownloads
    chunks,       \* fileChunks: the version each chunk was fetched from, or None
    generation,   \* offlineGenerations: generation
    removed,      \* offlineGenerations: removed
    torrent,      \* torrents has the row of the book
    leases,       \* offlineLeases, one name a file
    \* the tabs
    downloads,    \* activeDownloads, with the frame of downloadFile
    cleaned,      \* cleanupRequest has been made
    \* their surroundings
    webLocks,     \* navigator.locks exists in this browser
    served,       \* the version the server has now
    lastDeleted   \* history: generation of the last deletion of each file

book == <<generation, removed, torrent>>
tables == <<files, manifests, chunks, book, leases>>
tabs == <<downloads, cleaned>>
world == <<webLocks, served, lastDeleted>>
vars == <<tables, tabs, world>>

NoManifest == [generation |-> -1, stored |-> 0, validator |-> None]
Manifest(g, n, v) == [generation |-> g, stored |-> n, validator |-> v]
NoDownload == [pc |-> "none", generation |-> -1, aborted |-> FALSE, lost |-> FALSE,
               expected |-> None, pending |-> {}, data |-> None]

Stored(f) == {i \in Chunks : chunks[f][i] # None}
NoChunks == [i \in Chunks |-> None]

Pcs == {"none", "lock", "sweep", "prepare", "restart", "indexes",
        "loop", "own", "fetch", "owned", "put", "complete", "leave"}

TypeOK ==
    /\ files \in [Files -> Versions \union {None}]
    /\ manifests \in [Files -> [generation : Generations \union {-1}, stored : 0 .. ChunkCount,
                                validator : Versions \union {None}]]
    /\ chunks \in [Files -> [Chunks -> Versions \union {None}]]
    /\ generation \in Generations /\ removed \in BOOLEAN /\ torrent \in BOOLEAN
    /\ leases \in [Files -> Tabs \union {None}]
    /\ downloads \in [Tabs -> [Files -> [pc : Pcs, generation : Generations \union {-1},
                          aborted : BOOLEAN, lost : BOOLEAN,
                          expected : Versions \union {None}, pending : SUBSET Chunks,
                          data : Versions \union {None}]]]
    /\ cleaned \in [Tabs -> BOOLEAN]
    /\ webLocks \in BOOLEAN
    /\ served \in [Files -> Versions]
    /\ lastDeleted \in [Files -> Generations]

(* A book nobody has saved, or one that an earlier version of the program *)
(* saved in part, before manifests had generations and validators.        *)
Init ==
    /\ files = [f \in Files |-> None]
    /\ \E legacy \in SUBSET Files, v \in Versions :
          /\ manifests = [f \in Files |->
                 IF f \in legacy THEN Manifest(0, 1, None) ELSE NoManifest]
          /\ chunks = [f \in Files |->
                 [i \in Chunks |-> IF f \in legacy /\ i = 0 THEN v ELSE None]]
    /\ generation = 0
    /\ removed = FALSE
    /\ torrent = TRUE
    /\ leases = [f \in Files |-> None]
    /\ downloads = [t \in Tabs |-> [f \in Files |-> NoDownload]]
    /\ cleaned = [t \in Tabs |-> FALSE]
    /\ webLocks \in BOOLEAN
    /\ served \in [Files -> Versions]
    /\ lastDeleted = [f \in Files |-> 0]

--------------------------------------------------------------------------------
(* The frame of one download *)

At(t, f, pc) == downloads[t][f].pc = pc
Running(t, f) == downloads[t][f].pc \notin {"none", "lock"}
Goto(t, f, pc) == downloads' = [downloads EXCEPT ![t][f].pc = pc]
Ending(d) == [NoDownload EXCEPT !.pc = "leave", !.aborted = d.aborted]
Forget(t, f) == downloads' = [downloads EXCEPT ![t][f] = NoDownload]
Mine(f, t) == leases[f] = t

(* The operation rejects. *)
Throw(t, f) ==
    /\ downloads' = [downloads EXCEPT ![t][f] = Ending(@)]
    /\ UNCHANGED <<tables, cleaned, world>>

(* assertOfflineGeneration *)
Valid(g) == ~removed /\ generation = g

--------------------------------------------------------------------------------
(* Calls *)

(* cacheFile, when no download of the file is under way in this tab to join: it  *)
(* reads the generation and starts one.  A caller that read the generation long  *)
(* before, as a bulk download does, is a download that waits as long for its     *)
(* lock.                                                                         *)
CacheFile(t, f) ==
    /\ At(t, f, "none")
    /\ ~removed
    /\ downloads' = [downloads EXCEPT ![t][f].pc = "lock", ![t][f].generation = generation]
    /\ UNCHANGED <<tables, cleaned, world>>

Cancel(t, f) ==
    /\ downloads[t][f].pc \notin {"none", "leave"}
    /\ downloads' = [downloads EXCEPT ![t][f].aborted = TRUE]
    /\ UNCHANGED <<tables, cleaned, world>>

--------------------------------------------------------------------------------
(* runWithCrossTabLock *)

(* Two tabs never hold the same lock.  A lease may have expired, for time is not *)
(* kept here and a tab may sleep between any two steps.                          *)
CanLock(t, f) == webLocks => \A u \in Tabs \ {t} : ~Running(u, f)

(* tryAcquireOfflineLease, or the grant of the lock *)
Lock(t, f) ==
    /\ At(t, f, "lock")
    /\ ~downloads[t][f].aborted
    /\ CanLock(t, f)
    /\ leases' = IF webLocks THEN leases
                 ELSE [leases EXCEPT ![f] = t]
    /\ Goto(t, f, "sweep")
    /\ UNCHANGED <<files, manifests, chunks, book, cleaned, world>>

LockAborts(t, f) ==
    /\ At(t, f, "lock")
    /\ downloads[t][f].aborted
    /\ Forget(t, f)
    /\ UNCHANGED <<tables, cleaned, world>>

Lost(t, f) == [downloads EXCEPT ![t][f].lost = TRUE, ![t][f].aborted = TRUE]

(* The renewal timer: renewOfflineLease finds another owner, or its transaction    *)
(* fails.  The caller is told, but the operation goes on to its own end, without   *)
(* further ownership checks.  A renewal that succeeds changes nothing modelled.    *)
LoseLease(t, f) ==
    /\ ~webLocks
    /\ Running(t, f)
    /\ ~At(t, f, "leave")
    /\ ~downloads[t][f].lost
    /\ downloads' = Lost(t, f)
    /\ UNCHANGED <<tables, cleaned, world>>

FaultyLeave(t, f) ==
    /\ At(t, f, "leave")
    /\ Forget(t, f)
    /\ UNCHANGED <<tables, cleaned, world>>

(* finally: releaseOfflineLease, and activeDownloads forgets the download *)
Leave(t, f) ==
    /\ At(t, f, "leave")
    /\ Forget(t, f)
    /\ leases' = IF ~webLocks /\ Mine(f, t) THEN [leases EXCEPT ![f] = None] ELSE leases
    /\ UNCHANGED <<files, manifests, chunks, book, cleaned, world>>

--------------------------------------------------------------------------------
(* downloadFile *)

(* cleanupStalePartialDownloads, as what it does in all: the files of swept lose    *)
(* their manifest, and the chunks of gone are deleted.  A manifest of a complete    *)
(* file goes alone.  When the budget is spent in the middle of a partial download,  *)
(* that one keeps its later chunks and its manifest, and the clean-up is over.      *)
(* Which manifests are older than STALE_PARTIAL_MAX_AGE_MS is any choice: a tab may *)
(* sleep that long between two steps.                                               *)
Sweeps(swept, gone) ==
    LET cut == {g \in Files \ swept : gone[g] # {}}
        spent == MapThenSumSet(LAMBDA g : Cardinality(gone[g]), Files)
    IN  /\ \A g \in swept \union cut : manifests[g] # NoManifest
        /\ \A g \in swept : gone[g] = IF files[g] = None THEN Stored(g) ELSE {}
        /\ \A g \in cut :
              /\ files[g] = None
              /\ gone[g] \subseteq Stored(g) /\ gone[g] # Stored(g)
              /\ \A i \in gone[g], j \in Stored(g) \ gone[g] : i < j
              /\ spent = SweepChunks
        /\ \A g, h \in cut : g = h
        /\ spent <= SweepChunks

(* throwIfCancelled, then cleanupStalePartialsOnce: one clean-up in the life of a tab *)
SweepStale(t, f) ==
    /\ At(t, f, "sweep")
    /\ ~downloads[t][f].aborted
    /\ IF cleaned[t]
       THEN UNCHANGED <<manifests, chunks>>
       ELSE \E swept \in SUBSET Files, gone \in [Files -> SUBSET Chunks] :
              /\ Sweeps(swept, gone)
              /\ manifests' = [g \in Files |->
                     IF g \in swept THEN NoManifest
                     ELSE IF gone[g] = {} THEN manifests[g]
                     ELSE [manifests[g] EXCEPT !.stored = Max({0, @ - Cardinality(gone[g])})]]
              /\ chunks' = [g \in Files |->
                     [i \in Chunks |-> IF i \in gone[g] THEN None ELSE chunks[g][i]]]
    /\ cleaned' = [cleaned EXCEPT ![t] = TRUE]
    /\ Goto(t, f, "prepare")
    /\ UNCHANGED <<files, book, leases, world>>

(* prepareFileDownload: what is complete is returned, what is stored is recounted, *)
(* chunks that no manifest describes are deleted.  If the device has the capacity  *)
(* the download goes on, from nothing when stored bytes have no validator.         *)
Prepare(t, f) ==
    LET g == downloads[t][f].generation
        count == Cardinality(Stored(f))
    IN  /\ At(t, f, "prepare")
        /\ ~downloads[t][f].aborted
        /\ Valid(g)
        /\ IF files[f] # None
           THEN /\ downloads' = [downloads EXCEPT ![t][f] = Ending(@)]
                /\ UNCHANGED <<manifests, chunks>>
           ELSE /\ IF manifests[f] = NoManifest
                   THEN /\ chunks' = [chunks EXCEPT ![f] = NoChunks]
                        /\ manifests' = [manifests EXCEPT ![f] = Manifest(g, 0, None)]
                   ELSE /\ manifests' = [manifests EXCEPT ![f] = Manifest(g, count, @.validator)]
                        /\ UNCHANGED chunks
                /\ downloads' = [downloads EXCEPT
                       ![t][f].pc = IF manifests'[f].stored > 0 /\ manifests'[f].validator = None
                                    THEN "restart" ELSE "indexes",
                       ![t][f].expected = manifests'[f].validator]
        /\ UNCHANGED <<files, book, leases, cleaned, world>>

(* restartFileDownload *)
Restart(t, f) ==
    LET g == downloads[t][f].generation
    IN  /\ At(t, f, "restart")
        /\ Valid(g)
        /\ IF files[f] # None
           THEN UNCHANGED <<manifests, chunks>>
           ELSE /\ chunks' = [chunks EXCEPT ![f] = NoChunks]
                /\ manifests' = [manifests EXCEPT ![f] = Manifest(g, 0, None)]
        /\ downloads' = [downloads EXCEPT ![t][f].pc = "indexes", ![t][f].expected = files[f]]
        /\ UNCHANGED <<files, book, leases, cleaned, world>>

(* getStoredFileChunkIndexes *)
Indexes(t, f) ==
    /\ At(t, f, "indexes")
    /\ downloads' = [downloads EXCEPT ![t][f].pc = "loop",
                                      ![t][f].pending = Chunks \ Stored(f)]
    /\ UNCHANGED <<tables, cleaned, world>>

(* The head of the chunk loop.  scheduleChunk, which lets the files of one tab fetch *)
(* one after the other, only adds a wait.                                            *)
NextChunk(t, f) ==
    /\ At(t, f, "loop")
    /\ IF downloads[t][f].pending = {}
       THEN Goto(t, f, "complete")
       ELSE ~downloads[t][f].aborted /\ Goto(t, f, "own")
    /\ UNCHANGED <<tables, cleaned, world>>

(* assertExclusiveOwnership before the fetch and after it: it renews the lease.  *)
(* A download that has been told of the loss of its lease asserts nothing more.  *)
AssertOwner(t, f, from, to) ==
    /\ At(t, f, from)
    /\ webLocks \/ downloads[t][f].lost \/ Mine(f, t)
    /\ Goto(t, f, to)
    /\ UNCHANGED <<tables, cleaned, world>>

AssertFails(t, f) ==
    /\ downloads[t][f].pc \in {"own", "owned"}
    /\ ~webLocks /\ ~downloads[t][f].lost
    /\ downloads' = [Lost(t, f) EXCEPT ![t][f] = Ending(@)]
    /\ UNCHANGED <<tables, cleaned, world>>

(* fetchChunk: a range of the version the server has, accepted only when its etag *)
(* is the one of the chunks before it.                                            *)
Fetch(t, f) ==
    LET expected == downloads[t][f].expected
    IN  /\ At(t, f, "fetch")
        /\ ~downloads[t][f].aborted
        /\ expected \in {None, served[f]}
        /\ downloads' = [downloads EXCEPT ![t][f].pc = "owned", ![t][f].data = served[f]]
        /\ UNCHANGED <<tables, cleaned, world>>

FaultyMayPut(t, f) ==
    LET d == downloads[t][f]
    IN  Valid(d.generation) /\ manifests[f].generation = d.generation

FaultyMayAppend(t, f) ==
    /\ manifests[f] # NoManifest
    /\ manifests[f].validator \in {None, downloads[t][f].data}

(* What putFileChunk checks in the transaction that writes *)
MayPut(t, f) ==
    LET d == downloads[t][f]
    IN  /\ Valid(d.generation)
        /\ manifests[f].generation = d.generation
        /\ manifests[f].validator \in {None, d.data}

FaultyStoredWith(f, i) == manifests[f].stored + 1

(* downloadedBytes after the chunk, which may replace one that is stored *)
StoredWith(f, i) == manifests[f].stored + (IF chunks[f][i] = None THEN 1 ELSE 0)

(* The chunks that are not stored are fetched in the order of their indexes. *)
PutChunk(t, f) ==
    LET d == downloads[t][f]
    IN  /\ At(t, f, "put")
        /\ MayPut(t, f)
        /\ \E i \in d.pending :
              /\ \A j \in d.pending : i <= j
              /\ chunks' = [chunks EXCEPT ![f][i] = d.data]
              /\ manifests' = [manifests EXCEPT ![f] =
                     Manifest(d.generation, Min({ChunkCount, StoredWith(f, i)}),
                              IF @.validator = None THEN d.data ELSE @.validator)]
              /\ downloads' = [downloads EXCEPT ![t][f].pc = "loop", ![t][f].pending = @ \ {i},
                     ![t][f].expected = manifests'[f].validator, ![t][f].data = None]
        /\ UNCHANGED <<files, book, leases, cleaned, world>>

FaultyWhole(f) == manifests[f].stored > 0

(* Every byte range of the file is there *)
Whole(f) == Stored(f) = Chunks

(* completeFileDownload, without which the chunks are not played *)
Complete(t, f) ==
    LET g == downloads[t][f].generation
    IN  /\ At(t, f, "complete")
        /\ Valid(g)
        /\ IF files[f] # None
           THEN UNCHANGED <<files, manifests>>
           ELSE /\ manifests[f].generation = g
                /\ Whole(f)
                /\ files' = [files EXCEPT ![f] = manifests[f].validator]
                /\ manifests' = [manifests EXCEPT ![f] = NoManifest]
        /\ downloads' = [downloads EXCEPT ![t][f] = Ending(@)]
        /\ UNCHANGED <<chunks, book, leases, cleaned, world>>

(* throwIfCancelled, an aborted fetch, or a check of a transaction that fails *)
Refused(t, f) ==
    LET d == downloads[t][f]
    IN  \/ d.pc \in {"sweep", "prepare", "fetch"} /\ d.aborted
        \/ d.pc = "loop" /\ d.aborted /\ d.pending # {}
        \/ d.pc \in {"prepare", "restart", "complete"} /\ ~Valid(d.generation)
        \/ d.pc = "fetch" /\ d.expected \notin {None, served[f]}
        \/ d.pc = "put" /\ ~MayPut(t, f)
        \/ /\ d.pc = "complete"
           /\ files[f] = None
           /\ ~(manifests[f].generation = d.generation /\ Whole(f))

Refuse(t, f) == Refused(t, f) /\ Throw(t, f)

(* The network, the server or the device fails: no capacity, no valid range, no *)
(* space for a row.                                                             *)
Fails(t, f) ==
    /\ downloads[t][f].pc \in {"prepare", "restart", "indexes",
                                "fetch", "put", "complete"}
    /\ Throw(t, f)

--------------------------------------------------------------------------------
(* Deletions and additions, by any tab *)

(* rotateOfflineGeneration *)
Rotate(to) ==
    /\ generation < MaxGeneration
    /\ generation' = generation + 1
    /\ removed' = to

Delete(fs) ==
    /\ files' = [f \in Files |-> IF f \in fs THEN None ELSE files[f]]
    /\ manifests' = [f \in Files |-> IF f \in fs THEN NoManifest ELSE manifests[f]]
    /\ chunks' = [f \in Files |-> IF f \in fs THEN NoChunks ELSE chunks[f]]
    /\ lastDeleted' = [f \in Files |-> IF f \in fs THEN generation + 1 ELSE lastDeleted[f]]
    /\ UNCHANGED <<leases, tabs, webLocks, served>>

RemoveFile(f) == Rotate(FALSE) /\ Delete({f}) /\ UNCHANGED torrent

RemoveFilesByIh == Rotate(FALSE) /\ Delete(Files) /\ UNCHANGED torrent

RemoveFilesAndTorrent == Rotate(TRUE) /\ Delete(Files) /\ torrent' = FALSE

(* addTorrent, when somebody opens the book again *)
AddTorrent ==
    /\ ~torrent
    /\ torrent' = TRUE
    /\ IF removed THEN Rotate(FALSE) ELSE UNCHANGED <<generation, removed>>
    /\ UNCHANGED <<files, manifests, chunks, leases, tabs, world>>

--------------------------------------------------------------------------------
(* The surroundings *)

ServerChanges(f, v) ==
    /\ served' = [served EXCEPT ![f] = v]
    /\ UNCHANGED <<tables, tabs, webLocks, lastDeleted>>

(* A tab is closed at any moment, and another one opened.  A lease without its tab *)
(* is there until it expires, which is no different from a free one here.          *)
CloseTab(t) ==
    /\ downloads' = [downloads EXCEPT ![t] = [f \in Files |-> NoDownload]]
    /\ cleaned' = [cleaned EXCEPT ![t] = FALSE]
    /\ leases' = [f \in Files |-> IF Mine(f, t) THEN None ELSE leases[f]]
    /\ UNCHANGED <<files, manifests, chunks, book, world>>

--------------------------------------------------------------------------------
(* What a download does by itself *)
Step(t, f) ==
    \/ Lock(t, f) \/ LockAborts(t, f)
    \/ SweepStale(t, f) \/ Prepare(t, f) \/ Restart(t, f)
    \/ Indexes(t, f) \/ NextChunk(t, f)
    \/ AssertOwner(t, f, "own", "fetch") \/ Fetch(t, f) \/ AssertOwner(t, f, "owned", "put")
    \/ AssertFails(t, f)
    \/ PutChunk(t, f) \/ Complete(t, f)
    \/ Refuse(t, f) \/ Fails(t, f)
    \/ Leave(t, f)

Next ==
    \/ \E t \in Tabs, f \in Files :
          Step(t, f) \/ LoseLease(t, f) \/ CacheFile(t, f) \/ Cancel(t, f)
    \/ \E f \in Files : RemoveFile(f)
    \/ \E f \in Files, v \in Versions : ServerChanges(f, v)
    \/ \E t \in Tabs : CloseTab(t)
    \/ RemoveFilesByIh \/ RemoveFilesAndTorrent \/ AddTorrent

Spec == Init /\ [][Next]_vars

--------------------------------------------------------------------------------
(* Properties *)

(* A file that is played offline is whole and of one version, whatever tabs    *)
(* wrote its chunks and whenever each of them lost its lease; and the chunks   *)
(* of a partial download are all of the version its validator names.           *)
OneVersion ==
    \A f \in Files :
        /\ files[f] # None => \A i \in Chunks : chunks[f][i] = files[f]
        /\ manifests[f].validator # None =>
              \A i \in Stored(f) : chunks[f][i] = manifests[f].validator

(* downloadedBytes, which every tab computes from the row it reads, counts the  *)
(* chunks that are stored, and no chunk is left that neither a manifest nor a   *)
(* file describes: nothing would ever delete it.                                *)
ChunksAccounted ==
    \A f \in Files :
        /\ manifests[f].stored = (IF manifests[f] = NoManifest THEN 0
                                  ELSE Cardinality(Stored(f)))
        /\ Stored(f) # {} => manifests[f] # NoManifest \/ files[f] # None

(* After removeFilesAndTorrent no download that was under way in some tab puts *)
(* anything back while the book is marked as removed.                          *)
RemovedIsGone ==
    removed => \A f \in Files :
        files[f] = None /\ manifests[f] = NoManifest /\ Stored(f) = {}

(* The tables make sense together: types, what manifests count, and no trace of a *)
(* removed book.                                                                   *)
TablesSound == TypeOK /\ ChunksAccounted /\ RemovedIsGone

(* This one does not hold: the deletion of a file clears the mark of a removed book. *)
(* A file is kept only for a book of the library: a book that was removed in   *)
(* one tab takes no file from a tab that still shows it.                       *)
KeptForLibrary == \A f \in Files : files[f] # None => torrent

(* A lease that a download of a living tab holds is released when the download *)
(* ends, on whatever path; a leaked one would stop every other tab.            *)
LeaseHasHolder ==
    \A t \in Tabs, f \in Files : Mine(f, t) => Running(t, f)

(* A file that was deleted gets no bytes from a download that started before   *)
(* the deletion, in whatever tab, however late its chunk arrives.              *)
DeletedStaysDeleted ==
    [][\A f \in Files : (\E i \in Chunks : chunks[f][i] # chunks'[f][i] /\ chunks'[f][i] # None)
          => \E t \in Tabs : At(t, f, "put") /\ downloads[t][f].generation >= lastDeleted[f]]_vars

(* A tab whose download was aborted, by its user or by the loss of the lease,  *)
(* fetches nothing more for it: what was written is at most the one chunk it   *)
(* was about to put.                                                           *)
AbortedFetchesNothing ==
    [][\A t \in Tabs, f \in Files :
          downloads[t][f].aborted => downloads'[t][f].data \in {None, downloads[t][f].data}]_vars

(* What is late stays out: chunks of downloads from before a deletion, and fetches of *)
(* downloads that were aborted.                                                        *)
NothingLate == DeletedStaysDeleted /\ AbortedFetchesNothing

(* getFileBlob: what a player gets for a file *)
Playable ==
    [f \in Files |->
        IF files[f] = None THEN None
        ELSE IF \A i \in Chunks : chunks[f][i] = files[f] THEN files[f] ELSE "broken"]

Saved == INSTANCE SavedBook WITH playable <- Playable, onShelf <- ~removed

(* The tabs, leases and transactions implement the promise of SavedBook. *)
KeepsPromise == Saved!Spec

================================================================================
