---------------------------- MODULE TorrentManager ----------------------------
(***************************************************************************)
(* The torrent sessions and the disk cache of the server:                  *)
(* src/server/torrent/manager.ts with the torrent tables of                *)
(* src/server/database.ts, and its boot and shutdown in                    *)
(* src/server/index.ts.                                                    *)
(*                                                                         *)
(* One JavaScript thread: an action is what runs between two awaits on     *)
(* something slow (the disk, the network, a promise of another task).      *)
(* WebTorrent is external.  remove() and destroy() disconnect a torrent    *)
(* and emit its close event without waiting for the disk or the network,   *)
(* so they are part of the step that calls them.                           *)
(*                                                                         *)
(* A torrent has Pieces pieces; bytes are counted in pieces.  Definitions  *)
(* named Faulty... are variants of the one after them with a plausible     *)
(* bug; nothing uses them.                                                 *)
(***************************************************************************)
EXTENDS Naturals, Sequences, FiniteSets, SequencesExt

CONSTANTS
    Torrents,     \* info hashes
    Stored,       \* those completely cached before the first boot
    MaxSessions,  \* bound: session objects alive at one time
    MaxPreloads,  \* bound: preloads running at one time
    Ops,          \* requests that use a session at one time
    Readers,      \* direct cache readers at one time
    Pieces,       \* pieces of a torrent
    Capacity,     \* cacheCapacityBytes
    Routes,       \* what clients do besides requests for bytes of a file
    Incidents     \* what may happen besides timeouts and cancellations

ASSUME StoredAssumption == Stored \subseteq Torrents /\ IsFiniteSet(Torrents)
ASSUME SlotsAssumption == MaxSessions \in Nat /\ MaxPreloads \in Nat
ASSUME PiecesAssumption == Pieces \in Nat \ {0} /\ Capacity \in Nat
ASSUME RoutesAssumption == Routes \subseteq {"register", "preload", "remove"}
ASSUME IncidentsAssumption ==
    Incidents \subseteq
        {"stop", "crash", "torrent", "modtimes", "before", "remove"}

NoTorrent == "no torrent"
ASSUME NoTorrentAssumption == NoTorrent \notin Torrents
Sessions == 1..MaxSessions
NoSession == 0
Preloads == 1..MaxPreloads
NoPreload == 0

VARIABLES
    \* SQLite, and the cache directory
    history,      \* torrent_history
    registration, \* torrent_registrations: none, plain, background
    metadata,     \* torrent_metadata: none, partial, completed
    cache,        \* torrent_cache, by last access, the oldest row first
    disk,         \* pieces in the torrent's cache directory
    \* the TorrentManager
    phase,        \* down, up, or what close() is waiting for
    session,      \* sessions
    obj,          \* the TorrentSession objects, in the map or still referred to
    op,           \* requests that hold a session
    reader,       \* direct cache readers
    saving,       \* completedStatePromises
    evict,        \* cacheEvictionPromises: none, rm, row
    drop,         \* idleDropPromises, with the frame of dropIdleSession
    task,         \* the frames of executePreload
    current,      \* preloadPromises, preloadAbortControllers
    job,          \* preloadJobs, with the frame that owns the status object
    removal,      \* removalPromises: where performReservedRemoval awaits
    closeWait,    \* close(): evictions it waits for
    closeSessions,\* close(): its copy of the sessions
    \* history
    gone          \* torrents removed and not asked for again

database == <<history, registration, metadata, cache>>
preloading == <<task, current, job>>
shutdown == <<phase, closeWait, closeSessions>>
vars == <<database, disk, session, obj, op, reader, saving, evict, drop,
          preloading, removal, shutdown, gone>>

Row == [torrent: Torrents, bytes: 0..Pieces, completed: BOOLEAN]
Object == [torrent: Torrents \cup {NoTorrent},
           stage: {"opening", "checking", "ready", "done"}, live: BOOLEAN,
           has: 0..Pieces, ops: Nat, timer: BOOLEAN,
           rec: {"none", "saving", "measuring"}]
NoObject == [torrent |-> NoTorrent, stage |-> "opening", live |-> FALSE,
             has |-> 0, ops |-> 0, timer |-> FALSE, rec |-> "none"]
Drop == [pc: {"none", "saving", "measuring", "wiping", "pruning"},
         s: Sessions \cup {NoSession}, completed: BOOLEAN,
         wait: SUBSET Torrents]
NoDrop == [pc |-> "none", s |-> NoSession, completed |-> FALSE, wait |-> {}]
Task == [pc: {"none", "ready", "consuming", "saving", "measuring", "pruning",
              "failed"},
         torrent: Torrents \cup {NoTorrent}, s: Sessions \cup {NoSession},
         aborted: BOOLEAN, wait: SUBSET Torrents]
NoTask == [pc |-> "none", torrent |-> NoTorrent, s |-> NoSession,
           aborted |-> FALSE, wait |-> {}]
Job == [state: {"none", "running", "completed", "failed"},
        by: Preloads \cup {NoPreload}]
NoJob == [state |-> "none", by |-> NoPreload]
Op == [pc: {"none", "metadata", "ready", "stream"},
       s: Sessions \cup {NoSession}]
NoOp == [pc |-> "none", s |-> NoSession]
Reader == [pc: {"none", "validating", "open"},
           torrent: Torrents \cup {NoTorrent}]
NoReader == [pc |-> "none", torrent |-> NoTorrent]
RemovalPcs == {"none", "before", "evict", "drop", "state", "preload",
               "readers", "rm", "row"}
Phases == {"down", "up", "removals", "drops", "evictions", "states",
           "preloads", "record", "prune"}

-----------------------------------------------------------------------------
(***************************************************************************)
(* The rows of torrent_cache.                                              *)
(***************************************************************************)

\* The info hash is the primary key of the table.
Has(rows, t) == \E i \in DOMAIN rows : rows[i].torrent = t
At(rows, t) == CHOOSE i \in DOMAIN rows : rows[i].torrent = t
Without(rows, t) == IF Has(rows, t) THEN RemoveAt(rows, At(rows, t)) ELSE rows
RecordCache(rows, t, bytes, completed) ==
    Append(Without(rows, t),
           [torrent |-> t, bytes |-> bytes, completed |-> completed])
\* touchTorrent: the access time, and no row where there was none.
Touch(rows, t) ==
    IF Has(rows, t) THEN Append(Without(rows, t), rows[At(rows, t)]) ELSE rows
\* The sum of the bytes of some of the rows
Bytes(rows, indices) ==
    LET sum[n \in 0..Len(rows)] ==
            IF n = 0 THEN 0
            ELSE sum[n - 1] + IF n \in indices THEN rows[n].bytes ELSE 0
    IN  sum[Len(rows)]
TotalBytes(rows) == Bytes(rows, DOMAIN rows)

\* recordTorrentRegistration
RecordRegistration(t, background) ==
    /\ history' = history \cup {t}
    /\ registration' = [registration EXCEPT ![t] =
                           IF background THEN "background" ELSE "plain"]

\* upsertTorrent and replaceTorrentFiles: a row that says completed keeps it.
UpsertTorrent(t) ==
    /\ history' = history \cup {t}
    /\ metadata' = [metadata EXCEPT ![t] = IF @ = "none" THEN "partial" ELSE @]

\* saveFileModtimes: an update of a row there may not be
SaveFileModtimes(t) ==
    metadata' = [metadata EXCEPT ![t] = IF @ = "none" THEN "none" ELSE "completed"]

\* metadataCompleted and cacheCompleted of a status summary
CompletedCache(t) ==
    /\ metadata[t] = "completed"
    /\ \E i \in DOMAIN cache : cache[i].torrent = t /\ cache[i].completed

-----------------------------------------------------------------------------
(***************************************************************************)
(* Sessions.                                                               *)
(***************************************************************************)

FaultyAccepts(t) == phase = "up"
Accepts(t) == phase = "up" /\ removal[t] = "none"

\* close() and remove() silence the callbacks of a session.
Quieted(t) == phase # "up" \/ removal[t] # "none"

Free(s) ==
    /\ ~obj[s].live
    /\ obj[s].ops = 0
    /\ obj[s].rec = "none"
    /\ \A t \in Torrents : drop[t].s # s
    /\ s \notin closeSessions
FreeSession == CHOOSE s \in Sessions : Free(s)
CanOpen(t) == session[t] # NoSession \/ \E s \in Sessions : Free(s)

FaultySessionOf(t) == FreeSession
SessionOf(t) == IF session[t] # NoSession THEN session[t] ELSE FreeSession
\* createSession: client.add; the closing release() arms the idle timer.
NewObject(t) == [NoObject EXCEPT !.torrent = t, !.live = TRUE, !.timer = TRUE]
ObjectOf(t) ==
    IF SessionOf(t) = session[t] THEN obj[session[t]] ELSE NewObject(t)

CreateSession(t) ==
    /\ session' = [session EXCEPT ![t] = FreeSession]
    /\ obj' = [obj EXCEPT ![FreeSession] = NewObject(t)]

\* acquireByInfoHash
Acquire(t) ==
    /\ session' = [session EXCEPT ![t] = SessionOf(t)]
    /\ obj' = [obj EXCEPT ![SessionOf(t)] =
                  [ObjectOf(t) EXCEPT !.ops = @ + 1, !.timer = FALSE]]

\* release
Released(s) ==
    LET o == obj[s]
        left == IF o.ops > 0 THEN o.ops - 1 ELSE 0
    IN [o EXCEPT !.ops = left,
                 !.timer = @ \/ /\ left = 0
                                /\ ~Quieted(o.torrent)
                                /\ session[o.torrent] = s]

\* The torrent is destroyed and its close event empties the map, unless the
\* map has another session by now.
ClosedObject(o) ==
    [o EXCEPT !.live = FALSE, !.timer = FALSE, !.has = 0,
              !.stage = IF @ = "done" THEN "done" ELSE "opening"]
AfterClose(s) ==
    [t \in Torrents |-> IF session[t] = s THEN NoSession ELSE session[t]]

-----------------------------------------------------------------------------
(***************************************************************************)
(* Pruning.                                                                *)
(***************************************************************************)

ReadersOf(t) == {r \in Readers : reader[r].torrent = t}

FaultySpared(reading) ==
    {t \in Torrents : \/ session[t] # NoSession
                      \/ evict[t] # "none"
                      \/ removal[t] # "none"}
Spared(reading) ==
    {t \in Torrents : \/ session[t] # NoSession
                      \/ t \in reading
                      \/ evict[t] # "none"
                      \/ removal[t] # "none"}
Reading == {reader[r].torrent : r \in Readers} \ {NoTorrent}

FaultyVictims(rows, reading) ==
    IF TotalBytes(rows) <= Capacity THEN {}
    ELSE {rows[i].torrent : i \in 1..1} \ Spared(reading)
\* The loop of pruneCache: of the rows it does not spare the oldest first, as long
\* as without those before it the rest does not fit.
Victims(rows, reading) ==
    LET idle == {i \in DOMAIN rows : rows[i].torrent \notin Spared(reading)}
        Excess(i) == TotalBytes(rows) > Capacity + Bytes(rows, {j \in idle : j < i})
    IN {rows[i].torrent : i \in {i \in idle : Excess(i)}}

\* pruneCache up to the await of the evictions it starts.
Prune(victims) ==
    evict' = [t \in Torrents |-> IF t \in victims THEN "rm" ELSE evict[t]]

\* evictCacheEntry: rm of the directory,
EvictDelete(t) ==
    /\ evict[t] = "rm"
    /\ evict' = [evict EXCEPT ![t] = "row"]
    /\ disk' = [disk EXCEPT ![t] = 0]
    /\ UNCHANGED <<database, session, obj, op, reader, saving, drop,
                   preloading, removal, shutdown, gone>>

RowsAfterEviction(t) == Without(cache, t)
\* then the row and the preload status; whoever awaits the eviction goes on.
EvictRecord(t) ==
    /\ evict[t] = "row"
    /\ evict' = [evict EXCEPT ![t] = "none"]
    /\ cache' = RowsAfterEviction(t)
    /\ job' = [job EXCEPT ![t] = NoJob]
    /\ drop' = [u \in Torrents |-> [drop[u] EXCEPT !.wait = @ \ {t}]]
    /\ task' = [p \in Preloads |-> [task[p] EXCEPT !.wait = @ \ {t}]]
    /\ closeWait' = closeWait \ {t}
    /\ UNCHANGED <<history, registration, metadata, disk, session, obj, op,
                   reader, saving, current, removal, phase, closeSessions,
                   gone>>

-----------------------------------------------------------------------------
(***************************************************************************)
(* Preloads.                                                               *)
(***************************************************************************)

\* startPreload of a torrent whose job does not run: executePreload acquires a
\* session and awaits that it is ready.
BeginPreload(t) ==
    /\ CanOpen(t)
    /\ Acquire(t)
    /\ \E p \in Preloads :
        /\ task[p].pc = "none"
        /\ \A q \in 1..(p - 1) : task[q].pc # "none"
        /\ task' = [task EXCEPT ![p] = [NoTask EXCEPT !.pc = "ready",
                                            !.torrent = t, !.s = SessionOf(t)]]
        /\ current' = [current EXCEPT ![t] = p]
        /\ job' = [job EXCEPT ![t] = [state |-> "running", by |-> p]]

\* POST /torrents/:infoHash/preload
StartPreload(t) ==
    /\ Accepts(t)
    /\ job[t].state # "running"
    /\ BeginPreload(t)
    /\ gone' = gone \ {t}
    /\ UNCHANGED <<database, disk, op, reader, saving, evict, drop, removal,
                   shutdown>>

FaultyEndPreload(p, state) ==
    LET t == task[p].torrent
    IN /\ task' = [task EXCEPT ![p] = NoTask]
       /\ current' = [current EXCEPT ![t] = IF @ = p THEN NoPreload ELSE @]
       /\ job' = job
       /\ obj' = [obj EXCEPT ![task[p].s] = Released(task[p].s)]
\* The finally blocks of executePreload and startPreload, with the state the
\* status object ends in; the job map may have dropped that object before.
EndPreload(p, state) ==
    LET t == task[p].torrent
    IN /\ task' = [task EXCEPT ![p] = NoTask]
       /\ current' = [current EXCEPT ![t] = IF @ = p THEN NoPreload ELSE @]
       /\ job' = [job EXCEPT ![t] = IF @.by = p
                                    THEN [state |-> state, by |-> NoPreload]
                                    ELSE @]
       /\ obj' = [obj EXCEPT ![task[p].s] = Released(task[p].s)]

PreloadReady(p) ==
    LET o == obj[task[p].s]
    IN /\ task[p].pc = "ready" /\ ~task[p].aborted
       /\ o.live /\ o.stage \in {"ready", "done"}
       /\ task' = [task EXCEPT ![p].pc = "consuming"]
       /\ UNCHANGED <<database, disk, session, obj, op, reader, saving, evict,
                      drop, current, job, removal, shutdown, gone>>

\* Every file was read to its end while nothing silenced the session.
Consumed(p) ==
    obj[task[p].s].stage = "done" /\ ~Quieted(task[p].torrent)

\* saveCompletedState joins the save of the torrent that is under way.
PreloadConsumed(p) ==
    /\ task[p].pc = "consuming"
    /\ obj[task[p].s].live
    /\ Consumed(p)
    /\ task' = [task EXCEPT ![p].pc = "saving"]
    /\ saving' = saving \cup {task[p].torrent}
    /\ UNCHANGED <<database, disk, session, obj, op, reader, evict, drop,
                   current, job, removal, shutdown, gone>>

\* executePreload returns early during a removal or a shutdown, and leaves the
\* status "running"; so does the abort of either.
PreloadGivesUp(p) ==
    /\ task[p].pc \in {"ready", "consuming", "failed"}
    /\ \/ task[p].aborted
       \/ /\ task[p].pc = "consuming"
          /\ obj[task[p].s].live
          /\ obj[task[p].s].stage = "done"
          /\ Quieted(task[p].torrent)
    /\ EndPreload(p, "running")
    /\ UNCHANGED <<database, disk, session, op, reader, saving, evict, drop,
                   removal, shutdown, gone>>

\* The torrent was closed below it, or the state could not be saved.
PreloadFails(p) ==
    /\ \/ task[p].pc \in {"ready", "consuming"} /\ ~obj[task[p].s].live
       \/ task[p].pc = "failed"
    /\ ~task[p].aborted
    /\ EndPreload(p, "failed")
    /\ UNCHANGED <<database, disk, session, op, reader, saving, evict, drop,
                   removal, shutdown, gone>>

\* measureCacheBytes, recordCache and pruneCache.  A torrent without a history
\* row has no cache row either (foreign key): the preload fails.
PreloadMeasured(p) ==
    LET t == task[p].torrent
        rows == RecordCache(cache, t, disk[t], TRUE)
        victims == Victims(rows, Reading)
    IN /\ task[p].pc = "measuring"
       /\ t \in history
       /\ cache' = rows
       /\ Prune(victims)
       /\ task' = [task EXCEPT ![p].pc = "pruning", ![p].wait = victims]
       /\ UNCHANGED <<history, registration, metadata, disk, session, obj, op,
                      reader, saving, drop, current, job, removal, shutdown,
                      gone>>
PreloadUnrecorded(p) ==
    /\ task[p].pc = "measuring"
    /\ task[p].torrent \notin history
    /\ EndPreload(p, IF task[p].aborted THEN "running" ELSE "failed")
    /\ UNCHANGED <<database, disk, session, op, reader, saving, evict, drop,
                   removal, shutdown, gone>>

\* The evictions it awaited are done; the listeners hear of the completion.
PreloadCompletes(p) ==
    /\ task[p].pc = "pruning"
    /\ task[p].wait = {}
    /\ EndPreload(p, "completed")
    /\ UNCHANGED <<database, disk, session, op, reader, saving, evict, drop,
                   removal, shutdown, gone>>

-----------------------------------------------------------------------------
(***************************************************************************)
(* Requests.                                                               *)
(***************************************************************************)

\* POST /torrents: register
Register(t, background) ==
    /\ Accepts(t)
    /\ RecordRegistration(t, background)
    /\ gone' = gone \ {t}
    /\ LET starts == /\ background
                     /\ ~CompletedCache(t)
                     /\ job[t].state \in {"none", "failed"}
       IN \/ starts /\ BeginPreload(t)
          \/ /\ ~starts /\ ~CompletedCache(t) /\ session[t] = NoSession
             /\ CanOpen(t)
             /\ CreateSession(t)
             /\ UNCHANGED preloading
          \/ /\ ~starts /\ (CompletedCache(t) \/ session[t] # NoSession)
             /\ UNCHANGED <<session, obj, preloading>>
    /\ UNCHANGED <<metadata, cache, disk, op, reader, saving, evict, drop,
                   removal, shutdown>>

\* details, infoBytes (await the metadata) and openFile (awaits that the torrent
\* is ready).
Request(o, t, awaits) ==
    /\ Accepts(t)
    /\ op[o].pc = "none"
    /\ CanOpen(t)
    /\ Acquire(t)
    /\ op' = [op EXCEPT ![o] = [pc |-> awaits, s |-> SessionOf(t)]]
    /\ gone' = gone \ {t}
    /\ UNCHANGED <<database, disk, reader, saving, evict, drop, preloading,
                   removal, shutdown>>

\* What a request waits for has come: details and an empty range end it, a file
\* is streamed.
Answer(o) ==
    LET s == op[o].s
    IN /\ op[o].pc \in {"metadata", "ready"}
       /\ obj[s].live
       /\ obj[s].stage \in IF op[o].pc = "metadata"
                           THEN {"checking", "ready", "done"}
                           ELSE {"ready", "done"}
       /\ cache' = Touch(cache, obj[s].torrent)
       /\ \/ /\ op[o].pc = "ready"
             /\ op' = [op EXCEPT ![o].pc = "stream"]
             /\ UNCHANGED obj
          \/ /\ op' = [op EXCEPT ![o] = NoOp]
             /\ obj' = [obj EXCEPT ![s] = Released(s)]
       /\ UNCHANGED <<history, registration, metadata, disk, session, reader,
                      saving, evict, drop, preloading, removal, shutdown, gone>>

\* A timeout, a bad file or range, a client that went away, a torrent that
\* closed, or the end of the stream: finalize() releases the session once.
EndRequest(o) ==
    /\ op[o].pc # "none"
    /\ op' = [op EXCEPT ![o] = NoOp]
    /\ obj' = [obj EXCEPT ![op[o].s] = Released(op[o].s)]
    /\ UNCHANGED <<database, disk, session, reader, saving, evict, drop,
                   preloading, removal, shutdown, gone>>

\* acquireDirectCacheReader
CanRead(t) == Accepts(t) /\ evict[t] = "none"
OpenReader(r, t) ==
    /\ CanRead(t)
    /\ reader[r].pc = "none"
    /\ reader' = [reader EXCEPT ![r] = [pc |-> "validating", torrent |-> t]]
    /\ UNCHANGED <<database, disk, session, obj, op, saving, evict, drop,
                   preloading, removal, shutdown, gone>>

\* validateCachedFile: a chapter may be whole in a torrent that is not.
Validate(r) ==
    LET t == reader[r].torrent
    IN /\ reader[r].pc = "validating"
       /\ t \in history
       /\ metadata[t] # "none"
       /\ disk[t] > 0
       /\ reader' = [reader EXCEPT ![r].pc = "open"]
       /\ cache' = Touch(cache, t)
       /\ UNCHANGED <<history, registration, metadata, disk, session, obj, op,
                      saving, evict, drop, preloading, removal, shutdown, gone>>

\* The file did not validate, or was validated for cachedFile only, or its
\* stream ended: releaseDirectCacheReader, and the prune of the microtask after.
CloseReader(r) ==
    LET t == reader[r].torrent
        victims == Victims(cache, {reader[q].torrent : q \in Readers \ {r}})
    IN /\ reader[r].pc # "none"
       /\ reader' = [reader EXCEPT ![r] = NoReader]
       /\ Prune(IF Quieted(t) \/ ReadersOf(t) # {r} THEN {} ELSE victims)
       /\ UNCHANGED <<database, disk, session, obj, op, saving, drop,
                      preloading, removal, shutdown, gone>>

-----------------------------------------------------------------------------
(***************************************************************************)
(* Events of a torrent.                                                    *)
(***************************************************************************)

Live(s, stage) == obj[s].live /\ obj[s].stage = stage

\* onMetadata
MetadataEvent(s) ==
    LET t == obj[s].torrent
    IN /\ Live(s, "opening")
       /\ obj' = [obj EXCEPT ![s].stage = "checking"]
       /\ IF Quieted(t)
          THEN UNCHANGED <<history, metadata>>
          ELSE UpsertTorrent(t)
       /\ UNCHANGED <<registration, cache, disk, session, op, reader, saving,
                      evict, drop, preloading, removal, shutdown, gone>>

\* The pieces found in the directory have been verified.
ReadyEvent(s) ==
    /\ Live(s, "checking")
    /\ obj' = [obj EXCEPT ![s].stage = "ready",
                          ![s].has = disk[obj[s].torrent]]
    /\ UNCHANGED <<database, disk, session, op, reader, saving, evict, drop,
                   preloading, removal, shutdown, gone>>

\* Torrents are added deselected: only streams make them download.  Pieces
\* deleted below a live torrent are not fetched again.
Download(s) ==
    LET o == obj[s]
    IN /\ Live(s, "ready")
       /\ o.has < Pieces
       /\ \/ \E r \in Ops : op[r] = [pc |-> "stream", s |-> s]
          \/ \E p \in Preloads : /\ task[p].pc = "consuming" /\ task[p].s = s
                                 /\ ~task[p].aborted
       /\ obj' = [obj EXCEPT ![s].has = @ + 1]
       /\ disk' = [disk EXCEPT ![o.torrent] = @ + 1]
       /\ UNCHANGED <<database, session, op, reader, saving, evict, drop,
                      preloading, removal, shutdown, gone>>

\* recordCompletedCache up to the await of the save.
DoneEvent(s) ==
    LET t == obj[s].torrent
    IN /\ Live(s, "ready")
       /\ obj[s].has = Pieces
       /\ IF Quieted(t)
          THEN /\ obj' = [obj EXCEPT ![s].stage = "done"]
               /\ UNCHANGED saving
          ELSE /\ obj' = [obj EXCEPT ![s].stage = "done", ![s].rec = "saving"]
               /\ saving' = saving \cup {t}
       /\ UNCHANGED <<database, disk, session, op, reader, evict, drop,
                      preloading, removal, shutdown, gone>>

\* WebTorrent reports an error and closes the torrent.
TorrentFails(s) ==
    /\ "torrent" \in Incidents
    /\ obj[s].live
    /\ obj' = [obj EXCEPT ![s] = ClosedObject(@)]
    /\ session' = AfterClose(s)
    /\ UNCHANGED <<database, disk, op, reader, saving, evict, drop, preloading,
                   removal, shutdown, gone>>

Records(s) == ~Quieted(obj[s].torrent) /\ obj[s].torrent \in history
\* The rest of recordCompletedCache.
CompletionMeasured(s) ==
    LET t == obj[s].torrent
    IN /\ obj[s].rec = "measuring"
       /\ obj' = [obj EXCEPT ![s].rec = "none"]
       /\ cache' = IF Records(s) THEN RecordCache(cache, t, disk[t], TRUE)
                                 ELSE cache
       /\ UNCHANGED <<history, registration, metadata, disk, session, op,
                      reader, saving, evict, drop, preloading, removal,
                      shutdown, gone>>

-----------------------------------------------------------------------------
(***************************************************************************)
(* Saving the completed state, and the idle drop.                          *)
(***************************************************************************)

\* dropIdleSession after client.remove and sessions.delete
Disconnected(t, completed) ==
    [NoDrop EXCEPT !.pc = "measuring", !.completed = completed]

\* Whoever awaits the save measures the cache next.
SaveResumed(o, t) ==
    IF o.torrent = t /\ o.rec = "saving" THEN [o EXCEPT !.rec = "measuring"]
                                         ELSE o
TasksResumed(t, pc) ==
    [p \in Preloads |-> IF task[p].torrent = t /\ task[p].pc = "saving"
                        THEN [task[p] EXCEPT !.pc = pc] ELSE task[p]]

\* getFileModtimes has answered: saveFileModtimes, which changes no row that is
\* not there, and every awaiting frame goes on; the idle drop removes the torrent,
\* without another look at the session.
StateSaved(t) ==
    LET s == drop[t].s
        dropping == drop[t].pc = "saving"
    IN /\ t \in saving
       /\ saving' = saving \ {t}
       /\ SaveFileModtimes(t)
       /\ task' = TasksResumed(t, "measuring")
       /\ \/ /\ dropping /\ obj[s].live
             /\ drop' = [drop EXCEPT ![t] = Disconnected(t, drop[t].completed)]
             /\ session' = [session EXCEPT ![t] = NoSession]
             /\ obj' = [r \in Sessions |->
                           IF r = s THEN ClosedObject(SaveResumed(obj[r], t))
                                    ELSE SaveResumed(obj[r], t)]
          \/ \* client.remove rejects, or there is no idle drop
             /\ dropping => ~obj[s].live \/ "remove" \in Incidents
             /\ drop' = IF dropping THEN [drop EXCEPT ![t] = NoDrop] ELSE drop
             /\ obj' = [r \in Sessions |-> SaveResumed(obj[r], t)]
             /\ UNCHANGED session
       /\ UNCHANGED <<history, registration, cache, disk, op, reader, evict,
                      current, job, removal, shutdown, gone>>

\* getFileModtimes failed: so do the frames that await it.
StateNotSaved(t) ==
    /\ "modtimes" \in Incidents
    /\ t \in saving
    /\ saving' = saving \ {t}
    /\ drop' = IF drop[t].pc = "saving" THEN [drop EXCEPT ![t] = NoDrop]
                                        ELSE drop
    /\ task' = TasksResumed(t, "failed")
    /\ obj' = [r \in Sessions |->
                  IF obj[r].torrent = t /\ obj[r].rec = "saving"
                  THEN [obj[r] EXCEPT !.rec = "none"] ELSE obj[r]]
    /\ removal' = [removal EXCEPT ![t] = IF @ = "state" THEN "none" ELSE @]
    /\ UNCHANGED <<database, disk, session, op, reader, evict, current, job,
                   shutdown, gone>>

\* What startIdleDrop and dropIdleSession look at when the timer fires.
Idle(s) ==
    LET t == obj[s].torrent
    IN /\ ~Quieted(t)
       /\ drop[t].pc = "none"
       /\ obj[s].ops = 0
       /\ session[t] = s

\* The idle timer fires.
IdleTimer(s) ==
    LET t == obj[s].torrent
        fired == [obj EXCEPT ![s].timer = FALSE]
    IN /\ obj[s].timer
       /\ \/ /\ ~Idle(s)
             /\ obj' = fired
             /\ UNCHANGED <<session, saving, drop>>
          \/ /\ Idle(s) /\ obj[s].stage = "done"
             /\ obj' = fired
             /\ saving' = saving \cup {t}
             /\ drop' = [drop EXCEPT ![t] = [NoDrop EXCEPT !.pc = "saving",
                                                !.s = s, !.completed = TRUE]]
             /\ UNCHANGED session
          \/ /\ Idle(s) /\ obj[s].stage # "done"
             /\ obj' = [obj EXCEPT ![s] = ClosedObject(@)]
             /\ session' = [session EXCEPT ![t] = NoSession]
             /\ drop' = [drop EXCEPT ![t] = Disconnected(t, FALSE)]
             /\ UNCHANGED saving
          \/ \* client.remove rejects
             /\ Idle(s) /\ obj[s].stage # "done" /\ "remove" \in Incidents
             /\ obj' = fired
             /\ UNCHANGED <<session, saving, drop>>
       /\ UNCHANGED <<database, disk, op, reader, evict, preloading, removal,
                      shutdown, gone>>

\* measureCacheBytes: with metadata the entry is recorded and the cache pruned,
\* without it the directory is deleted first.
DropMeasured(t) ==
    LET rows == RecordCache(cache, t, disk[t], drop[t].completed)
        victims == Victims(rows, Reading)
    IN /\ drop[t].pc = "measuring"
       /\ \/ /\ metadata[t] # "none"
             /\ cache' = rows
             /\ Prune(victims)
             /\ drop' = [drop EXCEPT ![t].pc = "pruning", ![t].wait = victims]
          \/ /\ metadata[t] = "none"
             /\ drop' = [drop EXCEPT ![t].pc = "wiping"]
             /\ UNCHANGED <<cache, evict>>
       /\ UNCHANGED <<history, registration, metadata, disk, session, obj, op,
                      reader, saving, preloading, removal, shutdown, gone>>
DropWiped(t) ==
    LET victims == Victims(cache, Reading)
    IN /\ drop[t].pc = "wiping"
       /\ disk' = [disk EXCEPT ![t] = 0]
       /\ Prune(victims)
       /\ drop' = [drop EXCEPT ![t].pc = "pruning", ![t].wait = victims]
       /\ UNCHANGED <<database, session, obj, op, reader, saving, preloading,
                      removal, shutdown, gone>>
DropDone(t) ==
    /\ drop[t].pc = "pruning"
    /\ drop[t].wait = {}
    /\ drop' = [drop EXCEPT ![t] = NoDrop]
    /\ UNCHANGED <<database, disk, session, obj, op, reader, saving, evict,
                   preloading, removal, shutdown, gone>>

-----------------------------------------------------------------------------
(***************************************************************************)
(* Removal: each await of performReservedRemoval in turn.                  *)
(***************************************************************************)

RemoveTorrent(t) ==
    /\ Accepts(t)
    /\ removal' = [removal EXCEPT ![t] = "before"]
    /\ UNCHANGED <<database, disk, session, obj, op, reader, saving, evict,
                   drop, preloading, shutdown, gone>>

\* The cancellation of the transcriptions may time out.
RemovalPrepared(t) ==
    /\ removal[t] = "before"
    /\ \/ removal' = [removal EXCEPT ![t] = "evict"]
       \/ "before" \in Incidents /\ removal' = [removal EXCEPT ![t] = "none"]
    /\ UNCHANGED <<database, disk, session, obj, op, reader, saving, evict,
                   drop, preloading, shutdown, gone>>

\* The promise it awaits at pc has settled; the next maps are read after that.
Settled(t, pc) ==
    CASE pc = "evict" -> evict[t] = "none"
      [] pc = "drop" -> drop[t].pc = "none"
      [] pc = "readers" -> ReadersOf(t) = {}
NextAwait == [evict |-> "drop", drop |-> "state", readers |-> "rm"]
RemovalAwaits(t) ==
    /\ removal[t] \in DOMAIN NextAwait
    /\ Settled(t, removal[t])
    /\ removal' = [removal EXCEPT ![t] = NextAwait[@]]
    /\ UNCHANGED <<database, disk, session, obj, op, reader, saving, evict,
                   drop, preloading, shutdown, gone>>

\* The preload is aborted, and awaited.
RemovalAborts(t) ==
    /\ removal[t] = "state"
    /\ t \notin saving
    /\ removal' = [removal EXCEPT ![t] = "preload"]
    /\ task' = [p \in Preloads |-> IF current[t] = p
                                   THEN [task[p] EXCEPT !.aborted = TRUE]
                                   ELSE task[p]]
    /\ UNCHANGED <<database, disk, session, obj, op, reader, saving, evict,
                   drop, current, job, shutdown, gone>>

\* client.remove of the session, if there is one.  The finally block drops what
\* is kept of a preload, here when client.remove rejects.
RemovalDisconnects(t) ==
    LET s == session[t]
    IN /\ removal[t] = "preload"
       /\ current[t] = NoPreload
       /\ \/ /\ removal' = [removal EXCEPT ![t] = "readers"]
             /\ session' = [session EXCEPT ![t] = NoSession]
             /\ obj' = [r \in Sessions |-> IF r = s THEN ClosedObject(obj[r])
                                                    ELSE obj[r]]
             /\ UNCHANGED job
          \/ /\ s # NoSession /\ "remove" \in Incidents
             /\ removal' = [removal EXCEPT ![t] = "none"]
             /\ obj' = [obj EXCEPT ![s].timer = FALSE]
             /\ job' = [job EXCEPT ![t] = NoJob]
             /\ UNCHANGED session
       /\ UNCHANGED <<database, disk, op, reader, saving, evict, drop, task,
                      current, shutdown, gone>>

RemovalDeletes(t) ==
    /\ removal[t] = "rm"
    /\ removal' = [removal EXCEPT ![t] = "row"]
    /\ disk' = [disk EXCEPT ![t] = 0]
    /\ UNCHANGED <<database, session, obj, op, reader, saving, evict, drop,
                   preloading, shutdown, gone>>

\* deleteTorrent: every torrent table refers to torrent_history and cascades.
RemovalForgets(t) ==
    /\ removal[t] = "row"
    /\ removal' = [removal EXCEPT ![t] = "none"]
    /\ history' = history \ {t}
    /\ registration' = [registration EXCEPT ![t] = "none"]
    /\ metadata' = [metadata EXCEPT ![t] = "none"]
    /\ cache' = Without(cache, t)
    /\ job' = [job EXCEPT ![t] = NoJob]
    /\ gone' = gone \cup {t}
    /\ UNCHANGED <<disk, session, obj, op, reader, saving, evict, drop, task,
                   current, shutdown>>

-----------------------------------------------------------------------------
(***************************************************************************)
(* Shutdown, crash and boot.                                               *)
(***************************************************************************)

\* close(): preloads are aborted and idle timers cleared.
Close ==
    /\ "stop" \in Incidents
    /\ phase = "up"
    /\ phase' = "removals"
    /\ task' = [p \in Preloads |->
                   IF \E t \in Torrents : current[t] = p
                   THEN [task[p] EXCEPT !.aborted = TRUE] ELSE task[p]]
    /\ obj' = [s \in Sessions |->
                  IF obj[s].live THEN [obj[s] EXCEPT !.timer = FALSE] ELSE obj[s]]
    /\ UNCHANGED <<database, disk, session, op, reader, saving, evict, drop,
                   current, job, removal, closeWait, closeSessions, gone>>

FaultyCloseAwaits ==
    /\ \/ /\ phase = "removals"
          /\ \A t \in Torrents : removal[t] = "none"
          /\ phase' = "drops"
          /\ UNCHANGED closeWait
       \/ /\ phase = "drops"
          /\ \A t \in Torrents : session[t] = NoSession
          /\ phase' = "evictions"
          /\ closeWait' = {t \in Torrents : evict[t] # "none"}
    /\ UNCHANGED <<database, disk, session, obj, op, reader, saving, evict,
                   drop, preloading, removal, closeSessions, gone>>
\* It awaits the removals, then the idle drops, then the evictions it finds,
CloseAwaits ==
    /\ \/ /\ phase = "removals"
          /\ \A t \in Torrents : removal[t] = "none"
          /\ phase' = "drops"
          /\ UNCHANGED closeWait
       \/ /\ phase = "drops"
          /\ \A t \in Torrents : drop[t].pc = "none"
          /\ phase' = "evictions"
          /\ closeWait' = {t \in Torrents : evict[t] # "none"}
    /\ UNCHANGED <<database, disk, session, obj, op, reader, saving, evict,
                   drop, preloading, removal, closeSessions, gone>>

\* then the saves of the sessions that are complete,
CloseSaves ==
    /\ phase = "evictions"
    /\ closeWait = {}
    /\ phase' = "states"
    /\ closeSessions' = {session[t] : t \in Torrents} \ {NoSession}
    /\ saving' = saving \cup {t \in Torrents : /\ session[t] # NoSession
                                              /\ obj[session[t]].stage = "done"}
    /\ UNCHANGED <<database, disk, session, obj, op, reader, evict, drop,
                   preloading, removal, closeWait, gone>>

\* destroys the client and with it every torrent,
CloseDestroys ==
    /\ phase = "states"
    /\ saving = {}
    /\ phase' = "preloads"
    /\ session' = [t \in Torrents |-> NoSession]
    /\ obj' = [s \in Sessions |-> IF obj[s].live THEN ClosedObject(obj[s])
                                                 ELSE obj[s]]
    /\ UNCHANGED <<database, disk, op, reader, saving, evict, drop, preloading,
                   removal, closeWait, closeSessions, gone>>

FaultyPreloadsSettled == TRUE
\* awaits the preloads,
PreloadsSettled == \A t \in Torrents : current[t] = NoPreload
ClosePreloads ==
    /\ phase = "preloads"
    /\ PreloadsSettled
    /\ phase' = "record"
    /\ UNCHANGED <<database, disk, session, obj, op, reader, saving, evict,
                   drop, preloading, removal, closeWait, closeSessions, gone>>

\* records the cache of every session it closed,
CloseRecords(s) ==
    LET t == obj[s].torrent
    IN /\ phase = "record"
       /\ s \in closeSessions
       /\ closeSessions' = closeSessions \ {s}
       /\ cache' = IF metadata[t] = "none" THEN cache
                   ELSE RecordCache(cache, t, disk[t], obj[s].stage = "done")
       /\ UNCHANGED <<history, registration, metadata, disk, session, obj, op,
                      reader, saving, evict, drop, preloading, removal, phase,
                      closeWait, gone>>

\* prunes the cache,
ClosePrunes ==
    LET victims == Victims(cache, Reading)
    IN /\ phase = "record"
       /\ closeSessions = {}
       /\ phase' = "prune"
       /\ closeWait' = victims
       /\ Prune(victims)
       /\ UNCHANGED <<database, disk, session, obj, op, reader, saving, drop,
                      preloading, removal, closeSessions, gone>>

MemoryLost ==
    /\ phase' = "down"
    /\ session' = [t \in Torrents |-> NoSession]
    /\ obj' = [s \in Sessions |-> NoObject]
    /\ op' = [o \in Ops |-> NoOp]
    /\ reader' = [r \in Readers |-> NoReader]
    /\ saving' = {}
    /\ evict' = [t \in Torrents |-> "none"]
    /\ drop' = [t \in Torrents |-> NoDrop]
    /\ task' = [p \in Preloads |-> NoTask]
    /\ current' = [t \in Torrents |-> NoPreload]
    /\ job' = [t \in Torrents |-> NoJob]
    /\ removal' = [t \in Torrents |-> "none"]
    /\ closeWait' = {}
    /\ closeSessions' = {}
    /\ UNCHANGED <<database, disk, gone>>

\* and the process closes the database and exits.
Closed == phase = "prune" /\ closeWait = {}
Exit == Closed /\ MemoryLost
\* The process dies, or its shutdown takes too long.
Crash == "crash" \in Incidents /\ phase # "down" /\ MemoryLost

\* restoreBackgroundDownloads: a session and a preload for each of these.
Restored ==
    {t \in Torrents : registration[t] = "background" /\ ~CompletedCache(t)}
Boot ==
    /\ phase = "down"
    /\ phase' = "up"
    /\ \E place \in [Restored -> Sessions \cap Preloads] :
        /\ \A t, u \in Restored : place[t] = place[u] => t = u
        /\ \A t, u \in Restored : place[t] <= Cardinality(Restored)
        /\ session' = [t \in Torrents |-> IF t \in Restored THEN place[t]
                                                            ELSE NoSession]
        /\ obj' = [s \in Sessions |->
              IF \E t \in Restored : place[t] = s
              THEN [NewObject(CHOOSE t \in Restored : place[t] = s)
                        EXCEPT !.ops = 1, !.timer = FALSE]
              ELSE NoObject]
        /\ task' = [p \in Preloads |->
              IF \E t \in Restored : place[t] = p
              THEN [NoTask EXCEPT !.pc = "ready", !.s = p,
                        !.torrent = CHOOSE t \in Restored : place[t] = p]
              ELSE NoTask]
        /\ current' = [t \in Torrents |-> IF t \in Restored THEN place[t]
                                                            ELSE NoPreload]
        /\ job' = [t \in Torrents |->
              IF t \in Restored THEN [state |-> "running", by |-> place[t]]
                                ELSE NoJob]
    /\ UNCHANGED <<database, disk, op, reader, saving, evict, drop, removal,
                   closeWait, closeSessions, gone>>

Init ==
    /\ history = Stored
    /\ registration = [t \in Torrents |-> IF t \in Stored THEN "plain" ELSE "none"]
    /\ metadata = [t \in Torrents |-> IF t \in Stored THEN "completed" ELSE "none"]
    /\ cache = [i \in 1..Cardinality(Stored) |->
                  [torrent |-> SetToSeq(Stored)[i], bytes |-> Pieces,
                   completed |-> TRUE]]
    /\ disk = [t \in Torrents |-> IF t \in Stored THEN Pieces ELSE 0]
    /\ phase = "down"
    /\ session = [t \in Torrents |-> NoSession]
    /\ obj = [s \in Sessions |-> NoObject]
    /\ op = [o \in Ops |-> NoOp]
    /\ reader = [r \in Readers |-> NoReader]
    /\ saving = {}
    /\ evict = [t \in Torrents |-> "none"]
    /\ drop = [t \in Torrents |-> NoDrop]
    /\ task = [p \in Preloads |-> NoTask]
    /\ current = [t \in Torrents |-> NoPreload]
    /\ job = [t \in Torrents |-> NoJob]
    /\ removal = [t \in Torrents |-> "none"]
    /\ closeWait = {}
    /\ closeSessions = {}
    /\ gone = {}

\* API requests
Api ==
    \/ \E t \in Torrents :
          \/ /\ "register" \in Routes
             /\ \E background \in BOOLEAN : Register(t, background)
          \/ "preload" \in Routes /\ StartPreload(t)
          \/ "remove" \in Routes /\ RemoveTorrent(t)
          \/ \E o \in Ops : Request(o, t, "metadata") \/ Request(o, t, "ready")
          \/ \E r \in Readers : OpenReader(r, t)
\* What the client, WebTorrent or the operator may do and need not
Environment ==
    \/ \E s \in Sessions : MetadataEvent(s) \/ ReadyEvent(s) \/ Download(s)
                            \/ TorrentFails(s)
    \/ \E o \in Ops : Answer(o)
    \/ \E r \in Readers : Validate(r)
    \/ Close \/ Crash
\* What the manager does once what it awaits has settled
EvictSteps(t) == EvictDelete(t) \/ EvictRecord(t)
SaveSteps(t) == StateSaved(t) \/ StateNotSaved(t)
DropSteps(t) == DropMeasured(t) \/ DropWiped(t) \/ DropDone(t)
RemovalSteps(t) ==
    \/ RemovalPrepared(t) \/ RemovalAwaits(t) \/ RemovalAborts(t)
    \/ RemovalDisconnects(t) \/ RemovalDeletes(t) \/ RemovalForgets(t)
PreloadSteps(p) ==
    \/ PreloadReady(p) \/ PreloadConsumed(p) \/ PreloadGivesUp(p)
    \/ PreloadFails(p) \/ PreloadMeasured(p) \/ PreloadUnrecorded(p)
    \/ PreloadCompletes(p)
SessionSteps(s) == DoneEvent(s) \/ CompletionMeasured(s)
CloseSteps ==
    \/ CloseAwaits \/ CloseSaves \/ CloseDestroys \/ ClosePreloads
    \/ \E s \in Sessions : CloseRecords(s)
    \/ ClosePrunes \/ Exit
Internal ==
    \/ \E t \in Torrents : \/ EvictSteps(t) \/ SaveSteps(t)
                           \/ DropSteps(t) \/ RemovalSteps(t)
    \/ \E p \in Preloads : PreloadSteps(p)
    \/ \E s \in Sessions : SessionSteps(s)
    \/ CloseSteps
Timers == \E s \in Sessions : IdleTimer(s)
Clients == (\E o \in Ops : EndRequest(o)) \/ \E r \in Readers : CloseReader(r)

Next == Boot \/ Api \/ Environment \/ Internal \/ Timers \/ Clients
Spec == Init /\ [][Next]_vars

\* The disk answers, promises settle, and a direct reader is closed: its signal
\* is aborted by the cancellation a removal or a shutdown begins with.
Fairness ==
    /\ \A t \in Torrents : /\ WF_vars(EvictSteps(t)) /\ WF_vars(SaveSteps(t))
                           /\ WF_vars(DropSteps(t)) /\ WF_vars(RemovalSteps(t))
    /\ \A p \in Preloads : WF_vars(PreloadSteps(p))
    /\ \A s \in Sessions : WF_vars(SessionSteps(s))
    /\ WF_vars(CloseSteps)
    /\ \A r \in Readers : WF_vars(CloseReader(r))
FairSpec == Spec /\ Fairness

-----------------------------------------------------------------------------
(***************************************************************************)
(* Properties.                                                             *)
(***************************************************************************)

\* Types: every variable keeps its shape.
TypeOK ==
    /\ history \subseteq Torrents
    /\ registration \in [Torrents -> {"none", "plain", "background"}]
    /\ metadata \in [Torrents -> {"none", "partial", "completed"}]
    /\ cache \in Seq(Row)
    /\ disk \in [Torrents -> 0..Pieces]
    /\ phase \in Phases
    /\ session \in [Torrents -> Sessions \cup {NoSession}]
    /\ obj \in [Sessions -> Object]
    /\ op \in [Ops -> Op]
    /\ reader \in [Readers -> Reader]
    /\ saving \subseteq Torrents
    /\ evict \in [Torrents -> {"none", "rm", "row"}]
    /\ drop \in [Torrents -> Drop]
    /\ task \in [Preloads -> Task]
    /\ current \in [Torrents -> Preloads \cup {NoPreload}]
    /\ job \in [Torrents -> Job]
    /\ removal \in [Torrents -> RemovalPcs]
    /\ closeWait \subseteq Torrents
    /\ closeSessions \subseteq Sessions
    /\ gone \subseteq Torrents

\* The torrents alive in the WebTorrent client are exactly those of the session
\* map: no race of requests, idle drops, removals and errors leaves a torrent
\* that nobody will ever close, nor two torrents on one directory.
SessionsMatchTorrents ==
    \A s \in Sessions :
        obj[s].live <=> \E t \in Torrents : session[t] = s /\ obj[s].torrent = t

\* activeOperations is the number of requests and preloads that hold the
\* session, also when the torrent closed or the removal failed under them.
OperationsCounted ==
    \A s \in Sessions :
        obj[s].ops = Cardinality({o \in Ops : op[o].s = s})
                   + Cardinality({p \in Preloads : task[p].s = s})

\* Sessions in the map, torrents in the client and whoever holds them are accounted
\* for, whatever fails or closes under them.
SessionsSound == TypeOK /\ SessionsMatchTorrents /\ OperationsCounted

\* A removed torrent stays removed: until the next request for it, nothing that
\* was under way brings back a row, a file, a session or a preload status.
RemovedMeansGone ==
    \A t \in gone :
        /\ t \notin history
        /\ metadata[t] = "none"
        /\ registration[t] = "none"
        /\ ~Has(cache, t)
        /\ disk[t] = 0
        /\ session[t] = NoSession
        /\ job[t] = NoJob

\* Neither an eviction nor a removal deletes files while a direct cache reader is
\* validating or reading them, whichever of the two came first.
ReadersKeepFiles ==
    \A r \in Readers :
        reader[r].pc # "none" =>
            /\ evict[reader[r].torrent] = "none"
            /\ removal[reader[r].torrent] \notin {"rm", "row"}

\* The server is up and nothing of it is under way.
Quiet ==
    /\ phase = "up"
    /\ saving = {}
    /\ \A t \in Torrents : /\ session[t] = NoSession /\ evict[t] = "none"
                           /\ drop[t].pc = "none" /\ removal[t] = "none"
    /\ \A s \in Sessions : obj[s].rec = "none"
    /\ \A p \in Preloads : task[p].pc = "none"
    /\ Reading = {}
DiskUse ==
    FoldLeft(LAMBDA sum, t : sum + IF metadata[t] = "none" THEN 0 ELSE disk[t],
             0, SetToSeq(Torrents))
\* This one does not hold: a crash leaves files without a row, and prunes go by rows.
\* Once everything has settled the files of the torrents in the catalogue fit the
\* capacity, whatever overlapped before.
DiskBounded == Quiet => DiskUse <= Capacity

\* A prune is enough and starts at the old end: of what is left without being
\* evicted either the bytes fit the capacity, or every torrent is in use; and what
\* it spares though idle was used after all that it evicts.
PruneStep ==
    LET InUse(t) == \/ session'[t] # NoSession \/ removal'[t] # "none"
                    \/ \E r \in Readers : reader'[r].torrent = t
        kept == {i \in DOMAIN cache' : evict'[cache'[i].torrent] = "none"}
        evicted == {t \in Torrents : evict[t] # "rm" /\ evict'[t] = "rm"}
        pruned ==
            \/ \E t \in Torrents :
                  drop[t].pc # "pruning" /\ drop'[t].pc = "pruning"
            \/ \E p \in Preloads :
                  task[p].pc # "pruning" /\ task'[p].pc = "pruning"
            \/ phase # "prune" /\ phase' = "prune"
    IN /\ pruned => \/ Bytes(cache', kept) <= Capacity
                    \/ \A i \in kept : InUse(cache'[i].torrent)
       /\ \A i \in kept, j \in DOMAIN cache' :
             cache'[j].torrent \in evicted /\ ~InUse(cache'[i].torrent) => j < i

\* No prune evicts less than it must, or what was used more recently than what it
\* leaves, also when prunes overlap with each other, removals and readers (pruneCache).
PruneFits == [][PruneStep]_vars

\* While no removal or shutdown silences it, a preload whose status is running
\* has a frame that will end it; else neither a new registration nor a new
\* preload would ever start one again.  Not so if a removal fails before it
\* awaits the preload, which may have given up by then.
RunningPreloadRuns ==
    \A t \in Torrents :
        job[t].state = "running" /\ ~Quieted(t)
        => \E p \in Preloads : job[t].by = p /\ task[p].torrent = t

\* A preload that close() does not know: its torrent failed and was evicted while
\* it recorded the cache, and another was started since.
Overlooked(p) == task[p].pc # "none" /\ current[task[p].torrent] # p

\* When close() is done nothing that it knew of is left that would still write: the
\* database is closed next.
ClosedIsQuiet ==
    Closed /\ (\A p \in Preloads : ~Overlooked(p)) =>
        /\ saving = {}
        /\ \A t \in Torrents : /\ evict[t] = "none" /\ drop[t].pc = "none"
                               /\ removal[t] = "none" /\ session[t] = NoSession
        /\ \A p \in Preloads : task[p].pc = "none"

\* This one does not hold: dropIdleSession looks at activeOperations before an await.
\* An idle drop closes no torrent that a request or a preload uses.
OnlyIdleDropped ==
    [][\A t \in Torrents :
         drop[t].pc # "measuring" /\ drop'[t].pc = "measuring"
         => session[t] # NoSession /\ obj[session[t]].ops = 0]_vars

\* Nor does this one: neither a new session nor its completion looks at evictions.
\* The listeners (the transcription queue) hear of a completion, and find the
\* torrent completed in the catalogue, only when its files are there.
ScheduledIsLocal ==
    [][\A t \in Torrents :
         /\ \/ \E p \in Preloads : /\ task[p].torrent = t
                                   /\ task[p].pc = "pruning"
                                   /\ task'[p] = NoTask
            \/ \E s \in Sessions : /\ obj[s].torrent = t
                                   /\ obj[s].rec = "measuring"
                                   /\ obj'[s].rec = "none" /\ Records(s)
         /\ CompletedCache(t)'
         /\ phase' # "down"
         => disk'[t] = Pieces]_vars

\* A removal comes to an end, whatever it finds under way.
RemovalEnds ==
    \A t \in Torrents : removal[t] # "none" ~> removal[t] = "none"

\* A shutdown comes to an end.
CloseEnds == phase \notin {"up", "down"} ~> phase = "down"

\* Nobody waits for ever for a removal or a shutdown, though no peer ever answers.
RemovalAndCloseEnd == RemovalEnds /\ CloseEnds

=============================================================================
