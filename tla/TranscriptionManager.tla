------------------------- MODULE TranscriptionManager -------------------------
(***************************************************************************)
(* The server's transcription queue: src/server/transcription/manager.ts   *)
(* with the rows of src/server/database.ts it works on, the removal of a   *)
(* torrent as src/server/torrent/manager.ts runs it around the queue, and  *)
(* the boot and shutdown of src/server/index.ts.                           *)
(*                                                                         *)
(* The manager runs on one JavaScript thread.  What executes between two   *)
(* awaits is one action here; everything that may run in between (another  *)
(* request, a promise that settles, a timer, a crash) is another action.   *)
(* Three kinds of state meet: SQLite rows, which survive a crash; the maps *)
(* of the manager, which do not; and the physical resources an attempt     *)
(* uses (cache lease, FFmpeg, speech request), which settle when they like *)
(* and perhaps never.                                                      *)
(*                                                                         *)
(* Definitions named Faulty... are variants of the definition after them   *)
(* with a plausible bug.  Nothing uses them: they are put in its place to  *)
(* see that the properties notice.                                         *)
(***************************************************************************)
EXTENDS Naturals, FiniteSets, Sequences

CONSTANTS
    Torrents,     \* info hashes
    Keys,         \* audio files, as <<torrent, position in the torrent>>
    Clients,      \* requests that may be waiting on the manager at one time
    Setting,      \* the slot of the settings request at the head of its chain
    Models,       \* speech models of the builds that are booted
    MaxInputs,    \* bound: API requests and evictions
    MaxBoots,     \* bound: server starts
    MaxWindows    \* bound: audio windows of a file

ASSUME KeysAssumption ==
    /\ Keys \subseteq Torrents \X Nat
    /\ IsFiniteSet(Keys)
ASSUME SlotAssumption == IsFiniteSet(Clients) /\ Setting \notin Clients
ASSUME BoundsAssumption ==
    /\ MaxInputs \in Nat
    /\ MaxBoots \in Nat
    /\ MaxWindows \in Nat

NoTorrent == "no torrent"
NoModel == "no model"
ASSUME NamesAssumption == NoTorrent \notin Torrents /\ NoModel \notin Models

VARIABLES
    \* SQLite
    job,             \* transcription_jobs, one row a file
    artifact,        \* caption_artifacts
    automatic,       \* transcription_settings.automatic_enabled
    known,           \* torrent_history
    local,           \* metadata and cache both marked completed
    \* the TranscriptionManager
    mode,            \* down, starting, serving, closing
    model,           \* provider.model of this build
    lastTs,          \* lastQueueTimestampMs
    pending,         \* pendingJobs
    pendingAttempts, \* 0 when the map has no entry
    pumpScheduled,   \* a pump() microtask is queued
    exec,            \* activeJobs, with the frame of the attempt's execute()
    activePromise,   \* 0, or the queue time of the attempt it belongs to
    suspensions,     \* pumpSuspensions
    purge,           \* purgeAfterCleanup, 0 when the map has no entry
    cancelling,      \* cancellingTorrents
    deferred,        \* the promise that releases a torrent of cancelling
    transitions,     \* automaticSettingTransition: values still to be applied
    scanning,        \* scanLocallyAvailableTorrents is running
    scan,            \* the torrents it has not looked at yet
    calls,           \* queueTorrent and queueFile calls that await their files
    slot,            \* what the request of each slot is waiting for
    removing,        \* removalPromises of the TorrentManager
    \* physical resources of the attempt of a file
    lease,           \* direct cache reader: none, opening, held
    worker,          \* FFmpeg: none, decoding, window (awaits onWindow)
    provider,        \* speech request: idle, busy, orphan (abandoned, unsettled)
    \* bounds
    inputs, boots

database == <<job, artifact, automatic, known, local>>
queue == <<pending, pendingAttempts, pumpScheduled>>
setting == <<transitions, scanning, scan>>
resources == <<lease, worker, provider>>
bounds == <<inputs, boots>>
vars == <<database, mode, model, lastTs, queue, exec, activePromise,
          suspensions, purge, cancelling, deferred, setting, calls, slot,
          removing, resources, bounds>>

Slots == Clients \cup {Setting}
Triggers == {"automatic", "manual"}
ACTIVE_STATES == {"queued", "preparing", "transcribing"}
States == ACTIVE_STATES \cup {"none", "completed", "failed", "cancelled"}
Codes == {"none", "cancelled", "automatic_disabled", "server_interrupted",
          "transcription_stalled", "timeout", "failed"}

\* The queue timestamp ts stands for updatedAt of the queued row: it is unique
\* and orders attempts, also where a purge starts attempt numbers again at 1.
Row == [state: States, attempt: Nat, trigger: Triggers, code: Codes,
        model: Models \cup {NoModel}, ts: Nat]
NoRow == [state |-> "none", attempt |-> 0, trigger |-> "manual",
          code |-> "none", model |-> NoModel, ts |-> 0]
Artifact == [model: Models \cup {NoModel}, ts: Nat]
NoArtifact == [model |-> NoModel, ts |-> 0]

\* abort is the reason operationController was aborted with, "done" when
\* execute() aborts it to release what a finished attempt still holds.
Frame == [pc: {"none", "opening", "transcribing", "cleanup"}, job: Row,
          abort: {"none", "done", "cancelled", "transcription_stalled",
                  "timeout", "failed"},
          cancelled: BOOLEAN, timer: {"none", "watchdog", "request"},
          windows: Nat]
NoFrame == [pc |-> "none", job |-> NoRow, abort |-> "none",
            cancelled |-> FALSE, timer |-> "none", windows |-> 0]

Entry == [key: Keys, attempt: Nat, place: Nat]
Call == [torrent: Torrents, files: SUBSET Keys, trigger: Triggers,
         origin: {"request", "listener", "scan", "rescan"}]
Slot == [op: {"none", "file", "torrent", "disable", "reserved", "removal",
              "deleting"},
         torrent: Torrents \cup {NoTorrent}, on: Nat]
NoSlot == [op |-> "none", torrent |-> NoTorrent, on |-> 0]

Each(value) == [k \in Keys |-> value]
FilesOf(t) == {k \in Keys : k[1] = t}
Active(row) == row.state \in ACTIVE_STATES
Running(k) == exec[k].pc # "none" /\ exec[k].job.attempt = job[k].attempt
\* isJobOwned: the attempt may still write its row.
Owned(k) == job[k].attempt = exec[k].job.attempt /\ Active(job[k])
HasActiveTorrent(t) == \E k \in FilesOf(t) : exec[k].pc # "none"
LocallyAvailable == {t \in Torrents : known[t] /\ local[t]}
FaultyWaiting(s) == slot[s].op \in {"file", "torrent", "disable"}
\* Waiting in confirmCleanup, with the pump suspended.
Waiting(s) == slot[s].op \in {"file", "torrent", "disable", "removal"}
Settled(s) == activePromise # slot[s].on

-----------------------------------------------------------------------------
(***************************************************************************)
(* The queue.                                                              *)
(***************************************************************************)

FaultyIdle(owner, suspended) ==
    mode # "closing" /\ owner = 0 /\ suspensions = 0
\* What pump() reads before it starts the next attempt.
Idle(owner, suspended) == mode # "closing" /\ owner = 0 /\ suspended = 0

\* An entry is live while the map of pending attempts and the row agree with it.
Live(e, rows, attempts) ==
    /\ attempts[e.key] = e.attempt
    /\ rows[e.key].state = "queued"
    /\ rows[e.key].attempt = e.attempt

\* execute() up to its first await: the row is put as preparing, the watchdog
\* armed, and openCachedFile takes a reader lease unless the torrent is being
\* removed.
Start(e, rows, execs) ==
    LET row == [rows[e.key] EXCEPT !.state = "preparing"] IN
    /\ job' = [rows EXCEPT ![e.key] = row]
    /\ exec' = [execs EXCEPT ![e.key] =
                   [NoFrame EXCEPT !.pc = "opening", !.job = row,
                                   !.timer = "watchdog"]]
    /\ activePromise' = row.ts
    /\ lease' = [lease EXCEPT ![e.key] =
                    IF e.key[1] \in removing THEN "none" ELSE "opening"]

\* pump(), called in the middle of a handler that has already computed these
\* rows, entries and frames.  pendingJobs is the set of its entries, `place`
\* their order.
Pump(rows, entries, attempts, execs, owner, suspended, scheduled) ==
    IF ~Idle(owner, suspended) \/ entries = {}
    THEN /\ job' = rows
         /\ pending' = entries
         /\ pendingAttempts' = attempts
         /\ exec' = execs
         /\ activePromise' = owner
         /\ pumpScheduled' = scheduled
         /\ UNCHANGED lease
    ELSE \E e \in entries :
         /\ \A f \in entries : e.place <= f.place
         /\ pending' = entries \ {e}
         /\ IF attempts[e.key] = e.attempt
            THEN pendingAttempts' = [attempts EXCEPT ![e.key] = 0]
            ELSE pendingAttempts' = attempts
         /\ IF Live(e, rows, attempts)
            THEN Start(e, rows, execs) /\ pumpScheduled' = scheduled
            ELSE /\ job' = rows
                 /\ exec' = execs
                 /\ activePromise' = owner
                 /\ pumpScheduled' = TRUE
                 /\ UNCHANGED lease

PumpMicrotask ==
    /\ mode # "down"
    /\ pumpScheduled
    /\ Pump(job, pending, pendingAttempts, exec, activePromise, suspensions,
            FALSE)
    /\ UNCHANGED <<artifact, automatic, known, local, mode, model, lastTs,
                   suspensions, purge, cancelling, deferred, setting, calls,
                   slot, removing, worker, provider, bounds>>

FaultyCleanupPending(k) == ~Active(job[k]) /\ exec[k].pc # "none"
\* queueFileRecord, one early return after the other.
CleanupPending(k) ==
    ~Active(job[k]) /\ (k[1] \in cancelling \/ exec[k].pc # "none")
LeftAlone(k) ==
    \/ job[k].state = "failed"
    \/ job[k].state = "cancelled" /\ job[k].code # "automatic_disabled"
UpToDate(k) ==
    job[k].state = "completed" /\ job[k].model = model /\ artifact[k].model = model
Queues(k, trigger) ==
    /\ ~Active(job[k])
    /\ ~CleanupPending(k)
    /\ ~(trigger = "automatic" /\ LeftAlone(k))
    /\ ~UpToDate(k)
    /\ trigger = "automatic" => automatic

FaultyQueuedBy(c) ==
    IF mode = "closing" \/ ~known[c.torrent] THEN {}
    ELSE {k \in c.files : Queues(k, c.trigger)}
\* The loop of queueTorrent queues these files: a file whose cleanup is pending
\* is skipped by an automatic call and ends a manual one; a queue that is
\* closing, a removal and a torrent without a history row refuse every file.
QueuedBy(c) ==
    IF mode = "closing" \/ c.torrent \in removing \/ ~known[c.torrent]
    THEN {}
    ELSE {k \in c.files :
             /\ Queues(k, c.trigger)
             /\ c.trigger = "automatic"
                \/ ~\E j \in c.files : CleanupPending(j) /\ j[2] <= k[2]}

QueuedRow(k, trigger, ts) ==
    [state |-> "queued", attempt |-> job[k].attempt + 1, trigger |-> trigger,
     code |-> "none", model |-> model, ts |-> ts]

\* The call's files are known: nextQueueTimestamp, putTranscriptionJob and
\* enqueue for each of its files that is queued, in file order.
RunCall(c) ==
    /\ c \in calls
    /\ mode # "down"
    /\ calls' = calls \ {c}
    /\ LET new == QueuedBy(c)
           ts(k) == lastTs + Cardinality({j \in new : j[2] <= k[2]})
           pushed == {k \in new : pendingAttempts[k] = 0 /\ exec[k].pc = "none"}
       IN /\ job' = [k \in Keys |->
                        IF k \in new THEN QueuedRow(k, c.trigger, ts(k))
                                     ELSE job[k]]
          /\ lastTs' = lastTs + Cardinality(new)
          /\ pending' = pending \cup
                 {[key |-> k, attempt |-> job[k].attempt + 1, place |-> ts(k)] :
                     k \in pushed}
          /\ pendingAttempts' = [k \in Keys |->
                 IF k \in pushed THEN job[k].attempt + 1 ELSE pendingAttempts[k]]
          /\ pumpScheduled' = (pumpScheduled \/ pushed # {})
    /\ UNCHANGED <<artifact, automatic, known, local, mode, model, exec,
                   activePromise, suspensions, purge, cancelling, deferred,
                   setting, slot, removing, resources, bounds>>

\* The request of the call went away, or its file failed validation.
AbandonCall(c) ==
    /\ c \in calls
    /\ c.origin = "request"
    /\ calls' = calls \ {c}
    /\ UNCHANGED <<database, mode, model, lastTs, queue, exec, activePromise,
                   suspensions, purge, cancelling, deferred, setting, slot,
                   removing, resources, bounds>>

AutomaticCall(t, origin) ==
    [torrent |-> t, files |-> FilesOf(t), trigger |-> "automatic",
     origin |-> origin]

Input == inputs < MaxInputs /\ inputs' = inputs + 1
Accepts == mode = "serving" /\ Input

\* POST .../transcriptions and .../files/:fileId/transcription.  A whole torrent
\* must be cached; a single file is validated on its own.
ManualCall(t, files) ==
    /\ Accepts
    /\ calls' = calls \cup {[torrent |-> t, files |-> files,
                             trigger |-> "manual", origin |-> "request"]}
    /\ UNCHANGED <<database, mode, model, lastTs, queue, exec, activePromise,
                   suspensions, purge, cancelling, deferred, setting, slot,
                   removing, resources, boots>>
QueueTorrent(t) == t \in LocallyAvailable /\ ManualCall(t, FilesOf(t))
QueueFile(k) == known[k[1]] /\ k[1] \notin removing /\ ManualCall(k[1], {k})

-----------------------------------------------------------------------------
(***************************************************************************)
(* Cancellation.                                                           *)
(***************************************************************************)

FaultyCancelledRow(k, code) == [job[k] EXCEPT !.state = "canceled", !.code = code]
CancelledRow(k, code) == [job[k] EXCEPT !.state = "cancelled", !.code = code]

FaultyRowsAfterCancel(S, purging, code) ==
    [k \in Keys |-> IF k \notin S THEN job[k]
                    ELSE IF purging THEN NoRow
                    ELSE IF Active(job[k]) THEN CancelledRow(k, code)
                    ELSE job[k]]
\* cancelJobRecord on the rows of S: drop pending attempts, mark an attempt that
\* runs for purging and abort it, delete or cancel the other rows.
RowsAfterCancel(S, purging, code) ==
    [k \in Keys |->
        IF k \in S /\ purging /\ ~Running(k) THEN NoRow
        ELSE IF k \in S /\ Active(job[k]) THEN CancelledRow(k, code)
        ELSE job[k]]
AttemptsAfterCancel(S) ==
    [k \in Keys |->
        IF k \in S /\ pendingAttempts[k] = job[k].attempt THEN 0
        ELSE pendingAttempts[k]]
FramesAfterCancel(S) ==
    [k \in Keys |->
        IF k \in S /\ Running(k)
        THEN [exec[k] EXCEPT !.cancelled = TRUE,
                             !.abort = IF @ = "none" THEN "cancelled" ELSE @]
        ELSE exec[k]]
\* compactPendingJobs
Compacted(attempts) == {e \in pending : attempts[e.key] = e.attempt}

\* cancelJobs of the rows S, none of them absent, by the request of slot s: it
\* waits for the cleanup of an attempt that runs, with the pump suspended
\* (`waits` is its record), else the pump runs at once.
CancelJobs(S, purging, code, s, waits, done) ==
    LET rows == RowsAfterCancel(S, purging, code)
        attempts == AttemptsAfterCancel(S)
    IN /\ artifact' = [k \in Keys |->
              IF k \in S /\ purging /\ ~Running(k) THEN NoArtifact
              ELSE artifact[k]]
       /\ purge' = [k \in Keys |->
              IF k \in S /\ purging /\ Running(k) THEN job[k].attempt
              ELSE purge[k]]
       /\ IF \E k \in S : Running(k)
          THEN /\ job' = rows
               /\ pending' = Compacted(attempts)
               /\ pendingAttempts' = attempts
               /\ exec' = FramesAfterCancel(S)
               /\ suspensions' = suspensions + 1
               /\ slot' = [slot EXCEPT ![s] = waits]
               /\ UNCHANGED <<activePromise, pumpScheduled, lease>>
          ELSE /\ slot' = [slot EXCEPT ![s] = done]
               /\ IF S = {}
                  THEN UNCHANGED <<job, queue, exec, activePromise, lease>>
                  ELSE Pump(rows, Compacted(attempts), attempts,
                            FramesAfterCancel(S), activePromise, suspensions,
                            pumpScheduled)
               /\ UNCHANGED suspensions

Wait(op, t) == [op |-> op, torrent |-> t, on |-> activePromise]
RowsOf(t) == {k \in FilesOf(t) : job[k].state # "none"}

CancelFile(c, k) ==
    /\ Accepts
    /\ slot[c] = NoSlot
    /\ job[k].state # "none"
    /\ CancelJobs({k}, FALSE, "cancelled", c, Wait("file", k[1]), NoSlot)
    /\ UNCHANGED <<automatic, known, local, mode, model, lastTs, cancelling,
                   deferred, setting, calls, removing, worker, provider, boots>>

\* DELETE .../transcriptions: cancelTorrent with purge.  A torrent that is still
\* being cancelled refuses with 409.
CancelTorrent(c, t) ==
    /\ Accepts
    /\ slot[c] = NoSlot
    /\ t \notin cancelling
    /\ CancelJobs(RowsOf(t), TRUE, "cancelled", c, Wait("torrent", t), NoSlot)
    /\ cancelling' = IF \E k \in RowsOf(t) : Running(k)
                     THEN cancelling \cup {t} ELSE cancelling
    /\ UNCHANGED <<automatic, known, local, mode, model, lastTs, deferred,
                   setting, calls, removing, worker, provider, boots>>

ReleaseDue(t) == deferred[t] # 0 /\ activePromise # deferred[t]

\* pumpSuspensions -= 1, in the finally block of cancelJobs.
Resumed == suspensions - 1
\* The cleanup a request waits for has settled: confirmCleanup resolves some
\* microtasks after the other reactions to the promise, the pump is resumed,
\* cancelTorrent releases the torrent.
Confirm(s) ==
    /\ Waiting(s)
    /\ Settled(s)
    /\ \A t \in Torrents : ~ReleaseDue(t)
    /\ suspensions' = Resumed
    /\ Pump(job, pending, pendingAttempts, exec, activePromise,
            Resumed, pumpScheduled)
    /\ cancelling' = IF slot[s].op \in {"torrent", "removal"}
                     THEN cancelling \ {slot[s].torrent} ELSE cancelling
    /\ slot' = [slot EXCEPT ![s] = IF slot[s].op = "removal"
                                   THEN [NoSlot EXCEPT !.op = "deleting",
                                            !.torrent = slot[s].torrent]
                                   ELSE NoSlot]
    /\ transitions' = IF slot[s].op = "disable" THEN Tail(transitions)
                      ELSE transitions
    /\ UNCHANGED <<artifact, automatic, known, local, mode, model, lastTs,
                   purge, deferred, scanning, scan, calls, removing, worker,
                   provider, bounds>>

\* MAXIMUM_CANCELLATION_CONFIRMATION_MS passed first: 503.  The torrent stays in
\* cancellingTorrents until the attempt's promise settles.  A removal fails with
\* the error and gives up its reservation.
ConfirmTimesOut(s) ==
    /\ Waiting(s)
    /\ ~Settled(s)
    /\ suspensions' = Resumed
    /\ Pump(job, pending, pendingAttempts, exec, activePromise,
            Resumed, pumpScheduled)
    /\ LET t == slot[s].torrent
           torrentWide == slot[s].op \in {"torrent", "removal"}
           keeps == HasActiveTorrent(t) /\ activePromise # 0
       IN /\ cancelling' = IF torrentWide /\ ~keeps THEN cancelling \ {t}
                           ELSE cancelling
          /\ deferred' = IF torrentWide /\ keeps
                         THEN [deferred EXCEPT ![t] = activePromise]
                         ELSE deferred
          /\ removing' = IF slot[s].op = "removal" THEN removing \ {t}
                         ELSE removing
    /\ slot' = [slot EXCEPT ![s] = NoSlot]
    /\ transitions' = IF slot[s].op = "disable" THEN Tail(transitions)
                      ELSE transitions
    /\ UNCHANGED <<artifact, automatic, known, local, mode, model, lastTs,
                   purge, scanning, scan, calls, worker, provider, bounds>>

\* activePromise.finally of the deferred release.
ReleaseCancelling(t) ==
    /\ ReleaseDue(t)
    /\ cancelling' = cancelling \ {t}
    /\ deferred' = [deferred EXCEPT ![t] = 0]
    /\ UNCHANGED <<database, mode, model, lastTs, queue, exec, activePromise,
                   suspensions, purge, setting, calls, slot, removing,
                   resources, bounds>>

-----------------------------------------------------------------------------
(***************************************************************************)
(* Removal of a torrent: TorrentManager.remove with the route's hook.      *)
(***************************************************************************)

\* The removal is reserved before anything is awaited.
RemoveStart(c, t) ==
    /\ Accepts
    /\ slot[c] = NoSlot
    /\ t \notin removing
    /\ removing' = removing \cup {t}
    /\ slot' = [slot EXCEPT ![c] = [NoSlot EXCEPT !.op = "reserved",
                                                  !.torrent = t]]
    /\ UNCHANGED <<database, mode, model, lastTs, queue, exec, activePromise,
                   suspensions, purge, cancelling, deferred, setting, calls,
                   resources, boots>>

\* beforeRemoval: cancelTorrent without purge, or its 409.
RemoveCancel(c) ==
    /\ slot[c].op = "reserved"
    /\ LET t == slot[c].torrent IN
       IF t \in cancelling
       THEN /\ removing' = removing \ {t}
            /\ slot' = [slot EXCEPT ![c] = NoSlot]
            /\ UNCHANGED <<job, artifact, queue, exec, activePromise,
                           suspensions, purge, cancelling, lease>>
       ELSE /\ CancelJobs(RowsOf(t), FALSE, "cancelled", c, Wait("removal", t),
                          [slot[c] EXCEPT !.op = "deleting"])
            /\ cancelling' = IF \E k \in RowsOf(t) : Running(k)
                             THEN cancelling \cup {t} ELSE cancelling
            /\ UNCHANGED removing
    /\ UNCHANGED <<automatic, known, local, mode, model, lastTs, deferred,
                   setting, calls, worker, provider, bounds>>

ReadersClosed(t) == \A k \in FilesOf(t) : lease[k] = "none"

\* performRemoval: the last reader of the cache is awaited, the files go, and the
\* history row takes the torrent's other rows with it.
RemoveDelete(c) ==
    /\ slot[c].op = "deleting"
    /\ LET t == slot[c].torrent IN
       /\ ReadersClosed(t)
       /\ job' = [k \in Keys |-> IF k[1] = t THEN NoRow ELSE job[k]]
       /\ artifact' = [k \in Keys |-> IF k[1] = t THEN NoArtifact
                                      ELSE artifact[k]]
       /\ known' = [known EXCEPT ![t] = FALSE]
       /\ local' = [local EXCEPT ![t] = FALSE]
       /\ removing' = removing \ {t}
    /\ slot' = [slot EXCEPT ![c] = NoSlot]
    /\ UNCHANGED <<automatic, mode, model, lastTs, queue, exec, activePromise,
                   suspensions, purge, cancelling, deferred, setting, calls,
                   resources, bounds>>

-----------------------------------------------------------------------------
(***************************************************************************)
(* The automatic setting.  Every change is written at once and applied in  *)
(* order: automaticSettingTransition chains the calls.                     *)
(***************************************************************************)

SetAutomatic(enabled) ==
    /\ Accepts
    /\ automatic' = enabled
    /\ transitions' = Append(transitions, enabled)
    /\ UNCHANGED <<job, artifact, known, local, mode, model, lastTs, queue,
                   exec, activePromise, suspensions, purge, cancelling,
                   deferred, scanning, scan, calls, slot, removing, resources,
                   boots>>

InTurn == transitions # <<>> /\ mode \in {"serving", "closing"}
             /\ ~scanning /\ slot[Setting] = NoSlot

ApplyEnabled ==
    /\ InTurn
    /\ Head(transitions)
    /\ scanning' = TRUE
    /\ scan' = LocallyAvailable
    /\ UNCHANGED <<database, mode, model, lastTs, queue, exec, activePromise,
                   suspensions, purge, cancelling, deferred, transitions,
                   calls, slot, removing, resources, bounds>>

AutomaticJobs == {k \in Keys : Active(job[k]) /\ job[k].trigger = "automatic"}

ApplyDisabled ==
    /\ InTurn
    /\ ~Head(transitions)
    /\ CancelJobs(AutomaticJobs, FALSE, "automatic_disabled", Setting,
                  Wait("disable", NoTorrent), NoSlot)
    /\ transitions' = IF \E k \in AutomaticJobs : Running(k)
                      THEN transitions ELSE Tail(transitions)
    /\ UNCHANGED <<automatic, known, local, mode, model, lastTs, cancelling,
                   deferred, scanning, scan, calls, removing, worker, provider,
                   bounds>>

FaultyScanAwaits == calls # {}
ScanAwaits == \E c \in calls : c.origin = "scan"

\* scanLocallyAvailableTorrents awaits one queueTorrent after the other.  The
\* list is ordered by last access, so any torrent may come next.
ScanNext(t) ==
    /\ scanning
    /\ ~ScanAwaits
    /\ t \in scan
    /\ scan' = scan \ {t}
    /\ calls' = IF t \in LocallyAvailable
                THEN calls \cup {AutomaticCall(t, "scan")} ELSE calls
    /\ UNCHANGED <<database, mode, model, lastTs, queue, exec, activePromise,
                   suspensions, purge, cancelling, deferred, transitions,
                   scanning, slot, removing, resources, bounds>>

\* The scan ends the transition at the head of the chain, or the boot.
ScanEnds ==
    /\ scanning
    /\ ~ScanAwaits
    /\ scan = {}
    /\ scanning' = FALSE
    /\ IF mode = "starting"
       THEN mode' = "serving" /\ UNCHANGED transitions
       ELSE transitions' = Tail(transitions) /\ UNCHANGED mode
    /\ UNCHANGED <<database, model, lastTs, queue, exec, activePromise,
                   suspensions, purge, cancelling, deferred, scan, calls,
                   slot, removing, resources, bounds>>

-----------------------------------------------------------------------------
(***************************************************************************)
(* execute(): one attempt.                                                 *)
(***************************************************************************)

Aborted(k) == exec[k].abort # "none"

\* persistExecutionFailure, for the error `reason`, when the attempt leaves its
\* pipeline; the finally block aborts the signal of what is still running.
FailedRow(k, reason) ==
    IF mode = "closing"
    THEN [exec[k].job EXCEPT !.state = "failed", !.code = "server_interrupted"]
    ELSE IF exec[k].cancelled
    THEN [exec[k].job EXCEPT !.state = "cancelled", !.code = "cancelled"]
    ELSE [exec[k].job EXCEPT !.state = "failed", !.code = reason]
EndFrame(k, reason) ==
    [exec EXCEPT ![k].pc = "cleanup", ![k].timer = "none",
                 ![k].abort = IF @ = "none" THEN reason ELSE @]
FaultyFail(k, reason) ==
    /\ job' = [job EXCEPT ![k] = FailedRow(k, reason)]
    /\ exec' = EndFrame(k, reason)
Fail(k, reason) ==
    /\ job' = IF Owned(k) THEN [job EXCEPT ![k] = FailedRow(k, reason)] ELSE job
    /\ exec' = EndFrame(k, reason)

ExecUnchanged ==
    UNCHANGED <<automatic, known, local, mode, model, lastTs, queue,
                activePromise, suspensions, purge, cancelling, deferred,
                setting, calls, slot, removing, bounds>>

\* openCachedFile returns a stream, which owns the lease from here on.
OpenSucceeds(k) ==
    /\ exec[k].pc = "opening"
    /\ ~Aborted(k)
    /\ lease[k] = "opening"
    /\ lease' = [lease EXCEPT ![k] = "held"]
    /\ IF Owned(k)
       THEN LET row == [exec[k].job EXCEPT !.state = "transcribing"] IN
            /\ job' = [job EXCEPT ![k] = row]
            /\ exec' = [exec EXCEPT ![k].pc = "transcribing", ![k].job = row,
                                    ![k].timer = "watchdog"]
            /\ worker' = [worker EXCEPT ![k] = "decoding"]
       ELSE Fail(k, "failed") /\ UNCHANGED worker
    /\ UNCHANGED <<artifact, provider>> /\ ExecUnchanged

\* It throws, or the file is empty; its own lease is gone by then.
OpenFails(k) ==
    /\ exec[k].pc = "opening"
    /\ ~Aborted(k)
    /\ lease' = [lease EXCEPT ![k] = "none"]
    /\ Fail(k, "failed")
    /\ UNCHANGED <<artifact, worker, provider>> /\ ExecUnchanged

\* FFmpeg has a window of audio: the request timer takes over from the watchdog.
WindowStarts(k) ==
    /\ exec[k].pc = "transcribing"
    /\ ~Aborted(k)
    /\ worker[k] = "decoding"
    /\ exec[k].windows < MaxWindows
    /\ IF Owned(k)
       THEN /\ exec' = [exec EXCEPT ![k].timer = "request",
                                    ![k].windows = @ + 1]
            /\ worker' = [worker EXCEPT ![k] = "window"]
            /\ provider' = [provider EXCEPT ![k] = "busy"]
       ELSE /\ exec' = [exec EXCEPT ![k].abort = "failed"]
            /\ UNCHANGED <<worker, provider>>
    /\ UNCHANGED <<job, artifact, lease>> /\ ExecUnchanged

ProviderAnswers(k) ==
    /\ exec[k].pc = "transcribing"
    /\ ~Aborted(k)
    /\ provider[k] = "busy"
    /\ provider' = [provider EXCEPT ![k] = "idle"]
    /\ worker' = [worker EXCEPT ![k] = "decoding"]
    /\ exec' = IF Owned(k) THEN [exec EXCEPT ![k].timer = "watchdog"]
               ELSE [exec EXCEPT ![k].timer = "none", ![k].abort = "failed"]
    /\ UNCHANGED <<job, artifact, lease>> /\ ExecUnchanged

ProviderFails(k) ==
    /\ exec[k].pc = "transcribing"
    /\ ~Aborted(k)
    /\ provider[k] = "busy"
    /\ provider' = [provider EXCEPT ![k] = "idle"]
    /\ worker' = [worker EXCEPT ![k] = "decoding"]
    /\ exec' = [exec EXCEPT ![k].timer = "none", ![k].abort = "failed"]
    /\ UNCHANGED <<job, artifact, lease>> /\ ExecUnchanged

\* transcribeWindow gives up: its timer fired, or the attempt was aborted.  The
\* speech request is still unsettled and joins cleanupDependencies.
LeaveWindow(k) ==
    /\ provider' = [provider EXCEPT ![k] = "orphan"]
    /\ worker' = [worker EXCEPT ![k] = "decoding"]
    /\ UNCHANGED <<artifact, lease>> /\ ExecUnchanged
RequestTimesOut(k) ==
    /\ provider[k] = "busy"
    /\ exec[k].timer = "request"
    /\ ~Aborted(k)
    /\ LeaveWindow(k)
    /\ exec' = [exec EXCEPT ![k].timer = "none", ![k].abort = "timeout"]
    /\ UNCHANGED job
WindowInterrupted(k) ==
    /\ provider[k] = "busy"
    /\ Aborted(k)
    /\ LeaveWindow(k)
    /\ UNCHANGED <<job, exec>>

WatchdogExpires(k) ==
    /\ exec[k].timer = "watchdog"
    /\ ~Aborted(k)
    /\ exec' = [exec EXCEPT ![k].timer = "none",
                            ![k].abort = "transcription_stalled"]
    /\ UNCHANGED <<job, artifact, resources>> /\ ExecUnchanged

\* The whole file is decoded: completeTranscription writes the captions and the
\* row in one transaction, if the attempt still owns the row.
TranscodeSucceeds(k) ==
    /\ exec[k].pc = "transcribing"
    /\ ~Aborted(k)
    /\ worker[k] = "decoding"
    /\ worker' = [worker EXCEPT ![k] = "none"]
    /\ IF Owned(k)
       THEN /\ job' = [job EXCEPT ![k] =
                         [exec[k].job EXCEPT !.state = "completed"]]
            /\ artifact' = [artifact EXCEPT ![k] =
                              [model |-> exec[k].job.model,
                               ts |-> exec[k].job.ts]]
            /\ exec' = EndFrame(k, "done")
       ELSE Fail(k, "failed") /\ UNCHANGED artifact
    /\ UNCHANGED <<lease, provider>> /\ ExecUnchanged

TranscodeFails(k) ==
    /\ exec[k].pc = "transcribing"
    /\ ~Aborted(k)
    /\ worker[k] = "decoding"
    /\ worker' = [worker EXCEPT ![k] = "none"]
    /\ Fail(k, "failed")
    /\ UNCHANGED <<artifact, lease, provider>> /\ ExecUnchanged

\* raceWithSignal rejects: the pipeline is left at once, whatever still runs.
Interrupted(k) ==
    /\ exec[k].pc \in {"opening", "transcribing"}
    /\ Aborted(k)
    /\ Fail(k, exec[k].abort)
    /\ UNCHANGED <<artifact, resources>> /\ ExecUnchanged

-----------------------------------------------------------------------------
(***************************************************************************)
(* cleanupExecution: what an aborted attempt left behind settles.          *)
(***************************************************************************)

FaultyLeaseReleased(k) ==
    /\ lease[k] # "none"
    /\ lease' = [lease EXCEPT ![k] = "none"]
    /\ UNCHANGED <<job, artifact, exec, worker, provider>> /\ ExecUnchanged
\* The reader is cancelled by the abort itself and then gives up the lease,
\* without asking whether FFmpeg still reads the file.
LeaseReleased(k) ==
    /\ lease[k] # "none"
    /\ Aborted(k)
    /\ lease' = [lease EXCEPT ![k] = "none"]
    /\ UNCHANGED <<job, artifact, exec, worker, provider>> /\ ExecUnchanged

\* FFmpeg is killed and reaped.
WorkerStopped(k) ==
    /\ worker[k] = "decoding"
    /\ Aborted(k)
    /\ worker' = [worker EXCEPT ![k] = "none"]
    /\ UNCHANGED <<job, artifact, exec, lease, provider>> /\ ExecUnchanged

OrphanSettles(k) ==
    /\ provider[k] = "orphan"
    /\ provider' = [provider EXCEPT ![k] = "idle"]
    /\ UNCHANGED <<job, artifact, exec, lease, worker>> /\ ExecUnchanged

FaultyCleanupSettled(k) ==
    exec[k].pc = "cleanup" /\ lease[k] = "none" /\ worker[k] = "none"
FaultyCleanupSettled2(k) ==
    exec[k].pc = "cleanup" /\ lease[k] = "none" /\ provider[k] = "idle"
CleanupSettled(k) ==
    exec[k].pc = "cleanup" /\ lease[k] = "none" /\ worker[k] = "none"
        /\ provider[k] = "idle"

FaultyRescans(k, rows) == FALSE
\* scheduleAutomaticRescan
Rescans(k, rows) ==
    /\ mode # "closing"
    /\ automatic
    /\ rows[k].attempt = exec[k].job.attempt
    /\ rows[k].state = "cancelled" /\ rows[k].code = "automatic_disabled"
    /\ AutomaticCall(k[1], "rescan") \notin calls
    /\ k[1] \in LocallyAvailable

\* The finally block of pump(): purge, forget the attempt, look for automatic
\* work again if this attempt was stopped by the setting, start the next one.
FinishJob(k) ==
    /\ CleanupSettled(k)
    /\ LET purges == purge[k] = exec[k].job.attempt
           rows == IF purges THEN [job EXCEPT ![k] = NoRow] ELSE job
       IN /\ artifact' = IF purges THEN [artifact EXCEPT ![k] = NoArtifact]
                         ELSE artifact
          /\ purge' = IF purges THEN [purge EXCEPT ![k] = 0] ELSE purge
          /\ calls' = IF Rescans(k, rows)
                      THEN calls \cup {AutomaticCall(k[1], "rescan")} ELSE calls
          /\ Pump(rows, pending, pendingAttempts,
                  [exec EXCEPT ![k] = NoFrame],
                  IF activePromise = exec[k].job.ts THEN 0 ELSE activePromise,
                  suspensions, pumpScheduled)
    /\ UNCHANGED <<automatic, known, local, mode, model, lastTs, suspensions,
                   cancelling, deferred, setting, slot, removing, worker,
                   provider, bounds>>

-----------------------------------------------------------------------------
(***************************************************************************)
(* The torrent cache around the queue.                                     *)
(***************************************************************************)

\* The torrent's last piece arrives: both completion marks are set and the
\* onCacheCompleted listener runs, unless close() has unsubscribed it.
CacheCompleted(t) ==
    /\ mode \in {"starting", "serving", "closing"}
    /\ known[t] /\ ~local[t] /\ t \notin removing
    /\ local' = [local EXCEPT ![t] = TRUE]
    /\ calls' = IF automatic /\ mode # "closing"
                THEN calls \cup {AutomaticCall(t, "listener")} ELSE calls
    /\ UNCHANGED <<job, artifact, automatic, known, mode, model, lastTs, queue,
                   exec, activePromise, suspensions, purge, cancelling,
                   deferred, setting, slot, removing, resources, bounds>>

\* pruneCache evicts a torrent nobody reads directly.
Evict(t) ==
    /\ mode \in {"starting", "serving"} /\ Input
    /\ local[t] /\ t \notin removing
    /\ ReadersClosed(t)
    /\ local' = [local EXCEPT ![t] = FALSE]
    /\ UNCHANGED <<job, artifact, automatic, known, mode, model, lastTs, queue,
                   exec, activePromise, suspensions, purge, cancelling,
                   deferred, setting, calls, slot, removing, resources, boots>>

\* POST /torrents adds the torrent again.
Register(t) ==
    /\ Accepts
    /\ ~known[t] /\ t \notin removing
    /\ known' = [known EXCEPT ![t] = TRUE]
    /\ UNCHANGED <<job, artifact, automatic, local, mode, model, lastTs, queue,
                   exec, activePromise, suspensions, purge, cancelling,
                   deferred, setting, calls, slot, removing, resources, boots>>

-----------------------------------------------------------------------------
(***************************************************************************)
(* The process.                                                            *)
(***************************************************************************)

\* The rows start() leaves, when automatic transcription is on or off.
RecoveredRow(row) ==
    IF row.state = "queued" /\ row.trigger = "automatic" /\ ~automatic
    THEN [row EXCEPT !.state = "cancelled", !.code = "automatic_disabled"]
    ELSE IF row.state \in {"preparing", "transcribing"}
    THEN [row EXCEPT !.state = "failed", !.code = "server_interrupted"]
    ELSE row

FaultyRecoveredPlace(k) ==
    Cardinality({j \in Keys : job[j].state = "queued" /\ j[2] <= k[2]})
\* recoveredQueueOrder: queued rows by their queue time.
RecoveredPlace(k) ==
    Cardinality({j \in Keys : job[j].state = "queued" /\ job[j].ts <= job[k].ts})

\* The constructor and start(), up to the scan it awaits when the setting is on.
Boot(m) ==
    /\ mode = "down"
    /\ boots < MaxBoots
    /\ boots' = boots + 1
    /\ model' = m
    /\ lastTs' \in {0} \cup {job[k].ts : k \in Keys}
    /\ \A k \in Keys : job[k].ts <= lastTs'
    /\ job' = [k \in Keys |-> RecoveredRow(job[k])]
    /\ LET again == {k \in Keys : RecoveredRow(job[k]).state = "queued"} IN
       /\ pending' = {[key |-> k, attempt |-> job[k].attempt,
                       place |-> RecoveredPlace(k)] : k \in again}
       /\ pendingAttempts' = [k \in Keys |-> IF k \in again
                                             THEN job[k].attempt ELSE 0]
       /\ pumpScheduled' = (again # {})
    /\ scanning' = automatic
    /\ scan' = IF automatic THEN LocallyAvailable ELSE {}
    /\ mode' = IF automatic THEN "starting" ELSE "serving"
    /\ UNCHANGED <<artifact, automatic, known, local, exec, activePromise,
                   suspensions, purge, cancelling, deferred, transitions, calls,
                   slot, removing, resources, inputs>>

\* SIGTERM: no new requests, then close() aborts the attempt that runs.
Close ==
    /\ mode = "serving"
    /\ mode' = "closing"
    /\ exec' = [k \in Keys |->
                  IF exec[k].pc = "none" THEN exec[k]
                  ELSE [exec[k] EXCEPT !.cancelled = TRUE,
                          !.abort = IF @ = "none" THEN "cancelled" ELSE @]]
    /\ UNCHANGED <<database, model, lastTs, queue, activePromise, suspensions,
                   purge, cancelling, deferred, setting, calls, slot, removing,
                   resources, bounds>>

\* The process ends: a crash at any point, the forced exit after ten seconds, or
\* the exit that close() leads to.  Only SQLite remains.
Halt ==
    /\ mode # "down"
    /\ mode' = "down"
    /\ pending' = {}
    /\ pendingAttempts' = Each(0)
    /\ pumpScheduled' = FALSE
    /\ exec' = Each(NoFrame)
    /\ activePromise' = 0
    /\ suspensions' = 0
    /\ purge' = Each(0)
    /\ cancelling' = {}
    /\ deferred' = [t \in Torrents |-> 0]
    /\ transitions' = <<>>
    /\ scanning' = FALSE
    /\ scan' = {}
    /\ calls' = {}
    /\ slot' = [s \in Slots |-> NoSlot]
    /\ removing' = {}
    /\ lease' = Each("none")
    /\ worker' = Each("none")
    /\ provider' = Each("idle")
    /\ UNCHANGED <<database, model, lastTs, bounds>>

Init ==
    /\ job = Each(NoRow)
    /\ artifact = Each(NoArtifact)
    /\ automatic \in BOOLEAN
    /\ known = [t \in Torrents |-> TRUE]
    /\ local \in [Torrents -> BOOLEAN]
    /\ mode = "down"
    /\ model = NoModel
    /\ lastTs = 0
    /\ pending = {}
    /\ pendingAttempts = Each(0)
    /\ pumpScheduled = FALSE
    /\ exec = Each(NoFrame)
    /\ activePromise = 0
    /\ suspensions = 0
    /\ purge = Each(0)
    /\ cancelling = {}
    /\ deferred = [t \in Torrents |-> 0]
    /\ transitions = <<>>
    /\ scanning = FALSE
    /\ scan = {}
    /\ calls = {}
    /\ slot = [s \in Slots |-> NoSlot]
    /\ removing = {}
    /\ lease = Each("none")
    /\ worker = Each("none")
    /\ provider = Each("idle")
    /\ inputs = 0
    /\ boots = 0

Request ==
    \/ \E t \in Torrents : QueueTorrent(t) \/ Register(t)
    \/ \E k \in Keys : QueueFile(k)
    \/ \E c \in Clients, k \in Keys : CancelFile(c, k)
    \/ \E c \in Clients, t \in Torrents : CancelTorrent(c, t) \/ RemoveStart(c, t)
    \/ \E enabled \in BOOLEAN : SetAutomatic(enabled)

Timer ==
    \/ \E s \in Slots : ConfirmTimesOut(s)
    \/ \E k \in Keys : WatchdogExpires(k) \/ RequestTimesOut(k)

Pipeline ==
    \E k \in Keys :
        \/ OpenSucceeds(k) \/ OpenFails(k)
        \/ WindowStarts(k) \/ ProviderAnswers(k) \/ ProviderFails(k)
        \/ TranscodeSucceeds(k) \/ TranscodeFails(k)

Release == \E k \in Keys : LeaseReleased(k) \/ WorkerStopped(k) \/ OrphanSettles(k)

Environment ==
    \/ \E c \in calls : AbandonCall(c)
    \/ \E c \in Clients : RemoveDelete(c)
    \/ \E t \in Torrents : CacheCompleted(t) \/ Evict(t)
    \/ \E m \in Models : Boot(m)
    \/ Close

\* Continuations of promises that have settled and queued microtasks.
Microtask ==
    \/ PumpMicrotask
    \/ \E s \in Slots : Confirm(s)
    \/ \E c \in Clients : RemoveCancel(c)
    \/ \E t \in Torrents : ReleaseCancelling(t) \/ ScanNext(t)
    \/ ApplyEnabled \/ ApplyDisabled \/ ScanEnds
    \/ \E k \in Keys : Interrupted(k) \/ WindowInterrupted(k) \/ FinishJob(k)

\* They all run, in some order, before the event loop takes the next request,
\* timer or completion.
Drained ==
    /\ ~pumpScheduled
    /\ \A s \in Slots : Waiting(s) => ~Settled(s)
    /\ \A c \in Clients : slot[c].op # "reserved"
    /\ \A t \in Torrents : ~ReleaseDue(t)
    /\ ~InTurn
    /\ scanning => ScanAwaits
    /\ \A k \in Keys :
           /\ Aborted(k) => exec[k].pc = "cleanup" /\ provider[k] # "busy"
           /\ ~CleanupSettled(k)

Next ==
    \/ Microtask
    \/ \E c \in calls : RunCall(c)
    \/ Drained /\ (Request \/ Timer \/ Pipeline \/ Release \/ Environment)
    \/ Halt

Spec == Init /\ [][Next]_vars

-----------------------------------------------------------------------------
(***************************************************************************)
(* Properties.                                                             *)
(***************************************************************************)

\* The rows of the database.
DatabaseType ==
    /\ job \in [Keys -> Row]
    /\ artifact \in [Keys -> Artifact]
    /\ automatic \in BOOLEAN
    /\ known \in [Torrents -> BOOLEAN]
    /\ local \in [Torrents -> BOOLEAN]
\* The process and the queue.
QueueType ==
    /\ mode \in {"down", "starting", "serving", "closing"}
    /\ model \in Models \cup {NoModel}
    /\ lastTs \in Nat
    /\ pending \subseteq Entry
    /\ pendingAttempts \in [Keys -> Nat]
    /\ pumpScheduled \in BOOLEAN
    /\ suspensions \in Nat
\* The attempt and what it uses.
AttemptType ==
    /\ exec \in [Keys -> Frame]
    /\ activePromise \in Nat
    /\ purge \in [Keys -> Nat]
    /\ lease \in [Keys -> {"none", "opening", "held"}]
    /\ worker \in [Keys -> {"none", "decoding", "window"}]
    /\ provider \in [Keys -> {"idle", "busy", "orphan"}]
\* The requests and calls.
RequestType ==
    /\ cancelling \subseteq Torrents
    /\ deferred \in [Torrents -> Nat]
    /\ transitions \in Seq(BOOLEAN)
    /\ scanning \in BOOLEAN
    /\ scan \subseteq Torrents
    /\ calls \subseteq Call
    /\ slot \in [Slots -> Slot]
    /\ removing \subseteq Torrents
BoundsType == inputs \in 0..MaxInputs /\ boots \in 0..MaxBoots

\* Every variable has its shape; attempts, entries and waits are well formed.
TypeOK ==
    DatabaseType /\ QueueType /\ AttemptType /\ RequestType /\ BoundsType

Busy(k) == lease[k] # "none" \/ worker[k] # "none" \/ provider[k] # "idle"

\* README: "Requests are serialized", and cleanup "blocks the next queued chapter
\* until the underlying operation and cache lease actually settle": whatever is
\* cancelled, timed out, removed or requeued, at most one file at a time has a
\* cache lease, an FFmpeg process or a speech request.
SingleOwner == \A j, k \in Keys : Busy(j) /\ Busy(k) => j = k

\* What still runs has an entry in activeJobs, so health() and cleanupPending can
\* report it and a new attempt of its file is refused; the promise the queue waits
\* for is that of the attempt.
ResourcesOwned ==
    \A k \in Keys : Busy(k) => /\ exec[k].pc # "none"
                               /\ activePromise = exec[k].job.ts

\* Each queued row has one live entry in pendingJobs and each entry a queued row,
\* after any mix of cancels, purges, removals, requeues and restarts: queueDetails
\* finds a position for every row it shows as queued.
QueueMatchesRows ==
    mode # "down" =>
        /\ {e.key : e \in pending} = {k \in Keys : job[k].state = "queued"}
        /\ \A e \in pending : Live(e, job, pendingAttempts)
        /\ \A e, f \in pending : e.key = f.key => e = f
        /\ \A k \in Keys : pendingAttempts[k] # 0 => job[k].state = "queued"

\* hasPhysicalCleanupOwner
CleanupOwner == \E k \in Keys : exec[k].pc # "none" /\ ~Owned(k)

\* No wakeup is lost: while the server accepts work and chapters are queued, a
\* pump is on its way, or a request that suspended it is about to resume, or the
\* status can say why the chapter waits (one is being transcribed, or
\* queueBlockedByCleanup).
QueueNeverStuck ==
    mode \in {"starting", "serving"} /\ pending # {} =>
        \/ pumpScheduled
        \/ \E s \in Slots : Waiting(s) /\ Settled(s)
        \/ \E k \in Keys : job[k].state \in {"preparing", "transcribing"}
        \/ CleanupOwner

\* An attempt that may write a row is the attempt the row is about: attempt
\* numbers start again after a purge, so equal numbers alone would not say so.
OwnerIsGenuine ==
    \A k \in Keys : exec[k].pc # "none" /\ Owned(k)
                        => job[k].ts = exec[k].job.ts

\* The pump is suspended exactly as often as requests wait for a cleanup, also
\* where confirmations time out: a leaked suspension would stop the queue for good.
SuspensionsBalanced == suspensions = Cardinality({s \in Slots : Waiting(s)})

\* What the queue needs to go on: rows and queue agree, no wakeup and no suspension
\* is lost, and the attempt that writes is the one the row is about.
QueueSound ==
    QueueMatchesRows /\ QueueNeverStuck /\ OwnerIsGenuine /\ SuspensionsBalanced

\* A completed row always has the captions of that very attempt, through crashes,
\* retries and purges; captions never outlive the row.
CompletedHasCaptions ==
    \A k \in Keys :
        /\ job[k].state = "completed" =>
               artifact[k] = [model |-> job[k].model, ts |-> job[k].ts]
        /\ job[k].state = "none" => artifact[k] = NoArtifact

\* README: "Disabling the setting cancels queued and running automatic jobs": once
\* the settings requests have been answered, none is left or comes back.
DisabledMeansQuiet ==
    mode = "serving" /\ ~automatic /\ transitions = <<>> => AutomaticJobs = {}

\* What is stored tells the same story before and after a crash: captions and
\* completed rows, the setting and its jobs.
StoredConsistent == CompletedHasCaptions /\ DisabledMeansQuiet

\* A removal that deletes files has the torrent to itself: no attempt, no resource,
\* no active row.
RemovalIsExclusive ==
    \A c \in Clients : slot[c].op = "deleting" =>
        \A k \in FilesOf(slot[c].torrent) :
            exec[k].pc = "none" /\ ~Busy(k) /\ ~Active(job[k])

TERMINAL_STATES == {"completed", "failed", "cancelled"}

\* A row that reached its end is not written again by the attempt it belongs to:
\* a late answer, failure or timeout never changes what a client was told.
TerminalIsFinal ==
    [][\A k \in Keys : job[k].state \in TERMINAL_STATES /\ job'[k].ts = job[k].ts
           => job'[k] = job[k]]_vars

\* Chapters start in the order they were queued, across cancellations and restarts:
\* none that stays in the queue was queued earlier.
FirstComeFirstServed ==
    [][\A k \in Keys : job[k].state = "queued" /\ job'[k].state = "preparing"
           => \A j \in Keys : job[j].state = "queued" /\ job'[j] = job[j]
                                 => job[k].ts <= job[j].ts]_vars

\* README: "failures are not replayed automatically because a timeout after an
\* encrypted upload can be ambiguous".  Audio that may have been sent, or was
\* stopped by the user, is queued again only on request, whatever restarts happen.
NeverReplayed ==
    [][\A k \in Keys :
           /\ \/ job[k].state \in {"preparing", "transcribing", "failed"}
              \/ job[k].state = "cancelled" /\ job[k].code = "cancelled"
           /\ job'[k].state = "queued"
           => job'[k].trigger = "manual" /\ job'[k].ts # job[k].ts]_vars

\* What restarts and cancellations do to the order of the queue, and to audio that may
\* have been sent before.
StartsInOrder == FirstComeFirstServed /\ NeverReplayed

\* Captions change only by the attempt that holds the row and the cache lease.
CaptionsByOwner ==
    [][\A k \in Keys : artifact'[k] \notin {artifact[k], NoArtifact} =>
           /\ job[k].state = "transcribing"
           /\ artifact'[k].ts = job[k].ts
           /\ lease[k] = "held" /\ provider[k] = "idle"]_vars

\* A purge that is answered with success (its cleanup was confirmed) has removed
\* every row and every caption of the torrent.
PurgeIsComplete ==
    [][\A c \in Clients :
           slot[c].op = "torrent" /\ Settled(c) /\ slot'[c] = NoSlot /\ mode' # "down"
           => \A k \in FilesOf(slot[c].torrent) :
                  job'[k] = NoRow /\ artifact'[k] = NoArtifact]_vars

\* What a client was told of a job or of a purge stays true, however late the attempt
\* settles it was told about.
AnswersStayTrue == TerminalIsFinal /\ PurgeIsComplete

\* toStatus: what the API shows of a row, as JobQueue has it.
Shown(r) ==
    [state |-> IF r.state \in {"preparing", "transcribing"} THEN "running"
               ELSE IF r.state = "cancelled" /\ r.code = "automatic_disabled"
               THEN "off" ELSE r.state,
     at |-> r.ts, by |-> r.trigger]
Rows == [k \in Keys |-> Shown(job[k])]
Captions == [k \in Keys |-> artifact[k].ts]
Queue == INSTANCE JobQueue WITH Files <- Keys, row <- Rows, captions <- Captions

\* Attempts, cleanups, timeouts, removals and restarts implement the plain queue: one
\* chapter at a time and in its turn, captions of the attempt that completed, nothing
\* taken up again that the user should ask for.
KeepsTurns == Queue!Spec

\* Somebody will still look at the chapter: an attempt whose cleanup ends with a
\* rescan, a call that lists its torrent, the scan, or a setting still to be applied.
LookedAt(k) ==
    \/ exec[k].pc # "none"
    \/ \E c \in calls : c.trigger = "automatic" /\ k \in c.files
    \/ scanning /\ k[1] \in scan
    \/ \E i \in DOMAIN transitions : transitions[i] /\ (scanning => i > 1)
LeftBehind(k) ==
    /\ mode \in {"starting", "serving"} /\ automatic /\ k[1] \in LocallyAvailable
    /\ job[k].state = "cancelled" /\ job[k].code = "automatic_disabled"
    /\ ~LookedAt(k)

\* A chapter the setting had cancelled is not let go once the setting is on again,
\* however scans, rescans, settings requests and cleanups overlap: only a removal or
\* purge of its torrent, which refuses the call that would have queued it, leaves it.
OnlyRemovalsLeaveBehind ==
    [][\A k \in Keys : ~LeftBehind(k) /\ LeftBehind(k)'
           => k[1] \in removing \cup cancelling]_vars

\* This one does not hold: nobody tries again after a removal that timed out.
\* README: "re-enabling it resumes only jobs cancelled for that reason".  When the
\* setting is on, every request is answered, and nothing runs or is cleaned up any
\* more, no local chapter is still cancelled because the setting had been off.
ReenablingResumes ==
    /\ mode = "serving" /\ automatic /\ transitions = <<>> /\ calls = {}
    /\ slot = [s \in Slots |-> NoSlot] /\ removing = {} /\ cancelling = {}
    /\ \A k \in Keys : exec[k].pc = "none"
    => \A t \in LocallyAvailable : \A k \in FilesOf(t) :
           ~(job[k].state = "cancelled" /\ job[k].code = "automatic_disabled")

\* This one does not hold: the abort gives up the lease before FFmpeg is reaped.
\* README: "FFmpeg receives the security-validated cache path while TPlayer holds
\* the same direct-cache lease".
DecoderHoldsLease == \A k \in Keys : worker[k] # "none" => lease[k] # "none"

-----------------------------------------------------------------------------
(***************************************************************************)
(* Fairness.  Microtasks run, timers fire.  What the manager waits for     *)
(* outside (opening, decoding, speech) has no fairness at all in           *)
(* TimedSpec; ReleaseFairness, that what was aborted settles some day, is  *)
(* a hypothesis of the two properties that need it.                        *)
(***************************************************************************)

ManagerFairness ==
    /\ WF_vars(Microtask)
    /\ WF_vars(\E c \in calls : c.origin # "request" /\ RunCall(c))

TimerFairness ==
    /\ \A s \in Slots : WF_vars(ConfirmTimesOut(s))
    /\ \A k \in Keys : WF_vars(WatchdogExpires(k)) /\ WF_vars(RequestTimesOut(k))

ReleaseFairness ==
    /\ \A k \in Keys : /\ WF_vars(LeaseReleased(k)) /\ WF_vars(WorkerStopped(k))
                       /\ WF_vars(OrphanSettles(k))
    /\ \A c \in Clients : WF_vars(RemoveDelete(c))

TimedSpec == Spec /\ ManagerFairness /\ TimerFairness

\* README: "TPlayer owns the outer transcription deadline": an attempt comes to an
\* end in its row even if reader, FFmpeg and speech service never answer again.
AttemptsEnd ==
    \A k \in Keys : job[k].state \in {"preparing", "transcribing"}
        ~> job[k].state \notin {"preparing", "transcribing"} \/ mode = "down"

\* README: "Cancellation endpoints use a bounded confirmation wait": a request that
\* cancels, and a change of the setting, is answered though nothing settles.
RequestsAnswered ==
    /\ \A s \in Slots : Waiting(s) ~> ~Waiting(s)
    /\ transitions # <<>> ~> transitions = <<>>

\* Timers are enough to end attempts and to answer requests.
TimersSuffice == AttemptsEnd /\ RequestsAnswered

\* Every queued chapter leaves the queue, if what blocks it settles.
QueueDrains ==
    ReleaseFairness =>
    \A k \in Keys : job[k].state = "queued"
        ~> job[k].state # "queued" \/ mode \in {"down", "closing"}

\* close() returns, and a removal ends, if what they wait for settles.
ShutdownAndRemovalEnd ==
    ReleaseFairness =>
    /\ mode = "closing" ~> mode = "down" \/ activePromise = 0
    /\ \A c \in Clients : slot[c] # NoSlot ~> slot[c] = NoSlot

\* What was aborted settles, and then everything does.
EverythingSettles == QueueDrains /\ ShutdownAndRemovalEnd

=============================================================================
