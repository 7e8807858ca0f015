# Verification of tplayer

TPlayer is an audiobook player. A Bun server streams the files of torrents over
HTTP, keeps them in a disk cache, and can transcribe a cached chapter into
timed captions with FFmpeg and a speech service; a browser application plays
the book, keeps chapters for offline listening and shows the captions. The
repository is `angrypie/tplayer`; `src/` below is its root.

This directory holds TLA+ modules translated from that code, TLC runs that check
them on small instances, and proofs that TLAPS checks for instances of any size.

| module | what it is |
| --- | --- |
| `TranscriptionManager` | the transcription queue, its rows, settings, cancellation, removal, attempts, boot and crash |
| `MCTranscriptionManager` | the books the runs use |
| `JobQueue` | what `TranscriptionManager` implements: the queue as whoever asks for captions sees it |
| `TranscriptionManagerProofs` | three theorems about `TranscriptionManager`: types and ownership |
| `TranscriptionQueueProofs` | two more: rows and queue agree and no wakeup is lost; removals |
| `TranscriptionAnswersProofs` | seven more: what is stored, who writes captions, the order of starts, what was answered, what the setting resumes, and the refinement of `JobQueue` with what follows from it |
| `TorrentManager` | torrent sessions, preloads, the disk cache and its pruning, removal, boot, close and crash |
| `MCTorrentManager`, `MCTorrentInstances` | the names the runs use; three instances of the module that one run explores together |
| `TorrentManagerProofs` | seven theorems about `TorrentManager`, with their lemmas |
| `CaptionPipeline`, `MCCaptionPipeline` | FFmpeg, its windows, the speech service, stitcher, segmenter, codec and lookup, from audio to track; the recordings of the run |
| `CaptionPipelineProofs` | five theorems about `CaptionPipeline`, on an inductive invariant of all of it, with lemmas about its algorithms |
| `OfflineCache`, `MCOfflineCache` | saving files for offline listening from several tabs, over the transactions of the browser's database; names and symmetry |
| `OfflineCacheProofs` | six theorems about `OfflineCache`, its refinement of `SavedBook` among them |
| `SavedBook` | what `OfflineCache` implements: a saved book as whoever plays it sees it |
| `CaptionSession`, `MCCaptionSession` | polls, starts, cancels and stored captions in the browser; the artifacts of the run |
| `CaptionSessionProofs` | six theorems about `CaptionSession` |
| `PlaylistStore`, `MCPlaylistStore` | the page that plays a book, its sources, its downloads and its resume position; the books of the run |
| `PlaylistStoreProofs` | five theorems about `PlaylistStore`: all that its passing run checks |

To check: `tlc -config MCTranscription_book.cfg MCTranscriptionManager`, and the
same for the other configurations (`PROJECT.json`, "runs", names the module of
each); `tlapm TranscriptionManagerProofs.tla`, and the same for the other seven
modules of proofs. `PROJECT.json`, "theorems", lists what they prove.

Some invariants are conjunctions of named parts: `QueueSound`, say, of
`QueueMatchesRows`, `QueueNeverStuck`, `OwnerIsGenuine` and `SuspensionsBalanced`. Each part is a
definition with a comment of its own and says what can go wrong; the conjunction
is what a run checks, and the tables below name the parts. Definitions named
`Faulty...` are used by nothing: each is the definition after it with a plausible
bug, kept to show that a property notices.

## Inventory

The components of the repository. *Hard* says what a test would hardly reach.

**Transcription queue** (`server/transcription/manager.ts`). State: rows
`transcription_jobs` and `caption_artifacts` in SQLite; in memory `pendingJobs`
and `pendingAttempts` (the queue), `activeJobs` (the attempt that runs),
`activePromise`, `pumpSuspensions`, `purgeAfterCleanup`, `cancellingTorrents`,
`automaticSettingTransition`, `closing`. Operations: queue a torrent or a file
(by request, or automatically when a cache completes, at boot, when the setting
is turned on, after a cleanup), cancel a file, cancel and purge a torrent, turn
the automatic setting on and off, run an attempt, recover at boot, close. Speaks
to SQLite, to the torrent manager (reader lease, availability, removal hook), to
the audio pipeline, to the speech provider. Hard: everything overlaps with
everything else at the awaits; what an attempt uses may settle long after the
attempt was cancelled, or never; the process may die anywhere. Correct when one
chapter at a time uses resources, rows and queue agree, nothing is lost,
duplicated or replayed, and every request is answered.

**Database** (`server/database.ts`). Tables and queries for torrents, file
availability, jobs, captions, the setting. Each call is one synchronous
transaction. Hard: what is left after a crash between two calls.

**Torrent manager** (`server/torrent/manager.ts`). State: sessions with their
files, active operations and idle timers, the promise maps of opens, removals,
preloads and evictions, direct cache readers. Operations: register, open, stream a
range, preload, drop an idle session, prune the cache, remove, close. Hard: a
removal, eviction or idle drop awaits while a new request wants the same
torrent; state read before those awaits is used after them.

**Audio pipeline** (`server/transcription/audioPipeline.ts`). FFmpeg as a child
process, the windowing of its samples, its termination. State: the queue of
samples, the offsets of the window, the pump that feeds FFmpeg. Hard: the process
and the reader end in any order, well or badly. Correct when only a whole decode
counts, what is kept is bounded, and nothing is left running.

**Speech provider** (`couchSpeechProvider.ts`, `provider.ts`). One encrypted
upload a window; classification of errors. Hard: an answer after the timeout.

**Window stitcher** (`windowStitcher.ts`), **caption segmenter** and **codec and
lookup** (`packages/captions/src`), **byte ranges** (`server/torrent/range.ts`).
Functions, the first two with a bounded tail as their state. Hard: borders of
windows, first and last byte, empty input. Correct when every word is said once
and what one makes the next accepts.

**Catalog search** (`server/search`). Provider fan-out with deadlines, a cache.
Hard: an aborted or late provider.

**Offline cache** (`src/routes/Playlist/offlineCache.ts`) and **book storage**
(`src/storage/index.ts`). State: tables of files, chunks, manifests, generations,
leases and captions in IndexedDB, shared by all tabs; `activeDownloads` in each.
Operations: save a file chunk by chunk, cancel, sweep stale partial downloads,
delete a file, clear a book, remove it. Tabs speak through tables, locks and
announcements. Hard: another tab takes the lease over, deletes the chapter or
downloads a newer version during a fetch. Correct when a saved file is whole, and
a deletion is final.

**Caption session** (`src/captions/CaptionSession.ts`). State: target, revision,
track, snapshot, a poll timer, a deferred start. Operations: activate, enable,
start, cancel, retry, poll, each superseding the one before. Speaks to the server's
routes and to book storage. Hard: what was superseded goes on. Correct when it
shows the captions of the chapter that plays and never stops watching.

**Playlist store and player** (`src/routes/Playlist/store.js`, `Player/store.js`,
`Player/player.js`). State: the chapter, its source (server or saved copy), the
player's audio element, the list and its marks. Operations: pick a chapter, play,
pause, end of a chapter, save, delete, clear, remove, resume. Speaks to offline
cache, storage, server and other tabs. Hard: all of that during the awaits of all
of that. Correct when what plays is what was asked for last, from where it should
come, and nobody is interrupted.

**Search screen.** One request at a time.

**Routes, application, configuration, user interface, service worker, deployment
scripts.** Wiring, parsing, rendering, command lines: no state of their own
worth a model.

`PROJECT.json` lists each of them with its status, and the hazards of each with
the properties that cover it.

## Plan

1. `TranscriptionManager`, its runs, the proofs of its types and of single
   ownership: **done**.
2. `TorrentManager` and its runs: **done**.
3. `CaptionPipeline`, with stitcher, segmenter, codec and lookup as functions of
   what the pipeline does: **done**.
4. `OfflineCache`, and `SavedBook` as the abstract specification it implements:
   **done**.
5. `CaptionSession` and `PlaylistStore`: **done**.
6. A module that composes queue and torrent manager where the two meet (lease,
   removal, eviction, the two closes in sequence), replacing the actions
   `RemoveStart`..`RemoveDelete`, `CacheCompleted` and `Evict`: open.
7. `JobQueue`, what the queue promises a client who sees only the rows, and its
   refinement by `TranscriptionManager`, checked and proved: **done**.
8. Proofs of `OfflineCache` with its refinement, of `CaptionSession`, and of the
   safety invariants of `TorrentManager`: **done**.
9. Proofs of the other safety properties of `TranscriptionManager`: `QueueSound`,
   `RemovalIsExclusive`, `StoredConsistent`, `CaptionsByOwner`, `StartsInOrder`,
   `AnswersStayTrue`, `OnlyRemovalsLeaveBehind`: **done**.
10. Proofs of `PlaylistStore`: **done**.
11. Proofs about `CaptionPipeline`: all it promises but what the track says, **done**.

`SearchService` and the byte ranges were considered and left out, see *Not
modelled*.

## TranscriptionManager

### State

SQLite's tables are `job`, `artifact`, `automatic`, `known` and `local`; `Halt`
keeps them and clears everything else. `job[k]` is the row of file `k` (state
`none` when absent), `artifact[k]` its captions. A row's `ts` stands for
`updatedAt` of its queued state: `nextQueueTimestamp` makes it strictly
increasing, so it identifies an attempt also after a purge, where the attempt
number starts again at 1. Nothing in the actions compares a `ts` that the code
does not compare; properties do.

`exec[k]` is the entry of `activeJobs` together with the locals of `execute()`:
where it awaits (`pc`), the job object it carries, the reason its controller was
aborted with, whether it was cancelled by a user, which timer is armed.
`lease`, `worker` and `provider` are what the attempt uses: the reader of the
cached file, FFmpeg, the request to the speech service (`orphan` once the attempt
has stopped waiting for it). `activePromise` is the promise `pump()` waits
for, named by the attempt's `ts`.

`slot[s]` is what one API request, or the settings request at the head of its
chain (`Setting`), is waiting for; `calls` are the calls of `queueTorrent` and
`queueFile` that await their list of files.

### Steps

The server is one JavaScript thread, so an action is what runs between two
awaits, complete with the synchronous calls it makes: `Pump`, the whole of
`pump()` up to the first await of the attempt it starts, is an operator and part
of every action that calls it. `Microtask` gathers continuations of promises that
have settled. They run before the event loop takes the next request, timer or
completion: every other action waits for `Drained`. The order among them is left
open, except where it is fixed and matters (`Confirm` runs after
`ReleaseCancelling`). `RunCall` is not bound by it, since its files may be known
at once or take long.

The environment: `CacheCompleted`, `Evict`, `Register` and the completions of
reader, FFmpeg and speech service may happen whenever the resource is in the
state that allows them. A failed attempt that lost its row, an answer after a
timeout, a reader that opens after the cancel all happen.

Left out: the exact times of timers (any armed timer may fire), retries inside
the speech provider (a request takes as long as it takes), progress numbers,
validation of bodies, the lease `queueFile` takes for the check of a file, and the
awaits within an eviction. `MaxWindows` is 0 in runs that do not ask about speech
requests: the attempt then decodes to its end without one.

### JobQueue

`JobQueue` is what a client may rely on who sees of a chapter only what `toStatus`
shows of its row (`Shown`): its state, when it was queued and by whom, and whose captions
there are. It knows no attempts, timers, leases, suspensions or process. One step of the
server may move several chapters (a start, a removal, a boot), so `JobQueue!Next` lets
each chapter take one step: be asked for behind all others, begin as the first of the
queue while no other runs, complete with its own captions, fail, be cancelled, be
forgotten. What failed or was cancelled by the user is asked for by the user only; the
setting cancels only what it had queued; nothing is forgotten while it runs. A late write
of an attempt that lost its row, or a second attempt started beside one that still shows
as running, is a step it does not have. `KeepsTurns` is the refinement, with `Rows` and
`Captions` as the mapping. It is safety only; that the queue drains is `EverythingSettles`.

### Runs

All runs use `MCTranscriptionManager`: `OneBook` is a torrent with two chapters,
the least for an order and for ownership to be disputed. An *input* is an API
request or an eviction, of any kind in any state, so three inputs make queue,
purge and queue again one sequence while the first attempt is still cleaned up.
`MaxBoots = 2` gives one crash or shutdown in between; then the constraint `Bounded`
of `MCTranscriptionManager` keeps the second server to what two inputs in all reach and
to attempts without a window. The two speech models are alike (`Builds`), so they are a
symmetry. Deadlock is not checked: an
idle server, or one whose bounds are spent, rightly does nothing.

| run | bounds | shows |
| --- | --- | --- |
| `book` | 3 inputs, 2 boots, 2 models | one chapter at a time owns the resources (`SingleOwner`, `ResourcesOwned`); `QueueSound`: rows, entries and pending attempts agree (`QueueMatchesRows`), no wakeup is lost (`QueueNeverStuck`) and no suspension (`SuspensionsBalanced`), attempts that are cancelled, purged and queued again are never confused (`OwnerIsGenuine`); captions are written by the owner only (`CaptionsByOwner`); `AnswersStayTrue`: what a client was told stays so (`TerminalIsFinal`), a purge is complete when it is answered (`PurgeIsComplete`); a removal has its torrent to itself when it deletes (`RemovalIsExclusive`). After a crash anywhere: `StoredConsistent`, captions match rows (`CompletedHasCaptions`) and jobs of a disabled setting are gone (`DisabledMeansQuiet`); `StartsInOrder`, no order is lost (`FirstComeFirstServed`) and nothing ambiguous is replayed (`NeverReplayed`); a chapter the setting had cancelled is let go by nothing but a removal or a purge once the setting is on again (`OnlyRemovalsLeaveBehind`). What the API shows of all that implements `JobQueue` (`KeepsTurns`) |
| `settle` | 2 inputs | `TimersSuffice`: attempts end and requests are answered although nothing outside ever answers (`AttemptsEnd`, `RequestsAnswered`); `EverythingSettles`: queue, shutdown and removals come to an end if what was aborted settles (`QueueDrains`, `ShutdownAndRemovalEnd`) |
| `reenabled` | 3 inputs, 1 boot | *violated*: `ReenablingResumes`, see *A finding* below |

### Fairness

Safety needs none. `TimedSpec` assumes that microtasks and continuations run
(the event loop) and that armed timers fire: both timers of an attempt and the
confirmation timer of a request. It assumes nothing of reader, FFmpeg and
speech service, which is the point of the deadlines. `ReleaseFairness`, a hypothesis
of `QueueDrains` and `ShutdownAndRemovalEnd` only, adds that what was aborted settles: the reader and FFmpeg are killed by the abort, the
speech client has a network timeout of its own. All fairness is weak; a timer
that is re-armed by progress is bounded by `MaxWindows`.

### Proofs

`TranscriptionManagerProofs` proves, for any torrents, files, requests, models
and bounds (`KeysAssumption`: finitely many files, each of a torrent;
`SlotAssumption`: finitely many clients, `Setting` not among them;
`BoundsAssumption`; `NamesAssumption`):

* `Typing`: `Spec => []TypeOK`.
* `OneOwner`: `Spec => []SingleOwner`.
* `Ownership`: `Spec => []ResourcesOwned`.

`TranscriptionQueueProofs`, on top of it:

* `QueueIsSound`: `Spec => []QueueSound`.
* `RemovalHasTorrent`: `Spec => []RemovalIsExclusive`.

`TranscriptionAnswersProofs`, on top of both:

* `StoredIsConsistent`: `Spec => []StoredConsistent`.
* `CaptionsHaveOwner`: `Spec => CaptionsByOwner`.
* `QueueInOrder`: `Spec => StartsInOrder`.
* `AnswersStay`: `Spec => AnswersStayTrue`.
* `NoneLeftBehind`: `Spec => OnlyRemovalsLeaveBehind`.
* `TurnsKept`: `Spec => KeepsTurns`, the refinement of `JobQueue`.
* `NeverTwoRunning`: `Spec => []Queue!OneRuns`, which follows from `TurnsKept` and
  `JobQueue` alone: whatever is shown of the plain queue holds of the server.

The first comes from the inductive invariant `TypeInv`. `TypeOK` alone is not
inductive: `Tail(transitions)` needs a transition to be there when the settings
request goes on (`TransitionHeld`), and the code a failed row gets is the reason
of the abort, which must not be `"done"` while the attempt is still in its
pipeline (`AbortSane`); that `suspensions` stays a natural number is
`SuspensionsBalanced`, which `QueueSound` states too: the counter equals the cardinality of the set of
waiting slots, so whoever lowers it is one of them.

The other two of the first module come from `OwnInv`, on top of `TypeInv`: an attempt that has a
frame is the one `activePromise` names (`AttemptIsAwaited`), there is one
(`OneAttempt`), resources belong to a frame (`OnlyAttemptsAreBusy`), and queued
rows have a time that is not 0 (`QueuedHaveTime`), so that a started attempt never
looks like none. The step that matters is `FinishJob`, where `pump()` may start
the next attempt in the same step that ends one: `CleanupSettled` says
that nothing of the first is left. One lemma for `Pump` (`PumpOwn`) and one for
`CancelJobs` (`CancelJobsOwn`) serve all actions that call them.

The others rest on one observation: whatever a handler does to the queue, it does
to each file one of ten things (`Move`): keeps it, queues, starts, opens, ends, stops,
drops, finishes, recovers it, or loses it with the process. `MoveStep` shows that of
every step, once; what follows speaks of one file at a time and is shown of the moves.

* `QueueSound` is not inductive: that an entry is the one its row means, and that an
  attempt that may write is the one its row is about, needs `RowInv`: a frame has a
  row with its attempt number and its queue time, and while the row is active it is the
  copy the attempt writes from (`HasRow`). Attempt numbers alone would not do, since
  they start again after a purge. `QueueNeverStuck` needs `WakeInv`: work that
  nothing holds back has a pump on its way (`Due`), and the queue waits for a promise
  only while its attempt is there (`Promised`).
* `RemovalIsExclusive` needs to know of the steps before the deletion: a removal
  reserves its torrent from the first step on (`Reserved`), and from the moment it
  cancels the only attempt left is the one it waits for (`Exclusive`).
* `StoredConsistent` needs `SettingInv`: the last transition in the chain of settings
  is the value stored, and while the one at its head is applied no automatic job is
  active. Two settings requests may wait behind a third, so a statement about
  `automatic` alone is not inductive.
* `CaptionsByOwner` needs `Pipe`: an attempt that transcribes and is not aborted
  has its lease, and FFmpeg goes on only without a speech request.
* `StartsInOrder` needs `TimeInv`: `lastTs` is past every queue time in use, no two
  rows have the same, and entries stand in the order of their rows' times; boot
  restores all three, since it sorts by the times it finds. A requeued row would
  otherwise look like the one before, and a start like a replay.
* `AnswersStayTrue` needs `PurgeInv`: while a purge waits, every row and every caption
  of its torrent is gone but those of the attempt it waits for, and that attempt is
  marked in `purgeAfterCleanup`. Nothing may queue the torrent meanwhile, which is what
  `cancellingTorrents` is for: `HoldInv` says that a request that waits holds its
  torrent there, that no two hold the same, and that no release is due meanwhile.
* `OnlyRemovalsLeaveBehind` is about one step, in which the chapter goes from one who will
  look at it to the next: from its attempt to the rescan (`FinishLists`), from a
  disabling transition to the enabling one behind it in the chain (`DisablingLists`,
  by the `LastTransition` of `SettingInv`), from there to the scan and from the scan to
  a call (`ChainLists`), and a call that finds it idle queues it (`CallQueues`).
  `HandInv` is what that needs: no request gives up an automatic call (`CallsKept`), a
  torrent that is local is known, so that none becomes local by being registered
  (`LocalKnown`), and the transition that a confirmation or its timeout drops is a
  disabling one (`HeadDisables`).
* `TurnsKept` maps each move of a chapter to the step of `JobQueue` it is, or to none:
  `RequeuedAsks`, `StartedBegins`, `AttemptEnds`, `StoppedCancels`, `DeletedForgets`,
  `RecoveredTurns`. A start is a step of the plain queue because no other row runs
  afterwards (`RunningHasFrame`: while the process lives, a row that says so has an
  attempt, and `OwnInv` knows of one) and because the first entry is the earliest row
  (`TimeInv`); that a row which is dropped does not run needs `RunningHasFrame` again,
  and that the setting cancels only what it had queued is a lemma about the one
  transition that writes this reason (`DisabledAreAutomatic`).

Each of these invariants was first checked by TLC on the instances of the runs.

Only model-checked: `TimersSuffice` and `EverythingSettles`, which are liveness under
fairness and beyond the prover.

### A finding

`reenabled`: `README.md:84` says of the setting that "re-enabling it resumes only jobs
cancelled for that reason". Turn it off while an automatic chapter runs, ask to remove
the chapter's torrent, let the confirmation of the removal time out, and turn the setting
on: the scan and the rescan after the cleanup both meet `cancellingTorrents`
(`manager.ts:685`), and the chapter stays cancelled, though its torrent was not removed,
until the next scan. That takes three inputs. `OnlyRemovalsLeaveBehind` says what is left
of the promise: without such a removal or purge no chapter stays behind.

## TorrentManager

### State

`history`, `registration`, `metadata` and `cache` are the tables
`torrent_history`, `torrent_registrations`, `torrent_metadata` and
`torrent_cache`; the rows of `cache` are kept in the order of `last_accessed`.
`disk` counts the pieces in a torrent's cache directory. They survive
`MemoryLost`; everything else does not.

`session` is the map `sessions`. `obj` holds the `TorrentSession` objects with
their torrent, in the map or not: what WebTorrent has done for it (`stage`), the
pieces it believes to have (`has`), `activeOperations` (`ops`), the idle timer, and
the frame of `recordCompletedCache` (`rec`). `op` and `reader` are the requests
that hold a session, or a direct cache reader. `saving`, `evict`, `drop`,
`current` and `removal` are the promise maps, each with the point at which its
function awaits; `task` the frames of `executePreload`; `job` the statuses of
preloads, each with the frame that owns the status object (`by`), since
`startPreload` may have replaced the object in the map. `phase` is what `close()`
waits for. `gone` is history: torrents removed and not asked for since.

### Steps

One action is what runs between two awaits on something slow. What settles in
microtasks is joined with the step that settles it: `StateSaved` resumes everyone
who awaits the save, `EvictRecord` everyone who awaits the eviction. Measuring the
cache directory is joined with the use of the result.

WebTorrent is outside: `MetadataEvent`, `ReadyEvent`, `Download`, `DoneEvent` and
`TorrentFails` may happen or not. `client.remove` and `client.destroy` close a
torrent without waiting for the disk or the network, so its close event is part of
the step that calls them. A torrent believes in the pieces it verified: it does not
notice that files were deleted below it.

`Routes` and `Incidents` choose what a run allows: the routes clients use, and
SIGTERM (`stop`), the death of the process or a forced exit (`crash`), an error of
a torrent (`torrent`), a failing `getFileModtimes` (`modtimes`), a failing
cancellation before a removal (`before`), a failing `client.remove` (`remove`).

Left out: file lists, progress numbers, status rendering, trackers and peers,
validation of references, ranges and paths; a failing `rm` or `readdir`; a mismatch
of the metadata's hash.

### Runs

Bounds: `MaxSessions` objects alive at a time, two when an old session and its
successor have to overlap; `MaxPreloads` frames; `Pieces = 1`, so a torrent is
partial at 0 and complete at 1, and a capacity of 0 or 1 that forces an eviction.
Runs end in no deadlock: the server can always be asked for something, or boot.

| run | bounds | shows |
| --- | --- | --- |
| `torrent_instances` | three instances: 1 torrent, 2 sessions, 1 request, registrations; the same with a cached torrent that does not fit and may fail; 2 torrents, room for one, 1 session, 1 preload | `SessionsSound`: types, the session map and the client agree (`SessionsMatchTorrents`), active operations are counted right (`OperationsCounted`); a removed torrent stays removed (`RemovedMeansGone`). Prunes free enough, oldest first, also when they overlap (`PruneFits`), which the third is for |
| `torrent_readers` | 1 cached torrent over capacity, 2 readers, 1 request, failing removals | files are not deleted below a direct reader, whichever came first (`ReadersKeepFiles`) |
| `torrent_ends` | 1 torrent, 1 preload, 1 reader, SIGTERM, crash, failing torrents | a running preload runs (`RunningPreloadRuns`), nothing writes after `close()` (`ClosedIsQuiet`), `RemovalAndCloseEnd`: removals and shutdown end (`RemovalEnds`, `CloseEnds`) |

### Fairness

`FairSpec` assumes that the disk answers and promises settle: weak fairness of the
steps of evictions, saves, drops, removals, preloads and `close()`. It assumes
nothing of peers, requests and timers. Direct readers are closed, because the
transcription that holds one is cancelled before the removal (`beforeRemoval`) and
before the manager is closed (`index.ts`), and `TranscriptionManager` shows in
`settle` that its readers end.

### Proofs

`TorrentManagerProofs` proves, for any torrents, requests, readers, bounds, routes and
incidents (`StoredAssumption`: finitely many torrents, the stored ones among them;
`SlotsAssumption`, `PiecesAssumption`, `RoutesAssumption`, `IncidentsAssumption`,
`NoTorrentAssumption`):

* `SessionsAreSound`: `Spec => []SessionsSound`.
* `ReadersAreSafe`: `Spec => []ReadersKeepFiles`.
* `RemovedStayGone`: `Spec => []RemovedMeansGone`.
* `CloseLeavesNothing`: `Spec => []ClosedIsQuiet`.
* `RunningMeansRuns`: `Spec => [](NoneFailsEarly => RunningPreloadRuns)`.
* `PrunesFreeEnough`: `Spec => PruneFits`, about steps.

The invariants are layers. `SInv`, by `SessionInvariance`, is what all others rest on: the
types; that the map and the client name the same objects (`SessionMap`); that whoever
refers to an object, be it a request, a preload, a drop or the copy `close()` made,
refers to one of its torrent and is counted once in its `activeOperations` (`Holders`,
the count being the cardinality of those who refer to it); that a torrent has one cache
row (`OneRow`); that a process that is down holds nothing (`Down`). `SessionsSound` is
not inductive without `Holders`: `release` would lower the counter of an object that
has been replaced.

`ReaderInv` adds that a reader in use has a torrent; whether reader or eviction comes
first, the one that comes second looks at the other. `RemovalInv` adds that from the
close of its session on a removal keeps the torrent without one and then without bytes,
so the row that goes last leaves nothing. `CloseInv` says at each of the awaits of
`close()` what is over for good: removals, then drops and the evictions nobody awaits,
saves and sessions, preloads. Evictions need a fact of their own, `Waits`: whoever
started one awaits it, or `close()` does. `JobInv` follows a status from the frame that
owns it: it may only say `running` without a frame while the removal or shutdown
that stopped the frame goes on.

`NoneFailsEarly` says that neither `beforeRemoval` nor `getFileModtimes` fails in a
removal (`Incidents` has neither); without it the property is false, see *Weaknesses
without a run*. `ClosedIsQuiet` speaks of preloads `close()` can know of; a preload
nobody refers to any more (`Overlooked`) is another weakness.

Each layer has a lemma for the steps that leave it alone (`MapKept` and `EventKept`,
`ReadersUnmoved`, `RemovedUnmoved`, `CloseUnmoved`, `StillRunning`) with hypotheses
as few as possible, and one case analysis of `Next`.

`PrunesFreeEnough` is about sums of the bytes of rows, and needs no more of the state than
`SInv`. `Bytes` is a recursive function of the number of rows, so its equations hold once
a function that satisfies them is known to exist (`SumsExist`, by the well-founded order
of the naturals); `BytesAdd` says by induction that disjoint sets of rows add up, each
to a natural number. `VictimsSuffice` is about one prune: if it leaves a row nobody uses,
take the oldest of those; it was passed over because the idle rows before it freed enough,
so what is left fits, and all victims are older. The rest is which steps prune
(`NothingPruned` for those that do not) and that what the prune spared is still used when
the step ends.

Only model-checked: `RemovalAndCloseEnd`, which is liveness.

## CaptionPipeline

### State and steps

A chapter is a *recording*: a length and what is said in it, each word with its
time. `decode` is `transcode` with `transcodePcmWindows`: where it awaits, how much
PCM was read (`read`), where its queue begins (`buffer`) and the next window
(`logical`). `ffmpeg` is the process, how much it has written and whether it was
asked or forced to stop; `pump` is `pumpInput`, which feeds it when the audio comes
from the torrent (a local file it reads by itself, `said.local`). `job` is the
attempt of the queue that drives it all: the signal it was given, and how it ended.
`captions` holds the state of `WindowWordStitcher` and `CaptionSegmenter`, `track`
what `encodeCaptionTrack` made.

The algorithms are operators: `PushWindow` of the stitcher (the overlap, the alignment
of most words in order, the tail that is kept back), `PushWord` and `Flush` of the
segmenter (the rules that end a segment), `Encode`, `Encodable` and `Decodable` of the
codec, `FindIndex` of the lookup with its binary search. Loops are recursive functions,
not `RECURSIVE` operators, so that they can be reasoned about. The run
checks them where they are used and not on their own: what they must do is a property of
the track at the end of the whole pipeline, for every cut of the recording into
windows, everything the service may hear of a word on an edge (the word late, a part
of it, nothing) and every failure.

FFmpeg may exit at any time, with success also when its input ended early; the source
may fail; FFmpeg may ignore the request to stop; the service may fail or answer after
the attempt was cancelled; the caller may cancel at any step.

Abstracted: times are whole units; PCM is measured in them, and the byte
that cuts a sample in two is a choice of `ReadEof`; texts are compared as the
stitcher's normalisation leaves them, one word heard for one said. Left out: the
limit of characters (one more limit like that of words), language majority, closing
punctuation and trimming, fixed header fields and 32-bit widths of the codec, the
cached client of the provider and the classification of its errors.

### Run

`pipeline`: windows of 6 units with a context of 2, a tail of 3, a tolerance of 1;
reads return 7 units. The six recordings have a repeated word, words cut by an edge,
and every kind of end: none at all, before the first window is full, in its context,
on a border, after it, after two windows. `Drifts = {0, 1}`: a word is heard up to one
unit late, less than a word's length, for a word that is late by more than itself
is beyond any alignment. Tails are long enough not to overflow (`TailWords`): when
one does, the stitcher gives up words by design.

| property | says |
| --- | --- |
| `PipelineSound` | types; the queue holds at most a window with its context and a chunk (`QueueBounded`); when `transcode` has settled FFmpeg is gone and the source is not read (`NothingLeftRunning`) |
| `TrackIsFaithful` | a track is of the whole recording (`TrackIsWhole`), can be decoded (`TrackIsReadable`) and says every word once, in order (`TrackSaysWhatWasSaid`) |
| `NeverRefused` | what stitcher and segmenter make, the codec accepts |
| `SeekFinds` | a seek finds what shows at a time, from whatever segment it starts |
| `AbortEnds` | an aborted attempt ends |

`Fairness`: a killed FFmpeg exits, what it wrote is read, a cancelled source settles,
a request to the speech service times out (`Failed` and the steps before it). Nothing
is asked of FFmpeg's speed or of the source.

### Proofs

`CaptionPipelineProofs` proves, for any set of recordings of any length and words, any
windows, chunks, tails and limits of segments:

- `PipelineIsSound`: what is kept is bounded, and nothing is left running;
- `NothingIsRefused`: what was heard of a whole chapter can be encoded;
- `OnlyWholeTracks` and `TracksAreReadable`: a stored track is of the whole recording,
  and the decoder accepts it;
- `SeeksFind`: a seek in a stored track finds what shows.

The assumptions are those of the module: `TimesAssumption` (a window is longer than its
two contexts, the tail longer than a context: 90 and 3 seconds against 2 in the code),
`BoundsAssumption` (there is a largest chunk), `RecordingsAssumption` (words are not
over before they start). Nothing is assumed of the alignment: whichever words
the stitcher takes for replayed, the theorems hold.

The inductive invariant `Sound` has three parts. `Machine` is about the processes: how
much was read, discarded and queued at each place where the code awaits (`Amounts`); what
is true once FFmpeg has exited and the pump has settled (`Ending`); and that an FFmpeg
that ends well before the recording does had its input end early (`Early`), which is why a
decode that counts is whole. `CaptionsSound` is about the words: the tail is bounded;
the segmenter's last word is the stitcher's last emitted one, so that what comes next
never starts earlier than it (`normalize` sees to that, also for a word that is emitted
late); finished segments are well formed, one after the other, and end before the current
one starts. `TrackSound` says that a stored track is what `Encode` wrote of
encodable segments and a whole recording. None of the properties is inductive without
it: `NeverRefused` speaks only of the last step.

What the recursive functions do for every input is proved by induction over their length,
for which a least-element principle is derived from `WellFoundedInduction`
(`LeastElement`, `Induction`): the induction theorems of the library take an operator as
a parameter and cannot be used. A recursive function is a `CHOOSE`, so each has a lemma
that says that it exists and which equations it satisfies (`RecursionExists`). Lemmas of
their own are `RoundTrip` (the decoder accepts what the encoder wrote and returns the
text of every segment, for every list of segments), `ClampEncodable`, `SearchSound` (the
binary search), `FindIndexSound`, `EmitSound` and `PushAllSound`.

Only model-checked: `TrackSaysWhatWasSaid`, which depends on the alignment and on how late
words are heard (it is false for drifts longer than a word), and `AbortEnds`, which
is liveness.

## OfflineCache and SavedBook

### State and steps

The tables `files`, `manifests` (`fileDownloads`), `chunks`, `generation` and
`removed` (`offlineGenerations`), `leases` and the book's row are shared; each action
that touches them is one IndexedDB transaction. `downloads[t][f]` is the entry of
`activeDownloads` in tab `t` together with the locals of `downloadFile`: where it
awaits, the generation it read, the chunk it fetched and of which version, whether it
was aborted and whether its lease is lost. `webLocks` says which of the two ways
`runWithCrossTabLock` takes. `served` is the version the server has now, told apart
by its etag.

Time is not kept: a lease may have expired whenever another tab asks for it, and a
partial download may be stale whenever a sweep looks, so any time may pass between any
two steps. That covers every clock, and also tabs that sleep.

`Init` includes what older versions of the code left: partial downloads without a
validator. The first read of `cacheFile` and that of the generation are one step.
Left out: the turns that the files of a tab take with their chunks (`scheduleChunk`),
and progress numbers.

### Refinement

`SavedBook` knows neither chunks nor leases nor tabs: `playable[f]` is the version of
a file that plays without the server, or none; a file is saved whole, deleted, or goes
with its book, and comes back only after the book was added. `KeepsPromise` is
`Saved!Spec` with `playable` mapped to what `getFileBlob` would return (the validator
of a complete file when all its chunks are of it, `"broken"` when not) and `onShelf`
to the absence of the tombstone. A tab that writes a chunk of another version, or a
late chunk that undoes a deletion, would be a step `SavedBook` does not have.

### Proofs

`OfflineCacheProofs` proves, for any tabs, files, versions, number of chunks, generations
and budget of a clean-up, what the run checks and with it the refinement:

* `SoundTables`, `OneVersionPlays`, `LeasesEnd`: `[]TablesSound`, `[]OneVersion`,
  `[]LeaseHasHolder`.
* `LateStaysOut`: `Spec => NothingLate`.
* `Refinement`: `Spec => KeepsPromise`.

All rest on `IInv` (`Invariance`). `OneVersion` is not inductive by itself. What a tab
writes may be of the version it read long ago, and what there is to keep it from mixing
is the validator of the manifest, read in the transaction that writes; so `RowSound`
says that the chunks a validator describes are of its version, and that a complete
file has all its chunks and no manifest. Bytes of an older version of the program have
no validator (`Legacy`): a download that meets them must not be past the restart
that clears them (`FrameSound`). `lastDeleted[f] <= generation` and the generation of a
frame carry `DeletedStaysDeleted`. Leases are apart: with `navigator.locks` there are
none.

For the refinement the mapped state is simple in every state of the invariant
(`PlayableNext`: what plays is the row of `files`), so each action changes at most
that row and the tombstone, and is a step of `SavedBook` or none.

### Runs

| run | bounds | shows |
| --- | --- | --- |
| `offline` | 2 tabs, 1 file of 2 chunks, 2 versions, 2 generations | `TablesSound`: types, manifests count what is stored and nothing is left without a description (`ChunksAccounted`), nothing of a removed book is left (`RemovedIsGone`); a saved file is of one version (`OneVersion`); leases are released (`LeaseHasHolder`); `NothingLate`: no bytes from before a deletion (`DeletedStaysDeleted`), no fetch after an abort (`AbortedFetchesNothing`); `KeepsPromise` |
| `offline_tombstone` | 1 version | *violated*: `KeptForLibrary` |

Two tabs are what a lease is about; two chunks are the least that may be of two
versions; two versions the least to mix; generations 0, 1 and 2 are a deletion,
another, and a download from before either. Files do not interact but through
their book. Tabs and versions are alike: no action and no property names one, so the
symmetry `Alike` is sound for the safety properties and the step-wise refinement of
this run, which states no fairness. Deadlock is not checked: generations are spent.

### A finding

`offline_tombstone`: `removeFilesAndTorrent` marks the book as removed, so that tabs
that still show it cannot save any more of it. Deleting one file in such a tab
(`removeFile`, `storage/index.ts:1188`, or `removeFilesByIh`, line 1219) calls
`rotateOfflineGeneration` with its default `removed = false` and clears the mark;
the tab may then save the file of a book that is in no library.
`storage/index.test.ts:592` says that a remove tombstone blocks stale tabs.

## CaptionSession

### State and steps

`session` holds the fields of the object: target, track, snapshot, poll timer,
deferred start. Only one operation is current, the `frame`, with its locals and the
point it awaits at; a newer one supersedes it (a revision and an abort). What is left
of a superseded one is kept apart: `late`, reads and writes of IndexedDB that cannot be
aborted, and `calls`, requests to the server that may still be under way (`orphan`), in whose
place no other of the same kind is sent (`serviceCalls`). `saved` is the captions table,
`kept` whether the book is in the library; another tab writes both. `wish` is
history: what the user last asked for.

Responses are any responses: a status in any state, with or without a cleanup in
progress and captions, a refusal, an unreachable server, a timeout. A completed job
always comes with captions, which is `CompletedHasCaptions` of `TranscriptionManager`;
other states may come with those of an earlier run. The session keeps the captions with
the state, so a job that turns out to be gone while a cancellation is verified
(`asCancelledStatus`) is still one with captions, and its track may be loaded. Only
there is a report applied outside of `applyStatusSafely` (the frame's `bare`): when that
load fails `cancel()` rejects to its caller, and the frame stays as `"rejected"`.

A superseded operation may still be waiting for a read; the read arrives, and what
follows it has to notice by itself (`isCurrent`). `ReadEnds` is that: the mutant of
`SessionSound` is a read that goes on to publish what it found.

Left out: wording of messages, stalled progress, clocks with equal times, the live
preference and the page of settings. No fairness is stated: the server may never
answer.

### Run

`captions`: one chapter (a change of chapter ends the old target's work through the
same revision; late writes of another chapter only meet its own row), two artifacts
of which one is newer, rows an earlier version or a broken write left, one write or
request left behind at a time (`MaxLeft`). Deadlock is not checked: a session may
rest.

| property | says |
| --- | --- |
| `SessionSound` | types; the captions in view are of the chapter that plays (`TrackIsOfTarget`); what is shown as ready is there (`ReadyIffTrack`) |
| `Watched` | a screen that says something is going on, and a start that waits, are followed by a request or a poll, but for a cancellation that was rejected to its caller (below) |
| `CaptionsGoWithBook` | captions of a removed book do not come back with a late write |
| `StartsOnlyAsAsked` | a start is sent once for each time the user asks, and again only when the server turned it away for its cleanup |
| `StoredOnlyImproves` | no newer captions are replaced by older ones (`StoredNeverOlder`), none but broken ones removed (`OnlyBrokenRemoved`) |

### Proofs

`CaptionSessionProofs` proves, for any chapters, artifacts, rows of earlier visits and
number of things left behind (`StatesAssumption`, `ArtifactsAssumption`):

* `SessionIsSound`, `NothingIsForgotten`, `CaptionsLeaveWithBook`: `[]SessionSound`,
  `[]Watched`, `[]CaptionsGoWithBook`.
* `StartsAreAsked`: `Spec => StartsOnlyAsAsked`.
* `RowsImprove`: `Spec => StoredOnlyImproves`.

The invariant `IInv` says of the session and its frame together that they are `Sound`.
Either nothing is under way, and then whatever the screen says is going on has a timer
(`Settled`, which is `Watched` between operations); or an operation is, and then its
locals fit the session at the await it is at (`Fits`): whether there is a track, whether
the report it carries has captions, whether the row it is about to remove is broken.
`Watched` alone cannot be kept: the step that ends an operation has to know in which
state the operation left the screen, which only `Fits` says of the steps before.
`LateSound` says the same of writes that outlive their operation: they remove only
what they found broken.

An operation is a chain of calls, so the lemmas follow it: what `publish`, `install`,
`schedulePoll` and `finish` do to a session and frame that are `Sound` (`...Facts`), what
each helper of an operation then makes of it (`...Outcome`), and one lemma for each
handler (`...Good`) that the invariant and both action properties are read from.

### What `Watched` leaves out

`README.md:139` says of a cancellation that the client verifies the resulting terminal
state before it reports it, and `CaptionSession.test.ts:1974` that a cancellation that
hangs is bounded "instead of remaining in cancelling". One path does remain there: the
verification finds no job, the status before had captions, and they cannot be loaded.
`verifyCancellation` (`CaptionSession.ts:599`) awaits `applyStatus` and nobody catches
(`LiveCaptions.tsx:573`): the screen says "cancelling" and no poll is due.
`CancelRejected` is exactly that state, and the theorem says that there is no other.

## PlaylistStore

### State and steps

Every handler of the page is asynchronous and any number of them overlap: `ops` is the
set of what is left of each after an await, with whether its request number is still
the latest (`fresh`). `page` and `play` are the fields of the two stores and of the
audio element, `disk` the saved copies and the book's row with its resume position,
`net` the downloads under way and the object URLs that were not revoked, `news` what
other tabs announced and this one has not handled. Files are objects, and a chapter has
several: the one listed, the one that plays, and copies in the rows of the page; each
has a mark of its own whether it is saved. `page.marked` are those of the list,
`page.mark` is that of the one that plays. A download corrects the mark of the object it
was asked for and of the list, so its `fresh` says whether that object plays.

Two variables are history. `rows` are the chapters whose rows may be such copies
(`cachedOriginalFile`), which are marked as saved until the rows are read again. `past`
remembers the chapter that was chosen last (`wanted`, which is the listener's last pick,
the next chapter at an end, or a resumption, and not the code's request number), the one
that was last set out to be opened (`opening`), whether a handler that might have changed
the source over failed since it was loaded (`missed`), and of which chapters a reading
of the marks failed (`unread`).

Reads and writes of IndexedDB fail: the position before a change of source (`Flush`), on
a pause (`PressPause`), before a removal (`CleanBookData`, `SaveForDropFails`), the reads
of a source (`OpenSource`, `SwitchFails`), of the chapters (`NextFileFails`,
`TorrentInfoFails`, `ResumeSavedFile`) and of the marks (`ReadOfMarksFails`), removals
(`RemovalFails`) and downloads (`DownloadFails`). What the code does about it is mostly
to say so (`handlePlaybackError`) or nothing (`ignoreFailure`), and nothing retries.

The position a `pause` event saves is written at once or not at all.
A source that loads has position 0 until it has; then it seeks. Left out:
`downloadAllFiles` (downloads one after the other), server preloads and the polling
of their status, volume, speed, sleep timer and fades.

### Runs

Two chapters of length 1; one book that is streamed and one that has its first chapter
saved and may not be streamed yet. The user, other tabs and most failures act `MaxActs = 2`
times in all; new things begin while fewer than `MaxOps = 2` handlers
and unhandled announcements are open, which then finish in any order. Two of each are what an overtaking takes.
Deadlock is not checked: acts are spent.

| run | shows |
| --- | --- |
| `playlist` | `PageSound`: types, what is loaded is what the page says (`SourceMatches`), object URLs are revoked (`UrlsAccounted`), nothing is streamed without permission (`ServerOnlyIfAllowed`); once all is quiet a saved chapter plays from its copy, unless a failure ended what would have seen to it (`ChangesOver`), and the list shows what is saved, but for chapters of which a reading failed (`ListSettles`); only what was chosen last is loaded (`LoadsWhatWasAsked`, with one exception, below), and no change of source interrupts who listens (`NobodyInterrupted`) |
| `playlist_resume` | *violated*: `ClearingKeepsPosition` |

### Proofs

`PlaylistStoreProofs` proves what the run checks for any number and length of chapters,
any book (`BooksAssumption`: copies and resume position are of its chapters) and, because
no proof uses `MaxOps` and none more of `acts` than its range, any number of handlers
that overlap:

* `PageIsSound`, `ChangesOverInTheEnd`, `ListIsRight`: `[]PageSound`, `[]ChangesOver`,
  `[]ListSettles`.
* `OnlyWhatWasAskedLoads`, `ListenersAreNotInterrupted`: `Spec => LoadsWhatWasAsked`,
  `Spec => NobodyInterrupted`.

`ChangesOver` and `ListSettles` speak of a quiet page only, so they say nothing of the
steps before. The invariant `IInv` says what those leave to be done:

* `Sound`: what is loaded is what the page says; a request to open a chapter that is
  still the latest asks for the one in `opening`; and that is the one in `wanted` unless
  one of the two is what plays (`Asked`).
* `Lag`: a mark, of the list or of the file that plays, differs from what is saved only
  while a `refresh` or an announcement is due that covers it, while a download goes on
  that will set it, or where a failure has been noted.
* `Due`: while a chapter is loaded from the server, nobody listens, it is marked as saved
  and nothing has failed (`Ripe`), something is under way that will look again, or that
  will change the mark.

`Lag` is what keeps `Due` inductive: a change over ends with nothing only if the copy
turns out to be gone, and then the mark it believed was lagging and a reading is due. The
mark of the file that plays needs a download of that very object (`Own`): one that was
asked for a copy corrects the list and not what plays.

A handler is made of operators from tab to tab, so `Sound`, `Lag` and `Due` are stated of
a tab; each operator has a lemma that it keeps them (`...Good`), and each action one that
puts those together (`...Kept`). The two action properties need one thing more, who loads
a source at all: `OpenSource` and `SwitchSource`, and no other step (`WhoLoads`).

### What the properties leave out

The code does not promise more than this, though a reader may expect it:

* **A pause that is not saved.** `handlePlaybackPause` (`store.js:780`) awaits the write
  of the position; when it rejects the handler ends, and the chapter goes on from the
  server although its copy is there, until something else looks (`past.missed`). The same
  goes for the read of the copy in a change over (lines 1036 and 1077) and for that of the
  chapters at the end of one (line 733).
* **Marks that stay stale.** When the read in `refreshOfflineState` (line 823) rejects,
  line 1132 reports it and nothing reads again; the list is wrong until the next
  announcement or download of that chapter (`past.unread`). The read of an aborted
  download (line 468) is not even reported.
* **A copy that is marked and not used.** A download that is aborted while its copy is
  there after all marks it (`handleOfflineCacheError`, line 474) without changing over.
* **The chapter that plays, chosen again.** While another chapter is being opened this
  reuses what is loaded and does not raise `sourceRequestId`
  (lines 193-211, 927-938): the other chapter replaces the later choice. It is the
  third disjunct of `LoadsWhatWasAsked`.
* **A row that is a copy.** `getAllTorrentFiles` makes copies marked as saved (line 83);
  once the chapter is removed elsewhere, such a row is still opened as if it were
  marked, and its own mark is not corrected (`Marks`).

### A finding

`playlist_resume`: clearing a book's audio first saves where the listener is.
`createResumeSnapshot` (`store.js:593`) asks the player, and a player whose source is
still loading says 0. `README.md:145` promises that clearing keeps the resume position.

## Weaknesses without a run

Disagreements and weak spots met while modelling, outside the bounds or the properties
of the runs. A property named below is in its module; where it says of itself that it
does not hold, TLC finds it violated on a small instance.

* **The lease ends before the decoder.** `README.md:114` says FFmpeg gets the path
  "while TPlayer holds the same direct-cache lease"; the abort gives the lease up, and
  FFmpeg is killed and reaped after that (`DecoderHoldsLease`).
* **A drop under a request.** `dropIdleSession` looks at `activeOperations` once, then
  saves the state of a completed torrent; a request that comes meanwhile loses its
  session (`OnlyIdleDropped`). A drop of an incomplete torrent has no await there.
* **A session over an eviction.** Sessions are opened without a look at evictions; the
  completion of such a session is recorded and announced over deleted files
  (`ScheduledIsLocal`), and a late row deletion may undo a fresh row.
* **Bytes without a row.** Pruning goes by rows, which a crashed session did not write
  (`DiskBounded`).
* **A spent timer.** An idle timer that fires while the previous drop of the torrent is
  pending (`torrent/manager.ts:1533`), or whose drop fails, is not armed again; the
  session stays until somebody asks for it.
* **A row without bytes.** An eviction deletes files first and the row second
  (line 1498); a crash in between leaves a torrent that is complete in the catalogue
  only, which neither the boot nor `register` fetches again.
* **A preload that cannot be repeated.** A preload that ends during a removal leaves its
  status `running` to the removal, which does not clear it when it fails before its
  `try`; then no request starts that preload until a restart. Without these failures
  `RunningPreloadRuns` holds (`torrent_ends`).
* **A preload that is overlooked.** `evictCacheEntry` deletes the status of a preload
  (line 1504). When the preload's torrent has failed and its files are evicted while it
  records, `startPreload` finds no status and puts a new promise in its place
  (lines 885-928); `close()` (line 559) then neither aborts the old one nor waits for it,
  and it may record after the database is closed (`Overlooked`). `ClosedIsQuiet` is about
  all others.
* **A session without metadata.** `onMetadata` returns during a removal
  (line 1436); if that removal fails, the session goes on with no row for it.
* **A prune that evicts too much.** It does not subtract the bytes of evictions that are
  under way.
* **A discard that goes on.** A superseded session operation that removes broken captions
  is not stopped after that (`restorePersistedTrack` returns `false`,
  `CaptionSession.ts:1698`): it may publish its own, older status of the same captions,
  or send a request for the track whose answer nobody wants. The track in view stays
  that of the chapter (`SessionSound`).
* **A download that waits for ever.** A fetch of a chunk has no timeout, and while it
  hangs no other file of its tab gets a turn (`scheduleChunk`).
* **A partial that cannot go on.** When the server's etag has changed, a partial
  download fails until it is swept as stale.

## Not modelled

* Catalog search and its providers: a fan-out with deadlines and a cache of five
  minutes over the parsing of third-party pages. The concurrency is one `Promise.all`;
  the rest is text.
* Byte ranges and torrent references: a few comparisons, and string parsing, without a
  state; `integration.test.ts` asks for them over HTTP.
* Routes, application, configuration, logging: parsing and wiring. What a route changes
  is in the action of the manager it calls.
* Migrations of older schemas, on the server and in the browser.
* User interface, search screen, service worker upgrade: rendering, one request at a
  time, one unregistration.
* Deployment scripts: command lines for third-party services.
* Queue and torrent manager together: each is modelled with the other as its
  environment, whose steps the other module's properties justify (`ReadersKeepFiles`
  for the reader, `TimersSuffice` for the end of a reader). The composition is item 6
  of the plan.
