----------------------------- MODULE CaptionSession ----------------------------
(***************************************************************************)
(* The browser's side of live captions: CaptionSession in                  *)
(* src/src/captions/CaptionSession.ts, with the caption rows of            *)
(* src/src/storage/index.ts that it shares with other tabs.                *)
(*                                                                         *)
(* One operation of the user, or one poll, runs at a time: the frame.  A   *)
(* newer operation supersedes it by a new revision and an abort.  Requests *)
(* to the server then reject at once, although the physical request may go *)
(* on; transactions of IndexedDB cannot be aborted, and their writes still *)
(* arrive: those are the late writes.  What the server answers is any      *)
(* answer.                                                                 *)
(***************************************************************************)
EXTENDS Integers, FiniteSets

CONSTANTS
    Targets,    \* chapters a session may be activated for
    Artifacts,  \* caption files of the server, records of etag and updatedAt
    Earlier,    \* caption rows an earlier visit may have left
    States,     \* what becomes of jobs: "running", "cancelled", "failed", "completed"
    MaxLeft     \* bound: writes and requests left behind at one time

None == "none"
ASSUME TargetsAssumption == None \notin Targets
ASSUME ArtifactsAssumption ==
    \A a \in Artifacts : a.at \in Nat \ {0} /\ a.etag # None
ASSUME StatesAssumption ==
    {"cancelled"} \subseteq States /\ States \subseteq {"running", "cancelled", "failed", "completed"}
ASSUME LeftAssumption == MaxLeft \in Nat

Operations == {"status", "start", "cancel", "track"}
Etags == {a.etag : a \in Artifacts}
Revisions == {a.at : a \in Artifacts} \union {0}

VARIABLES
    session,  \* the fields of the CaptionSession
    frame,    \* the operation of the current revision, with its locals
    late,     \* writes and reads of superseded operations
    calls,    \* serviceCalls: idle, live (awaited), or orphan
    saved,    \* captions table: the row of each chapter, or None
    kept,     \* the book is in the torrents table and not marked as removed
    wish      \* history: the user's last word: none, fresh (asked for a start),
              \* spent (a start was sent for it)

vars == <<session, frame, late, calls, saved, kept, wish>>

(* StoredCaptionTrack: at is 0 when artifactUpdatedAt is missing, whole is     *)
(* FALSE when its bytes do not decode or belong to a file of another length.   *)
Row(e, a, w) == [etag |-> e, at |-> a, whole |-> w]
Rows == [etag : Etags, at : Revisions, whole : BOOLEAN]
NoRow == Row(None, 0, FALSE)
ASSUME EarlierAssumption == Earlier \subseteq Rows

Report(s, c, a) == [state |-> s, cleanup |-> c, captions |-> a]
NoArtifact == [etag |-> None, at |-> 0]

(* TranscriptionStatus as the server may send it: a completed job has captions, see  *)
(* CompletedHasCaptions of TranscriptionManager.                                     *)
Reports == {r \in [state : States, cleanup : BOOLEAN, captions : Artifacts \union {NoArtifact}] :
               /\ r.state = "running" => ~r.cleanup
               /\ r.state = "completed" => r.captions # NoArtifact}

(* What the session keeps of a report, and of a cancelled one: asCancelledStatus drops *)
(* the cleanup and leaves the captions.                                                *)
StatusOf(r) == [state |-> r.state, captions |-> r.captions]
NoStatus == [state |-> None, captions |-> NoArtifact]
Statuses == {NoStatus} \union [state : States, captions : Artifacts \union {NoArtifact}]
CancelledOf(status) ==
    IF status = NoStatus THEN NoStatus ELSE [status EXCEPT !.state = "cancelled"]

(* The locals of the operation; bare is for a report that is applied outside of      *)
(* applyStatusSafely, an operation whose promise was rejected to its caller stays as *)
(* "rejected".                                                                       *)
NoFrame == [pc |-> "none", why |-> None, prev |-> NoStatus, cached |-> FALSE, ctx |-> None,
            report |-> Report(None, FALSE, NoArtifact), row |-> NoRow, keep |-> FALSE,
            plain |-> FALSE, busy |-> FALSE, bare |-> FALSE]
NoTrack == [of |-> None, etag |-> None]

Phases == {"idle", "loading", "ready", "unavailable", "running", "cancelling", "cleaning",
           "cancelled", "failed"}

TypeOK ==
    /\ session.target \in Targets \union {None}
    /\ session.track \in [of : Targets, etag : Etags] \union {NoTrack}
    /\ session.deferred \in BOOLEAN /\ session.waiting \in BOOLEAN /\ session.live \in BOOLEAN
    /\ session.timer \in {"off", "cached", "uncached"}
    /\ session.snapshot \in [phase : Phases, cached : BOOLEAN, status : Statuses]
    /\ frame.pc \in Operations \union {"none", "cached", "uncache", "restore", "discard",
                                       "promote", "put", "verify", "rejected"}
    /\ late \subseteq
           [pc : {"uncache", "discard", "put"}, of : Targets, row : Rows,
            report : Reports \union {NoFrame.report}, cached : BOOLEAN] \union
           [pc : {"read"}, of : Targets, row : {NoRow}, report : {NoFrame.report},
            cached : {FALSE}]
    /\ calls \in [Operations -> {"idle", "live", "orphan"}]
    /\ saved \in [Targets -> Rows \union {NoRow}]
    /\ kept \in BOOLEAN
    /\ wish \in {"none", "fresh", "spent"}

Idle == [target |-> None, track |-> NoTrack, deferred |-> FALSE, waiting |-> FALSE,
         live |-> FALSE, timer |-> "off",
         snapshot |-> [phase |-> "idle", cached |-> FALSE, status |-> NoStatus]]

(* A new session; chapters may have captions of an earlier visit, also from before *)
(* artifacts had a revision, or broken ones.                                       *)
Init ==
    /\ session = Idle
    /\ frame = NoFrame
    /\ late = {}
    /\ calls = [o \in Operations |-> "idle"]
    /\ saved \in [Targets -> Earlier \union {NoRow}]
    /\ kept = TRUE
    /\ wish = "none"

--------------------------------------------------------------------------------
(* What the session shows *)

HasTrack(s) == s.track # NoTrack
Publish(s, phase, cached, status) ==
    [s EXCEPT !.snapshot = [phase |-> phase, cached |-> cached, status |-> status]]

(* Most messages leave a track that is there in view: phase is for when there is none. *)
Say(s, phase, cached, status) ==
    IF HasTrack(s) THEN Publish(s, "ready", cached, status)
                   ELSE Publish(s, phase, FALSE, status)

Unavailable(status) == IF status.state = "running" THEN "running" ELSE "failed"
Install(s, e) == [s EXCEPT !.track = [of |-> s.target, etag |-> e]]

SchedulePoll(s, cached) == [s EXCEPT !.timer = IF cached THEN "cached" ELSE "uncached"]

FinishRequest(s) ==
    [s EXCEPT !.timer = "off", !.deferred = FALSE, !.waiting = FALSE, !.live = FALSE]

BeginRequest(s, target, clearTrack) ==
    [s EXCEPT !.target = target, !.live = TRUE, !.timer = "off", !.waiting = FALSE,
              !.deferred = @ /\ ~clearTrack,
              !.track = IF clearTrack THEN NoTrack ELSE @]

--------------------------------------------------------------------------------
(* The frame: how an operation goes on, ends, or asks the server *)

Freed(o) == [calls EXCEPT ![o] = "idle"]
Goto(s, f, c) == session' = s /\ frame' = f /\ calls' = c
End(s, c) == Goto(s, NoFrame, c)
Reject(s, c) == Goto(s, [NoFrame EXCEPT !.pc = "rejected"], c)

Asking(f, o) ==
    IF o = "track" THEN [f EXCEPT !.pc = o, !.row = NoRow]
    ELSE [f EXCEPT !.pc = o, !.row = NoRow, !.ctx = None, !.report = NoFrame.report,
                   !.bare = FALSE]

(* boundedServiceCall: while an earlier physical request of the same kind has not *)
(* settled, the call is refused.                                                  *)
Request(s, f, o, c) ==
    IF c[o] = "idle"
    THEN Goto(s, [Asking(f, o) EXCEPT !.busy = FALSE], [c EXCEPT ![o] = "live"])
    ELSE Goto(s, [Asking(f, o) EXCEPT !.busy = TRUE], c)

(* A write the superseded frame is waiting for cannot be taken back. *)
LateWrite ==
    IF frame.pc \in {"uncache", "discard", "put"}
    THEN {[pc |-> frame.pc, of |-> session.target, row |-> frame.row,
           report |-> IF frame.pc = "discard" THEN frame.report ELSE NoFrame.report,
           cached |-> frame.pc = "discard" /\ frame.cached]}
    ELSE {}

(* A read is not taken back either, and comes back to a revision that is over. *)
LateRead ==
    IF frame.pc \in {"cached", "restore", "promote", "verify"}
    THEN {[pc |-> "read", of |-> session.target, row |-> NoRow, report |-> NoFrame.report,
           cached |-> FALSE]}
    ELSE {}

(* abortPending rejects the request the frame awaits; its physical half may go on. *)
Aborted ==
    [o \in Operations |-> IF calls[o] = "live" THEN "orphan" ELSE calls[o]]

Supersede ==
    /\ late' \in {late \union LateWrite, late \union LateWrite \union LateRead}
    /\ UNCHANGED <<saved, kept>>

--------------------------------------------------------------------------------
(* applyStatus and loadCompletedTrack.  ctx tells what a load is for: a track that *)
(* is newer than the one in view (fresh), a completed job that is still cleaning   *)
(* up (cleanup), or a completed job (done).                                        *)

LoadEnds(s, f, c) ==
    IF f.ctx = "done" THEN End(FinishRequest(s), c)
    ELSE End(SchedulePoll(Publish(s, "ready", s.snapshot.cached, StatusOf(f.report)),
                          s.snapshot.cached), c)

LoadCompletedTrack(s, f, c) == Goto(s, [f EXCEPT !.pc = "restore"], c)

FaultyResume(s, f, status, c) ==
    Request(Say(s, "loading", f.cached, status),
            [f EXCEPT !.why = "resume", !.prev = status], "start", c)

(* resumeDeferredStart *)
Resume(s, f, status, c) ==
    Request(Say([s EXCEPT !.deferred = FALSE], "loading", f.cached, status),
            [f EXCEPT !.why = "resume", !.prev = status], "start", c)

(* applyStatus, once the track the report speaks of is dealt with *)
Settle(s, f, c) ==
    LET state == f.report.state
        status == StatusOf(f.report)
    IN  CASE f.report.cleanup /\ state = "completed" ->
                LoadCompletedTrack(s, [f EXCEPT !.ctx = "cleanup"], c)
          [] f.report.cleanup /\ state # "completed" ->
                End(SchedulePoll(Say(s, IF state = "cancelled" THEN "cancelling" ELSE "cleaning",
                                     f.cached, status), f.cached), c)
          [] ~f.report.cleanup /\ state \in {"cancelled", "failed"} /\ s.deferred ->
                Resume(s, f, status, c)
          [] ~f.report.cleanup /\ state \in {"cancelled", "failed"} /\ ~s.deferred ->
                End(FinishRequest(Say(s, state, f.cached, status)), c)
          [] state = "running" ->
                End(SchedulePoll(Say([s EXCEPT !.deferred = FALSE], "running", f.cached, status),
                                 f.cached), c)
          [] ~f.report.cleanup /\ state = "completed" ->
                LoadCompletedTrack([s EXCEPT !.deferred = FALSE], [f EXCEPT !.ctx = "done"], c)

ApplyStatus(s, f, r, c) ==
    LET s1 == [s EXCEPT !.waiting = FALSE]
        f1 == [f EXCEPT !.report = r, !.why = None, !.prev = NoStatus]
    IN  IF r.state # "completed" /\ r.captions # NoArtifact /\ s.track.etag # r.captions.etag
        THEN LoadCompletedTrack(s1, [f1 EXCEPT !.ctx = "fresh", !.cached = FALSE], c)
        ELSE Settle(s1, f1, c)

Loaded(s, f, c) ==
    IF f.ctx = "fresh" THEN Settle(s, [f EXCEPT !.cached = s.snapshot.cached], c)
    ELSE LoadEnds(s, f, c)

(* The catch of cacheAvailableForStatus, and of applyStatusSafely where there is one *)
FaultyLoadFails(s, f, transport, c) ==
    LET status == StatusOf(f.report)
        said == Say(s, IF transport /\ status.state # "completed" THEN Unavailable(status)
                       ELSE "failed", f.cached, status)
    IN  IF f.ctx = "fresh" /\ HasTrack(s)
        THEN Settle(s, [f EXCEPT !.cached = s.snapshot.cached], c)
        ELSE IF f.bare \/ ~transport THEN Reject(s, c)
        ELSE End(SchedulePoll(said, said.snapshot.cached), c)

LoadFails(s, f, transport, c) ==
    LET status == StatusOf(f.report)
        said == Say(s, IF transport /\ status.state # "completed" THEN Unavailable(status)
                       ELSE "failed", f.cached, status)
    IN  IF f.ctx = "fresh" /\ HasTrack(s)
        THEN Settle(s, [f EXCEPT !.cached = s.snapshot.cached], c)
        ELSE IF f.bare THEN Reject(s, c)
        ELSE IF transport \/ f.report.cleanup
        THEN End(SchedulePoll(said, said.snapshot.cached), c)
        ELSE End(FinishRequest(said), c)

(* Past the cache: the track in view may do, or it is requested, under the condition *)
(* that it is not the one in view.                                                   *)
FetchTrack(s, f, c) ==
    IF HasTrack(s) /\ s.track.etag = f.report.captions.etag
    THEN Loaded(Publish(s, "ready", f.cached, StatusOf(f.report)), f, c)
    ELSE Request(s, [f EXCEPT !.plain = ~HasTrack(s)], "track", c)

--------------------------------------------------------------------------------
(* The storage behind the session *)

(* shouldReplaceCaptionTrack.  A tie is decided by the clock of the browser, which *)
(* does not run backwards; the rows are then the same but for what is broken.      *)
Replaces(current, row) ==
    \/ current = NoRow
    \/ row.at > current.at
    \/ row.at = current.at /\ row.etag = current.etag

FaultyPutCaptionTrack(t, row) ==
    saved' = IF Replaces(saved[t], row) THEN [saved EXCEPT ![t] = row] ELSE saved

PutCaptionTrack(t, row) ==
    saved' = IF kept /\ Replaces(saved[t], row) THEN [saved EXCEPT ![t] = row] ELSE saved

FaultyRemoveCaptionTrack(t, row) == saved' = [saved EXCEPT ![t] = NoRow]

(* Only the row that was found broken is removed. *)
RemoveCaptionTrack(t, row) ==
    saved' = IF saved[t] = row THEN [saved EXCEPT ![t] = NoRow] ELSE saved

--------------------------------------------------------------------------------
(* The frame's steps on the storage; a read or a write may also fail *)

Here == saved[session.target]
Keeps == UNCHANGED <<saved, kept, late>>

AfterCache(s, found, c) ==
    IF frame.why = "offline"
    THEN End(FinishRequest(IF found THEN s ELSE Publish(s, "unavailable", FALSE, NoStatus)), c)
    ELSE Request(s, [frame EXCEPT !.cached = found], "status", c)

LoadCached ==
    /\ frame.pc = "cached"
    /\ \/ AfterCache(Say(session, "failed", FALSE, session.snapshot.status), FALSE, calls)
       \/ Here = NoRow /\ AfterCache(session, FALSE, calls)
       \/ Here # NoRow /\ ~Here.whole
          /\ Goto(session, [frame EXCEPT !.pc = "uncache", !.row = Here], calls)
       \/ Here # NoRow /\ Here.whole
          /\ AfterCache(Publish(Install(session, Here.etag), "ready", TRUE, NoStatus), TRUE, calls)
    /\ Keeps

RemoveInvalidCache ==
    /\ frame.pc = "uncache"
    /\ AfterCache(Publish(session, "loading", FALSE, NoStatus), FALSE, calls)
    /\ UNCHANGED saved \/ RemoveCaptionTrack(session.target, frame.row)
    /\ UNCHANGED <<kept, late>>

Ready(s, cached) == Loaded(Publish(s, "ready", cached, StatusOf(frame.report)), frame, calls)

Persist(s, row, keep) ==
    Goto(s, [frame EXCEPT !.pc = "put", !.row = row, !.keep = keep], calls)

CanSatisfy(row, wanted) ==
    row # NoRow /\ (row.etag = wanted.etag \/ row.at > wanted.at)

RestorePersistedTrack ==
    /\ frame.pc = "restore"
    /\ LET wanted == frame.report.captions
           seen == Install(session, Here.etag)
           fits == CanSatisfy(Here, wanted) /\ (Here.whole \/ session.track.etag = Here.etag)
       IN  \/ FetchTrack(session, frame, calls)
              \* nothing stored, another length, or the read fails
           \/ fits /\ Here.etag = wanted.etag /\ Here.at < wanted.at
              /\ Persist(seen, [Here EXCEPT !.at = wanted.at], TRUE)
           \/ fits /\ ~(Here.etag = wanted.etag /\ Here.at < wanted.at) /\ Ready(seen, TRUE)
           \/ CanSatisfy(Here, wanted) /\ ~fits
              /\ Goto(session, [frame EXCEPT !.pc = "discard", !.row = Here], calls)
    /\ Keeps

DiscardPersisted ==
    /\ frame.pc = "discard"
    /\ FetchTrack(session, frame, calls)
    /\ UNCHANGED saved \/ RemoveCaptionTrack(session.target, frame.row)
    /\ UNCHANGED <<kept, late>>

PromoteNotModifiedTrack ==
    /\ frame.pc = "promote"
    /\ \/ Request(session, [frame EXCEPT !.plain = TRUE], "track", calls)
       \/ /\ Here # NoRow /\ Here.etag = session.track.etag
          /\ IF Here.at < frame.row.at
             THEN Persist(session, [Here EXCEPT !.at = frame.row.at], TRUE)
             ELSE Ready(session, TRUE)
    /\ Keeps

PersistDownloadedTrack ==
    /\ frame.pc = "put"
    /\ \/ UNCHANGED saved /\ Ready(session, frame.keep)
       \/ /\ kept
          /\ PutCaptionTrack(session.target, frame.row)
          /\ Goto(session, [frame EXCEPT !.pc = "verify"], calls)
    /\ UNCHANGED <<kept, late>>

VerifyPersisted ==
    /\ frame.pc = "verify"
    /\ \/ Ready(session, frame.keep)
       \/ /\ Here # NoRow /\ (Here.whole \/ Here.etag = session.track.etag)
          /\ Ready(Install(session, Here.etag), TRUE)
    /\ Keeps

StorageStep ==
    /\ \/ LoadCached \/ RemoveInvalidCache \/ RestorePersistedTrack \/ DiscardPersisted
       \/ PromoteNotModifiedTrack \/ PersistDownloadedTrack \/ VerifyPersisted

--------------------------------------------------------------------------------
(* The frame's requests and their answers *)

Answered(o) == frame.pc = o /\ ~frame.busy

(* No connection, a timeout that leaves the request behind, or an earlier one still *)
(* on its way.                                                                      *)
Unreached(o, c) ==
    /\ frame.pc = o
    /\ IF frame.busy THEN c = calls
       ELSE c \in {Freed(o), [calls EXCEPT ![o] = "orphan"]}

AfterUnreached(o) == {calls, Freed(o), [calls EXCEPT ![o] = "orphan"]}

(* publishStatusUnavailable, and a poll later *)
Watch(status, c) ==
    LET said == Say(session, Unavailable(status), frame.cached, status)
    IN  End(SchedulePoll(said, said.snapshot.cached), c)

(* applyMissingStatus *)
Missing(c) ==
    IF session.waiting
    THEN End(SchedulePoll(Say(session, "failed", frame.cached, NoStatus), frame.cached), c)
    ELSE End(FinishRequest(Say(session, "unavailable", frame.cached, NoStatus)), c)

StatusAnswers ==
    /\ Answered("status")
    /\ \/ \E r \in Reports : ApplyStatus(session, frame, r, Freed("status"))
       \/ frame.why \in {"sync", "check", "poll"} /\ Missing(Freed("status"))
       \/ frame.why = "observe" /\ Resume(session, frame, frame.prev, Freed("status"))
       \/ /\ frame.why = "verify" /\ frame.prev # NoStatus
          /\ ApplyStatus(session, [frame EXCEPT !.bare = TRUE],
                         Report("cancelled", FALSE, frame.prev.captions), Freed("status"))
       \/ /\ frame.why = "verify" /\ frame.prev = NoStatus
          /\ End(FinishRequest(Say(session, "cancelled", frame.cached, NoStatus)), Freed("status"))

StatusFails ==
    \E c \in AfterUnreached("status") :
        /\ Unreached("status", c)
        /\ CASE frame.why = "verify" ->
                   End(SchedulePoll(Say(session, "cancelled", frame.cached,
                                        CancelledOf(frame.prev)), frame.cached), c)
             [] frame.why = "poll" -> Watch(session.snapshot.status, c)
             [] frame.why \notin {"verify", "poll"} -> Watch(frame.prev, c)

StartAnswers ==
    /\ Answered("start")
    /\ \E r \in Reports : ApplyStatus(session, frame, r, Freed("start"))

StartUnreached ==
    \E c \in AfterUnreached("start") :
        /\ Unreached("start", c)
        /\ Watch(IF frame.why = "restart" THEN CancelledOf(frame.prev) ELSE frame.prev, c)

(* 409 transcription_cleanup_pending.  restart() has had its cancellation by then, and *)
(* takes it as any refusal.                                                            *)
StartTooEarly ==
    /\ Answered("start") /\ frame.why # "restart"
    /\ LET s == [session EXCEPT !.deferred = TRUE]
       IN  IF frame.why = "retry"
           THEN Request(s, [frame EXCEPT !.why = "observe"], "status", Freed("start"))
           ELSE End(SchedulePoll(Say(s, "cleaning", frame.cached, frame.prev), frame.cached),
                    Freed("start"))

StartRefused ==
    /\ Answered("start")
    /\ \E notLocal \in BOOLEAN :
          LET said == Say(session, "failed", frame.cached,
                          IF frame.why = "restart" THEN CancelledOf(frame.prev) ELSE frame.prev)
          IN  End(IF notLocal THEN SchedulePoll([said EXCEPT !.waiting = TRUE], frame.cached)
                              ELSE FinishRequest(said), Freed("start"))

CancelAnswers ==
    /\ Answered("cancel")
    /\ IF frame.why = "restart" THEN Request(session, frame, "start", Freed("cancel"))
       ELSE Request(session, [frame EXCEPT !.why = "verify"], "status", Freed("cancel"))

CancelTooEarly ==
    /\ Answered("cancel")
    /\ IF frame.why = "restart"
       THEN Request([session EXCEPT !.deferred = TRUE], [frame EXCEPT !.why = "observe"],
                    "status", Freed("cancel"))
       ELSE Request(session, [frame EXCEPT !.why = "verify"], "status", Freed("cancel"))

CancelFails ==
    \E c \in AfterUnreached("cancel") :
        /\ Unreached("cancel", c)
        /\ Watch(frame.prev, c)

(* getTrack: 304 only where the condition was sent *)
TrackAnswers ==
    /\ Answered("track")
    /\ \E a \in Artifacts :
          IF a.etag = session.track.etag /\ ~frame.plain
          THEN Goto(session, [frame EXCEPT !.pc = "promote", !.row = Row(a.etag, a.at, TRUE)],
                    Freed("track"))
          ELSE Goto(Publish(Install(session, a.etag), "ready", FALSE, StatusOf(frame.report)),
                    [frame EXCEPT !.pc = "put", !.keep = FALSE, !.row = Row(a.etag, a.at, TRUE)],
                    Freed("track"))

(* Also: missing, unreadable, or an error of the server *)
TrackFails ==
    \/ \E c \in AfterUnreached("track") :
          Unreached("track", c) /\ LoadFails(session, frame, TRUE, c)
    \/ Answered("track") /\ LoadFails(session, frame, FALSE, Freed("track"))

Begun == calls["start"] = "idle" /\ calls'["start"] = "live"

ServiceStep ==
    /\ \/ StatusAnswers \/ StatusFails \/ StartAnswers \/ StartUnreached \/ StartTooEarly
       \/ StartRefused \/ CancelAnswers \/ CancelTooEarly \/ CancelFails \/ TrackAnswers
       \/ TrackFails
    /\ Keeps

(* The retry that was refused for now is still wanted. *)
FrameStep ==
    /\ StorageStep \/ ServiceStep
    /\ wish' = CASE Begun -> "spent"
                 [] ~Begun /\ session'.deferred /\ ~session.deferred -> "fresh"
                 [] ~Begun /\ ~(session'.deferred /\ ~session.deferred) -> wish

--------------------------------------------------------------------------------
(* What the user does; each supersedes the frame *)

Current == session.snapshot.status

Activate(t, allowServer) ==
    /\ Goto(Publish(BeginRequest(session, t, TRUE), "loading", FALSE, NoStatus),
            [NoFrame EXCEPT !.pc = "cached", !.why = IF allowServer THEN "sync" ELSE "offline"],
            Aborted)
    /\ wish' = "none"

Deactivate ==
    /\ session.target # None
    /\ End(FinishRequest(Publish(BeginRequest(session, None, TRUE), "idle", FALSE, NoStatus)), Aborted)
    /\ wish' = "none"

Dispose ==
    /\ End([Idle EXCEPT !.timer = "off"], Aborted)
    /\ wish' = "none"

Act(s, why, o) ==
    Request(s, [NoFrame EXCEPT !.why = why, !.prev = Current, !.cached = session.snapshot.cached],
            o, Aborted)

CheckStatus ==
    /\ session.target # None
    /\ Act(Say(BeginRequest(session, session.target, FALSE),
               IF Current.state = "running" THEN "running" ELSE "loading",
               session.snapshot.cached, Current), "check", "status")
    /\ UNCHANGED wish

(* retry, restart and cancel forget an earlier wish *)
Again == [BeginRequest(session, session.target, FALSE) EXCEPT !.deferred = FALSE]

Retry ==
    /\ session.target # None
    /\ Act(Say(Again, "loading", session.snapshot.cached, IF HasTrack(session) THEN NoStatus ELSE Current),
           "retry", "start")
    /\ wish' = IF Begun THEN "spent" ELSE "fresh"

RestartIt ==
    /\ session.target # None
    /\ Act(Say(Again, "loading", session.snapshot.cached, Current), "restart", "cancel")
    /\ wish' = "fresh"

Cancel ==
    /\ session.target # None
    /\ Act(Say(Again, "cancelling", session.snapshot.cached,
               IF HasTrack(session) THEN NoStatus ELSE Current), "cancel", "cancel")
    /\ wish' = "none"

UserStep ==
    /\ \/ \E t \in Targets, allowServer \in BOOLEAN : Activate(t, allowServer)
       \/ Deactivate \/ Dispose \/ CheckStatus \/ Retry \/ RestartIt \/ Cancel
    /\ Supersede

Poll ==
    /\ session.timer # "off" /\ frame = NoFrame
    /\ Request([session EXCEPT !.timer = "off"],
               [NoFrame EXCEPT !.why = "poll", !.cached = session.timer = "cached"], "status", calls)
    /\ Keeps
    /\ UNCHANGED wish

--------------------------------------------------------------------------------
(* What is left of superseded operations, and the others *)

(* A superseded discard goes on without asking whether it is still current: it may   *)
(* repeat what it knew of the track in view, or take the slot of the track request.  *)
LateDiscardGoesOn(l) ==
    IF HasTrack(session) /\ session.track.etag = l.report.captions.etag
    THEN /\ session' = Publish(session, "ready", l.cached, StatusOf(l.report))
         /\ UNCHANGED calls
    ELSE /\ calls' = IF session.live /\ calls["track"] = "idle"
                     THEN [calls EXCEPT !["track"] = "orphan"] ELSE calls
         /\ UNCHANGED session

(* Revisions only grow, so isCurrent sends every late read away. *)
FaultyReadEnds(l) ==
    session' = IF saved[l.of].whole
               THEN Publish([session EXCEPT !.track = [of |-> l.of, etag |-> saved[l.of].etag]],
                            "ready", TRUE, NoStatus)
               ELSE session

ReadEnds(l) == UNCHANGED session

LateStep(l) ==
    /\ late' = late \ {l}
    /\ CASE l.pc = "read" -> ReadEnds(l) /\ UNCHANGED <<saved, calls>>
         [] l.pc = "put" -> PutCaptionTrack(l.of, l.row) /\ UNCHANGED <<session, calls>>
         [] l.pc = "uncache" -> RemoveCaptionTrack(l.of, l.row) /\ UNCHANGED <<session, calls>>
         [] l.pc = "discard" -> RemoveCaptionTrack(l.of, l.row) /\ LateDiscardGoesOn(l)
    /\ UNCHANGED <<frame, kept, wish>>

OrphanSettles(o) ==
    /\ calls[o] = "orphan"
    /\ calls' = Freed(o)
    /\ UNCHANGED <<session, frame, late, saved, kept, wish>>

OtherTabSaves(t, a) ==
    /\ PutCaptionTrack(t, Row(a.etag, a.at, TRUE))
    /\ UNCHANGED <<session, frame, late, calls, kept, wish>>

(* removeFilesAndTorrent *)
RemoveBook ==
    /\ kept
    /\ kept' = FALSE
    /\ saved' = [t \in Targets |-> NoRow]
    /\ UNCHANGED <<session, frame, late, calls, wish>>

AddBook ==
    /\ ~kept
    /\ kept' = TRUE
    /\ UNCHANGED <<session, frame, late, calls, saved, wish>>

Bounded == Cardinality({o \in Operations : calls'[o] = "orphan"}) + Cardinality(late') <= MaxLeft

Next ==
    \/ FrameStep /\ Bounded
    \/ UserStep /\ Bounded
    \/ Poll
    \/ \E l \in late : LateStep(l)
    \/ \E o \in Operations : OrphanSettles(o)
    \/ \E t \in Targets, a \in Artifacts : OtherTabSaves(t, a)
    \/ RemoveBook \/ AddBook

Spec == Init /\ [][Next]_vars

--------------------------------------------------------------------------------
(* The captions in view are of the chapter that plays, whatever was asked for before: *)
(* installTrack runs after awaits, activate() may have changed the target meanwhile.  *)
TrackIsOfTarget == HasTrack(session) => session.track.of = session.target

(* A screen that says that something is going on, and a start that waits for the     *)
(* server's cleanup or for its audio, are followed by a request or a poll: no error  *)
(* path of the session forgets to schedule one, but for the one of cancel(): when    *)
(* the server has nothing to report after a cancellation, the captions of the last   *)
(* report are loaded outside of applyStatusSafely, and if that fails cancel() itself *)
(* is rejected, with "cancelling" left on the screen.                                *)
Expecting ==
    \/ session.snapshot.phase \in {"loading", "running", "cancelling", "cleaning"}
    \/ session.deferred \/ session.waiting
Left == frame.pc \in {"none", "rejected"} /\ session.timer = "off"
CancelRejected ==
    /\ frame.pc = "rejected"
    /\ session.snapshot.phase = "cancelling" /\ ~session.deferred /\ ~session.waiting
Watched == Expecting /\ Left => CancelRejected

(* What is shown as ready is there, and what is there is shown once nothing is under way. *)
ReadyIffTrack ==
    /\ session.snapshot.phase = "ready" => HasTrack(session)
    /\ HasTrack(session) /\ frame = NoFrame => session.snapshot.phase = "ready"

(* The session, what it shows and the chapter it is for agree. *)
SessionSound == TypeOK /\ TrackIsOfTarget /\ ReadyIffTrack

(* The captions of a book that left the library do not come back with a late write. *)
CaptionsGoWithBook == kept \/ \A t \in Targets : saved[t] = NoRow

(* A transcription is started once for every time the user asks, unless the server *)
(* turned it away for its cleanup: a poll or a lost answer never repeats a start.  *)
StartsOnlyAsAsked == [][Begun => wish = "fresh" \/ frame'.why = "retry"]_vars

(* A late write of an older artifact does not replace a newer one. *)
StoredNeverOlder == [][\A t \in Targets : saved'[t] = NoRow \/ saved'[t].at >= saved[t].at]_vars

(* While the book is kept, only captions that do not decode are removed: not those  *)
(* another tab has put in their place since.                                        *)
OnlyBrokenRemoved ==
    [][\A t \in Targets : saved[t] # NoRow /\ saved'[t] = NoRow /\ kept' => ~saved[t].whole]_vars

(* What is stored only improves, in whatever order the writes of tabs and of superseded *)
(* operations arrive.                                                                    *)
StoredOnlyImproves == StoredNeverOlder /\ OnlyBrokenRemoved
================================================================================
