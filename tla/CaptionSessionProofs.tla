------------------------- MODULE CaptionSessionProofs -------------------------
(***************************************************************************)
(* Theorems about CaptionSession, for any chapters, artifacts, states of   *)
(* jobs and rows of earlier visits: what the session shows is of its       *)
(* chapter and never stuck, starts are sent as the user asked, and what is *)
(* stored only improves and goes with the book.                            *)
(***************************************************************************)
EXTENDS CaptionSession, TLAPS

-----------------------------------------------------------------------------
(***************************************************************************)
(* The inductive invariant.                                                *)
(***************************************************************************)

Whys == {None, "sync", "offline", "check", "retry", "restart", "cancel", "poll",
         "observe", "verify", "resume"}
Pcs == Operations \union {"none", "cached", "uncache", "restore", "discard",
                          "promote", "put", "verify"}
SnapshotType == [phase : Phases, cached : BOOLEAN, status : Statuses]
SessionType ==
    [target : Targets \union {None}, track : [of : Targets, etag : Etags] \union {NoTrack},
     deferred : BOOLEAN, waiting : BOOLEAN, live : BOOLEAN,
     timer : {"off", "cached", "uncached"}, snapshot : SnapshotType]
ReportType == Reports \union {NoFrame.report}
FrameType ==
    [pc : Pcs, why : Whys, prev : Statuses, cached : BOOLEAN,
     ctx : {None, "fresh", "cleanup", "done"}, report : ReportType,
     row : Rows \union {NoRow}, keep : BOOLEAN, plain : BOOLEAN, busy : BOOLEAN,
     bare : BOOLEAN]
CallsType == [Operations -> {"idle", "live", "orphan"}]

(* A session that is activated, with a track of its chapter if it shows any. *)
Shown(s) ==
    /\ s \in SessionType
    /\ s.target \in Targets
    /\ HasTrack(s) => s.track.of = s.target
    /\ s.snapshot.phase = "ready" => HasTrack(s)

(* A session in which nothing is under way. *)
Going == {"loading", "running", "cancelling", "cleaning"}
Settled(s) ==
    /\ HasTrack(s) => s.snapshot.phase = "ready"
    /\ s.snapshot.phase \in Going \/ s.deferred \/ s.waiting => s.timer # "off"
    /\ s.timer # "off" => s.target \in Targets

(* A report that a track is loaded for. *)
HasCaptions(r) == r \in Reports /\ r.captions # NoArtifact

(* cancel() is under way: nothing but its own answer is waited for. *)
Cancelling(s) ==
    /\ s.timer = "off" /\ ~s.deferred /\ ~s.waiting
    /\ ~HasTrack(s) => s.snapshot.phase = "cancelling"

(* A report is applied outside of applyStatusSafely only for a cancellation. *)
Bare(s, f) ==
    /\ f.why \notin {"cancel", "verify"}
    /\ f.bare => f.report.state = "cancelled" /\ ~f.report.cleanup /\ Cancelling(s)
LoadFits(s, f) == Bare(s, f) /\ (f.bare => f.ctx = "fresh")

(* The locals of a frame fit the session at each of its awaits. *)
Fits(s, f) ==
    /\ f.pc \in {"restore", "discard", "promote", "put", "verify", "track"} =>
          HasCaptions(f.report) /\ LoadFits(s, f)
    /\ f.pc \in Operations \ {"track"} => ~f.bare
    /\ f.pc = "cancel" => f.why \in {"cancel", "restart"}
    /\ f.why \in {"cancel", "verify"} => Cancelling(s)
    /\ f.pc \in {"cached", "uncache"} => ~HasTrack(s) /\ f.why \in {"sync", "offline"}
    /\ f.pc \in {"promote", "put", "verify"} => HasTrack(s)
    /\ f.pc \in {"uncache", "discard", "promote", "put"} => f.row \in Rows
    /\ f.pc \in {"uncache", "discard"} => ~f.row.whole
    /\ f.pc = "status" /\ f.why = "observe" => s.deferred
    /\ f.pc = "cancel" /\ f.why = "restart" => ~s.deferred

(* What cancel() leaves behind when it is rejected to its caller. *)
RejectedFrame == [NoFrame EXCEPT !.pc = "rejected"]

Sound(s, f) ==
    \/ /\ s \in SessionType /\ f = NoFrame
       /\ HasTrack(s) => s.track.of = s.target
       /\ s.snapshot.phase = "ready" => HasTrack(s)
       /\ Settled(s)
    \/ /\ Shown(s)
       /\ f \in FrameType /\ f.pc # "none"
       /\ Fits(s, f)
    \/ /\ Shown(s) /\ f = RejectedFrame
       /\ ~HasTrack(s) /\ Cancelling(s)

(* What a superseded write may still do: it removes what it found broken.  A read *)
(* does nothing.                                                                  *)
LateWrites == [pc : {"uncache", "discard", "put"}, of : Targets, row : Rows,
               report : ReportType, cached : BOOLEAN]
LateReads == [pc : {"read"}, of : Targets, row : {NoRow}, report : {NoFrame.report},
              cached : {FALSE}]
LateSound ==
    /\ late \subseteq LateWrites \union LateReads
    /\ \A l \in late : l.pc \in {"uncache", "discard"} => ~l.row.whole

(* A start is outstanding only at the user's word. *)
StartsWished ==
    /\ session.deferred => wish = "fresh"
    /\ frame.pc = "cancel" /\ frame.why = "restart" => wish = "fresh"

IInv ==
    /\ Sound(session, frame)
    /\ LateSound
    /\ calls \in CallsType
    /\ saved \in [Targets -> Rows \union {NoRow}]
    /\ kept \in BOOLEAN
    /\ wish \in {"none", "fresh", "spent"}
    /\ CaptionsGoWithBook
    /\ StartsWished

-----------------------------------------------------------------------------
(***************************************************************************)
(* Reports and rows.                                                       *)
(***************************************************************************)

(* A report is of a state, and what is kept of it is a status. *)
LEMMA ReportFacts ==
    /\ NoFrame.report \in ReportType /\ NoStatus \in Statuses
    /\ \A r \in ReportType : StatusOf(r) \in Statuses
    /\ \A a \in Artifacts \union {NoArtifact} :
          LET r == Report("cancelled", FALSE, a)
          IN r \in Reports /\ r.state = "cancelled" /\ ~r.cleanup
    /\ \A status \in Statuses : CancelledOf(status) \in Statuses
<1>1. NoFrame.report \in ReportType /\ NoStatus \in Statuses
  BY DEF ReportType, Statuses
<1>2. \A r \in Reports : StatusOf(r) \in Statuses
  BY DEF Reports, StatusOf, Statuses
<1>3. StatusOf(NoFrame.report) = NoStatus
  BY DEF StatusOf, NoFrame, Report, NoStatus
<1>4. \A a \in Artifacts \union {NoArtifact} :
         LET r == Report("cancelled", FALSE, a)
         IN r \in Reports /\ r.state = "cancelled" /\ ~r.cleanup
  BY StatesAssumption DEF Reports, Report
<1>5. \A status \in Statuses : CancelledOf(status) \in Statuses
  BY StatesAssumption DEF Statuses, CancelledOf
<1> QED BY <1>1, <1>2, <1>3, <1>4, <1>5 DEF ReportType

(* What is in a captions row and in an artifact. *)
LEMMA RowFacts ==
    /\ \A a \in Artifacts : /\ a.etag \in Etags /\ a.etag # None
                            /\ a.at \in Revisions /\ Row(a.etag, a.at, TRUE) \in Rows
    /\ \A e \in Etags : e # None
    /\ \A n \in Revisions : n \in Nat
    /\ NoRow \notin Rows /\ NoRow.at = 0
<1>1. \A a \in Artifacts : a.etag \in Etags /\ a.etag # None /\ a.at \in Revisions
  BY ArtifactsAssumption DEF Etags, Revisions
<1>2. \A a \in Artifacts : Row(a.etag, a.at, TRUE) \in Rows
  BY <1>1 DEF Row, Rows
<1>3. \A e \in Etags : e # None
  BY ArtifactsAssumption DEF Etags
<1>4. \A n \in Revisions : n \in Nat
  BY ArtifactsAssumption DEF Revisions
<1>5. NoRow \notin Rows /\ NoRow.at = 0
  BY <1>3 DEF NoRow, Row, Rows
<1> QED BY <1>1, <1>2, <1>3, <1>4, <1>5

(* The absent frame is one of the frames. *)
LEMMA NoFrameType ==
    /\ NoFrame \in FrameType
    /\ NoFrame.pc = "none" /\ NoFrame.why = None /\ NoFrame.prev = NoStatus /\ ~NoFrame.bare
    /\ RejectedFrame.pc = "rejected" /\ RejectedFrame # NoFrame /\ RejectedFrame.why = None
<1>1. NoFrame.report \in ReportType /\ NoStatus \in Statuses
  BY ReportFacts
<1>2. /\ NoFrame.pc = "none" /\ NoFrame.why = None /\ NoFrame.prev = NoStatus /\ ~NoFrame.bare
  BY DEF NoFrame
<1>3. NoFrame \in FrameType
  <2> DEFINE r == NoFrame.report
  <2>1. NoFrame = [pc |-> "none", why |-> None, prev |-> NoStatus, cached |-> FALSE,
                   ctx |-> None, report |-> r, row |-> NoRow, keep |-> FALSE,
                   plain |-> FALSE, busy |-> FALSE, bare |-> FALSE]
    BY DEF NoFrame
  <2>2. r \in ReportType
    BY <1>1
  <2> HIDE DEF r
  <2> QED BY <1>1, <2>1, <2>2 DEF FrameType, Pcs, Whys
<1>4. RejectedFrame.pc = "rejected" /\ RejectedFrame.why = None
  BY DEF RejectedFrame, NoFrame
<1> QED BY <1>2, <1>3, <1>4

-----------------------------------------------------------------------------
(***************************************************************************)
(* What the session shows.                                                 *)
(***************************************************************************)

(* All but the snapshot. *)
Same(x, s) ==
    /\ x.target = s.target
    /\ x.track = s.track
    /\ x.deferred = s.deferred
    /\ x.waiting = s.waiting
    /\ x.timer = s.timer

(* publish() changes the snapshot and nothing else. *)
LEMMA PublishFacts ==
    ASSUME NEW s \in SessionType, NEW phase \in Phases, NEW cached \in BOOLEAN,
           NEW status \in Statuses
    PROVE  /\ Publish(s, phase, cached, status) \in SessionType
           /\ Same(Publish(s, phase, cached, status), s)
           /\ Publish(s, phase, cached, status).snapshot.phase = phase
           /\ Publish(s, phase, cached, status).snapshot.cached = cached
BY DEF Publish, SessionType, SnapshotType, Same

(* A message that leaves a track in view. *)
LEMMA SayFacts ==
    ASSUME NEW s, Shown(s), NEW phase \in Phases \ {"ready"}, NEW cached \in BOOLEAN,
           NEW status \in Statuses
    PROVE  /\ Shown(Say(s, phase, cached, status))
           /\ Same(Say(s, phase, cached, status), s)
           /\ Say(s, phase, cached, status).snapshot.phase = IF HasTrack(s) THEN "ready" ELSE phase
           /\ Say(s, phase, cached, status).snapshot.cached \in BOOLEAN
<1>1. s \in SessionType /\ "ready" \in Phases
  BY DEF Shown, Phases
<1>2. CASE HasTrack(s)
  <2>1. Say(s, phase, cached, status) = Publish(s, "ready", cached, status)
    BY <1>2 DEF Say
  <2>2. /\ Publish(s, "ready", cached, status) \in SessionType
        /\ Same(Publish(s, "ready", cached, status), s)
        /\ Publish(s, "ready", cached, status).snapshot.phase = "ready"
        /\ Publish(s, "ready", cached, status).snapshot.cached = cached
    BY <1>1, PublishFacts
  <2> QED BY <1>2, <2>1, <2>2 DEF Shown, Same, HasTrack
<1>3. CASE ~HasTrack(s)
  <2>1. Say(s, phase, cached, status) = Publish(s, phase, FALSE, status)
    BY <1>3 DEF Say
  <2>2. /\ Publish(s, phase, FALSE, status) \in SessionType
        /\ Same(Publish(s, phase, FALSE, status), s)
        /\ Publish(s, phase, FALSE, status).snapshot.phase = phase
        /\ Publish(s, phase, FALSE, status).snapshot.cached \in BOOLEAN
    <3>1. \A b \in BOOLEAN : /\ Publish(s, phase, b, status) \in SessionType
                              /\ Same(Publish(s, phase, b, status), s)
                              /\ Publish(s, phase, b, status).snapshot.phase = phase
                              /\ Publish(s, phase, b, status).snapshot.cached \in BOOLEAN
      BY <1>1, PublishFacts
    <3> QED BY <3>1
  <2> QED BY <1>3, <2>1, <2>2 DEF Shown, Same, HasTrack
<1> QED BY <1>2, <1>3

(* A track that is published. *)
LEMMA ReadyFacts ==
    ASSUME NEW s, Shown(s), HasTrack(s), NEW cached \in BOOLEAN, NEW status \in Statuses
    PROVE  /\ Shown(Publish(s, "ready", cached, status))
           /\ Same(Publish(s, "ready", cached, status), s)
           /\ HasTrack(Publish(s, "ready", cached, status))
           /\ Publish(s, "ready", cached, status).snapshot.phase = "ready"
           /\ Publish(s, "ready", cached, status).snapshot.cached = cached
<1>1. s \in SessionType /\ "ready" \in Phases
  BY DEF Shown, Phases
<1>2. /\ Publish(s, "ready", cached, status) \in SessionType
      /\ Same(Publish(s, "ready", cached, status), s)
      /\ Publish(s, "ready", cached, status).snapshot.phase = "ready"
      /\ Publish(s, "ready", cached, status).snapshot.cached = cached
  BY <1>1, PublishFacts
<1> QED BY <1>2 DEF Shown, Same, HasTrack

(* A track that is installed is a track of the chapter on show. *)
LEMMA InstallFacts ==
    ASSUME NEW s, Shown(s), NEW e \in Etags
    PROVE  /\ Shown(Install(s, e))
           /\ HasTrack(Install(s, e))
           /\ Install(s, e).snapshot = s.snapshot
           /\ Install(s, e).target = s.target
           /\ Install(s, e).deferred = s.deferred
           /\ Install(s, e).track.etag = e
           /\ Cancelling(s) => Cancelling(Install(s, e))
<1>1. [of |-> s.target, etag |-> e] # NoTrack /\ s.target \in Targets
  BY TargetsAssumption DEF NoTrack, Shown
<1>2. /\ Install(s, e) \in SessionType
      /\ Install(s, e).track = [of |-> s.target, etag |-> e]
      /\ Install(s, e).snapshot = s.snapshot
      /\ Install(s, e).target = s.target
      /\ Install(s, e).deferred = s.deferred
      /\ Install(s, e).waiting = s.waiting
      /\ Install(s, e).timer = s.timer
  BY <1>1 DEF Install, SessionType, Shown
<1> QED BY <1>1, <1>2 DEF Shown, HasTrack, Cancelling

(* schedulePoll() arms the timer and leaves what is shown. *)
LEMMA PollFacts ==
    ASSUME NEW s, Shown(s), NEW cached \in BOOLEAN
    PROVE  /\ Shown(SchedulePoll(s, cached))
           /\ SchedulePoll(s, cached).timer # "off"
           /\ SchedulePoll(s, cached).snapshot = s.snapshot
           /\ SchedulePoll(s, cached).track = s.track
           /\ SchedulePoll(s, cached).deferred = s.deferred
BY DEF SchedulePoll, Shown, SessionType, HasTrack

(* The end of a request leaves what is shown. *)
LEMMA FinishFacts ==
    ASSUME NEW s, s \in SessionType
    PROVE  /\ FinishRequest(s) \in SessionType
           /\ FinishRequest(s).snapshot = s.snapshot
           /\ FinishRequest(s).track = s.track
           /\ FinishRequest(s).target = s.target
           /\ ~FinishRequest(s).deferred /\ ~FinishRequest(s).waiting
BY DEF FinishRequest, SessionType

-----------------------------------------------------------------------------
(***************************************************************************)
(* How a frame goes on: each way keeps the session sound, and a start is   *)
(* sent only for a retry that was deferred.                                *)
(***************************************************************************)

Outcome(s, c) ==
    /\ Sound(session', frame')
    /\ calls' \in CallsType
    /\ session'.deferred => s.deferred
    /\ frame'.pc # "cancel"
    /\ calls'["start"] = "live" /\ c["start"] # "live" => s.deferred /\ ~session'.deferred

(* An operation that is over and polls again. *)
LEMMA EndPolls ==
    ASSUME NEW s, Shown(s), HasTrack(s) => s.snapshot.phase = "ready",
           NEW cached \in BOOLEAN, NEW c \in CallsType,
           End(SchedulePoll(s, cached), c)
    PROVE  Outcome(s, c)
<1>1. session' = SchedulePoll(s, cached) /\ frame' = NoFrame /\ calls' = c
  BY DEF End, Goto
<1>2. /\ Shown(SchedulePoll(s, cached))
      /\ SchedulePoll(s, cached).timer # "off"
      /\ SchedulePoll(s, cached).snapshot = s.snapshot
      /\ SchedulePoll(s, cached).track = s.track
      /\ SchedulePoll(s, cached).deferred = s.deferred
  BY PollFacts
<1> QED BY <1>1, <1>2, NoFrameType DEF Outcome, Sound, Shown, Settled, HasTrack

(* An operation that is over, and says nothing that promises more. *)
LEMMA EndFinishes ==
    ASSUME NEW s, Shown(s), HasTrack(s) => s.snapshot.phase = "ready",
           s.snapshot.phase \notin Going, NEW c \in CallsType,
           End(FinishRequest(s), c)
    PROVE  Outcome(s, c)
<1>1. session' = FinishRequest(s) /\ frame' = NoFrame /\ calls' = c
  BY DEF End, Goto
<1>2. /\ FinishRequest(s) \in SessionType
      /\ FinishRequest(s).snapshot = s.snapshot
      /\ FinishRequest(s).track = s.track
      /\ FinishRequest(s).target = s.target
      /\ ~FinishRequest(s).deferred /\ ~FinishRequest(s).waiting
  BY FinishFacts DEF Shown
<1> QED BY <1>1, <1>2, NoFrameType DEF Outcome, Sound, Shown, Settled, HasTrack

(* An operation that goes on. *)
LEMMA GoesOn ==
    ASSUME NEW s, Shown(s), NEW f \in FrameType, f.pc # "none", f.pc # "cancel", Fits(s, f),
           NEW c \in CallsType, Goto(s, f, c)
    PROVE  Outcome(s, c)
BY DEF Goto, Outcome, Sound

(* A request that is sent leaves a session that is sound while it awaits the
   answer. *)
LEMMA RequestFacts ==
    ASSUME NEW s, Shown(s), NEW f \in FrameType, NEW o \in Operations, NEW c \in CallsType,
           o = "track" => HasCaptions(f.report),
           o = "status" /\ f.why = "observe" => s.deferred,
           o = "cancel" /\ f.why = "restart" => ~s.deferred,
           o = "cancel" => f.why \in {"cancel", "restart"},
           f.why \in {"cancel", "verify"} => Cancelling(s),
           o = "track" => LoadFits(s, f),
           Request(s, f, o, c)
    PROVE  /\ Sound(session', frame')
           /\ calls' \in CallsType
           /\ session' = s
           /\ frame'.pc = o /\ frame'.why = f.why
           /\ o # "start" => calls'["start"] = c["start"]
<1> DEFINE g == Asking(f, o)
<1>1. /\ g \in FrameType
      /\ g.pc = o /\ g.why = f.why
      /\ o = "track" => g.report = f.report /\ g.bare = f.bare /\ g.ctx = f.ctx
      /\ o # "track" => ~g.bare
  <2>1. CASE o = "track"
    <3>1. g = [f EXCEPT !.pc = o, !.row = NoRow]
      BY <2>1 DEF Asking
    <3> QED BY <2>1, <3>1 DEF FrameType, Pcs, Operations
  <2>2. CASE o # "track"
    <3>1. g = [f EXCEPT !.pc = o, !.row = NoRow, !.ctx = None, !.report = NoFrame.report,
                      !.bare = FALSE]
      BY <2>2 DEF Asking
    <3>2. NoFrame.report \in ReportType /\ o \in Pcs
      BY ReportFacts DEF Pcs
    <3> DEFINE r == NoFrame.report
    <3> HIDE DEF r
    <3>3. g = [f EXCEPT !.pc = o, !.row = NoRow, !.ctx = None, !.report = r, !.bare = FALSE]
      BY <3>1 DEF r
    <3>4. r \in ReportType
      BY <3>2 DEF r
    <3> QED BY <2>2, <3>2, <3>3, <3>4 DEF FrameType
  <2> QED BY <2>1, <2>2
<1> HIDE DEF g
<1>2. \A b \in BOOLEAN : /\ [g EXCEPT !.busy = b] \in FrameType
                          /\ [g EXCEPT !.busy = b].pc = o
                          /\ [g EXCEPT !.busy = b].why = f.why
                          /\ [g EXCEPT !.busy = b].report = g.report
                          /\ [g EXCEPT !.busy = b].bare = g.bare
                          /\ [g EXCEPT !.busy = b].ctx = g.ctx
  BY <1>1 DEF FrameType
<1>3. PICK b \in BOOLEAN : session' = s /\ frame' = [g EXCEPT !.busy = b]
  BY DEF Request, Goto, g
<1>4. calls' = c \/ calls' = [c EXCEPT ![o] = "live"]
  BY DEF Request, Goto
<1>5. calls' \in CallsType /\ (o # "start" => calls'["start"] = c["start"])
  BY <1>4 DEF CallsType, Operations
<1>6. o \in {"status", "start", "cancel", "track"}
  BY DEF Operations
<1>7. Fits(session', frame')
  BY <1>1, <1>2, <1>3, <1>6 DEF Fits, LoadFits, Bare
<1> QED BY <1>2, <1>3, <1>5, <1>6, <1>7 DEF Sound

(* A change of what is shown does not matter to the outcome. *)
LEMMA OutcomeSame ==
    ASSUME NEW x, NEW s, NEW c, x.deferred => s.deferred, Outcome(x, c)
    PROVE  Outcome(s, c)
BY DEF Outcome

(* The track is on show: the session rests, or polls for the cleanup. *)
LEMMA LoadEndsOutcome ==
    ASSUME NEW s, Shown(s), s.snapshot.phase = "ready", NEW f \in FrameType,
           NEW c \in CallsType, LoadEnds(s, f, c)
    PROVE  Outcome(s, c)
<1>1. HasTrack(s) /\ "ready" \notin Going
  BY DEF Shown, Going
<1>2. CASE f.ctx = "done"
  BY <1>1, <1>2, EndFinishes DEF LoadEnds
<1>3. CASE f.ctx # "done"
  <2>1. s.snapshot.cached \in BOOLEAN /\ StatusOf(f.report) \in Statuses
    BY ReportFacts DEF Shown, SessionType, SnapshotType, FrameType
  <2> DEFINE x == Publish(s, "ready", s.snapshot.cached, StatusOf(f.report))
  <2>2. Shown(x) /\ x.snapshot.phase = "ready" /\ x.deferred = s.deferred
    BY <1>1, <2>1, ReadyFacts DEF Same
  <2>3. End(SchedulePoll(x, s.snapshot.cached), c)
    BY <1>3 DEF LoadEnds
  <2> HIDE DEF x
  <2>4. Outcome(x, c)
    BY <2>1, <2>2, <2>3, EndPolls
  <2> QED BY <2>2, <2>4, OutcomeSame
<1> QED BY <1>2, <1>3

(* A deferred start that is sent after all is not deferred any more. *)
LEMMA ResumeOutcome ==
    ASSUME NEW s, Shown(s), s.deferred, NEW f \in FrameType, NEW status \in Statuses,
           NEW c \in CallsType, Resume(s, f, status, c)
    PROVE  Outcome(s, c)
<1> DEFINE x == [s EXCEPT !.deferred = FALSE]
           y == Say(x, "loading", f.cached, status)
           g == [f EXCEPT !.why = "resume", !.prev = status]
<1>1. Shown(x) /\ ~x.deferred
  BY DEF Shown, SessionType, HasTrack
<1>2. g \in FrameType /\ g.why = "resume" /\ f.cached \in BOOLEAN
  BY DEF FrameType, Whys
<1>3. Request(y, g, "start", c)
  BY DEF Resume
<1>4. "loading" \in Phases \ {"ready"} /\ "start" \in Operations
  BY DEF Phases, Operations
<1> HIDE DEF x, g
<1>5. Shown(y) /\ ~y.deferred
  BY <1>1, <1>2, <1>4, SayFacts DEF Same
<1> HIDE DEF y
<1>6. /\ Sound(session', frame')
      /\ calls' \in CallsType
      /\ session' = y
      /\ frame'.pc = "start"
  BY <1>2, <1>3, <1>4, <1>5, RequestFacts
<1> QED BY <1>5, <1>6 DEF Outcome

(* Whatever the server says, a completed job has captions and a running one no
   cleanup. *)
LEMMA ReportedFacts ==
    ASSUME NEW r \in Reports
    PROVE  /\ r \in ReportType
           /\ r.state \in {"running", "cancelled", "failed", "completed"}
           /\ StatusOf(r) \in Statuses /\ r.cleanup \in BOOLEAN
           /\ StatusOf(r).state = r.state
           /\ r.state = "running" => ~r.cleanup
           /\ r.state = "completed" => HasCaptions(r)
           /\ r.captions # NoArtifact => HasCaptions(r)
<1>1. r \in ReportType
  BY DEF ReportType
<1>2. StatusOf(r) \in Statuses /\ StatusOf(r).state = r.state
  BY <1>1, ReportFacts DEF StatusOf
<1> QED BY <1>1, <1>2, StatesAssumption DEF Reports, HasCaptions

(* The track of a completed job is first looked for in the store. *)
LEMMA LoadOutcome ==
    ASSUME NEW s, Shown(s), NEW f \in FrameType, HasCaptions(f.report), LoadFits(s, f),
           NEW c \in CallsType, LoadCompletedTrack(s, f, c)
    PROVE  Outcome(s, c)
<1> DEFINE g == [f EXCEPT !.pc = "restore"]
<1>1. /\ g \in FrameType /\ g.pc = "restore" /\ HasCaptions(g.report)
      /\ g.why = f.why /\ g.bare = f.bare /\ g.ctx = f.ctx /\ g.report = f.report
  BY DEF FrameType, Pcs
<1>2. Goto(s, g, c)
  BY DEF LoadCompletedTrack
<1> HIDE DEF g
<1>3. Fits(s, g)
  BY <1>1 DEF Fits, LoadFits, Bare, Operations
<1> QED BY <1>1, <1>2, <1>3, GoesOn

(* A status that is acted upon shows captions, waits for them, or says why not. *)
LEMMA SettleOutcome ==
    ASSUME NEW s, Shown(s), NEW f \in FrameType, f.report \in Reports, Bare(s, f),
           NEW c \in CallsType, Settle(s, f, c)
    PROVE  Outcome(s, c)
<1> DEFINE state == f.report.state
           status == StatusOf(f.report)
<1>1. /\ state \in {"running", "cancelled", "failed", "completed"}
      /\ status \in Statuses
      /\ f.report.cleanup \in BOOLEAN
      /\ state = "running" => ~f.report.cleanup
      /\ state = "completed" => HasCaptions(f.report) /\ ~f.bare
      /\ f.cached \in BOOLEAN
  BY ReportedFacts DEF FrameType, Bare
<1> HIDE DEF status
<1>2. CASE state = "completed"
  <2>1. ASSUME NEW x, Shown(x), x.deferred => s.deferred, NEW ctx \in {"cleanup", "done"},
               LoadCompletedTrack(x, [f EXCEPT !.ctx = ctx], c)
        PROVE  Outcome(s, c)
    <3> DEFINE g == [f EXCEPT !.ctx = ctx]
    <3>1. g \in FrameType /\ g.report = f.report /\ ~g.bare /\ g.why = f.why
      BY <1>1, <1>2 DEF FrameType
    <3>2. LoadCompletedTrack(x, g, c)
      BY <2>1
    <3> HIDE DEF g
    <3>3. LoadFits(x, g)
      BY <3>1 DEF LoadFits, Bare
    <3>4. Outcome(x, c)
      BY <1>1, <1>2, <2>1, <3>1, <3>2, <3>3, LoadOutcome
    <3> QED BY <2>1, <3>4, OutcomeSame
  <2>2. CASE f.report.cleanup
    <3>1. LoadCompletedTrack(s, [f EXCEPT !.ctx = "cleanup"], c)
      BY <1>2, <2>2 DEF Settle
    <3> QED BY <2>1, <3>1
  <2>3. CASE ~f.report.cleanup
    <3> DEFINE x == [s EXCEPT !.deferred = FALSE]
    <3>1. LoadCompletedTrack(x, [f EXCEPT !.ctx = "done"], c)
      BY <1>2, <2>3 DEF Settle
    <3>2. Shown(x) /\ ~x.deferred
      BY DEF Shown, SessionType, HasTrack
    <3> HIDE DEF x
    <3> QED BY <2>1, <3>1, <3>2
  <2> QED BY <2>2, <2>3
<1>3. CASE f.report.cleanup /\ state # "completed"
  <2> DEFINE phase == IF state = "cancelled" THEN "cancelling" ELSE "cleaning"
             x == Say(s, phase, f.cached, status)
  <2>1. phase \in Phases \ {"ready"}
    BY DEF Phases
  <2>2. End(SchedulePoll(x, f.cached), c)
    BY <1>1, <1>3 DEF Settle, status
  <2> HIDE DEF phase
  <2>3. Shown(x) /\ x.track = s.track /\ x.deferred = s.deferred
        /\ (HasTrack(s) => x.snapshot.phase = "ready")
    BY <1>1, <2>1, SayFacts DEF Same
  <2> HIDE DEF x
  <2>4. Outcome(x, c)
    BY <1>1, <2>2, <2>3, EndPolls DEF HasTrack
  <2> QED BY <2>3, <2>4, OutcomeSame
<1>4. CASE ~f.report.cleanup /\ state \in {"cancelled", "failed"} /\ s.deferred
  <2>1. Resume(s, f, status, c)
    BY <1>4 DEF Settle, status
  <2> QED BY <1>1, <1>4, <2>1, ResumeOutcome
<1>5. CASE ~f.report.cleanup /\ state \in {"cancelled", "failed"} /\ ~s.deferred
  <2> DEFINE x == Say(s, state, f.cached, status)
  <2>1. End(FinishRequest(x), c)
    BY <1>5 DEF Settle, status
  <2>2. state \in Phases \ {"ready"} /\ state \notin Going /\ "ready" \notin Going
    BY <1>5 DEF Phases, Going
  <2>3. Shown(x) /\ x.track = s.track /\ x.deferred = s.deferred
        /\ x.snapshot.phase = IF HasTrack(s) THEN "ready" ELSE state
    BY <1>1, <2>2, SayFacts DEF Same
  <2> HIDE DEF x
  <2>4. Outcome(x, c)
    BY <2>1, <2>2, <2>3, EndFinishes DEF HasTrack
  <2> QED BY <2>3, <2>4, OutcomeSame
<1>6. CASE state = "running"
  <2> DEFINE y == [s EXCEPT !.deferred = FALSE]
             x == Say(y, "running", f.cached, status)
  <2>1. End(SchedulePoll(x, f.cached), c)
    BY <1>1, <1>6 DEF Settle, status
  <2>2. Shown(y) /\ ~y.deferred /\ y.track = s.track
    BY DEF Shown, SessionType, HasTrack
  <2>3. "running" \in Phases \ {"ready"}
    BY DEF Phases
  <2> HIDE DEF y
  <2>4. Shown(x) /\ x.track = y.track /\ ~x.deferred
        /\ (HasTrack(y) => x.snapshot.phase = "ready")
    <3>1. /\ Shown(x) /\ Same(x, y)
          /\ x.snapshot.phase = IF HasTrack(y) THEN "ready" ELSE "running"
      BY <1>1, <2>2, <2>3, SayFacts
    <3> HIDE DEF x
    <3> QED BY <2>2, <3>1 DEF Same
  <2> HIDE DEF x
  <2>5. Outcome(x, c)
    BY <1>1, <2>1, <2>4, EndPolls DEF HasTrack
  <2> QED BY <2>4, <2>5, OutcomeSame
<1> QED BY <1>1, <1>2, <1>3, <1>4, <1>5, <1>6

(* The status that answers a request is acted upon. *)
LEMMA ApplyStatusOutcome ==
    ASSUME NEW s, Shown(s), NEW f \in FrameType, NEW r \in Reports,
           f.bare => r.state = "cancelled" /\ ~r.cleanup /\ Cancelling(s),
           NEW c \in CallsType, ApplyStatus(s, f, r, c)
    PROVE  Outcome(s, c)
<1> DEFINE x == [s EXCEPT !.waiting = FALSE]
           g == [f EXCEPT !.report = r, !.why = None, !.prev = NoStatus]
           h == [g EXCEPT !.ctx = "fresh", !.cached = FALSE]
<1>1. Shown(x) /\ x.deferred = s.deferred /\ (Cancelling(s) => Cancelling(x))
  BY DEF Shown, SessionType, HasTrack, Cancelling
<1>2. g \in FrameType /\ g.report = r /\ g.why = None /\ g.bare = f.bare
  BY ReportedFacts, ReportFacts DEF FrameType, Whys
<1>3. h \in FrameType /\ h.report = r /\ h.why = None /\ h.bare = f.bare /\ h.ctx = "fresh"
  BY <1>2 DEF FrameType
<1>4. \/ r.captions # NoArtifact /\ LoadCompletedTrack(x, h, c)
      \/ Settle(x, g, c)
  BY DEF ApplyStatus
<1> HIDE DEF x, g, h
<1>5. Bare(x, g) /\ LoadFits(x, h)
  BY <1>1, <1>2, <1>3 DEF Bare, LoadFits, None
<1>6. Outcome(x, c)
  BY <1>1, <1>2, <1>3, <1>4, <1>5, ReportedFacts, LoadOutcome, SettleOutcome
<1> QED BY <1>1, <1>6, OutcomeSame

(* A stored track that matches the captions of the server is installed. *)
LEMMA LoadedOutcome ==
    ASSUME NEW s, Shown(s), s.snapshot.phase = "ready", NEW f \in FrameType,
           HasCaptions(f.report), Bare(s, f), NEW c \in CallsType, Loaded(s, f, c)
    PROVE  Outcome(s, c)
<1>1. CASE f.ctx = "fresh"
  <2> DEFINE b == s.snapshot.cached
             g == [f EXCEPT !.cached = b]
  <2>1. b \in BOOLEAN
    BY DEF Shown, SessionType, SnapshotType
  <2>2. Settle(s, g, c)
    BY <1>1 DEF Loaded
  <2> HIDE DEF b
  <2>3. g \in FrameType /\ g.report = f.report /\ g.why = f.why /\ g.bare = f.bare
    BY <2>1 DEF FrameType
  <2> HIDE DEF g
  <2>4. Bare(s, g)
    BY <2>3 DEF Bare
  <2> QED BY <2>2, <2>3, <2>4, SettleOutcome DEF HasCaptions
<1>2. CASE f.ctx # "fresh"
  BY <1>2, LoadEndsOutcome DEF Loaded
<1> QED BY <1>1, <1>2

(* A track that cannot be loaded leaves a message, and a poll where one may help. *)
LEMMA LoadFailsOutcome ==
    ASSUME NEW s, Shown(s), NEW f \in FrameType, HasCaptions(f.report), LoadFits(s, f),
           NEW transport \in BOOLEAN, NEW c \in CallsType, LoadFails(s, f, transport, c)
    PROVE  Outcome(s, c)
<1> DEFINE status == StatusOf(f.report)
           phase == IF transport /\ status.state # "completed" THEN Unavailable(status)
                    ELSE "failed"
           said == Say(s, phase, f.cached, status)
<1>1. status \in Statuses /\ f.cached \in BOOLEAN
  BY ReportFacts DEF FrameType
<1>2. phase \in Phases \ {"ready"} /\ (~transport => phase = "failed")
  BY DEF Unavailable, Phases
<1>3. \/ /\ f.ctx = "fresh" /\ HasTrack(s)
         /\ Settle(s, [f EXCEPT !.cached = s.snapshot.cached], c)
      \/ f.bare /\ ~(f.ctx = "fresh" /\ HasTrack(s)) /\ Reject(s, c)
      \/ End(SchedulePoll(said, said.snapshot.cached), c)
      \/ ~transport /\ End(FinishRequest(said), c)
  BY DEF LoadFails
<1> HIDE DEF phase
<1>4. /\ Shown(said) /\ said.track = s.track /\ said.deferred = s.deferred
      /\ said.snapshot.phase = IF HasTrack(s) THEN "ready" ELSE phase
      /\ said.snapshot.cached \in BOOLEAN
  BY <1>1, <1>2, SayFacts DEF Same
<1> HIDE DEF said, status
<1>5. CASE Settle(s, [f EXCEPT !.cached = s.snapshot.cached], c)
  <2> DEFINE b == s.snapshot.cached
             g == [f EXCEPT !.cached = b]
  <2>1. b \in BOOLEAN
    BY DEF Shown, SessionType, SnapshotType
  <2>2. Settle(s, g, c)
    BY <1>5
  <2> HIDE DEF b
  <2>3. g \in FrameType /\ g.report = f.report /\ g.why = f.why /\ g.bare = f.bare
    BY <2>1 DEF FrameType
  <2> HIDE DEF g
  <2>4. Bare(s, g)
    BY <2>3 DEF Bare, LoadFits
  <2> QED BY <2>2, <2>3, <2>4, SettleOutcome DEF HasCaptions
<1>6. CASE End(SchedulePoll(said, said.snapshot.cached), c)
  <2>1. Outcome(said, c)
    BY <1>4, <1>6, EndPolls DEF HasTrack
  <2> QED BY <1>4, <2>1, OutcomeSame
<1>7. CASE ~transport /\ End(FinishRequest(said), c)
  <2>1. said.snapshot.phase \notin Going
    BY <1>2, <1>4, <1>7 DEF Going
  <2>2. Outcome(said, c)
    BY <1>4, <1>7, <2>1, EndFinishes DEF HasTrack
  <2> QED BY <1>4, <2>2, OutcomeSame
<1>8. CASE f.bare /\ ~(f.ctx = "fresh" /\ HasTrack(s)) /\ Reject(s, c)
  <2>1. ~HasTrack(s) /\ Cancelling(s)
    BY <1>8 DEF LoadFits, Bare
  <2>2. session' = s /\ frame' = RejectedFrame /\ calls' = c
    BY <1>8 DEF Reject, Goto, RejectedFrame
  <2> QED BY <2>1, <2>2, NoFrameType DEF Outcome, Sound
<1> QED BY <1>3, <1>5, <1>6, <1>7, <1>8

(* A track that is not in the store is asked from the server. *)
LEMMA FetchTrackOutcome ==
    ASSUME NEW s, Shown(s), NEW f \in FrameType, HasCaptions(f.report), LoadFits(s, f),
           NEW c \in CallsType, FetchTrack(s, f, c)
    PROVE  Outcome(s, c)
<1>1. CASE HasTrack(s) /\ s.track.etag = f.report.captions.etag
  <2> DEFINE x == Publish(s, "ready", f.cached, StatusOf(f.report))
  <2>1. f.cached \in BOOLEAN /\ StatusOf(f.report) \in Statuses
    BY ReportFacts DEF FrameType
  <2>2. Shown(x) /\ x.snapshot.phase = "ready" /\ x.deferred = s.deferred
        /\ (Cancelling(s) => Cancelling(x))
    BY <1>1, <2>1, ReadyFacts DEF Same, Cancelling
  <2>3. Loaded(x, f, c)
    BY <1>1 DEF FetchTrack
  <2> HIDE DEF x
  <2>4. Bare(x, f)
    BY <2>2 DEF LoadFits, Bare
  <2>5. Outcome(x, c)
    BY <2>2, <2>3, <2>4, LoadedOutcome
  <2> QED BY <2>2, <2>5, OutcomeSame
<1>2. CASE ~(HasTrack(s) /\ s.track.etag = f.report.captions.etag)
  <2> DEFINE b == ~HasTrack(s)
             g == [f EXCEPT !.plain = b]
  <2>1. Request(s, g, "track", c)
    BY <1>2 DEF FetchTrack
  <2>2. b \in BOOLEAN
    OBVIOUS
  <2> HIDE DEF b
  <2>3. g \in FrameType /\ g.report = f.report /\ g.why = f.why /\ g.bare = f.bare
        /\ g.ctx = f.ctx
    BY <2>2 DEF FrameType
  <2> HIDE DEF g
  <2>4. "track" \in Operations /\ LoadFits(s, g) /\ g.why \notin {"cancel", "verify"}
    BY <2>3 DEF Operations, LoadFits, Bare
  <2>5. /\ Sound(session', frame')
        /\ calls' \in CallsType
        /\ session' = s
        /\ frame'.pc = "track"
        /\ calls'["start"] = c["start"]
    BY <2>1, <2>3, <2>4, RequestFacts
  <2> QED BY <2>5 DEF Outcome
<1> QED BY <1>1, <1>2

-----------------------------------------------------------------------------
(***************************************************************************)
(* The steps of a frame.                                                   *)
(***************************************************************************)

(* A frame that runs, and what comes with it. *)
LEMMA RunningFrame ==
    ASSUME Sound(session, frame), frame.pc \notin {"none", "rejected"}
    PROVE  /\ Shown(session)
           /\ frame \in FrameType
           /\ Fits(session, frame)
BY NoFrameType DEF Sound

(* After the look into the store an offline session ends; any other asks the server. *)
LEMMA AfterCacheOutcome ==
    ASSUME NEW s, Shown(s), frame \in FrameType, frame.why \in {"sync", "offline"},
           NEW found \in BOOLEAN, found <=> HasTrack(s), found => s.snapshot.phase = "ready",
           NEW c \in CallsType, AfterCache(s, found, c)
    PROVE  Outcome(s, c)
<1>1. CASE frame.why = "offline"
  <2> DEFINE x == IF found THEN s ELSE Publish(s, "unavailable", FALSE, NoStatus)
  <2>1. End(FinishRequest(x), c)
    BY <1>1 DEF AfterCache
  <2>2. Shown(x) /\ (HasTrack(x) => x.snapshot.phase = "ready") /\ x.snapshot.phase \notin Going
        /\ x.deferred = s.deferred
    <3>1. CASE found
      BY <3>1 DEF Going
    <3>2. CASE ~found
      <4>1. Say(s, "unavailable", FALSE, NoStatus) = x
        BY <3>2 DEF Say
      <4>2. "unavailable" \in Phases \ {"ready"} /\ NoStatus \in Statuses /\ FALSE \in BOOLEAN
        BY DEF Phases, Statuses
      <4>3. /\ Shown(Say(s, "unavailable", FALSE, NoStatus))
            /\ Same(Say(s, "unavailable", FALSE, NoStatus), s)
            /\ Say(s, "unavailable", FALSE, NoStatus).snapshot.phase = "unavailable"
        <5>1. \A b \in BOOLEAN : /\ Shown(Say(s, "unavailable", b, NoStatus))
                                  /\ Same(Say(s, "unavailable", b, NoStatus), s)
                                  /\ Say(s, "unavailable", b, NoStatus).snapshot.phase
                                        = IF HasTrack(s) THEN "ready" ELSE "unavailable"
          BY <4>2, SayFacts
        <5> QED BY <3>2, <5>1
      <4> QED BY <3>2, <4>1, <4>3 DEF Same, HasTrack, Going
    <3> QED BY <3>1, <3>2
  <2> HIDE DEF x
  <2>3. Outcome(x, c)
    BY <2>1, <2>2, EndFinishes
  <2> QED BY <2>2, <2>3, OutcomeSame
<1>2. CASE frame.why # "offline"
  <2> DEFINE g == [frame EXCEPT !.cached = found]
  <2>1. Request(s, g, "status", c)
    BY <1>2 DEF AfterCache
  <2>2. g \in FrameType /\ g.why \in {"sync", "offline"} /\ "status" \in Operations
    BY DEF FrameType, Operations
  <2> HIDE DEF g
  <2>3. /\ Sound(session', frame')
        /\ calls' \in CallsType
        /\ session' = s
        /\ frame'.pc = "status"
        /\ calls'["start"] = c["start"]
    BY <2>1, <2>2, RequestFacts
  <2> QED BY <2>3 DEF Outcome
<1> QED BY <1>1, <1>2

(* loadCached *)
LEMMA LoadCachedOutcome ==
    ASSUME Sound(session, frame), calls \in CallsType,
           saved \in [Targets -> Rows \union {NoRow}], LoadCached
    PROVE  Outcome(session, calls)
<1>1. /\ Shown(session) /\ frame \in FrameType
      /\ ~HasTrack(session) /\ frame.why \in {"sync", "offline"}
      /\ session.snapshot.status \in Statuses
  BY RunningFrame DEF LoadCached, Fits, Shown, SessionType, SnapshotType
<1>2. session.target \in Targets /\ Here \in Rows \union {NoRow}
  BY <1>1 DEF Here, Shown
<1>3. CASE AfterCache(Say(session, "failed", FALSE, session.snapshot.status), FALSE, calls)
  <2> DEFINE x == Say(session, "failed", FALSE, session.snapshot.status)
  <2>1. "failed" \in Phases \ {"ready"}
    BY DEF Phases
  <2>2. Shown(x) /\ x.track = session.track /\ x.deferred = session.deferred
    <3>1. \A b \in BOOLEAN : LET y == Say(session, "failed", b, session.snapshot.status)
                              IN Shown(y) /\ Same(y, session)
      BY <1>1, <2>1, SayFacts
    <3> QED BY <3>1 DEF Same
  <2>3. AfterCache(x, FALSE, calls)
    BY <1>3
  <2> HIDE DEF x
  <2>4. ~HasTrack(x)
    BY <1>1, <2>2 DEF HasTrack
  <2>5. \A b \in BOOLEAN : ~b /\ AfterCache(x, b, calls) => Outcome(x, calls)
    BY <1>1, <2>2, <2>4, AfterCacheOutcome
  <2>6. Outcome(x, calls)
    BY <2>3, <2>5
  <2> QED BY <2>2, <2>6, OutcomeSame
<1>4. CASE AfterCache(session, FALSE, calls)
  <2>1. \A b \in BOOLEAN : ~b /\ AfterCache(session, b, calls) => Outcome(session, calls)
    BY <1>1, AfterCacheOutcome
  <2> QED BY <1>4, <2>1
<1>5. CASE Here # NoRow /\ ~Here.whole
           /\ Goto(session, [frame EXCEPT !.pc = "uncache", !.row = Here], calls)
  <2> DEFINE row == Here
             g == [frame EXCEPT !.pc = "uncache", !.row = row]
  <2>1. row \in Rows /\ ~row.whole
    BY <1>2, <1>5
  <2>2. Goto(session, g, calls)
    BY <1>5
  <2> HIDE DEF row
  <2>3. g \in FrameType /\ g.pc = "uncache" /\ g.row = row /\ g.why = frame.why
    BY <1>1, <2>1 DEF FrameType, Pcs
  <2> HIDE DEF g
  <2>4. frame.why \in {"sync", "offline"}
    BY RunningFrame DEF LoadCached, Fits
  <2>5. Fits(session, g)
    BY <1>1, <2>1, <2>3, <2>4 DEF Fits, Operations
  <2> QED BY <1>1, <2>2, <2>3, <2>5, GoesOn
<1>6. CASE Here # NoRow /\ Here.whole
           /\ AfterCache(Publish(Install(session, Here.etag), "ready", TRUE, NoStatus), TRUE, calls)
  <2> DEFINE e == Here.etag
             x == Install(session, e)
  <2>1. e \in Etags /\ NoStatus \in Statuses
    BY <1>2, <1>6 DEF Rows, Statuses
  <2> HIDE DEF e
  <2>2. Shown(x) /\ HasTrack(x) /\ x.deferred = session.deferred
    BY <1>1, <2>1, InstallFacts
  <2> HIDE DEF x
  <2>3. \A b \in BOOLEAN : LET y == Publish(x, "ready", b, NoStatus)
                            IN /\ Shown(y) /\ HasTrack(y) /\ y.deferred = x.deferred
                               /\ y.snapshot.phase = "ready"
    BY <2>1, <2>2, ReadyFacts DEF Same
  <2> DEFINE y == Publish(x, "ready", TRUE, NoStatus)
  <2>4. Shown(y) /\ HasTrack(y) /\ y.deferred = session.deferred /\ y.snapshot.phase = "ready"
    BY <2>2, <2>3
  <2>5. AfterCache(y, TRUE, calls)
    BY <1>6 DEF x, e
  <2> HIDE DEF y
  <2>6. \A b \in BOOLEAN : b /\ AfterCache(y, b, calls) => Outcome(y, calls)
    BY <1>1, <2>4, AfterCacheOutcome
  <2>7. Outcome(y, calls)
    BY <2>5, <2>6
  <2> QED BY <2>4, <2>7, OutcomeSame
<1> QED BY <1>3, <1>4, <1>5, <1>6 DEF LoadCached

(* removeInvalidCache *)
LEMMA RemoveInvalidOutcome ==
    ASSUME Sound(session, frame), calls \in CallsType, RemoveInvalidCache
    PROVE  Outcome(session, calls)
<1>1. /\ Shown(session) /\ frame \in FrameType
      /\ ~HasTrack(session) /\ frame.why \in {"sync", "offline"}
  BY RunningFrame DEF RemoveInvalidCache, Fits
<1> DEFINE x == Publish(session, "loading", FALSE, NoStatus)
<1>2. Shown(x) /\ ~HasTrack(x) /\ x.deferred = session.deferred
  <2>1. "loading" \in Phases /\ "loading" # "ready" /\ NoStatus \in Statuses
        /\ session \in SessionType
    BY <1>1 DEF Phases, Statuses, Shown
  <2>2. \A b \in BOOLEAN : LET y == Publish(session, "loading", b, NoStatus)
                            IN /\ y \in SessionType /\ Same(y, session)
                               /\ y.snapshot.phase = "loading"
    BY <2>1, PublishFacts
  <2>3. x \in SessionType /\ Same(x, session) /\ x.snapshot.phase = "loading"
    BY <2>2
  <2> HIDE DEF x
  <2> QED BY <1>1, <2>3 DEF Same, Shown, HasTrack
<1>3. AfterCache(x, FALSE, calls)
  BY DEF RemoveInvalidCache
<1> HIDE DEF x
<1>4. \A b \in BOOLEAN : ~b /\ AfterCache(x, b, calls) => Outcome(x, calls)
  BY <1>1, <1>2, AfterCacheOutcome
<1>5. Outcome(x, calls)
  BY <1>3, <1>4
<1> QED BY <1>2, <1>5, OutcomeSame

(* A frame that goes on with its load. *)
SameLoad(g, f) ==
    g.report = f.report /\ g.why = f.why /\ g.bare = f.bare /\ g.ctx = f.ctx
LEMMA SameLoadFits ==
    ASSUME NEW s, NEW f, LoadFits(s, f), NEW g, SameLoad(g, f)
    PROVE  LoadFits(s, g) /\ g.report = f.report /\ g.why \notin {"cancel", "verify"}
BY DEF SameLoad, LoadFits, Bare

(* The ends of a load: what is in view is published as ready, or the row that is *)
(* in view is written.                                                           *)
LEMMA ReadyOutcome ==
    ASSUME NEW s, Shown(s), HasTrack(s), frame \in FrameType, HasCaptions(frame.report),
           Bare(s, frame), NEW cached \in BOOLEAN, calls \in CallsType, Ready(s, cached)
    PROVE  Outcome(s, calls)
<1> DEFINE x == Publish(s, "ready", cached, StatusOf(frame.report))
<1>1. StatusOf(frame.report) \in Statuses
  BY ReportFacts DEF FrameType
<1>2. Shown(x) /\ x.snapshot.phase = "ready" /\ x.deferred = s.deferred
      /\ (Cancelling(s) => Cancelling(x))
  BY <1>1, ReadyFacts DEF Same, Cancelling
<1>3. Loaded(x, frame, calls)
  BY DEF Ready
<1> HIDE DEF x
<1>4. Bare(x, frame)
  BY <1>2 DEF Bare
<1>5. Outcome(x, calls)
  BY <1>2, <1>3, <1>4, LoadedOutcome
<1> QED BY <1>2, <1>5, OutcomeSame

(* A track is on show before it is written. *)
LEMMA PersistOutcome ==
    ASSUME NEW s, Shown(s), HasTrack(s), frame \in FrameType, HasCaptions(frame.report),
           LoadFits(s, frame), NEW row \in Rows, NEW keep \in BOOLEAN, calls \in CallsType,
           Persist(s, row, keep)
    PROVE  Outcome(s, calls)
<1> DEFINE g == [frame EXCEPT !.pc = "put", !.row = row, !.keep = keep]
<1>1. g \in FrameType /\ g.pc = "put" /\ g.row = row /\ SameLoad(g, frame)
  BY DEF FrameType, Pcs, SameLoad
<1>2. Goto(s, g, calls)
  BY DEF Persist
<1> HIDE DEF g
<1>3. Fits(s, g)
  BY <1>1, SameLoadFits DEF Fits, Operations
<1> QED BY <1>1, <1>2, <1>3, GoesOn

(* restorePersistedTrack *)
LEMMA RestoreOutcome ==
    ASSUME Sound(session, frame), calls \in CallsType,
           saved \in [Targets -> Rows \union {NoRow}], RestorePersistedTrack
    PROVE  Outcome(session, calls)
<1> DEFINE row == Here
           wanted == frame.report.captions
           seen == Install(session, row.etag)
           fits == CanSatisfy(row, wanted) /\ (row.whole \/ session.track.etag = row.etag)
           newer == row.etag = wanted.etag /\ row.at < wanted.at
<1>1. /\ Shown(session) /\ frame \in FrameType /\ HasCaptions(frame.report)
      /\ frame.why \in Whys /\ LoadFits(session, frame)
  BY RunningFrame DEF RestorePersistedTrack, Fits, FrameType
<1>2. row \in Rows \union {NoRow}
  BY <1>1 DEF Here, Shown
<1>3. \/ FetchTrack(session, frame, calls)
      \/ fits /\ newer /\ Persist(seen, [row EXCEPT !.at = wanted.at], TRUE)
      \/ fits /\ ~newer /\ Ready(seen, TRUE)
      \/ CanSatisfy(row, wanted) /\ ~fits
         /\ Goto(session, [frame EXCEPT !.pc = "discard", !.row = row], calls)
  BY DEF RestorePersistedTrack
<1>4. wanted \in Artifacts /\ wanted.at \in Revisions
  BY <1>1, RowFacts DEF HasCaptions, Reports
<1> HIDE DEF row, wanted
<1>5. fits => row \in Rows
  BY <1>2 DEF CanSatisfy
<1>6. row \in Rows => /\ Shown(seen) /\ HasTrack(seen) /\ seen.deferred = session.deferred
                      /\ LoadFits(seen, frame)
  <2>1. row \in Rows => row.etag \in Etags
    BY DEF Rows
  <2> QED BY <1>1, <2>1, InstallFacts DEF LoadFits, Bare
<1> HIDE DEF seen
<1>7. CASE FetchTrack(session, frame, calls)
  BY <1>1, <1>7, FetchTrackOutcome
<1>8. CASE fits /\ newer /\ Persist(seen, [row EXCEPT !.at = wanted.at], TRUE)
  <2> DEFINE n == [row EXCEPT !.at = wanted.at]
  <2>1. n \in Rows
    BY <1>4, <1>5, <1>8 DEF Rows
  <2>2. Persist(seen, n, TRUE)
    BY <1>8
  <2> HIDE DEF n
  <2>3. \A b \in BOOLEAN : Persist(seen, n, b) => Outcome(seen, calls)
    BY <1>1, <1>5, <1>6, <1>8, <2>1, PersistOutcome
  <2> QED BY <1>5, <1>6, <1>8, <2>2, <2>3, OutcomeSame
<1>9. CASE fits /\ ~newer /\ Ready(seen, TRUE)
  <2>1. \A b \in BOOLEAN : Ready(seen, b) => Outcome(seen, calls)
    BY <1>1, <1>5, <1>6, <1>9, ReadyOutcome DEF LoadFits
  <2> QED BY <1>5, <1>6, <1>9, <2>1, OutcomeSame
<1>10. CASE CanSatisfy(row, wanted) /\ ~fits
            /\ Goto(session, [frame EXCEPT !.pc = "discard", !.row = row], calls)
  <2> DEFINE g == [frame EXCEPT !.pc = "discard", !.row = row]
  <2>1. row \in Rows /\ ~row.whole
    BY <1>2, <1>10 DEF CanSatisfy, Rows
  <2>2. Goto(session, g, calls)
    BY <1>10
  <2>3. g \in FrameType /\ g.pc = "discard" /\ g.row = row /\ SameLoad(g, frame)
    BY <1>1, <2>1 DEF FrameType, Pcs, SameLoad
  <2> HIDE DEF g
  <2>4. Fits(session, g)
    BY <1>1, <2>1, <2>3, SameLoadFits DEF Fits, Operations
  <2> QED BY <1>1, <2>2, <2>3, <2>4, GoesOn
<1> QED BY <1>3, <1>7, <1>8, <1>9, <1>10

(* The row that does not decode is removed, and the track is requested. *)
LEMMA DiscardOutcome ==
    ASSUME Sound(session, frame), calls \in CallsType, DiscardPersisted
    PROVE  Outcome(session, calls)
<1>1. /\ Shown(session) /\ frame \in FrameType /\ HasCaptions(frame.report)
      /\ LoadFits(session, frame)
  BY RunningFrame DEF DiscardPersisted, Fits
<1> QED BY <1>1, FetchTrackOutcome DEF DiscardPersisted

(* promoteNotModifiedTrack *)
LEMMA PromoteOutcome ==
    ASSUME Sound(session, frame), calls \in CallsType,
           saved \in [Targets -> Rows \union {NoRow}], PromoteNotModifiedTrack
    PROVE  Outcome(session, calls)
<1> DEFINE row == Here
<1>1. /\ Shown(session) /\ frame \in FrameType /\ HasCaptions(frame.report)
      /\ HasTrack(session) /\ frame.row \in Rows /\ LoadFits(session, frame)
  BY RunningFrame DEF PromoteNotModifiedTrack, Fits
<1>2. row \in Rows \union {NoRow}
  BY <1>1 DEF Here, Shown
<1>3. \/ Request(session, [frame EXCEPT !.plain = TRUE], "track", calls)
      \/ row # NoRow /\ Persist(session, [row EXCEPT !.at = frame.row.at], TRUE)
      \/ Ready(session, TRUE)
  BY DEF PromoteNotModifiedTrack
<1> HIDE DEF row
<1>4. CASE Request(session, [frame EXCEPT !.plain = TRUE], "track", calls)
  <2> DEFINE g == [frame EXCEPT !.plain = TRUE]
  <2>1. g \in FrameType /\ SameLoad(g, frame) /\ "track" \in Operations
    BY <1>1 DEF FrameType, Operations, SameLoad
  <2>2. Request(session, g, "track", calls)
    BY <1>4
  <2> HIDE DEF g
  <2>3. /\ Sound(session', frame')
        /\ calls' \in CallsType
        /\ session' = session
        /\ frame'.pc = "track"
        /\ calls'["start"] = calls["start"]
    BY <1>1, <2>1, <2>2, SameLoadFits, RequestFacts
  <2> QED BY <2>3 DEF Outcome
<1>5. CASE row # NoRow /\ Persist(session, [row EXCEPT !.at = frame.row.at], TRUE)
  <2> DEFINE n == [row EXCEPT !.at = frame.row.at]
  <2>1. n \in Rows
    BY <1>1, <1>2, <1>5 DEF Rows
  <2>2. Persist(session, n, TRUE)
    BY <1>5
  <2> HIDE DEF n
  <2>3. \A b \in BOOLEAN : Persist(session, n, b) => Outcome(session, calls)
    BY <1>1, <2>1, PersistOutcome
  <2> QED BY <2>2, <2>3
<1>6. CASE Ready(session, TRUE)
  <2>1. \A b \in BOOLEAN : Ready(session, b) => Outcome(session, calls)
    BY <1>1, ReadyOutcome DEF LoadFits
  <2> QED BY <1>6, <2>1
<1> QED BY <1>3, <1>4, <1>5, <1>6

(* persistDownloadedTrack *)
LEMMA PutOutcome ==
    ASSUME Sound(session, frame), calls \in CallsType, PersistDownloadedTrack
    PROVE  Outcome(session, calls)
<1>1. /\ Shown(session) /\ frame \in FrameType /\ HasCaptions(frame.report)
      /\ HasTrack(session) /\ LoadFits(session, frame)
  BY RunningFrame DEF PersistDownloadedTrack, Fits
<1>2. CASE Ready(session, frame.keep)
  <2>1. frame.keep \in BOOLEAN
    BY <1>1 DEF FrameType
  <2> QED BY <1>1, <1>2, <2>1, ReadyOutcome DEF LoadFits
<1>3. CASE Goto(session, [frame EXCEPT !.pc = "verify"], calls)
  <2> DEFINE g == [frame EXCEPT !.pc = "verify"]
  <2>1. g \in FrameType /\ g.pc = "verify" /\ SameLoad(g, frame)
    BY <1>1 DEF FrameType, Pcs, SameLoad
  <2>2. Goto(session, g, calls)
    BY <1>3
  <2> HIDE DEF g
  <2>3. Fits(session, g)
    BY <1>1, <2>1, SameLoadFits DEF Fits, Operations
  <2> QED BY <1>1, <2>1, <2>2, <2>3, GoesOn
<1> QED BY <1>2, <1>3 DEF PersistDownloadedTrack

(* A stored track is shown when it verifies and discarded when it does not. *)
LEMMA VerifyOutcome ==
    ASSUME Sound(session, frame), calls \in CallsType,
           saved \in [Targets -> Rows \union {NoRow}], VerifyPersisted
    PROVE  Outcome(session, calls)
<1> DEFINE row == Here
           seen == Install(session, row.etag)
<1>1. /\ Shown(session) /\ frame \in FrameType /\ HasCaptions(frame.report)
      /\ HasTrack(session) /\ LoadFits(session, frame)
  BY RunningFrame DEF VerifyPersisted, Fits
<1>2. row \in Rows \union {NoRow} /\ frame.keep \in BOOLEAN
  BY <1>1 DEF Here, Shown, FrameType
<1>3. Ready(session, frame.keep) \/ (row # NoRow /\ Ready(seen, TRUE))
  BY DEF VerifyPersisted
<1> HIDE DEF row
<1>4. CASE Ready(session, frame.keep)
  BY <1>1, <1>2, <1>4, ReadyOutcome DEF LoadFits
<1>5. CASE row # NoRow /\ Ready(seen, TRUE)
  <2>1. row.etag \in Etags
    BY <1>2, <1>5 DEF Rows
  <2>2. Shown(seen) /\ HasTrack(seen) /\ seen.deferred = session.deferred /\ Bare(seen, frame)
    BY <1>1, <2>1, InstallFacts DEF LoadFits, Bare
  <2> HIDE DEF seen
  <2>3. \A b \in BOOLEAN : Ready(seen, b) => Outcome(seen, calls)
    BY <1>1, <2>2, ReadyOutcome
  <2> QED BY <1>5, <2>2, <2>3, OutcomeSame
<1> QED BY <1>3, <1>4, <1>5

(* A step on the storage, as far as the session is concerned. *)
LEMMA StorageOutcome ==
    ASSUME Sound(session, frame), calls \in CallsType,
           saved \in [Targets -> Rows \union {NoRow}], StorageStep
    PROVE  Outcome(session, calls)
BY LoadCachedOutcome, RemoveInvalidOutcome, RestoreOutcome, DiscardOutcome, PromoteOutcome,
   PutOutcome, VerifyOutcome DEF StorageStep

-----------------------------------------------------------------------------
(***************************************************************************)
(* The answers of the server.                                              *)
(***************************************************************************)

(* A request that is over leaves no other one outstanding. *)
LEMMA CallsFacts ==
    ASSUME calls \in CallsType, NEW o \in Operations,
           NEW c \in AfterUnreached(o)
    PROVE  c \in CallsType /\ (c["start"] = "live" => calls["start"] = "live")
BY DEF CallsType, AfterUnreached, Freed, Operations

(* A request that was answered is outstanding no more, and none else becomes so. *)
LEMMA FreedFacts ==
    ASSUME calls \in CallsType, NEW o \in Operations
    PROVE  /\ Freed(o) \in CallsType /\ Freed(o)[o] = "idle"
           /\ (Freed(o)["start"] = "live" => calls["start"] = "live")
BY DEF CallsType, Freed, Operations

(* What a step of the frame comes to. *)
FrameOutcome ==
    /\ Sound(session', frame')
    /\ calls' \in CallsType
    /\ frame'.pc # "cancel"
    /\ Begun => /\ ~session'.deferred
                /\ session.deferred \/ (frame.pc = "cancel" /\ frame.why = "restart")

(* An outcome for the session is an outcome for the step of its frame. *)
LEMMA OutcomeOfFrame ==
    ASSUME NEW c, Outcome(session, c), c["start"] = "live" => calls["start"] = "live"
    PROVE  FrameOutcome
BY DEF Outcome, FrameOutcome, Begun

(* What a frame that awaits an answer has. *)
LEMMA AskingFrame ==
    ASSUME Sound(session, frame), frame.pc \in Operations
    PROVE  /\ Shown(session) /\ frame \in FrameType /\ Fits(session, frame)
           /\ frame.cached \in BOOLEAN /\ frame.prev \in Statuses
           /\ CancelledOf(frame.prev) \in Statuses
           /\ session.snapshot.status \in Statuses
<1>1. /\ Shown(session) /\ frame \in FrameType /\ Fits(session, frame)
  BY RunningFrame DEF Operations
<1>2. frame.cached \in BOOLEAN /\ frame.prev \in Statuses
      /\ session.snapshot.status \in Statuses
  BY <1>1 DEF FrameType, Shown, SessionType, SnapshotType
<1> QED BY <1>1, <1>2, ReportFacts

(* A message without a promise, and a poll later. *)
LEMMA SaysAndPolls ==
    ASSUME NEW s, Shown(s), NEW phase \in Phases \ {"ready"}, NEW shown \in BOOLEAN,
           NEW status \in Statuses, NEW cached \in BOOLEAN, NEW c \in CallsType,
           End(SchedulePoll(Say(s, phase, shown, status), cached), c)
    PROVE  Outcome(s, c)
<1> DEFINE x == Say(s, phase, shown, status)
<1>1. Shown(x) /\ x.track = s.track /\ x.deferred = s.deferred
      /\ (HasTrack(s) => x.snapshot.phase = "ready")
  BY SayFacts DEF Same
<1>2. End(SchedulePoll(x, cached), c)
  OBVIOUS
<1> HIDE DEF x
<1>3. Outcome(x, c)
  BY <1>1, <1>2, EndPolls DEF HasTrack
<1> QED BY <1>1, <1>3, OutcomeSame

(* A message that ends the request and waits for nothing. *)
LEMMA SaysAndFinishes ==
    ASSUME NEW s, Shown(s), NEW phase \in Phases \ {"ready"}, phase \notin Going,
           NEW shown \in BOOLEAN, NEW status \in Statuses, NEW c \in CallsType,
           End(FinishRequest(Say(s, phase, shown, status)), c)
    PROVE  Outcome(s, c)
<1> DEFINE x == Say(s, phase, shown, status)
<1>1. Shown(x) /\ x.track = s.track /\ x.deferred = s.deferred
      /\ x.snapshot.phase = IF HasTrack(s) THEN "ready" ELSE phase
  BY SayFacts DEF Same
<1>2. End(FinishRequest(x), c)
  OBVIOUS
<1> HIDE DEF x
<1>3. Outcome(x, c)
  BY <1>1, <1>2, EndFinishes DEF HasTrack, Going
<1> QED BY <1>1, <1>3, OutcomeSame

(* publishStatusUnavailable *)
LEMMA WatchOutcome ==
    ASSUME Shown(session), frame \in FrameType, NEW status \in Statuses, NEW c \in CallsType,
           Watch(status, c)
    PROVE  Outcome(session, c)
<1> DEFINE phase == Unavailable(status)
           x == Say(session, phase, frame.cached, status)
           cached == x.snapshot.cached
<1>1. phase \in Phases \ {"ready"} /\ frame.cached \in BOOLEAN
  BY DEF Unavailable, Phases, FrameType
<1>2. End(SchedulePoll(Say(session, phase, frame.cached, status), cached), c)
  BY DEF Watch
<1> HIDE DEF phase
<1>3. cached \in BOOLEAN
  BY <1>1, SayFacts
<1> HIDE DEF cached
<1> QED BY <1>1, <1>2, <1>3, SaysAndPolls

(* applyMissingStatus *)
LEMMA MissingOutcome ==
    ASSUME Shown(session), frame \in FrameType, NEW c \in CallsType, Missing(c)
    PROVE  Outcome(session, c)
<1>1. /\ frame.cached \in BOOLEAN /\ NoStatus \in Statuses
      /\ "failed" \in Phases \ {"ready"}
      /\ "unavailable" \in Phases \ {"ready"} /\ "unavailable" \notin Going
  BY DEF FrameType, Statuses, Phases, Going
<1>2. \/ End(SchedulePoll(Say(session, "failed", frame.cached, NoStatus), frame.cached), c)
      \/ End(FinishRequest(Say(session, "unavailable", frame.cached, NoStatus)), c)
  BY DEF Missing
<1> QED BY <1>1, <1>2, SaysAndPolls, SaysAndFinishes

(* A poll that is answered. *)
LEMMA StatusAnswersOutcome ==
    ASSUME Sound(session, frame), calls \in CallsType, StatusAnswers
    PROVE  FrameOutcome
<1> DEFINE c == Freed("status")
<1>1. c \in CallsType /\ (c["start"] = "live" => calls["start"] = "live")
  BY FreedFacts DEF Operations
<1>2. frame.pc = "status"
  BY DEF StatusAnswers, Answered
<1>3. /\ Shown(session) /\ frame \in FrameType /\ Fits(session, frame)
      /\ frame.cached \in BOOLEAN /\ frame.prev \in Statuses /\ ~frame.bare
  BY <1>2, AskingFrame DEF Operations, Fits
<1> DEFINE cancelled == Report("cancelled", FALSE, frame.prev.captions)
           g == [frame EXCEPT !.bare = TRUE]
<1>4. \/ \E r \in Reports : ApplyStatus(session, frame, r, c)
      \/ Missing(c)
      \/ frame.why = "observe" /\ Resume(session, frame, frame.prev, c)
      \/ frame.why = "verify" /\ ApplyStatus(session, g, cancelled, c)
      \/ End(FinishRequest(Say(session, "cancelled", frame.cached, NoStatus)), c)
  BY DEF StatusAnswers
<1> HIDE DEF c
<1>5. CASE \E r \in Reports : ApplyStatus(session, frame, r, c)
  BY <1>1, <1>3, <1>5, ApplyStatusOutcome, OutcomeOfFrame
<1>9. CASE frame.why = "verify" /\ ApplyStatus(session, g, cancelled, c)
  <2>1. Cancelling(session)
    BY <1>3, <1>9 DEF Fits
  <2>2. frame.prev.captions \in Artifacts \union {NoArtifact}
    BY <1>3 DEF Statuses, NoStatus
  <2>3. cancelled \in Reports /\ cancelled.state = "cancelled" /\ ~cancelled.cleanup
    BY <2>2, ReportFacts
  <2>4. g \in FrameType
    BY <1>3 DEF FrameType
  <2> HIDE DEF g, cancelled
  <2>5. Outcome(session, c)
    BY <1>1, <1>3, <1>9, <2>1, <2>3, <2>4, ApplyStatusOutcome
  <2> QED BY <1>1, <2>5, OutcomeOfFrame
<1>6. CASE Missing(c)
  BY <1>1, <1>3, <1>6, MissingOutcome, OutcomeOfFrame
<1>7. CASE frame.why = "observe" /\ Resume(session, frame, frame.prev, c)
  <2>1. session.deferred
    BY <1>2, <1>3, <1>7 DEF Fits
  <2> QED BY <1>1, <1>3, <1>7, <2>1, ResumeOutcome, OutcomeOfFrame
<1>8. CASE End(FinishRequest(Say(session, "cancelled", frame.cached, NoStatus)), c)
  <2>1. "cancelled" \in Phases \ {"ready"} /\ "cancelled" \notin Going /\ NoStatus \in Statuses
    BY DEF Phases, Going, Statuses
  <2> QED BY <1>1, <1>3, <1>8, <2>1, SaysAndFinishes, OutcomeOfFrame
<1> QED BY <1>4, <1>5, <1>6, <1>7, <1>8, <1>9

(* A poll that fails polls again. *)
LEMMA StatusFailsOutcome ==
    ASSUME Sound(session, frame), calls \in CallsType, StatusFails
    PROVE  FrameOutcome
<1> USE DEF Operations
<1>1. PICK c \in AfterUnreached("status") :
         /\ Unreached("status", c)
         /\ \/ End(SchedulePoll(Say(session, "cancelled", frame.cached,
                                    CancelledOf(frame.prev)), frame.cached), c)
            \/ Watch(session.snapshot.status, c)
            \/ Watch(frame.prev, c)
  BY DEF StatusFails
<1>2. c \in CallsType /\ (c["start"] = "live" => calls["start"] = "live")
  BY CallsFacts
<1>3. /\ Shown(session) /\ frame \in FrameType
      /\ frame.cached \in BOOLEAN /\ frame.prev \in Statuses
      /\ CancelledOf(frame.prev) \in Statuses /\ session.snapshot.status \in Statuses
      /\ "cancelled" \in Phases \ {"ready"}
  BY <1>1, AskingFrame DEF Unreached, Phases
<1>4. Outcome(session, c)
  BY <1>1, <1>2, <1>3, WatchOutcome, SaysAndPolls
<1> QED BY <1>2, <1>4, OutcomeOfFrame

(* A start that is answered. *)
LEMMA StartAnswersOutcome ==
    ASSUME Sound(session, frame), calls \in CallsType, StartAnswers
    PROVE  FrameOutcome
<1> DEFINE c == Freed("start")
<1>1. c \in CallsType /\ (c["start"] = "live" => calls["start"] = "live")
  BY FreedFacts DEF Operations
<1>2. Shown(session) /\ frame \in FrameType /\ ~frame.bare
  BY AskingFrame DEF StartAnswers, Answered, Operations, Fits
<1>3. PICK r \in Reports : ApplyStatus(session, frame, r, c)
  BY DEF StartAnswers
<1> HIDE DEF c
<1> QED BY <1>1, <1>2, <1>3, ApplyStatusOutcome, OutcomeOfFrame

(* A start that did not reach the server, or whose answer did not arrive. *)
LEMMA StartUnreachedOutcome ==
    ASSUME Sound(session, frame), calls \in CallsType, StartUnreached
    PROVE  FrameOutcome
<1> USE DEF Operations
<1> DEFINE status == IF frame.why = "restart" THEN CancelledOf(frame.prev) ELSE frame.prev
<1>1. PICK c \in AfterUnreached("start") : Unreached("start", c) /\ Watch(status, c)
  BY DEF StartUnreached
<1>2. c \in CallsType /\ (c["start"] = "live" => calls["start"] = "live")
  BY CallsFacts
<1>3. Shown(session) /\ frame \in FrameType /\ status \in Statuses
  BY <1>1, AskingFrame DEF Unreached
<1> HIDE DEF status
<1> QED BY <1>1, <1>2, <1>3, WatchOutcome, OutcomeOfFrame

(* A cancellation that failed. *)
LEMMA CancelFailsOutcome ==
    ASSUME Sound(session, frame), calls \in CallsType, CancelFails
    PROVE  FrameOutcome
<1> USE DEF Operations
<1>1. PICK c \in AfterUnreached("cancel") : Unreached("cancel", c) /\ Watch(frame.prev, c)
  BY DEF CancelFails
<1>2. c \in CallsType /\ (c["start"] = "live" => calls["start"] = "live")
  BY CallsFacts
<1>3. Shown(session) /\ frame \in FrameType /\ frame.prev \in Statuses
  BY <1>1, AskingFrame DEF Unreached
<1> QED BY <1>1, <1>2, <1>3, WatchOutcome, OutcomeOfFrame

(* 409 transcription_cleanup_pending: the start waits for the server, and no other *)
(* is sent.                                                                        *)
LEMMA StartTooEarlyOutcome ==
    ASSUME Sound(session, frame), calls \in CallsType, StartTooEarly
    PROVE  FrameOutcome
<1> DEFINE c == Freed("start")
           s == [session EXCEPT !.deferred = TRUE]
<1>1. c \in CallsType /\ c["start"] = "idle"
  BY FreedFacts DEF Operations
<1>2. /\ Shown(session) /\ frame \in FrameType
      /\ frame.cached \in BOOLEAN /\ frame.prev \in Statuses
  BY AskingFrame DEF StartTooEarly, Answered, Operations
<1>3. Shown(s) /\ s.deferred
  BY <1>2 DEF Shown, SessionType, HasTrack
<1>4. \/ Request(s, [frame EXCEPT !.why = "observe"], "status", c)
      \/ End(SchedulePoll(Say(s, "cleaning", frame.cached, frame.prev), frame.cached), c)
  BY DEF StartTooEarly
<1> HIDE DEF c, s
<1>5. CASE Request(s, [frame EXCEPT !.why = "observe"], "status", c)
  <2> DEFINE g == [frame EXCEPT !.why = "observe"]
  <2>1. g \in FrameType /\ g.why = "observe" /\ "status" \in Operations
    BY <1>2 DEF FrameType, Whys, Operations
  <2>2. Request(s, g, "status", c)
    BY <1>5
  <2> HIDE DEF g
  <2>3. /\ Sound(session', frame') /\ calls' \in CallsType
        /\ frame'.pc = "status" /\ calls'["start"] = c["start"]
    BY <1>1, <1>3, <2>1, <2>2, RequestFacts
  <2> QED BY <1>1, <2>3 DEF FrameOutcome, Begun
<1>6. CASE End(SchedulePoll(Say(s, "cleaning", frame.cached, frame.prev), frame.cached), c)
  <2>1. "cleaning" \in Phases \ {"ready"}
    BY DEF Phases
  <2>2. Outcome(s, c)
    BY <1>1, <1>2, <1>3, <1>6, <2>1, SaysAndPolls
  <2>3. calls' = c
    BY <1>6 DEF End, Goto
  <2> QED BY <1>1, <2>2, <2>3 DEF Outcome, FrameOutcome, Begun
<1> QED BY <1>4, <1>5, <1>6

(* A start that is refused, for a cleanup or for good. *)
LEMMA StartRefusedOutcome ==
    ASSUME Sound(session, frame), calls \in CallsType, StartRefused
    PROVE  FrameOutcome
<1> DEFINE c == Freed("start")
           status == IF frame.why = "restart" THEN CancelledOf(frame.prev) ELSE frame.prev
           said == Say(session, "failed", frame.cached, status)
           x == [said EXCEPT !.waiting = TRUE]
<1>1. c \in CallsType /\ (c["start"] = "live" => calls["start"] = "live")
  BY FreedFacts DEF Operations
<1>2. /\ Shown(session) /\ frame \in FrameType
      /\ frame.cached \in BOOLEAN /\ status \in Statuses
      /\ "failed" \in Phases \ {"ready"} /\ "failed" \notin Going
  BY AskingFrame DEF StartRefused, Answered, Operations, Phases, Going
<1>3. End(SchedulePoll(x, frame.cached), c) \/ End(FinishRequest(said), c)
  BY DEF StartRefused
<1> HIDE DEF c, status
<1>4. CASE End(SchedulePoll(x, frame.cached), c)
  <2>1. Shown(said) /\ said.track = session.track /\ said.deferred = session.deferred
        /\ (HasTrack(session) => said.snapshot.phase = "ready")
    BY <1>2, SayFacts DEF Same
  <2> HIDE DEF said
  <2>2. Shown(x) /\ x.track = said.track /\ x.deferred = said.deferred
        /\ x.snapshot = said.snapshot
    BY <2>1 DEF Shown, SessionType, HasTrack
  <2> HIDE DEF x
  <2>3. Outcome(x, c)
    BY <1>1, <1>2, <1>4, <2>1, <2>2, EndPolls DEF HasTrack
  <2> QED BY <1>1, <2>1, <2>2, <2>3, OutcomeSame, OutcomeOfFrame
<1>5. CASE End(FinishRequest(said), c)
  BY <1>1, <1>2, <1>5, SaysAndFinishes, OutcomeOfFrame
<1> QED BY <1>3, <1>4, <1>5

(* The cancellation of a restart goes on to its start, for the user asked for it; *)
(* any other looks what became of the job.                                        *)
LEMMA CancelAnswersOutcome ==
    ASSUME Sound(session, frame), calls \in CallsType, CancelAnswers
    PROVE  FrameOutcome
<1> DEFINE c == Freed("cancel")
<1>1. /\ c \in CallsType /\ c["start"] = calls["start"]
  BY FreedFacts DEF Operations, Freed, CallsType
<1>2. /\ Shown(session) /\ frame \in FrameType /\ Fits(session, frame)
      /\ frame.pc = "cancel"
  BY AskingFrame DEF CancelAnswers, Answered, Operations
<1>3. \/ frame.why = "restart" /\ Request(session, frame, "start", c)
      \/ /\ frame.why = "cancel"
         /\ Request(session, [frame EXCEPT !.why = "verify"], "status", c)
  BY <1>2 DEF CancelAnswers, Fits
<1> HIDE DEF c
<1>4. CASE frame.why = "restart" /\ Request(session, frame, "start", c)
  <2>1. ~session.deferred /\ "start" \in Operations
    BY <1>2, <1>4 DEF Fits, Operations
  <2>2. /\ Sound(session', frame') /\ calls' \in CallsType
        /\ session' = session /\ frame'.pc = "start"
    BY <1>1, <1>2, <1>4, <2>1, RequestFacts
  <2> QED BY <1>2, <1>4, <2>1, <2>2 DEF FrameOutcome
<1>5. CASE /\ frame.why = "cancel"
           /\ Request(session, [frame EXCEPT !.why = "verify"], "status", c)
  <2> DEFINE g == [frame EXCEPT !.why = "verify"]
  <2>1. g \in FrameType /\ g.why = "verify" /\ "status" \in Operations
        /\ Cancelling(session)
    BY <1>2, <1>5 DEF FrameType, Whys, Operations, Fits
  <2>2. Request(session, g, "status", c)
    BY <1>5
  <2> HIDE DEF g
  <2>3. /\ Sound(session', frame') /\ calls' \in CallsType
        /\ frame'.pc = "status" /\ calls'["start"] = c["start"]
    BY <1>1, <1>2, <2>1, <2>2, RequestFacts
  <2> QED BY <1>1, <2>3 DEF FrameOutcome, Begun
<1> QED BY <1>3, <1>4, <1>5

(* A cancellation that met a start still on its way. *)
LEMMA CancelTooEarlyOutcome ==
    ASSUME Sound(session, frame), calls \in CallsType, CancelTooEarly
    PROVE  FrameOutcome
<1> DEFINE c == Freed("cancel")
           s == [session EXCEPT !.deferred = TRUE]
<1>1. /\ c \in CallsType /\ c["start"] = calls["start"]
  BY FreedFacts DEF Operations, Freed, CallsType
<1>2. /\ Shown(session) /\ frame \in FrameType
      /\ frame.why \in {"cancel", "restart"}
      /\ frame.why = "cancel" => Cancelling(session)
  BY AskingFrame DEF CancelTooEarly, Answered, Operations, Fits
<1>3. Shown(s) /\ s.deferred
  BY <1>2 DEF Shown, SessionType, HasTrack
<1>4. \E x \in {session, s}, why \in {"observe", "verify"} :
         /\ why = "observe" => x = s
         /\ why = "verify" => x = session /\ frame.why = "cancel"
         /\ Request(x, [frame EXCEPT !.why = why], "status", c)
  BY <1>2 DEF CancelTooEarly
<1> HIDE DEF c, s
<1>5. PICK x \in {session, s}, why \in {"observe", "verify"} :
         /\ why = "observe" => x = s
         /\ why = "verify" => x = session /\ frame.why = "cancel"
         /\ Request(x, [frame EXCEPT !.why = why], "status", c)
  BY <1>4
<1> DEFINE g == [frame EXCEPT !.why = why]
<1>6. g \in FrameType /\ g.why = why /\ "status" \in Operations
  BY <1>2 DEF FrameType, Whys, Operations
<1>7. Request(x, g, "status", c)
  BY <1>5
<1> HIDE DEF g
<1>8. /\ Sound(session', frame') /\ calls' \in CallsType
      /\ frame'.pc = "status" /\ calls'["start"] = c["start"]
  <2>1. Shown(x) /\ (g.why = "observe" => x.deferred) /\ g.why \in {"observe", "verify"}
        /\ (g.why = "verify" => Cancelling(x))
    BY <1>2, <1>3, <1>5, <1>6
  <2> QED BY <1>1, <1>6, <1>7, <2>1, RequestFacts
<1> QED BY <1>1, <1>8 DEF FrameOutcome, Begun

(* getTrack *)
LEMMA TrackAnswersOutcome ==
    ASSUME Sound(session, frame), calls \in CallsType, TrackAnswers
    PROVE  FrameOutcome
<1> DEFINE c == Freed("track")
<1>1. c \in CallsType /\ (c["start"] = "live" => calls["start"] = "live")
  BY FreedFacts DEF Operations
<1>2. /\ Shown(session) /\ frame \in FrameType /\ HasCaptions(frame.report)
      /\ LoadFits(session, frame)
      /\ StatusOf(frame.report) \in Statuses
  BY AskingFrame, ReportFacts DEF TrackAnswers, Answered, Operations, Fits, FrameType
<1>3. PICK a \in Artifacts :
         \/ /\ a.etag = session.track.etag
            /\ Goto(session, [frame EXCEPT !.pc = "promote", !.row = Row(a.etag, a.at, TRUE)], c)
         \/ Goto(Publish(Install(session, a.etag), "ready", FALSE, StatusOf(frame.report)),
                 [frame EXCEPT !.pc = "put", !.keep = FALSE, !.row = Row(a.etag, a.at, TRUE)], c)
  BY DEF TrackAnswers
<1> DEFINE row == Row(a.etag, a.at, TRUE)
<1>4. row \in Rows /\ a.etag \in Etags /\ a.etag # None
  BY RowFacts
<1> HIDE DEF c, row
<1>5. CASE a.etag = session.track.etag
           /\ Goto(session, [frame EXCEPT !.pc = "promote", !.row = row], c)
  <2> DEFINE g == [frame EXCEPT !.pc = "promote", !.row = row]
  <2>1. g \in FrameType /\ g.pc = "promote" /\ g.row = row /\ SameLoad(g, frame)
    BY <1>2, <1>4 DEF FrameType, Pcs, SameLoad
  <2>2. Goto(session, g, c)
    BY <1>5
  <2> HIDE DEF g
  <2>3. HasTrack(session)
    BY <1>4, <1>5 DEF HasTrack, NoTrack
  <2>4. Fits(session, g)
    BY <1>2, <1>4, <2>1, <2>3, SameLoadFits DEF Fits, Operations
  <2>5. Outcome(session, c)
    BY <1>1, <1>2, <2>1, <2>2, <2>4, GoesOn
  <2> QED BY <1>1, <2>5, OutcomeOfFrame
<1>6. CASE Goto(Publish(Install(session, a.etag), "ready", FALSE, StatusOf(frame.report)),
                [frame EXCEPT !.pc = "put", !.keep = FALSE, !.row = row], c)
  <2> DEFINE x == Install(session, a.etag)
             y == Publish(x, "ready", FALSE, StatusOf(frame.report))
             g == [frame EXCEPT !.pc = "put", !.keep = FALSE, !.row = row]
  <2>1. g \in FrameType /\ g.pc = "put" /\ g.row = row /\ SameLoad(g, frame)
    BY <1>2, <1>4 DEF FrameType, Pcs, SameLoad
  <2>2. Goto(y, g, c)
    BY <1>6
  <2> HIDE DEF g
  <2>3. Shown(x) /\ HasTrack(x) /\ x.deferred = session.deferred
        /\ (Cancelling(session) => Cancelling(x))
    BY <1>2, <1>4, InstallFacts
  <2> HIDE DEF x
  <2>4. \A b \in BOOLEAN : LET z == Publish(x, "ready", b, StatusOf(frame.report))
                            IN /\ Shown(z) /\ HasTrack(z) /\ z.deferred = x.deferred
                               /\ Cancelling(x) => Cancelling(z)
    BY <1>2, <2>3, ReadyFacts DEF Same, Cancelling
  <2>5. Shown(y) /\ HasTrack(y) /\ y.deferred = session.deferred
        /\ (Cancelling(session) => Cancelling(y))
    BY <2>3, <2>4
  <2> HIDE DEF y
  <2>6. Fits(y, g)
    <3>1. LoadFits(y, frame)
      BY <1>2, <2>5 DEF LoadFits, Bare
    <3> QED BY <1>2, <1>4, <2>1, <2>5, <3>1, SameLoadFits DEF Fits, Operations
  <2>7. Outcome(y, c)
    BY <1>1, <2>1, <2>2, <2>5, <2>6, GoesOn
  <2> QED BY <1>1, <2>5, <2>7, OutcomeSame, OutcomeOfFrame
<1> QED BY <1>3, <1>5, <1>6 DEF row

(* A track that could not be downloaded. *)
LEMMA TrackFailsOutcome ==
    ASSUME Sound(session, frame), calls \in CallsType, TrackFails
    PROVE  FrameOutcome
<1> USE DEF Operations
<1>1. frame.pc = "track"
  BY DEF TrackFails, Unreached, Answered
<1>2. Shown(session) /\ frame \in FrameType /\ HasCaptions(frame.report)
      /\ LoadFits(session, frame)
  BY <1>1, AskingFrame DEF Fits
<1>3. PICK c \in AfterUnreached("track"), transport \in BOOLEAN :
         LoadFails(session, frame, transport, c)
  <2>1. Freed("track") \in AfterUnreached("track")
    BY DEF AfterUnreached
  <2> QED BY <2>1 DEF TrackFails
<1>4. c \in CallsType /\ (c["start"] = "live" => calls["start"] = "live")
  BY CallsFacts
<1> QED BY <1>2, <1>3, <1>4, LoadFailsOutcome, OutcomeOfFrame

(* A step of the frame, as far as the session is concerned. *)
LEMMA StepOutcome ==
    ASSUME Sound(session, frame), calls \in CallsType,
           saved \in [Targets -> Rows \union {NoRow}], StorageStep \/ ServiceStep
    PROVE  FrameOutcome
<1>1. CASE StorageStep
  BY <1>1, StorageOutcome, OutcomeOfFrame
<1>2. CASE ServiceStep
  BY <1>2, StatusAnswersOutcome, StatusFailsOutcome, StartAnswersOutcome,
     StartUnreachedOutcome, StartTooEarlyOutcome, StartRefusedOutcome, CancelAnswersOutcome,
     CancelTooEarlyOutcome, CancelFailsOutcome, TrackAnswersOutcome, TrackFailsOutcome
     DEF ServiceStep
<1> QED BY <1>1, <1>2

-----------------------------------------------------------------------------
(***************************************************************************)
(* What is stored.                                                         *)
(***************************************************************************)

SavedType == [Targets -> Rows \union {NoRow}]

(* A chapter's row gets no older, and only a broken one is removed while the book is *)
(* kept.                                                                             *)
Improves(t) ==
    /\ saved'[t] = NoRow \/ saved'[t].at >= saved[t].at
    /\ saved[t] # NoRow /\ saved'[t] = NoRow /\ kept' => ~saved[t].whole

Stored ==
    /\ saved' \in SavedType
    /\ kept' \in BOOLEAN
    /\ CaptionsGoWithBook'
    /\ \A t \in Targets : Improves(t)

(* Revisions of stored rows can be compared. *)
LEMMA RevisionFacts ==
    \A row \in Rows \union {NoRow} : row.at \in Nat
BY RowFacts DEF Rows

(* What is not written stays as good as it was. *)
LEMMA StoredSame ==
    ASSUME saved \in SavedType, kept \in BOOLEAN, CaptionsGoWithBook,
           UNCHANGED <<saved, kept>>
    PROVE  Stored
<1>1. \A t \in Targets : saved[t].at \in Nat
  BY RevisionFacts DEF SavedType
<1> QED BY <1>1 DEF Stored, Improves, CaptionsGoWithBook

(* putCaptionTrack() stores nothing older than what there is, and nothing for a
   book that is gone. *)
LEMMA StoredPut ==
    ASSUME saved \in SavedType, kept \in BOOLEAN, CaptionsGoWithBook,
           NEW t \in Targets, NEW row \in Rows, PutCaptionTrack(t, row), kept' = kept
    PROVE  Stored
<1>1. CASE UNCHANGED saved
  BY <1>1, StoredSame
<1>2. CASE kept /\ Replaces(saved[t], row) /\ saved' = [saved EXCEPT ![t] = row]
  <2>1. saved' \in SavedType /\ CaptionsGoWithBook'
    BY <1>2 DEF SavedType, CaptionsGoWithBook
  <2>2. row.at >= saved[t].at
    <3>1. row.at \in Nat /\ saved[t].at \in Nat /\ NoRow.at = 0
      BY RevisionFacts, RowFacts DEF SavedType
    <3> QED BY <1>2, <3>1 DEF Replaces
  <2>3. row # NoRow
    BY RowFacts
  <2>4. \A u \in Targets : saved[u].at \in Nat
    BY RevisionFacts DEF SavedType
  <2>5. ASSUME NEW u \in Targets PROVE Improves(u)
    <3>1. CASE u = t
      <4>1. saved'[u] = row
        BY <1>2, <3>1 DEF SavedType
      <4> QED BY <2>2, <2>3, <3>1, <4>1 DEF Improves
    <3>2. CASE u # t
      <4>1. saved'[u] = saved[u]
        BY <1>2, <3>2 DEF SavedType
      <4> QED BY <2>4, <4>1 DEF Improves
    <3> QED BY <3>1, <3>2
  <2> QED BY <2>1, <2>5 DEF Stored
<1> QED BY <1>1, <1>2 DEF PutCaptionTrack

(* removeCaptionTrack() removes no track that is whole. *)
LEMMA StoredRemove ==
    ASSUME saved \in SavedType, kept \in BOOLEAN, CaptionsGoWithBook,
           NEW t \in Targets, NEW row \in Rows, ~row.whole, RemoveCaptionTrack(t, row),
           kept' = kept
    PROVE  Stored
<1>1. CASE UNCHANGED saved
  BY <1>1, StoredSame
<1>2. CASE saved[t] = row /\ saved' = [saved EXCEPT ![t] = NoRow]
  <2>1. saved' \in SavedType /\ CaptionsGoWithBook'
    BY <1>2 DEF SavedType, CaptionsGoWithBook
  <2>2. \A u \in Targets : saved[u].at \in Nat
    BY RevisionFacts DEF SavedType
  <2>3. \A u \in Targets : saved'[u] = IF u = t THEN NoRow ELSE saved[u]
    BY <1>2 DEF SavedType
  <2>4. \A u \in Targets : Improves(u)
    BY <1>2, <2>2, <2>3 DEF Improves
  <2> QED BY <2>1, <2>4 DEF Stored
<1> QED BY <1>1, <1>2 DEF RemoveCaptionTrack

(* The frame's own writes: a put of its row, or the removal of what it found broken. *)
LEMMA StorageStored ==
    ASSUME Sound(session, frame), saved \in SavedType, kept \in BOOLEAN, CaptionsGoWithBook,
           StorageStep
    PROVE  Stored /\ late' = late
<1>1. CASE LoadCached \/ RestorePersistedTrack \/ PromoteNotModifiedTrack \/ VerifyPersisted
  BY <1>1, StoredSame
     DEF LoadCached, RestorePersistedTrack, PromoteNotModifiedTrack, VerifyPersisted, Keeps
<1>2. CASE RemoveInvalidCache \/ DiscardPersisted
  <2>1. session.target \in Targets /\ frame.row \in Rows /\ ~frame.row.whole
    BY <1>2, RunningFrame DEF RemoveInvalidCache, DiscardPersisted, Fits, Shown
  <2>2. /\ kept' = kept /\ late' = late
        /\ UNCHANGED saved \/ RemoveCaptionTrack(session.target, frame.row)
    BY <1>2 DEF RemoveInvalidCache, DiscardPersisted
  <2> QED BY <2>1, <2>2, StoredSame, StoredRemove
<1>3. CASE PersistDownloadedTrack
  <2>1. session.target \in Targets /\ frame.row \in Rows
    BY <1>3, RunningFrame DEF PersistDownloadedTrack, Fits, Shown
  <2>2. /\ kept' = kept /\ late' = late
        /\ UNCHANGED saved \/ PutCaptionTrack(session.target, frame.row)
    BY <1>3 DEF PersistDownloadedTrack
  <2> QED BY <2>1, <2>2, StoredSame, StoredPut
<1> QED BY <1>1, <1>2, <1>3 DEF StorageStep

-----------------------------------------------------------------------------
(***************************************************************************)
(* The steps.                                                              *)
(***************************************************************************)

Asked == Begun => wish = "fresh" \/ frame'.why = "retry"

(* What every step comes to. *)
Good ==
    /\ IInv'
    /\ Asked
    /\ \A t \in Targets : Improves(t)

(* Every step of the operation under way. *)
LEMMA FrameStepGood ==
    ASSUME IInv, FrameStep
    PROVE  Good
<1>1. FrameOutcome
  BY StepOutcome DEF IInv, FrameStep
<1>2. Stored /\ late' = late
  <2>1. CASE StorageStep
    BY <2>1, StorageStored DEF IInv, SavedType
  <2>2. CASE ServiceStep
    <3>1. UNCHANGED <<saved, kept, late>>
      BY <2>2 DEF ServiceStep, Keeps
    <3> QED BY <3>1, StoredSame DEF IInv, SavedType
  <2> QED BY <2>1, <2>2 DEF FrameStep
<1>3. LateSound'
  BY <1>2 DEF IInv, LateSound
<1>4. Begun => wish = "fresh"
  BY <1>1 DEF FrameOutcome, IInv, StartsWished
<1>5. /\ Begun => wish' = "spent"
      /\ ~Begun /\ session'.deferred /\ ~session.deferred => wish' = "fresh"
      /\ ~Begun /\ ~(session'.deferred /\ ~session.deferred) => wish' = wish
  <2>1. wish' = CASE Begun -> "spent"
                  [] ~Begun /\ session'.deferred /\ ~session.deferred -> "fresh"
                  [] ~Begun /\ ~(session'.deferred /\ ~session.deferred) -> wish
    BY DEF FrameStep
  <2> HIDE DEF Begun
  <2> QED BY <2>1
<1>6. StartsWished'
  BY <1>1, <1>5 DEF FrameOutcome, IInv, StartsWished
<1>7. wish' \in {"none", "fresh", "spent"}
  BY <1>5 DEF IInv
<1> QED BY <1>1, <1>2, <1>3, <1>4, <1>6, <1>7 DEF Good, Asked, IInv, FrameOutcome, Stored, SavedType

(* abortPending leaves no request that the session awaits. *)
LEMMA AbortedFacts ==
    ASSUME calls \in CallsType
    PROVE  Aborted \in CallsType /\ \A o \in Operations : Aborted[o] # "live"
BY DEF CallsType, Aborted

(* A write that is superseded goes on as a late one, with a row that fits. *)
LEMMA SupersedeFacts ==
    ASSUME IInv, Supersede
    PROVE  LateSound' /\ Stored
<1>1. Stored
  BY StoredSame DEF Supersede, IInv, SavedType
<1>2. ASSUME NEW l \in LateWrite
      PROVE  l \in LateWrites /\ (l.pc \in {"uncache", "discard"} => ~l.row.whole)
  <2>1. frame.pc \in {"uncache", "discard", "put"}
    BY DEF LateWrite
  <2>2. /\ Shown(session) /\ frame \in FrameType /\ Fits(session, frame)
    BY <2>1, RunningFrame DEF IInv
  <2> DEFINE report == IF frame.pc = "discard" THEN frame.report ELSE NoFrame.report
             cached == frame.pc = "discard" /\ frame.cached
  <2>3. l = [pc |-> frame.pc, of |-> session.target, row |-> frame.row, report |-> report,
             cached |-> cached]
    BY <2>1 DEF LateWrite
  <2>4. report \in ReportType /\ cached \in BOOLEAN
    BY <2>1, <2>2, ReportFacts DEF FrameType
  <2>5. session.target \in Targets /\ frame.row \in Rows
    BY <2>1, <2>2 DEF Fits, Shown
  <2> HIDE DEF report, cached
  <2> QED BY <2>1, <2>2, <2>3, <2>4, <2>5 DEF LateWrites, Fits
<1>3. ASSUME NEW l \in LateRead
      PROVE  l \in LateReads /\ l.pc = "read"
  <2>1. frame.pc \in {"cached", "restore", "promote", "verify"}
    BY DEF LateRead
  <2>2. session.target \in Targets
    BY <2>1, RunningFrame DEF IInv, Shown
  <2>3. l = [pc |-> "read", of |-> session.target, row |-> NoRow, report |-> NoFrame.report,
             cached |-> FALSE]
    BY <2>1 DEF LateRead
  <2> QED BY <2>2, <2>3 DEF LateReads
<1>4. LateSound'
  BY <1>2, <1>3 DEF Supersede, LateSound, IInv
<1> QED BY <1>1, <1>4

(* A chapter is activated: whatever a session is in, it has one then. *)
LEMMA ActivatedFacts ==
    ASSUME Sound(session, frame)
    PROVE  /\ session \in SessionType
           /\ session.target # None => Shown(session)
           /\ session.snapshot.cached \in BOOLEAN
           /\ Current \in Statuses
<1>1. session \in SessionType
  BY DEF Sound, Shown
<1>2. session.target # None => Shown(session)
  BY <1>1 DEF Sound, Shown, SessionType
<1> QED BY <1>1, <1>2 DEF SessionType, SnapshotType, Current

(* beginRequest() forgets the old track and start only where it is told to. *)
LEMMA BegunFacts ==
    ASSUME NEW s \in SessionType, NEW target \in Targets \union {None}
    PROVE  /\ BeginRequest(s, target, TRUE) \in SessionType
           /\ BeginRequest(s, target, TRUE).target = target
           /\ ~BeginRequest(s, target, TRUE).deferred
           /\ ~HasTrack(BeginRequest(s, target, TRUE))
           /\ BeginRequest(s, target, FALSE) \in SessionType
           /\ BeginRequest(s, target, FALSE).target = target
           /\ BeginRequest(s, target, FALSE).deferred = s.deferred
           /\ BeginRequest(s, target, FALSE).track = s.track
           /\ BeginRequest(s, target, FALSE).snapshot = s.snapshot
           /\ BeginRequest(s, target, FALSE).timer = "off"
           /\ ~BeginRequest(s, target, FALSE).waiting
BY DEF BeginRequest, SessionType, HasTrack

(* An operation of the listener keeps the invariant if it leaves a sound session
   and no start but the one asked for. *)
LEMMA UserGood ==
    ASSUME IInv, Supersede, Sound(session', frame'), calls' \in CallsType, StartsWished',
           wish' \in {"none", "fresh", "spent"}, Begun => frame'.why = "retry"
    PROVE  Good
BY SupersedeFacts DEF Good, Asked, IInv, Stored, SavedType

(* Another chapter is opened. *)
LEMMA ActivateGood ==
    ASSUME IInv, Supersede, NEW t \in Targets, NEW allowServer \in BOOLEAN,
           Activate(t, allowServer)
    PROVE  Good
<1> DEFINE x == BeginRequest(session, t, TRUE)
           y == Publish(x, "loading", FALSE, NoStatus)
           why == IF allowServer THEN "sync" ELSE "offline"
           g == [NoFrame EXCEPT !.pc = "cached", !.why = why]
<1>1. session \in SessionType /\ calls \in CallsType
  BY ActivatedFacts DEF IInv
<1>2. x \in SessionType /\ x.target = t /\ ~x.deferred /\ ~HasTrack(x)
  BY <1>1, BegunFacts
<1>3. session' = y /\ frame' = g /\ calls' = Aborted /\ wish' = "none"
  BY DEF Activate, Goto
<1> HIDE DEF x
<1>4. y \in SessionType /\ Same(y, x) /\ y.snapshot.phase = "loading"
  <2>1. "loading" \in Phases /\ NoStatus \in Statuses
    BY DEF Phases, Statuses
  <2>2. \A b \in BOOLEAN : LET z == Publish(x, "loading", b, NoStatus)
                            IN z \in SessionType /\ Same(z, x) /\ z.snapshot.phase = "loading"
    BY <1>2, <2>1, PublishFacts
  <2> QED BY <2>2
<1>5. why \in {"sync", "offline"}
  OBVIOUS
<1> HIDE DEF y, why
<1>6. g \in FrameType /\ g.pc = "cached" /\ g.why = why
  BY <1>5, NoFrameType DEF FrameType, Pcs, Whys
<1> HIDE DEF g
<1>7. Shown(y) /\ ~HasTrack(y) /\ ~y.deferred
  BY <1>2, <1>4 DEF Shown, Same, HasTrack
<1>8. Fits(y, g)
  BY <1>5, <1>6, <1>7 DEF Fits, Operations
<1>9. Sound(session', frame') /\ StartsWished'
  BY <1>3, <1>6, <1>7, <1>8 DEF Sound, StartsWished
<1>10. calls' \in CallsType /\ ~Begun
  BY <1>1, <1>3, AbortedFacts DEF Begun, Operations
<1> QED BY <1>3, <1>9, <1>10, UserGood

(* The chapter is left. *)
LEMMA DeactivateGood ==
    ASSUME IInv, Supersede, Deactivate
    PROVE  Good
<1> DEFINE x == BeginRequest(session, None, TRUE)
           y == Publish(x, "idle", FALSE, NoStatus)
           z == FinishRequest(y)
<1>1. session \in SessionType /\ calls \in CallsType
  BY ActivatedFacts DEF IInv
<1>2. x \in SessionType /\ x.target = None /\ ~x.deferred /\ ~HasTrack(x)
  BY <1>1, BegunFacts
<1>3. session' = z /\ frame' = NoFrame /\ calls' = Aborted /\ wish' = "none"
  BY DEF Deactivate, End, Goto
<1> HIDE DEF x
<1>4. y \in SessionType /\ Same(y, x) /\ y.snapshot.phase = "idle"
  <2>1. "idle" \in Phases /\ NoStatus \in Statuses
    BY DEF Phases, Statuses
  <2>2. \A b \in BOOLEAN : LET w == Publish(x, "idle", b, NoStatus)
                            IN w \in SessionType /\ Same(w, x) /\ w.snapshot.phase = "idle"
    BY <1>2, <2>1, PublishFacts
  <2> QED BY <2>2
<1> HIDE DEF y
<1>5. z \in SessionType /\ z.snapshot = y.snapshot /\ z.track = y.track
      /\ ~z.deferred /\ ~z.waiting /\ z.timer = "off"
  BY <1>4, FinishFacts DEF FinishRequest, SessionType
<1> HIDE DEF z
<1>6. Sound(session', frame')
  BY <1>2, <1>3, <1>4, <1>5 DEF Sound, Settled, Same, HasTrack, Going
<1>7. StartsWished'
  BY <1>3, <1>5, NoFrameType DEF StartsWished
<1>8. calls' \in CallsType /\ ~Begun
  BY <1>1, <1>3, AbortedFacts DEF Begun, Operations
<1> QED BY <1>3, <1>6, <1>7, <1>8, UserGood

(* The idle session shows nothing and waits for nothing. *)
LEMMA IdleFacts ==
    /\ Idle \in SessionType /\ [Idle EXCEPT !.timer = "off"] = Idle
    /\ ~HasTrack(Idle) /\ Settled(Idle) /\ Idle.snapshot.phase = "idle" /\ ~Idle.deferred
<1>1. Idle \in SessionType
  BY DEF Idle, SessionType, SnapshotType, Statuses, Phases
<1>2. [Idle EXCEPT !.timer = "off"] = Idle
  <2>1. \A s \in SessionType : s.timer = "off" => [s EXCEPT !.timer = "off"] = s
    BY DEF SessionType
  <2>2. Idle.timer = "off"
    BY DEF Idle
  <2> QED BY <1>1, <2>1, <2>2
<1>3. /\ ~HasTrack(Idle) /\ Idle.snapshot.phase = "idle" /\ ~Idle.deferred
      /\ ~Idle.waiting /\ Idle.timer = "off"
  BY DEF Idle, HasTrack
<1>4. Settled(Idle)
  BY <1>3 DEF Settled, Going
<1> QED BY <1>1, <1>2, <1>3, <1>4

(* The session is disposed of. *)
LEMMA DisposeGood ==
    ASSUME IInv, Supersede, Dispose
    PROVE  Good
<1>1. session' = Idle /\ frame' = NoFrame /\ calls' = Aborted /\ wish' = "none"
  BY IdleFacts DEF Dispose, End, Goto
<1>2. Sound(session', frame')
  BY <1>1, IdleFacts DEF Sound
<1>3. StartsWished'
  BY <1>1, IdleFacts, NoFrameType DEF StartsWished
<1>4. calls' \in CallsType /\ ~Begun
  BY <1>1, AbortedFacts DEF Begun, Operations, IInv
<1> QED BY <1>1, <1>2, <1>3, <1>4, UserGood

(* A request that the user makes. *)
LEMMA ActFacts ==
    ASSUME IInv, session.target # None, NEW s, Shown(s),
           NEW phase \in Phases \ {"ready"}, NEW status \in Statuses,
           NEW why \in Whys \ {"observe", "verify"}, NEW o \in Operations \ {"track"},
           o = "cancel" /\ why = "restart" => ~s.deferred,
           o = "cancel" => why \in {"cancel", "restart"},
           why = "cancel" => /\ phase = "cancelling"
                             /\ s.timer = "off" /\ ~s.deferred /\ ~s.waiting,
           Act(Say(s, phase, session.snapshot.cached, status), why, o)
    PROVE  /\ Sound(session', frame') /\ calls' \in CallsType
           /\ session'.deferred = s.deferred
           /\ frame'.pc = o /\ frame'.why = why
           /\ (Begun => o = "start")
<1> DEFINE x == Say(s, phase, session.snapshot.cached, status)
           g == [NoFrame EXCEPT !.why = why, !.prev = Current, !.cached = session.snapshot.cached]
<1>1. session.snapshot.cached \in BOOLEAN /\ Current \in Statuses /\ calls \in CallsType
  BY ActivatedFacts DEF IInv
<1>2. g \in FrameType /\ g.why = why
  BY <1>1, NoFrameType DEF FrameType
<1>3. Request(x, g, o, Aborted)
  BY DEF Act
<1>4. /\ Shown(x) /\ x.deferred = s.deferred
      /\ why = "cancel" => Cancelling(x)
  <2>1. /\ Shown(x) /\ Same(x, s)
        /\ x.snapshot.phase = IF HasTrack(s) THEN "ready" ELSE phase
    BY <1>1, SayFacts
  <2> HIDE DEF x
  <2> QED BY <2>1 DEF Same, Cancelling, HasTrack
<1> HIDE DEF x, g
<1>5. Aborted \in CallsType /\ Aborted["start"] # "live"
  BY <1>1, AbortedFacts DEF Operations
<1>6. /\ Sound(session', frame') /\ calls' \in CallsType
      /\ session' = x /\ frame'.pc = o /\ frame'.why = g.why
      /\ o # "start" => calls'["start"] = Aborted["start"]
  BY <1>2, <1>3, <1>4, <1>5, RequestFacts
<1> QED BY <1>2, <1>4, <1>5, <1>6 DEF Begun

(* The listener looks again. *)
LEMMA CheckStatusGood ==
    ASSUME IInv, Supersede, CheckStatus
    PROVE  Good
<1> DEFINE x == BeginRequest(session, session.target, FALSE)
           phase == IF Current.state = "running" THEN "running" ELSE "loading"
<1>1. session \in SessionType /\ Shown(session) /\ Current \in Statuses
  BY ActivatedFacts DEF CheckStatus, IInv
<1>2. Shown(x) /\ x.deferred = session.deferred
  BY <1>1, BegunFacts DEF Shown, HasTrack
<1>3. phase \in Phases \ {"ready"} /\ "check" \in Whys \ {"observe", "verify"}
      /\ "status" \in Operations \ {"track"}
  BY DEF Phases, Whys, Operations
<1>4. /\ session.target # None /\ wish' = wish
      /\ Act(Say(x, phase, session.snapshot.cached, Current), "check", "status")
  BY DEF CheckStatus
<1> HIDE DEF x, phase
<1>5. /\ Sound(session', frame') /\ calls' \in CallsType
      /\ session'.deferred = x.deferred /\ frame'.pc = "status" /\ ~Begun
  BY <1>1, <1>2, <1>3, <1>4, ActFacts
<1>6. StartsWished' /\ wish' \in {"none", "fresh", "spent"}
  BY <1>2, <1>4, <1>5 DEF StartsWished, IInv
<1> QED BY <1>5, <1>6, UserGood

(* beginRequest() for the same chapter leaves what the session shows of it sound. *)
LEMMA AgainFacts ==
    ASSUME IInv, session.target # None
    PROVE  /\ Shown(Again) /\ Current \in Statuses
           /\ ~Again.deferred /\ ~Again.waiting /\ Again.timer = "off"
<1> DEFINE x == BeginRequest(session, session.target, FALSE)
<1>1. session \in SessionType /\ Shown(session) /\ Current \in Statuses
  BY ActivatedFacts DEF IInv
<1>2. Shown(x) /\ x.timer = "off" /\ ~x.waiting
  BY <1>1, BegunFacts DEF Shown, HasTrack
<1>3. Again = [x EXCEPT !.deferred = FALSE]
  BY DEF Again
<1> HIDE DEF x
<1> QED BY <1>1, <1>2, <1>3 DEF Shown, SessionType, HasTrack

(* The listener retries. *)
LEMMA RetryGood ==
    ASSUME IInv, Supersede, Retry
    PROVE  Good
<1> DEFINE status == IF HasTrack(session) THEN NoStatus ELSE Current
           x == Again
<1>1. session.target # None
      /\ Act(Say(x, "loading", session.snapshot.cached, status), "retry", "start")
  BY DEF Retry
<1>2. Shown(x) /\ ~x.deferred /\ status \in Statuses
  BY <1>1, AgainFacts DEF Statuses
<1>3. "loading" \in Phases \ {"ready"} /\ "retry" \in Whys \ {"observe", "verify"}
      /\ "start" \in Operations \ {"track"}
  BY DEF Phases, Whys, Operations
<1> HIDE DEF x, status
<1>4. /\ Sound(session', frame') /\ calls' \in CallsType
      /\ ~session'.deferred /\ frame'.pc = "start" /\ frame'.why = "retry"
  BY <1>1, <1>2, <1>3, ActFacts
<1>5. StartsWished' /\ wish' \in {"none", "fresh", "spent"}
  BY <1>4 DEF StartsWished, Retry
<1> QED BY <1>4, <1>5, UserGood

(* The listener starts over: cancel first, start after it. *)
LEMMA RestartGood ==
    ASSUME IInv, Supersede, RestartIt
    PROVE  Good
<1> DEFINE x == Again
<1>1. session.target # None /\ wish' = "fresh"
      /\ Act(Say(x, "loading", session.snapshot.cached, Current), "restart", "cancel")
  BY DEF RestartIt
<1>2. Shown(x) /\ ~x.deferred /\ Current \in Statuses
  BY <1>1, AgainFacts
<1>3. "loading" \in Phases \ {"ready"} /\ "restart" \in Whys \ {"observe", "verify"}
      /\ "cancel" \in Operations \ {"track"}
  BY DEF Phases, Whys, Operations
<1> HIDE DEF x
<1>4. /\ Sound(session', frame') /\ calls' \in CallsType /\ ~session'.deferred /\ ~Begun
  BY <1>1, <1>2, <1>3, ActFacts
<1>5. StartsWished'
  BY <1>1, <1>4 DEF StartsWished
<1> QED BY <1>1, <1>4, <1>5, UserGood

(* The listener cancels. *)
LEMMA CancelGood ==
    ASSUME IInv, Supersede, Cancel
    PROVE  Good
<1> DEFINE status == IF HasTrack(session) THEN NoStatus ELSE Current
           x == Again
<1>1. session.target # None /\ wish' = "none"
      /\ Act(Say(x, "cancelling", session.snapshot.cached, status), "cancel", "cancel")
  BY DEF Cancel
<1>2. /\ Shown(x) /\ status \in Statuses
      /\ ~x.deferred /\ ~x.waiting /\ x.timer = "off"
  BY <1>1, AgainFacts DEF Statuses
<1>3. "cancelling" \in Phases \ {"ready"} /\ "cancel" \in Whys \ {"observe", "verify"}
      /\ "cancel" \in Operations \ {"track"}
  BY DEF Phases, Whys, Operations
<1> HIDE DEF x, status
<1>4. /\ Sound(session', frame') /\ calls' \in CallsType /\ ~session'.deferred
      /\ frame'.why = "cancel" /\ ~Begun
  BY <1>1, <1>2, <1>3, ActFacts
<1>5. StartsWished'
  BY <1>4 DEF StartsWished
<1> QED BY <1>1, <1>4, <1>5, UserGood

(* Every operation of the listener. *)
LEMMA UserStepGood ==
    ASSUME IInv, UserStep
    PROVE  Good
BY ActivateGood, DeactivateGood, DisposeGood, CheckStatusGood, RetryGood, RestartGood, CancelGood
   DEF UserStep

(* The timer of the session fires. *)
LEMMA PollGood ==
    ASSUME IInv, Poll
    PROVE  Good
<1> DEFINE x == [session EXCEPT !.timer = "off"]
           cached == session.timer = "cached"
           g == [NoFrame EXCEPT !.why = "poll", !.cached = cached]
<1>1. /\ frame = NoFrame /\ session.timer # "off"
      /\ Request(x, g, "status", calls)
      /\ UNCHANGED <<saved, kept, late, wish>>
  BY DEF Poll, Keeps
<1>2. Shown(session)
  BY <1>1, NoFrameType DEF IInv, Sound, Settled, Shown
<1>3. Shown(x) /\ x.deferred = session.deferred
  BY <1>2 DEF Shown, SessionType, HasTrack
<1>4. cached \in BOOLEAN /\ calls \in CallsType /\ "status" \in Operations
  BY DEF IInv, Operations
<1> HIDE DEF x, cached
<1>5. g \in FrameType /\ g.why = "poll"
  BY <1>4, NoFrameType DEF FrameType, Whys
<1> HIDE DEF g
<1>6. /\ Sound(session', frame') /\ calls' \in CallsType
      /\ session' = x /\ frame'.pc = "status" /\ calls'["start"] = calls["start"]
  BY <1>1, <1>3, <1>4, <1>5, RequestFacts
<1>7. Stored
  BY <1>1, StoredSame DEF IInv, SavedType
<1>8. LateSound' /\ StartsWished'
  BY <1>1, <1>3, <1>6 DEF IInv, LateSound, StartsWished
<1> QED BY <1>1, <1>6, <1>7, <1>8 DEF Good, Asked, Begun, IInv, Stored, SavedType

(* The session and its frame are as they were, and so is what was asked for. *)
LEMMA AsideGood ==
    ASSUME IInv, Sound(session', frame'), session'.deferred = session.deferred, frame' = frame,
           calls' \in CallsType, calls'["start"] # "live" \/ calls'["start"] = calls["start"],
           late' \subseteq late, Stored, wish' = wish
    PROVE  Good
<1>1. LateSound' /\ StartsWished'
  BY DEF IInv, LateSound, StartsWished
<1> QED BY <1>1 DEF Good, Asked, Begun, IInv, Stored, SavedType

(* A superseded discard that repeats what it knew of the track in view. *)
LEMMA RepeatsFacts ==
    ASSUME Sound(session, frame), HasTrack(session), NEW cached \in BOOLEAN,
           NEW status \in Statuses
    PROVE  /\ Sound(Publish(session, "ready", cached, status), frame)
           /\ Publish(session, "ready", cached, status).deferred = session.deferred
<1> DEFINE x == Publish(session, "ready", cached, status)
<1>1. session \in SessionType /\ "ready" \in Phases /\ "ready" \notin Going
  BY ActivatedFacts DEF Phases, Going
<1>2. /\ x \in SessionType /\ Same(x, session) /\ x.snapshot.phase = "ready"
  BY <1>1, PublishFacts
<1> HIDE DEF x
<1>3. HasTrack(x)
  BY <1>2 DEF Same, HasTrack
<1>4. CASE frame = NoFrame
  <2>1. ~ frame.pc # "none"
    BY <1>4, NoFrameType
  <2>2. Settled(session) /\ (HasTrack(session) => session.track.of = session.target)
    BY <2>1 DEF Sound
  <2>3. Settled(x)
    BY <1>2, <2>2 DEF Settled, Same
  <2> QED BY <1>2, <1>3, <1>4, <2>2, <2>3 DEF Sound, Same, x
<1>5. CASE frame # NoFrame
  <2>1. Shown(session) /\ frame \in FrameType /\ frame.pc # "none" /\ Fits(session, frame)
    BY <1>5 DEF Sound, HasTrack
  <2>2. Shown(x)
    BY <1>2, <1>3, <2>1 DEF Shown, Same
  <2>3. Fits(x, frame)
    <3>1. Cancelling(session) => Cancelling(x)
      BY <1>2, <1>3 DEF Cancelling, Same
    <3> QED BY <1>2, <2>1, <3>1 DEF Fits, LoadFits, Bare, Same, HasTrack
  <2> QED BY <1>2, <2>1, <2>2, <2>3 DEF Sound, Same, x
<1> QED BY <1>4, <1>5

(* A write that was superseded goes on: it stores no older captions, and none for a
   book that is gone. *)
LEMMA LateStepGood ==
    ASSUME IInv, NEW l \in late, LateStep(l)
    PROVE  Good
<1>1. /\ l \in LateWrites \union LateReads
      /\ l.pc \in {"uncache", "discard"} => ~l.row.whole
  BY DEF IInv, LateSound
<1>6. CASE l \in LateReads
  <2>1. l.pc = "read"
    BY <1>6 DEF LateReads
  <2>2. /\ UNCHANGED <<session, frame, saved, kept, calls, wish>>
        /\ late' \subseteq late
    BY <2>1 DEF LateStep, ReadEnds
  <2> QED BY <2>2, StoredSame, AsideGood DEF IInv, SavedType
<1> SUFFICES ASSUME l \in LateWrites PROVE Good
  BY <1>1, <1>6
<1>7. l.of \in Targets /\ l.row \in Rows
  BY DEF LateWrites
<1>2. frame' = frame /\ kept' = kept /\ wish' = wish /\ late' \subseteq late
  BY DEF LateStep
<1>3. CASE l.pc = "put"
  <2>1. PutCaptionTrack(l.of, l.row) /\ session' = session /\ calls' = calls
    BY <1>3 DEF LateStep
  <2>2. Stored
    BY <1>2, <1>7, <2>1, StoredPut DEF IInv, SavedType
  <2> QED BY <1>2, <2>1, <2>2, AsideGood DEF IInv
<1>4. CASE l.pc = "uncache"
  <2>1. RemoveCaptionTrack(l.of, l.row) /\ session' = session /\ calls' = calls
    BY <1>4 DEF LateStep
  <2>2. Stored
    BY <1>1, <1>2, <1>4, <1>7, <2>1, StoredRemove DEF IInv, SavedType
  <2> QED BY <1>2, <2>1, <2>2, AsideGood DEF IInv
<1>5. CASE l.pc = "discard"
  <2>1. RemoveCaptionTrack(l.of, l.row) /\ LateDiscardGoesOn(l)
    BY <1>5 DEF LateStep
  <2>2. Stored
    BY <1>1, <1>2, <1>5, <1>7, <2>1, StoredRemove DEF IInv, SavedType
  <2>3. l.cached \in BOOLEAN /\ StatusOf(l.report) \in Statuses
    BY ReportFacts DEF LateWrites
  <2>4. CASE HasTrack(session) /\ session.track.etag = l.report.captions.etag
    <3>1. session' = Publish(session, "ready", l.cached, StatusOf(l.report)) /\ calls' = calls
      BY <2>1, <2>4 DEF LateDiscardGoesOn
    <3>2. Sound(session', frame') /\ session'.deferred = session.deferred
      BY <1>2, <2>3, <2>4, <3>1, RepeatsFacts DEF IInv
    <3> QED BY <1>2, <2>2, <3>1, <3>2, AsideGood DEF IInv
  <2>5. CASE ~(HasTrack(session) /\ session.track.etag = l.report.captions.etag)
    <3>1. /\ session' = session
          /\ calls' = calls \/ calls' = [calls EXCEPT !["track"] = "orphan"]
      BY <2>1, <2>5 DEF LateDiscardGoesOn
    <3>2. calls' \in CallsType /\ calls'["start"] = calls["start"]
      BY <3>1 DEF IInv, CallsType, Operations
    <3> QED BY <1>2, <2>2, <3>1, <3>2, AsideGood DEF IInv
  <2> QED BY <2>4, <2>5
<1> QED BY <1>3, <1>4, <1>5 DEF LateWrites

(* A request nobody awaits is answered or lost. *)
LEMMA OrphanGood ==
    ASSUME IInv, NEW o \in Operations, OrphanSettles(o)
    PROVE  Good
<1>1. /\ calls' = Freed(o) /\ session' = session /\ frame' = frame /\ late' = late
      /\ saved' = saved /\ kept' = kept /\ wish' = wish
  BY DEF OrphanSettles
<1>2. /\ calls' \in CallsType
      /\ calls'["start"] # "live" \/ calls'["start"] = calls["start"]
  BY <1>1 DEF IInv, CallsType, Freed, Operations
<1>3. Stored
  BY <1>1, StoredSame DEF IInv, SavedType
<1> QED BY <1>1, <1>2, <1>3, AsideGood DEF IInv

(* Another tab writes captions of its own. *)
LEMMA OtherTabGood ==
    ASSUME IInv, NEW t \in Targets, NEW a \in Artifacts, OtherTabSaves(t, a)
    PROVE  Good
<1>1. /\ PutCaptionTrack(t, Row(a.etag, a.at, TRUE))
      /\ calls' = calls /\ session' = session /\ frame' = frame /\ late' = late
      /\ kept' = kept /\ wish' = wish
  BY DEF OtherTabSaves
<1>2. Stored
  BY <1>1, RowFacts, StoredPut DEF IInv, SavedType
<1> QED BY <1>1, <1>2, AsideGood DEF IInv

(* The book is kept or removed. *)
LEMMA BookGood ==
    ASSUME IInv, RemoveBook \/ AddBook
    PROVE  Good
<1>1. /\ calls' = calls /\ session' = session /\ frame' = frame /\ late' = late
      /\ wish' = wish
  BY DEF RemoveBook, AddBook
<1>2. \A t \in Targets : saved[t].at \in Nat
  BY RevisionFacts DEF IInv, SavedType
<1>3. Stored
  <2>1. CASE RemoveBook
    BY <2>1 DEF RemoveBook, Stored, SavedType, CaptionsGoWithBook, Improves
  <2>2. CASE AddBook
    BY <1>2, <2>2 DEF AddBook, Stored, SavedType, CaptionsGoWithBook, Improves, IInv
  <2> QED BY <2>1, <2>2
<1> QED BY <1>1, <1>3, AsideGood DEF IInv

(* Nothing happens. *)
LEMMA StutterGood ==
    ASSUME IInv, UNCHANGED vars
    PROVE  Good
<1>1. Stored
  BY StoredSame DEF vars, IInv, SavedType
<1> QED BY <1>1, AsideGood DEF vars, IInv

(* Every step keeps the invariant. *)
LEMMA NextGood ==
    ASSUME IInv, [Next]_vars
    PROVE  Good
BY FrameStepGood, UserStepGood, PollGood, LateStepGood, OrphanGood, OtherTabGood, BookGood,
   StutterGood DEF Next

(* The invariant holds at first. *)
LEMMA InitInv == Init => IInv
<1> SUFFICES ASSUME Init PROVE IInv
  OBVIOUS
<1>1. Sound(session, frame)
  BY IdleFacts DEF Init, Sound
<1>2. calls \in CallsType
  BY DEF Init, CallsType
<1>3. saved \in [Targets -> Rows \union {NoRow}]
  BY EarlierAssumption DEF Init
<1>4. StartsWished
  BY IdleFacts, NoFrameType DEF Init, StartsWished
<1> QED BY <1>1, <1>2, <1>3, <1>4 DEF Init, IInv, LateSound, CaptionsGoWithBook

-----------------------------------------------------------------------------
(***************************************************************************)
(* The theorems.                                                           *)
(***************************************************************************)

(* The inductive invariant holds in every reachable state. *)
THEOREM Invariance == Spec => []IInv
<1>1. IInv /\ [Next]_vars => IInv'
  BY NextGood DEF Good
<1> QED BY <1>1, InitInv, PTL DEF Spec

(* What the session shows is of the chapter that plays, and ready is what is there. *)
THEOREM SessionIsSound == Spec => []SessionSound
<1>1. IInv => SessionSound
  <2> SUFFICES ASSUME IInv PROVE SessionSound
    OBVIOUS
  <2>1. session \in SessionType
        /\ (frame = NoFrame \/ frame \in FrameType \/ frame = RejectedFrame)
    BY DEF IInv, Sound, Shown
  <2>2. frame.pc \in Pcs \union {"rejected"}
    BY <2>1, NoFrameType DEF FrameType
  <2>3. TypeOK
    BY <2>1, <2>2 DEF IInv, TypeOK, SessionType, SnapshotType, Pcs, LateSound, LateWrites,
                      LateReads, ReportType, CallsType
  <2>4. TrackIsOfTarget /\ ReadyIffTrack
    BY NoFrameType DEF IInv, Sound, Shown, Settled, TrackIsOfTarget, ReadyIffTrack
  <2> QED BY <2>3, <2>4 DEF SessionSound
<1> QED BY <1>1, Invariance, PTL

(* Whatever is said to be going on is followed by a request or a poll, but for a      *)
(* cancellation that was rejected to its caller.                                      *)
THEOREM NothingIsForgotten == Spec => []Watched
<1>1. IInv => Watched
  <2> SUFFICES ASSUME IInv, Expecting, Left PROVE CancelRejected
    BY DEF Watched
  <2>1. CASE frame = NoFrame
    <3>1. Settled(session)
      BY <2>1, NoFrameType DEF IInv, Sound
    <3> QED BY <3>1 DEF Settled, Going, Expecting, Left
  <2>2. CASE frame \in FrameType /\ frame.pc # "none"
    BY <2>2 DEF Left, FrameType, Pcs, Operations
  <2>3. CASE frame = RejectedFrame /\ ~HasTrack(session) /\ Cancelling(session)
    BY <2>3, NoFrameType DEF Cancelling, CancelRejected
  <2> QED BY <2>1, <2>2, <2>3 DEF IInv, Sound
<1> QED BY <1>1, Invariance, PTL

(* No late write brings back the captions of a book that left the library. *)
THEOREM CaptionsLeaveWithBook == Spec => []CaptionsGoWithBook
<1>1. IInv => CaptionsGoWithBook
  BY DEF IInv
<1> QED BY <1>1, Invariance, PTL

(* Neither a poll nor a lost answer starts a transcription a second time. *)
THEOREM StartsAreAsked == Spec => StartsOnlyAsAsked
<1>1. IInv /\ [Next]_vars => [Begun => wish = "fresh" \/ frame'.why = "retry"]_vars
  BY NextGood DEF Good, Asked
<1> QED BY <1>1, Invariance, PTL DEF Spec, StartsOnlyAsAsked

(* In whatever order writes arrive, no row gets older, and none that decodes is removed. *)
THEOREM RowsImprove == Spec => StoredOnlyImproves
<1>1. IInv /\ [Next]_vars
      => [\A t \in Targets : saved'[t] = NoRow \/ saved'[t].at >= saved[t].at]_vars
  BY NextGood DEF Good, Improves
<1>2. IInv /\ [Next]_vars
      => [\A t \in Targets : saved[t] # NoRow /\ saved'[t] = NoRow /\ kept'
                              => ~saved[t].whole]_vars
  BY NextGood DEF Good, Improves
<1>3. Spec => StoredNeverOlder
  BY <1>1, Invariance, PTL DEF Spec, StoredNeverOlder
<1>4. Spec => OnlyBrokenRemoved
  BY <1>2, Invariance, PTL DEF Spec, OnlyBrokenRemoved
<1> QED BY <1>3, <1>4, PTL DEF StoredOnlyImproves
=============================================================================
