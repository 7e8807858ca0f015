---------------------- MODULE TranscriptionManagerProofs ----------------------
(***************************************************************************)
(* Theorems about TranscriptionManager, for any torrents, files, clients,  *)
(* models and bounds.                                                      *)
(***************************************************************************)
EXTENDS TranscriptionManager, FiniteSetTheorems, TLAPS

-----------------------------------------------------------------------------
(***************************************************************************)
(* Type correctness.                                                       *)
(***************************************************************************)

\* Two facts the types rest on.  The attempt is aborted with "done" only once its
\* pipeline has been left, so "done" never becomes an error code; and a transition
\* of the setting stays at the head of the chain while it is being applied.
AbortSane == \A k \in Keys : exec[k].abort = "done" => exec[k].pc = "cleanup"
TransitionHeld ==
    /\ mode = "down" => slot = [s \in Slots |-> NoSlot] /\ ~scanning
    /\ scanning => slot[Setting] = NoSlot
    /\ scanning /\ mode # "starting" => transitions # <<>>
    /\ \A s \in Slots : slot[s].op = "disable" =>
           s = Setting /\ transitions # <<>>
WaitingOps == {"file", "torrent", "disable", "removal"}
TypeInv == TypeOK /\ AbortSane /\ TransitionHeld /\ SuspensionsBalanced

\* The empty values have their types.
LEMMA EmptyValues ==
    /\ NoRow \in Row
    /\ NoFrame \in Frame
    /\ NoSlot \in Slot
    /\ NoArtifact \in Artifact
BY DEF NoRow, Row, States, ACTIVE_STATES, Triggers, Codes, NoFrame, Frame,
       NoSlot, Slot, NoArtifact, Artifact

\* pump() keeps the types of what it changes.
LEMMA PumpType ==
    ASSUME NEW rows \in [Keys -> Row], NEW entries \in SUBSET Entry,
           NEW attempts \in [Keys -> Nat], NEW execs \in [Keys -> Frame],
           NEW owner \in Nat, NEW suspended, NEW scheduled,
           lease \in [Keys -> {"none", "opening", "held"}],
           Pump(rows, entries, attempts, execs, owner, suspended, scheduled)
    PROVE  /\ job' \in [Keys -> Row]
           /\ pending' \subseteq Entry
           /\ pendingAttempts' \in [Keys -> Nat]
           /\ exec' \in [Keys -> Frame]
           /\ activePromise' \in Nat
           /\ scheduled \in BOOLEAN => pumpScheduled' \in BOOLEAN
           /\ lease' \in [Keys -> {"none", "opening", "held"}]
<1>1. CASE ~Idle(owner, suspended) \/ entries = {}
  BY <1>1 DEF Pump
<1>2. CASE ~(~Idle(owner, suspended) \/ entries = {})
  <2>1. PICK e \in entries :
          /\ pending' = entries \ {e}
          /\ IF attempts[e.key] = e.attempt
             THEN pendingAttempts' = [attempts EXCEPT ![e.key] = 0]
             ELSE pendingAttempts' = attempts
          /\ IF Live(e, rows, attempts)
             THEN Start(e, rows, execs) /\ pumpScheduled' = scheduled
             ELSE /\ job' = rows
                  /\ exec' = execs
                  /\ activePromise' = owner
                  /\ pumpScheduled' = TRUE
                  /\ UNCHANGED lease
    BY <1>2 DEF Pump
  <2>2. e.key \in Keys /\ e.attempt \in Nat
    BY DEF Entry
  <2>3. CASE Live(e, rows, attempts)
    <3> DEFINE row == [rows[e.key] EXCEPT !.state = "preparing"]
    <3>1. /\ job' = [rows EXCEPT ![e.key] = row]
          /\ exec' = [execs EXCEPT ![e.key] =
                 [NoFrame EXCEPT !.pc = "opening", !.job = row,
                                 !.timer = "watchdog"]]
          /\ activePromise' = row.ts
          /\ lease' = [lease EXCEPT ![e.key] =
                 IF e.key[1] \in removing THEN "none" ELSE "opening"]
          /\ pumpScheduled' = scheduled
      BY <2>1, <2>3 DEF Start
    <3>2. row \in Row /\ row.ts \in Nat
      BY <2>2 DEF Row, States, ACTIVE_STATES
    <3>3. [NoFrame EXCEPT !.pc = "opening", !.job = row, !.timer = "watchdog"]
            \in Frame
      BY <3>2, EmptyValues DEF Frame, NoFrame
    <3> QED BY <2>1, <2>2, <3>1, <3>2, <3>3
  <2>4. CASE ~Live(e, rows, attempts)
    BY <2>1, <2>2, <2>4
  <2> QED BY <2>3, <2>4
<1> QED BY <1>1, <1>2
\* pump() keeps AbortSane: the frame it starts has not been aborted.
LEMMA PumpAbortSane ==
    ASSUME NEW rows, NEW entries \in SUBSET Entry, NEW attempts,
           NEW execs \in [Keys -> Frame], NEW owner, NEW suspended,
           NEW scheduled,
           \A k \in Keys : execs[k].abort = "done" => execs[k].pc = "cleanup",
           Pump(rows, entries, attempts, execs, owner, suspended, scheduled)
    PROVE  AbortSane'
<1>1. CASE exec' = execs
  BY <1>1 DEF AbortSane
<1>2. CASE exec' # execs
  <2>1. PICK e \in entries : Start(e, rows, execs)
    BY <1>2 DEF Pump
  <2> DEFINE frame == [NoFrame EXCEPT !.pc = "opening",
                           !.job = [rows[e.key] EXCEPT !.state = "preparing"],
                           !.timer = "watchdog"]
  <2>2. exec' = [execs EXCEPT ![e.key] = frame]
    BY <2>1 DEF Start
  <2>3. frame.abort = "none" /\ e.key \in Keys
    BY DEF NoFrame, Entry
  <2> QED BY <2>2, <2>3 DEF AbortSane
<1> QED BY <1>1, <1>2

\* The slots whose requests wait are finitely many, and counted by suspensions.
LEMMA WaitingFinite ==
    ASSUME NEW S \in SUBSET Slots
    PROVE  IsFiniteSet(S) /\ Cardinality(S) \in Nat
<1>1. IsFiniteSet(Slots)
  BY SlotAssumption, FS_AddElement DEF Slots
<1> QED BY <1>1, FS_Subset, FS_CardinalityType

\* A request that starts to wait suspends the pump once more.
LEMMA WaitCounted ==
    ASSUME slot \in [Slots -> Slot], SuspensionsBalanced,
           NEW s \in Slots, ~Waiting(s),
           NEW w \in Slot, w.op \in WaitingOps,
           slot' = [slot EXCEPT ![s] = w],
           suspensions' = suspensions + 1
    PROVE  SuspensionsBalanced'
<1> DEFINE W == {x \in Slots : Waiting(x)}
<1>1. {x \in Slots : Waiting(x)'} = W \cup {s}
  BY DEF Waiting, WaitingOps
<1>2. s \notin W
  OBVIOUS
<1>3. IsFiniteSet(W)
  BY WaitingFinite
<1>4. Cardinality(W \cup {s}) = Cardinality(W) + 1
  BY <1>2, <1>3, FS_AddElement
<1> QED BY <1>1, <1>4 DEF SuspensionsBalanced

\* A request that is answered, or goes on, resumes it once.
LEMMA ResumeCounted ==
    ASSUME slot \in [Slots -> Slot], SuspensionsBalanced,
           NEW s \in Slots, Waiting(s),
           NEW w \in Slot, w.op \notin WaitingOps,
           slot' = [slot EXCEPT ![s] = w],
           suspensions' = Resumed
    PROVE  SuspensionsBalanced' /\ Resumed \in Nat
<1> DEFINE W == {x \in Slots : Waiting(x)}
<1>1. {x \in Slots : Waiting(x)'} = W \ {s}
  BY DEF Waiting, WaitingOps
<1>2. s \in W
  OBVIOUS
<1>3. IsFiniteSet(W) /\ Cardinality(W) \in Nat
  BY WaitingFinite
<1>4. Cardinality(W \ {s}) = Cardinality(W) - 1
  BY <1>2, <1>3, FS_RemoveElement
<1>5. Cardinality(W \ {s}) \in Nat
  BY WaitingFinite
<1> QED BY <1>1, <1>4, <1>5 DEF SuspensionsBalanced, Resumed

\* Any other change of a slot leaves the count alone.
LEMMA SlotUncounted ==
    ASSUME slot \in [Slots -> Slot], SuspensionsBalanced,
           NEW s \in Slots, ~Waiting(s),
           NEW w \in Slot, w.op \notin WaitingOps,
           slot' = [slot EXCEPT ![s] = w],
           suspensions' = suspensions
    PROVE  SuspensionsBalanced'
<1>1. \A x \in Slots : Waiting(x)' <=> Waiting(x)
  BY DEF Waiting, WaitingOps
<1>2. {x \in Slots : Waiting(x)'} = {x \in Slots : Waiting(x)}
  BY <1>1
<1> QED BY <1>2 DEF SuspensionsBalanced

\* cancelJobs keeps the types of what it changes.
LEMMA CancelJobsType ==
    ASSUME TypeOK, AbortSane, SuspensionsBalanced,
           NEW S \in SUBSET Keys, NEW purging \in BOOLEAN, NEW code \in Codes,
           NEW s \in Slots, ~Waiting(s),
           NEW waits \in Slot, waits.op \in WaitingOps,
           NEW done \in Slot, done.op \notin WaitingOps,
           CancelJobs(S, purging, code, s, waits, done)
    PROVE  /\ job' \in [Keys -> Row]
           /\ artifact' \in [Keys -> Artifact]
           /\ pending' \subseteq Entry
           /\ pendingAttempts' \in [Keys -> Nat]
           /\ pumpScheduled' \in BOOLEAN
           /\ exec' \in [Keys -> Frame]
           /\ activePromise' \in Nat
           /\ suspensions' \in Nat
           /\ purge' \in [Keys -> Nat]
           /\ slot' \in [Slots -> Slot]
           /\ lease' \in [Keys -> {"none", "opening", "held"}]
           /\ AbortSane'
           /\ SuspensionsBalanced'
<1> DEFINE rows == RowsAfterCancel(S, purging, code)
           attempts == AttemptsAfterCancel(S)
           frames == FramesAfterCancel(S)
           entries == Compacted(attempts)
<1>1. rows \in [Keys -> Row]
  <2>1. ASSUME NEW k \in Keys
        PROVE  CancelledRow(k, code) \in Row
    <3>1. job[k] \in Row
      BY DEF TypeOK, DatabaseType
    <3> QED BY <3>1 DEF CancelledRow, Row, States
  <2> QED BY <2>1, EmptyValues DEF RowsAfterCancel, TypeOK, DatabaseType
<1>2. attempts \in [Keys -> Nat] /\ entries \in SUBSET Entry
  BY DEF AttemptsAfterCancel, Compacted, TypeOK, QueueType
<1>3. /\ frames \in [Keys -> Frame]
      /\ \A k \in Keys : frames[k].abort = "done" => frames[k].pc = "cleanup"
  <2>1. ASSUME NEW k \in Keys
        PROVE  /\ frames[k] \in Frame
               /\ frames[k].abort = "done" => frames[k].pc = "cleanup"
    <3> DEFINE stopped == [exec[k] EXCEPT !.cancelled = TRUE,
                              !.abort = IF @ = "none" THEN "cancelled" ELSE @]
    <3>1. exec[k] \in Frame /\ (exec[k].abort = "done" => exec[k].pc = "cleanup")
      BY DEF TypeOK, AttemptType, AbortSane
    <3>2. stopped \in Frame /\ (stopped.abort = "done" => stopped.pc = "cleanup")
      BY <3>1 DEF Frame
    <3>3. frames[k] = stopped \/ frames[k] = exec[k]
      BY DEF FramesAfterCancel
    <3> QED BY <3>1, <3>2, <3>3
  <2> QED BY <2>1 DEF FramesAfterCancel
<1>4. artifact' \in [Keys -> Artifact]
  BY EmptyValues DEF CancelJobs, TypeOK, DatabaseType
<1>5. purge' \in [Keys -> Nat]
  BY DEF CancelJobs, TypeOK, DatabaseType, AttemptType, Row
<1>6. CASE \E k \in S : Running(k)
  <2>1. /\ job' = rows /\ pending' = entries /\ pendingAttempts' = attempts
        /\ exec' = frames /\ suspensions' = suspensions + 1
        /\ slot' = [slot EXCEPT ![s] = waits]
        /\ UNCHANGED <<activePromise, pumpScheduled, lease>>
    BY <1>6 DEF CancelJobs
  <2>2. SuspensionsBalanced'
    BY <2>1, WaitCounted DEF TypeOK, RequestType
  <2>3. AbortSane'
    BY <2>1, <1>3 DEF AbortSane
  <2> QED BY <1>1, <1>2, <1>3, <1>4, <1>5, <2>1, <2>2, <2>3
             DEF TypeOK, QueueType, AttemptType, RequestType
<1>7. CASE ~\E k \in S : Running(k)
  <2>1. slot' = [slot EXCEPT ![s] = done] /\ suspensions' = suspensions
    BY <1>7 DEF CancelJobs
  <2>2. SuspensionsBalanced'
    BY <2>1, SlotUncounted DEF TypeOK, RequestType
  <2>3. CASE S = {}
    <3>1. UNCHANGED <<job, queue, exec, activePromise, lease>>
      BY <1>7, <2>3 DEF CancelJobs
    <3> QED BY <3>1, <2>1, <2>2, <1>4, <1>5 
             DEF TypeOK, DatabaseType, QueueType, AttemptType, RequestType, queue,
                 AbortSane
  <2>4. CASE S # {}
    <3>1. Pump(rows, entries, attempts, frames, activePromise, suspensions,
               pumpScheduled)
      BY <1>7, <2>4 DEF CancelJobs
    <3>2. AbortSane'
      BY <3>1, <1>2, <1>3, PumpAbortSane
    <3>3. /\ job' \in [Keys -> Row]
          /\ pending' \subseteq Entry
          /\ pendingAttempts' \in [Keys -> Nat]
          /\ exec' \in [Keys -> Frame]
          /\ activePromise' \in Nat
          /\ pumpScheduled' \in BOOLEAN
          /\ lease' \in [Keys -> {"none", "opening", "held"}]
      <4>1. /\ activePromise \in Nat /\ pumpScheduled \in BOOLEAN
            /\ lease \in [Keys -> {"none", "opening", "held"}]
        BY DEF TypeOK, QueueType, AttemptType
      <4> HIDE DEF rows, attempts, frames, entries
      <4> QED BY <4>1, <3>1, <1>1, <1>2, <1>3, PumpType
    <3> QED BY <3>2, <3>3, <2>1, <2>2, <1>4, <1>5
             DEF TypeOK, QueueType, RequestType
  <2> QED BY <2>3, <2>4
<1> QED BY <1>6, <1>7
\* Most actions leave the slots alone.
LEMMA SlotsUnchanged ==
    ASSUME SuspensionsBalanced, UNCHANGED <<slot, suspensions>>
    PROVE  SuspensionsBalanced'
BY DEF SuspensionsBalanced, Waiting

\* What an attempt may be aborted with before its pipeline is left.
Reasons == {"none", "cancelled", "transcription_stalled", "timeout", "failed"}

\* Leaving the pipeline keeps the frame well formed, whatever the reason.
LEMMA EndFrameType ==
    ASSUME exec \in [Keys -> Frame], AbortSane, NEW k \in Keys,
           NEW reason \in Reasons \cup {"done"}, exec' = EndFrame(k, reason)
    PROVE  exec' \in [Keys -> Frame] /\ AbortSane'
<1> DEFINE frame == [exec[k] EXCEPT !.pc = "cleanup", !.timer = "none",
                        !.abort = IF @ = "none" THEN reason ELSE @]
<1>1. frame \in Frame /\ frame.pc = "cleanup"
  BY DEF Frame, Reasons
<1>2. exec' = [exec EXCEPT ![k] = frame]
  BY DEF EndFrame, Frame
<1> QED BY <1>1, <1>2 DEF AbortSane

\* A frame that is replaced by a well-formed one.
LEMMA FrameChangeType ==
    ASSUME exec \in [Keys -> Frame], AbortSane, NEW k \in Keys,
           NEW frame \in Frame, frame.abort # "done",
           exec' = [exec EXCEPT ![k] = frame]
    PROVE  exec' \in [Keys -> Frame] /\ AbortSane'
BY DEF AbortSane

\* An attempt that fails writes a row of the right type, or none.
LEMMA FailType ==
    ASSUME TypeOK, AbortSane, NEW k \in Keys, NEW reason \in Reasons,
           Fail(k, reason)
    PROVE  job' \in [Keys -> Row] /\ exec' \in [Keys -> Frame] /\ AbortSane'
<1>1. job \in [Keys -> Row] /\ exec \in [Keys -> Frame]
  BY DEF TypeOK, DatabaseType, AttemptType
<1>2. exec[k].job \in Row
  BY <1>1 DEF Frame
<1>3. FailedRow(k, reason) \in Row
  BY <1>2 DEF FailedRow, Row, States, Codes, Reasons
<1>4. job' \in [Keys -> Row]
  BY <1>1, <1>3 DEF Fail
<1>5. exec' = EndFrame(k, reason)
  BY DEF Fail
<1>6. exec' \in [Keys -> Frame] /\ AbortSane'
  BY <1>1, <1>5, EndFrameType
<1> QED BY <1>4, <1>6

\* The steps of an attempt change rows, captions, frames and resources only.
LEMMA ExecType ==
    ASSUME TypeInv, ExecUnchanged,
           job' \in [Keys -> Row],
           artifact' \in [Keys -> Artifact],
           exec' \in [Keys -> Frame],
           lease' \in [Keys -> {"none", "opening", "held"}],
           worker' \in [Keys -> {"none", "decoding", "window"}],
           provider' \in [Keys -> {"idle", "busy", "orphan"}],
           AbortSane'
    PROVE  TypeInv'
<1>1. TypeOK'
  BY DEF TypeInv, TypeOK, DatabaseType, QueueType, AttemptType, RequestType,
         BoundsType, ExecUnchanged, queue, setting, bounds
<1>2. TransitionHeld'
  BY DEF TypeInv, TransitionHeld, ExecUnchanged, setting
<1>3. SuspensionsBalanced'
  BY SlotsUnchanged DEF TypeInv, ExecUnchanged
<1> QED BY <1>1, <1>2, <1>3 DEF TypeInv

\* Steps of an attempt that FFmpeg, the reader, the speech service or a timer takes.
LEMMA PipelineType ==
    ASSUME TypeInv, NEW k \in Keys,
           \/ OpenSucceeds(k) \/ OpenFails(k)
           \/ WindowStarts(k) \/ ProviderAnswers(k) \/ ProviderFails(k)
           \/ TranscodeSucceeds(k) \/ TranscodeFails(k)
           \/ WatchdogExpires(k) \/ RequestTimesOut(k)
           \/ Interrupted(k) \/ WindowInterrupted(k)
           \/ LeaseReleased(k) \/ WorkerStopped(k) \/ OrphanSettles(k)
    PROVE  TypeInv'
<1>1. /\ job \in [Keys -> Row] /\ artifact \in [Keys -> Artifact]
      /\ exec \in [Keys -> Frame]
      /\ lease \in [Keys -> {"none", "opening", "held"}]
      /\ worker \in [Keys -> {"none", "decoding", "window"}]
      /\ provider \in [Keys -> {"idle", "busy", "orphan"}]
      /\ TypeOK /\ AbortSane
  BY DEF TypeInv, TypeOK, DatabaseType, AttemptType
<1>2. exec[k] \in Frame /\ exec[k].job \in Row /\ exec[k].windows \in Nat
  BY <1>1 DEF Frame
<1>3. "failed" \in Reasons
  BY DEF Reasons
<1>4. CASE OpenSucceeds(k)
  <2>1. CASE Owned(k)
    <3> DEFINE row == [exec[k].job EXCEPT !.state = "transcribing"]
    <3>1. row \in Row
      BY <1>2 DEF Row, States, ACTIVE_STATES
    <3>2. /\ job' = [job EXCEPT ![k] = row]
          /\ exec' = [exec EXCEPT ![k].pc = "transcribing", ![k].job = row,
                                  ![k].timer = "watchdog"]
          /\ worker' = [worker EXCEPT ![k] = "decoding"]
      BY <1>4, <2>1 DEF OpenSucceeds
    <3>3. exec' \in [Keys -> Frame] /\ AbortSane'
      <4> DEFINE frame == [exec[k] EXCEPT !.pc = "transcribing", !.job = row,
                                          !.timer = "watchdog"]
      <4>1. exec' = [exec EXCEPT ![k] = frame]
        BY <1>1, <3>2 DEF Frame
      <4>2. frame \in Frame
        BY <1>2, <3>1 DEF Frame
      <4>3. frame.abort # "done"
        BY <1>1, <1>4 DEF Frame, OpenSucceeds, Aborted
      <4> QED BY <1>1, <4>1, <4>2, <4>3, FrameChangeType
    <3> QED BY <1>1, <1>4, <3>1, <3>2, <3>3, ExecType DEF OpenSucceeds
  <2>2. CASE ~Owned(k)
    <3>1. job' \in [Keys -> Row] /\ exec' \in [Keys -> Frame] /\ AbortSane'
      BY <1>1, <1>3, <1>4, <2>2, FailType DEF OpenSucceeds
    <3> QED BY <1>1, <1>4, <2>2, <3>1, ExecType DEF OpenSucceeds
  <2> QED BY <2>1, <2>2
<1>5. CASE OpenFails(k)
  <2>1. job' \in [Keys -> Row] /\ exec' \in [Keys -> Frame] /\ AbortSane'
    BY <1>1, <1>3, <1>5, FailType DEF OpenFails
  <2> QED BY <1>1, <1>5, <2>1, ExecType DEF OpenFails
<1>6. CASE WindowStarts(k)
  <2>1. exec' \in [Keys -> Frame] /\ AbortSane'
    <3> DEFINE goes == [exec[k] EXCEPT !.timer = "request", !.windows = @ + 1]
               stops == [exec[k] EXCEPT !.abort = "failed"]
    <3>1. \/ exec' = [exec EXCEPT ![k] = goes]
          \/ exec' = [exec EXCEPT ![k] = stops]
      BY <1>1, <1>6 DEF WindowStarts, Frame
    <3>2. goes \in Frame /\ goes.abort # "done"
      <4>1. exec[k].windows + 1 \in Nat /\ exec[k].abort = "none"
        BY <1>2, <1>6 DEF WindowStarts, Aborted
      <4> QED BY <1>2, <4>1 DEF Frame
    <3>3. stops \in Frame /\ stops.abort # "done"
      BY <1>2 DEF Frame
    <3> QED BY <1>1, <3>1, <3>2, <3>3, FrameChangeType
  <2> QED BY <1>1, <1>6, <2>1, ExecType DEF WindowStarts
<1>7. CASE ProviderAnswers(k)
  <2>1. exec' \in [Keys -> Frame] /\ AbortSane'
    <3> DEFINE goes == [exec[k] EXCEPT !.timer = "watchdog"]
               stops == [exec[k] EXCEPT !.timer = "none", !.abort = "failed"]
    <3>1. \/ exec' = [exec EXCEPT ![k] = goes]
          \/ exec' = [exec EXCEPT ![k] = stops]
      BY <1>1, <1>7 DEF ProviderAnswers, Frame
    <3>2. goes \in Frame /\ goes.abort # "done"
      BY <1>1, <1>2, <1>7 DEF ProviderAnswers, Frame, Aborted
    <3>3. stops \in Frame /\ stops.abort # "done"
      BY <1>2 DEF Frame
    <3> QED BY <1>1, <3>1, <3>2, <3>3, FrameChangeType
  <2> QED BY <1>1, <1>7, <2>1, ExecType DEF ProviderAnswers
<1>8. CASE ProviderFails(k)
  <2>1. exec' \in [Keys -> Frame] /\ AbortSane'
    <3> DEFINE frame == [exec[k] EXCEPT !.timer = "none", !.abort = "failed"]
    <3>1. exec' = [exec EXCEPT ![k] = frame]
      BY <1>1, <1>8 DEF ProviderFails, Frame
    <3>2. frame \in Frame /\ frame.abort # "done"
      BY <1>1, <1>2, <1>8 DEF ProviderFails, Frame, Aborted
    <3> QED BY <1>1, <3>1, <3>2, FrameChangeType
  <2> QED BY <1>1, <1>8, <2>1, ExecType DEF ProviderFails
<1>9. CASE TranscodeSucceeds(k)
  <2>1. CASE Owned(k)
    <3> DEFINE row == [exec[k].job EXCEPT !.state = "completed"]
               captions == [model |-> exec[k].job.model, ts |-> exec[k].job.ts]
    <3>1. row \in Row /\ captions \in Artifact
      BY <1>2 DEF Row, States, Artifact
    <3>2. /\ job' = [job EXCEPT ![k] = row]
          /\ artifact' = [artifact EXCEPT ![k] = captions]
          /\ exec' = EndFrame(k, "done")
      BY <1>9, <2>1 DEF TranscodeSucceeds
    <3>3. exec' \in [Keys -> Frame] /\ AbortSane'
      BY <1>1, <3>2, EndFrameType
    <3> QED BY <1>1, <1>9, <3>1, <3>2, <3>3, ExecType DEF TranscodeSucceeds
  <2>2. CASE ~Owned(k)
    <3>1. job' \in [Keys -> Row] /\ exec' \in [Keys -> Frame] /\ AbortSane'
      BY <1>1, <1>3, <1>9, <2>2, FailType DEF TranscodeSucceeds
    <3> QED BY <1>1, <1>9, <2>2, <3>1, ExecType DEF TranscodeSucceeds
  <2> QED BY <2>1, <2>2
<1>10. CASE TranscodeFails(k)
  <2>1. job' \in [Keys -> Row] /\ exec' \in [Keys -> Frame] /\ AbortSane'
    BY <1>1, <1>3, <1>10, FailType DEF TranscodeFails
  <2> QED BY <1>1, <1>10, <2>1, ExecType DEF TranscodeFails
<1>11. CASE WatchdogExpires(k)
  <2>1. exec' \in [Keys -> Frame] /\ AbortSane'
    <3> DEFINE frame == [exec[k] EXCEPT !.timer = "none",
                                        !.abort = "transcription_stalled"]
    <3>1. exec' = [exec EXCEPT ![k] = frame]
      BY <1>1, <1>11 DEF WatchdogExpires, Frame
    <3>2. frame \in Frame /\ frame.abort # "done"
      BY <1>1, <1>2, <1>11 DEF WatchdogExpires, Frame, Aborted
    <3> QED BY <1>1, <3>1, <3>2, FrameChangeType
  <2> QED BY <1>1, <1>11, <2>1, ExecType DEF WatchdogExpires, resources
<1>12. CASE RequestTimesOut(k)
  <2>1. exec' \in [Keys -> Frame] /\ AbortSane'
    <3> DEFINE frame == [exec[k] EXCEPT !.timer = "none", !.abort = "timeout"]
    <3>1. exec' = [exec EXCEPT ![k] = frame]
      BY <1>1, <1>12 DEF RequestTimesOut, Frame
    <3>2. frame \in Frame /\ frame.abort # "done"
      BY <1>1, <1>2, <1>12 DEF RequestTimesOut, Frame, Aborted
    <3> QED BY <1>1, <3>1, <3>2, FrameChangeType
  <2> QED BY <1>1, <1>12, <2>1, ExecType DEF RequestTimesOut, LeaveWindow
<1>13. CASE Interrupted(k)
  <2>1. exec[k].abort \in Reasons
    BY <1>1, <1>13 DEF Interrupted, AbortSane, Frame, Reasons
  <2>2. job' \in [Keys -> Row] /\ exec' \in [Keys -> Frame] /\ AbortSane'
    BY <1>1, <1>13, <2>1, FailType DEF Interrupted
  <2> QED BY <1>1, <1>13, <2>2, ExecType DEF Interrupted, resources
<1>14. CASE WindowInterrupted(k)
  BY <1>1, <1>14, ExecType DEF WindowInterrupted, LeaveWindow, AbortSane
<1>15. CASE LeaseReleased(k)
  BY <1>1, <1>15, ExecType DEF LeaseReleased, AbortSane
<1>16. CASE WorkerStopped(k)
  BY <1>1, <1>16, ExecType DEF WorkerStopped, AbortSane
<1>17. CASE OrphanSettles(k)
  BY <1>1, <1>17, ExecType DEF OrphanSettles, AbortSane
<1> QED
  BY <1>4, <1>5, <1>6, <1>7, <1>8, <1>9, <1>10, <1>11, <1>12, <1>13, <1>14,
     <1>15, <1>16, <1>17

\* The files of a call, and any other set of files, can be counted.
LEMMA KeysCounted ==
    ASSUME NEW S \in SUBSET Keys
    PROVE  IsFiniteSet(S) /\ Cardinality(S) \in Nat
BY KeysAssumption, FS_Subset, FS_CardinalityType

\* The files a call queues are files, for a reason it knows.
LEMMA QueuedByKeys ==
    ASSUME calls \subseteq Call, NEW c \in calls
    PROVE  QueuedBy(c) \in SUBSET Keys /\ c.trigger \in Triggers
BY DEF QueuedBy, Call

\* queueTorrent and queueFile: rows and entries they write are well formed.
LEMMA RunCallType ==
    ASSUME TypeInv, NEW c \in calls, RunCall(c)
    PROVE  TypeInv'
<1> DEFINE new == QueuedBy(c)
           ts(k) == lastTs + Cardinality({j \in new : j[2] <= k[2]})
           pushed == {k \in new : pendingAttempts[k] = 0 /\ exec[k].pc = "none"}
<1>1. /\ job \in [Keys -> Row] /\ lastTs \in Nat /\ pending \subseteq Entry
      /\ model \in Models \cup {NoModel} /\ pendingAttempts \in [Keys -> Nat]
      /\ pumpScheduled \in BOOLEAN
  BY DEF TypeInv, TypeOK, DatabaseType, QueueType
<1>2. new \in SUBSET Keys /\ c.trigger \in Triggers
  BY QueuedByKeys DEF TypeInv, TypeOK, RequestType
<1>3. ASSUME NEW k \in Keys
      PROVE  ts(k) \in Nat
  <2>1. {j \in new : j[2] <= k[2]} \in SUBSET Keys
    BY <1>2
  <2>2. Cardinality({j \in new : j[2] <= k[2]}) \in Nat
    BY <2>1, KeysCounted
  <2> QED BY <1>1, <2>2
<1>4. ASSUME NEW k \in Keys
      PROVE  job[k].attempt + 1 \in Nat
  BY <1>1 DEF Row
<1>5. ASSUME NEW k \in Keys
      PROVE  QueuedRow(k, c.trigger, ts(k)) \in Row
  <2> HIDE DEF ts
  <2> QED BY <1>1, <1>2, <1>3, <1>4
          DEF QueuedRow, Row, States, ACTIVE_STATES, Codes
<1>6. /\ job' = [k \in Keys |-> IF k \in new THEN QueuedRow(k, c.trigger, ts(k))
                                             ELSE job[k]]
      /\ lastTs' = lastTs + Cardinality(new)
      /\ pending' = pending \cup
             {[key |-> k, attempt |-> job[k].attempt + 1, place |-> ts(k)] :
                 k \in pushed}
      /\ pendingAttempts' = [k \in Keys |->
             IF k \in pushed THEN job[k].attempt + 1 ELSE pendingAttempts[k]]
      /\ pumpScheduled' = (pumpScheduled \/ pushed # {})
  BY DEF RunCall
<1>7. job' \in [Keys -> Row]
  <2> HIDE DEF new, ts
  <2> QED BY <1>1, <1>5, <1>6
<1>8. lastTs' \in Nat
  BY <1>1, <1>2, <1>6, KeysCounted
<1>9. pending' \subseteq Entry
  <2>1. pushed \subseteq Keys
    BY <1>2
  <2> HIDE DEF new, ts, pushed
  <2> QED BY <1>1, <1>3, <1>4, <1>6, <2>1 DEF Entry
<1>10. pendingAttempts' \in [Keys -> Nat]
  BY <1>1, <1>4, <1>6
<1>11. pumpScheduled' \in BOOLEAN
  BY <1>6
<1>12. TypeOK'
  BY <1>7, <1>8, <1>9, <1>10, <1>11
     DEF TypeInv, TypeOK, DatabaseType, QueueType, AttemptType, RequestType,
         BoundsType, RunCall, setting, resources, bounds
<1>13. AbortSane' /\ TransitionHeld' /\ SuspensionsBalanced'
  BY SlotsUnchanged DEF TypeInv, AbortSane, TransitionHeld, RunCall, setting
<1> QED BY <1>12, <1>13 DEF TypeInv

\* A request that waited goes on: what Confirm and ConfirmTimesOut have in common.
LEMMA ResumeType ==
    ASSUME TypeInv, NEW s \in Slots, Waiting(s),
           NEW w \in Slot, w.op \in {"none", "deleting"},
           slot' = [slot EXCEPT ![s] = w],
           suspensions' = Resumed,
           Pump(job, pending, pendingAttempts, exec, activePromise,
                Resumed, pumpScheduled),
           transitions' = IF slot[s].op = "disable" THEN Tail(transitions)
                          ELSE transitions,
           UNCHANGED <<mode, scanning>>
    PROVE  /\ job' \in [Keys -> Row]
           /\ pending' \subseteq Entry
           /\ pendingAttempts' \in [Keys -> Nat]
           /\ exec' \in [Keys -> Frame]
           /\ activePromise' \in Nat
           /\ pumpScheduled' \in BOOLEAN
           /\ lease' \in [Keys -> {"none", "opening", "held"}]
           /\ suspensions' \in Nat
           /\ slot' \in [Slots -> Slot]
           /\ transitions' \in Seq(BOOLEAN)
           /\ AbortSane' /\ TransitionHeld' /\ SuspensionsBalanced'
<1>1. /\ job \in [Keys -> Row] /\ pending \in SUBSET Entry
      /\ pendingAttempts \in [Keys -> Nat] /\ exec \in [Keys -> Frame]
      /\ activePromise \in Nat
      /\ lease \in [Keys -> {"none", "opening", "held"}]
  BY DEF TypeInv, TypeOK, DatabaseType, QueueType, AttemptType
<1>2. pumpScheduled \in BOOLEAN
  BY DEF TypeInv, TypeOK, QueueType
<1>3. /\ job' \in [Keys -> Row]
      /\ pending' \subseteq Entry
      /\ pendingAttempts' \in [Keys -> Nat]
      /\ exec' \in [Keys -> Frame]
      /\ activePromise' \in Nat
      /\ pumpScheduled' \in BOOLEAN
      /\ lease' \in [Keys -> {"none", "opening", "held"}]
  BY <1>1, <1>2, PumpType, Zenon
<1>4. AbortSane'
  <2>1. \A k \in Keys : exec[k].abort = "done" => exec[k].pc = "cleanup"
    BY DEF TypeInv, AbortSane
  <2> QED BY <1>1, <2>1, PumpAbortSane, Zenon
<1>5. slot \in [Slots -> Slot] /\ transitions \in Seq(BOOLEAN)
  BY DEF TypeInv, TypeOK, RequestType
<1>6. w.op \notin WaitingOps
  BY DEF WaitingOps
<1>7. SuspensionsBalanced' /\ Resumed \in Nat
  BY <1>5, <1>6, ResumeCounted DEF TypeInv
<1>8. transitions' \in Seq(BOOLEAN)
  <2>1. CASE slot[s].op = "disable"
    <3>1. transitions # <<>>
      BY <2>1 DEF TypeInv, TransitionHeld
    <3>2. Tail(transitions) \in Seq(BOOLEAN)
      BY <1>5, <3>1
    <3> QED BY <2>1, <3>2
  <2>2. CASE slot[s].op # "disable"
    BY <1>5, <2>2
  <2> QED BY <2>1, <2>2
<1>9. TransitionHeld'
  <2>1. slot[s].op # "none" /\ slot[s] # NoSlot
    BY DEF Waiting, NoSlot
  <2>2. mode # "down" /\ (scanning => s # Setting)
    BY <2>1 DEF TypeInv, TransitionHeld
  <2>3. Setting \in Slots
    BY DEF Slots
  <2> QED BY <1>5, <2>1, <2>2, <2>3 DEF TypeInv, TransitionHeld
<1> QED BY <1>3, <1>4, <1>5, <1>7, <1>8, <1>9

\* The actions that touch neither a frame nor a row, and Evict and Register: each
\* changes one or two variables.
LEMMA SmallStepType ==
    ASSUME TypeInv,
           \/ \E c \in calls : AbandonCall(c)
           \/ \E t \in Torrents : ReleaseCancelling(t) \/ ScanNext(t)
           \/ ApplyEnabled
           \/ \E t \in Torrents : CacheCompleted(t) \/ Evict(t) \/ Register(t)
           \/ \E t \in Torrents : QueueTorrent(t)
    PROVE  TypeInv'
<1>1. CASE \E c \in calls : AbandonCall(c)
  <2> PICK c \in calls : AbandonCall(c)
    BY <1>1
  <2>1. TypeOK'
    BY DEF TypeInv, AbandonCall, TypeOK, DatabaseType, QueueType, AttemptType,
           RequestType, BoundsType, database, queue, setting, resources, bounds
  <2>2. AbortSane' /\ TransitionHeld' /\ SuspensionsBalanced'
    BY SlotsUnchanged
       DEF TypeInv, AbandonCall, AbortSane, TransitionHeld, setting
  <2> QED BY <2>1, <2>2 DEF TypeInv
<1>2. CASE \E t \in Torrents : ReleaseCancelling(t)
  <2> PICK t \in Torrents : ReleaseCancelling(t)
    BY <1>2
  <2>1. TypeOK'
    BY DEF TypeInv, ReleaseCancelling, TypeOK, DatabaseType, QueueType,
           AttemptType, RequestType, BoundsType, database, queue, setting,
           resources, bounds
  <2>2. AbortSane' /\ TransitionHeld' /\ SuspensionsBalanced'
    BY SlotsUnchanged
       DEF TypeInv, ReleaseCancelling, AbortSane, TransitionHeld, setting
  <2> QED BY <2>1, <2>2 DEF TypeInv
<1>3. CASE \E t \in Torrents : ScanNext(t)
  <2> PICK t \in Torrents : ScanNext(t)
    BY <1>3
  <2>1. TypeOK'
    BY DEF TypeInv, ScanNext, AutomaticCall, Call, FilesOf, Triggers, TypeOK,
           DatabaseType, QueueType, AttemptType, RequestType, BoundsType,
           database, queue, setting, resources, bounds
  <2>2. AbortSane' /\ TransitionHeld' /\ SuspensionsBalanced'
    BY SlotsUnchanged DEF TypeInv, ScanNext, AbortSane, TransitionHeld
  <2> QED BY <2>1, <2>2 DEF TypeInv
<1>4. CASE ApplyEnabled
  <2>1. TypeOK'
    BY <1>4 DEF TypeInv, ApplyEnabled, LocallyAvailable, TypeOK, DatabaseType,
                QueueType, AttemptType, RequestType, BoundsType, database,
                queue, resources, bounds
  <2>2. AbortSane' /\ TransitionHeld' /\ SuspensionsBalanced'
    BY <1>4, SlotsUnchanged
       DEF TypeInv, ApplyEnabled, InTurn, AbortSane, TransitionHeld
  <2> QED BY <2>1, <2>2 DEF TypeInv
<1>5. CASE \E t \in Torrents : CacheCompleted(t)
  <2> PICK t \in Torrents : CacheCompleted(t)
    BY <1>5
  <2>1. TypeOK'
    BY DEF TypeInv, CacheCompleted, AutomaticCall, Call, FilesOf, Triggers,
           TypeOK, DatabaseType, QueueType, AttemptType, RequestType,
           BoundsType, queue, setting, resources, bounds
  <2>2. AbortSane' /\ TransitionHeld' /\ SuspensionsBalanced'
    BY SlotsUnchanged
       DEF TypeInv, CacheCompleted, AbortSane, TransitionHeld, setting
  <2> QED BY <2>1, <2>2 DEF TypeInv
<1>6. CASE \E t \in Torrents : Evict(t)
  <2> PICK t \in Torrents : Evict(t)
    BY <1>6
  <2>1. TypeOK'
    BY BoundsAssumption
       DEF TypeInv, Evict, Input, TypeOK, DatabaseType, QueueType, AttemptType,
           RequestType, BoundsType, queue, setting, resources
  <2>2. AbortSane' /\ TransitionHeld' /\ SuspensionsBalanced'
    BY SlotsUnchanged DEF TypeInv, Evict, AbortSane, TransitionHeld, setting
  <2> QED BY <2>1, <2>2 DEF TypeInv
<1>7. CASE \E t \in Torrents : Register(t)
  <2> PICK t \in Torrents : Register(t)
    BY <1>7
  <2>1. TypeOK'
    BY BoundsAssumption
       DEF TypeInv, Register, Accepts, Input, TypeOK, DatabaseType, QueueType,
           AttemptType, RequestType, BoundsType, queue, setting, resources
  <2>2. AbortSane' /\ TransitionHeld' /\ SuspensionsBalanced'
    BY SlotsUnchanged DEF TypeInv, Register, AbortSane, TransitionHeld, setting
  <2> QED BY <2>1, <2>2 DEF TypeInv
<1>8. CASE \E t \in Torrents : QueueTorrent(t)
  <2> PICK t \in Torrents : QueueTorrent(t)
    BY <1>8
  <2>1. TypeOK'
    BY BoundsAssumption
       DEF TypeInv, QueueTorrent, ManualCall, Accepts, Input, Call, FilesOf,
           Triggers, TypeOK, DatabaseType, QueueType, AttemptType, RequestType,
           BoundsType, database, queue, setting, resources
  <2>2. AbortSane' /\ TransitionHeld' /\ SuspensionsBalanced'
    BY SlotsUnchanged
       DEF TypeInv, QueueTorrent, ManualCall, AbortSane, TransitionHeld, setting
  <2> QED BY <2>1, <2>2 DEF TypeInv
<1> QED BY <1>1, <1>2, <1>3, <1>4, <1>5, <1>6, <1>7, <1>8

\* A file belongs to one of the torrents.
LEMMA KeyTorrent ==
    ASSUME NEW k \in Keys
    PROVE  k[1] \in Torrents
BY KeysAssumption

\* POST .../files/:fileId/transcription.
LEMMA QueueFileType ==
    ASSUME TypeInv, NEW k \in Keys, QueueFile(k)
    PROVE  TypeInv'
<1> DEFINE call == [torrent |-> k[1], files |-> {k}, trigger |-> "manual",
                    origin |-> "request"]
<1>1. call \in Call
  BY KeyTorrent DEF Call, Triggers
<1>2. calls' = calls \cup {call}
  BY DEF QueueFile, ManualCall
<1>3. calls' \subseteq Call
  BY <1>1, <1>2 DEF TypeInv, TypeOK, RequestType
<1>4. TypeOK'
  BY <1>3, BoundsAssumption
     DEF TypeInv, QueueFile, ManualCall, Accepts, Input, TypeOK, DatabaseType,
         QueueType, AttemptType, RequestType, BoundsType, database, queue,
         setting, resources
<1>5. AbortSane' /\ TransitionHeld' /\ SuspensionsBalanced'
  BY SlotsUnchanged
     DEF TypeInv, QueueFile, ManualCall, AbortSane, TransitionHeld, setting
<1> QED BY <1>4, <1>5 DEF TypeInv

\* The two ends of a removal.
LEMMA RemoveStartType ==
    ASSUME TypeInv, NEW c \in Clients, NEW t \in Torrents, RemoveStart(c, t)
    PROVE  TypeInv'
<1> DEFINE w == [NoSlot EXCEPT !.op = "reserved", !.torrent = t]
<1>1. w \in Slot /\ w.op = "reserved"
  BY DEF NoSlot, Slot
<1>2. /\ slot' = [slot EXCEPT ![c] = w] /\ c \in Slots /\ c # Setting
      /\ slot \in [Slots -> Slot]
  BY SlotAssumption DEF RemoveStart, Slots, TypeInv, TypeOK, RequestType
<1>3. TypeOK'
  BY <1>1, <1>2, BoundsAssumption
     DEF TypeInv, RemoveStart, Accepts, Input, TypeOK, DatabaseType, QueueType,
         AttemptType, RequestType, BoundsType, database, queue, setting,
         resources
<1>4. SuspensionsBalanced'
  <2>1. ~Waiting(c) /\ w.op \notin WaitingOps /\ suspensions' = suspensions
    BY <1>1 DEF RemoveStart, Waiting, NoSlot, WaitingOps
  <2> QED BY <1>1, <1>2, <2>1, SlotUncounted DEF TypeInv
<1>5. TransitionHeld'
  <2>1. mode' = mode /\ mode # "down" /\ UNCHANGED <<transitions, scanning>>
    BY DEF RemoveStart, Accepts, setting
  <2>2. Setting \in Slots
    BY DEF Slots
  <2> QED BY <1>1, <1>2, <2>1, <2>2 DEF TypeInv, TransitionHeld
<1>6. AbortSane'
  BY DEF TypeInv, RemoveStart, AbortSane
<1> QED BY <1>3, <1>4, <1>5, <1>6 DEF TypeInv

\* The files and rows of a removed torrent go.
LEMMA RemoveDeleteType ==
    ASSUME TypeInv, NEW c \in Clients, RemoveDelete(c)
    PROVE  TypeInv'
<1>1. /\ slot' = [slot EXCEPT ![c] = NoSlot] /\ c \in Slots
      /\ slot \in [Slots -> Slot] /\ slot[c].op = "deleting"
  BY DEF RemoveDelete, Slots, TypeInv, TypeOK, RequestType
<1>2. TypeOK'
  BY <1>1, EmptyValues
     DEF TypeInv, RemoveDelete, TypeOK, DatabaseType, QueueType, AttemptType,
         RequestType, BoundsType, queue, setting, resources, bounds
<1>3. SuspensionsBalanced'
  <2>1. ~Waiting(c) /\ NoSlot.op \notin WaitingOps /\ suspensions' = suspensions
    BY <1>1 DEF RemoveDelete, Waiting, NoSlot, WaitingOps
  <2> QED BY <1>1, <2>1, EmptyValues, SlotUncounted DEF TypeInv
<1>4. TransitionHeld'
  <2>1. mode' = mode /\ UNCHANGED <<transitions, scanning>>
    BY DEF RemoveDelete, setting
  <2>2. NoSlot.op = "none" /\ Setting \in Slots
    BY DEF NoSlot, Slots
  <2> QED BY <1>1, <2>1, <2>2 DEF TypeInv, TransitionHeld
<1>5. AbortSane'
  BY DEF TypeInv, RemoveDelete, AbortSane
<1> QED BY <1>2, <1>3, <1>4, <1>5 DEF TypeInv

\* The setting.
LEMMA SetAutomaticType ==
    ASSUME TypeInv, NEW enabled \in BOOLEAN, SetAutomatic(enabled)
    PROVE  TypeInv'
<1>1. transitions \in Seq(BOOLEAN)
  BY DEF TypeInv, TypeOK, RequestType
<1>2. /\ Append(transitions, enabled) \in Seq(BOOLEAN)
      /\ Append(transitions, enabled) # <<>>
  BY <1>1
<1>3. TypeOK'
  BY <1>2, BoundsAssumption
     DEF TypeInv, SetAutomatic, Accepts, Input, TypeOK, DatabaseType, QueueType,
         AttemptType, RequestType, BoundsType, queue, resources
<1>4. transitions' # <<>> /\ UNCHANGED <<mode, scanning, slot>>
  BY <1>2 DEF SetAutomatic
<1>5. TransitionHeld'
  BY <1>4 DEF TypeInv, TransitionHeld
<1>6. AbortSane' /\ SuspensionsBalanced'
  BY SlotsUnchanged DEF TypeInv, SetAutomatic, AbortSane
<1> QED BY <1>3, <1>5, <1>6 DEF TypeInv

\* The scan at the head of the chain of settings, or of the boot, ends.
LEMMA ScanEndsType ==
    ASSUME TypeInv, ScanEnds
    PROVE  TypeInv'
<1>1. transitions \in Seq(BOOLEAN)
  BY DEF TypeInv, TypeOK, RequestType
<1>2. transitions' \in Seq(BOOLEAN)
  <2>1. CASE mode = "starting"
    BY <1>1, <2>1 DEF ScanEnds
  <2>2. CASE mode # "starting"
    <3>1. transitions # <<>>
      BY <2>2 DEF TypeInv, TransitionHeld, ScanEnds
    <3>2. Tail(transitions) \in Seq(BOOLEAN)
      BY <1>1, <3>1
    <3> QED BY <2>2, <3>2 DEF ScanEnds
  <2> QED BY <2>1, <2>2
<1>3. TypeOK'
  BY <1>2
     DEF TypeInv, ScanEnds, TypeOK, DatabaseType, QueueType, AttemptType,
         RequestType, BoundsType, database, queue, resources, bounds
<1>4. TransitionHeld'
  <2>1. slot[Setting] = NoSlot /\ mode # "down" /\ mode' # "down" /\ ~scanning'
        /\ slot' = slot
    BY DEF TypeInv, TransitionHeld, ScanEnds
  <2>2. \A s \in Slots : slot[s].op = "disable" => s = Setting
    BY DEF TypeInv, TransitionHeld
  <2>3. \A s \in Slots : slot[s].op # "disable"
    BY <2>1, <2>2 DEF NoSlot
  <2> QED BY <2>1, <2>3 DEF TransitionHeld
<1>5. AbortSane' /\ SuspensionsBalanced'
  BY SlotsUnchanged DEF TypeInv, ScanEnds, AbortSane
<1> QED BY <1>3, <1>4, <1>5 DEF TypeInv

\* The actions that call pump() with the rows as they are.
LEMMA PumpMicrotaskType ==
    ASSUME TypeInv, PumpMicrotask
    PROVE  TypeInv'
<1>1. /\ job \in [Keys -> Row] /\ pending \in SUBSET Entry
      /\ pendingAttempts \in [Keys -> Nat] /\ exec \in [Keys -> Frame]
      /\ activePromise \in Nat
      /\ lease \in [Keys -> {"none", "opening", "held"}]
      /\ FALSE \in BOOLEAN
  BY DEF TypeInv, TypeOK, DatabaseType, QueueType, AttemptType
<1>2. Pump(job, pending, pendingAttempts, exec, activePromise, suspensions, FALSE)
  BY DEF PumpMicrotask
<1>3. /\ job' \in [Keys -> Row]
      /\ pending' \subseteq Entry
      /\ pendingAttempts' \in [Keys -> Nat]
      /\ exec' \in [Keys -> Frame]
      /\ activePromise' \in Nat
      /\ pumpScheduled' \in BOOLEAN
      /\ lease' \in [Keys -> {"none", "opening", "held"}]
  BY <1>1, <1>2, PumpType, Zenon
<1>4. AbortSane'
  <2>1. \A k \in Keys : exec[k].abort = "done" => exec[k].pc = "cleanup"
    BY DEF TypeInv, AbortSane
  <2> QED BY <1>1, <1>2, <2>1, PumpAbortSane, Zenon
<1>5. TypeOK'
  BY <1>3
     DEF PumpMicrotask, TypeInv, TypeOK, DatabaseType, QueueType, AttemptType,
         RequestType, BoundsType, setting, bounds
<1>6. TransitionHeld' /\ SuspensionsBalanced'
  BY SlotsUnchanged DEF PumpMicrotask, TypeInv, TransitionHeld, setting
<1> QED BY <1>4, <1>5, <1>6 DEF TypeInv

\* The cleanup that a request waits for settles in time.
LEMMA ConfirmType ==
    ASSUME TypeInv, NEW s \in Slots, Confirm(s)
    PROVE  TypeInv'
<1> DEFINE w == IF slot[s].op = "removal"
                THEN [NoSlot EXCEPT !.op = "deleting", !.torrent = slot[s].torrent]
                ELSE NoSlot
<1>1. w \in Slot /\ w.op \in {"none", "deleting"}
  BY DEF TypeInv, TypeOK, RequestType, NoSlot, Slot
<1>2. /\ Waiting(s)
      /\ slot' = [slot EXCEPT ![s] = w]
      /\ suspensions' = Resumed
      /\ Pump(job, pending, pendingAttempts, exec, activePromise, Resumed,
              pumpScheduled)
      /\ transitions' = IF slot[s].op = "disable" THEN Tail(transitions)
                        ELSE transitions
      /\ UNCHANGED <<mode, scanning>>
  BY DEF Confirm
<1>3. /\ job' \in [Keys -> Row]
      /\ pending' \subseteq Entry
      /\ pendingAttempts' \in [Keys -> Nat]
      /\ exec' \in [Keys -> Frame]
      /\ activePromise' \in Nat
      /\ pumpScheduled' \in BOOLEAN
      /\ lease' \in [Keys -> {"none", "opening", "held"}]
      /\ suspensions' \in Nat
      /\ slot' \in [Slots -> Slot]
      /\ transitions' \in Seq(BOOLEAN)
      /\ AbortSane' /\ TransitionHeld' /\ SuspensionsBalanced'
  <2> HIDE DEF w
  <2> QED BY <1>1, <1>2, ResumeType, Zenon
<1>4. cancelling' \subseteq Torrents
  BY DEF Confirm, TypeInv, TypeOK, RequestType
<1>5. TypeOK'
  <2> HIDE DEF w
  <2> QED BY <1>3, <1>4
     DEF Confirm, TypeInv, TypeOK, DatabaseType, QueueType, AttemptType,
         RequestType, BoundsType, bounds
<1> QED BY <1>3, <1>5 DEF TypeInv

\* The cleanup that a request waits for does not settle in time.
LEMMA ConfirmTimesOutType ==
    ASSUME TypeInv, NEW s \in Slots, ConfirmTimesOut(s)
    PROVE  TypeInv'
<1>1. NoSlot \in Slot /\ NoSlot.op \in {"none", "deleting"}
  BY EmptyValues DEF NoSlot
<1>2. /\ Waiting(s)
      /\ slot' = [slot EXCEPT ![s] = NoSlot]
      /\ suspensions' = Resumed
      /\ Pump(job, pending, pendingAttempts, exec, activePromise, Resumed,
              pumpScheduled)
      /\ transitions' = IF slot[s].op = "disable" THEN Tail(transitions)
                        ELSE transitions
      /\ UNCHANGED <<mode, scanning>>
  BY DEF ConfirmTimesOut
<1>3. /\ job' \in [Keys -> Row]
      /\ pending' \subseteq Entry
      /\ pendingAttempts' \in [Keys -> Nat]
      /\ exec' \in [Keys -> Frame]
      /\ activePromise' \in Nat
      /\ pumpScheduled' \in BOOLEAN
      /\ lease' \in [Keys -> {"none", "opening", "held"}]
      /\ suspensions' \in Nat
      /\ slot' \in [Slots -> Slot]
      /\ transitions' \in Seq(BOOLEAN)
      /\ AbortSane' /\ TransitionHeld' /\ SuspensionsBalanced'
  BY <1>1, <1>2, ResumeType, Zenon
<1>4. /\ cancelling' \subseteq Torrents
      /\ removing' \subseteq Torrents
      /\ deferred' \in [Torrents -> Nat]
  <2>1. /\ cancelling \subseteq Torrents /\ removing \subseteq Torrents
        /\ deferred \in [Torrents -> Nat] /\ activePromise \in Nat
    BY DEF TypeInv, TypeOK, AttemptType, RequestType
  <2> QED BY <2>1 DEF ConfirmTimesOut
<1>5. TypeOK'
  BY <1>3, <1>4
     DEF ConfirmTimesOut, TypeInv, TypeOK, DatabaseType, QueueType, AttemptType,
         RequestType, BoundsType, bounds
<1> QED BY <1>3, <1>5 DEF TypeInv

\* The attempt is over: its entry goes and the next one may start.
LEMMA FinishJobType ==
    ASSUME TypeInv, NEW k \in Keys, FinishJob(k)
    PROVE  TypeInv'
<1> DEFINE purges == purge[k] = exec[k].job.attempt
           rows == IF purges THEN [job EXCEPT ![k] = NoRow] ELSE job
           frames == [exec EXCEPT ![k] = NoFrame]
           owner == IF activePromise = exec[k].job.ts THEN 0 ELSE activePromise
<1>1. /\ job \in [Keys -> Row] /\ pending \in SUBSET Entry
      /\ pendingAttempts \in [Keys -> Nat] /\ exec \in [Keys -> Frame]
      /\ activePromise \in Nat /\ pumpScheduled \in BOOLEAN
      /\ lease \in [Keys -> {"none", "opening", "held"}]
  BY DEF TypeInv, TypeOK, DatabaseType, QueueType, AttemptType
<1>2. /\ rows \in [Keys -> Row] /\ frames \in [Keys -> Frame] /\ owner \in Nat
  BY <1>1, EmptyValues
<1>3. \A j \in Keys : frames[j].abort = "done" => frames[j].pc = "cleanup"
  BY <1>1 DEF TypeInv, AbortSane, NoFrame
<1>4. Pump(rows, pending, pendingAttempts, frames, owner, suspensions,
           pumpScheduled)
  BY DEF FinishJob
<1>5. /\ job' \in [Keys -> Row]
      /\ pending' \subseteq Entry
      /\ pendingAttempts' \in [Keys -> Nat]
      /\ exec' \in [Keys -> Frame]
      /\ activePromise' \in Nat
      /\ pumpScheduled' \in BOOLEAN
      /\ lease' \in [Keys -> {"none", "opening", "held"}]
      /\ AbortSane'
  <2> HIDE DEF rows, frames, owner
  <2> QED BY <1>1, <1>2, <1>3, <1>4, PumpType, PumpAbortSane, Zenon
<1>6. /\ artifact' \in [Keys -> Artifact] /\ purge' \in [Keys -> Nat]
      /\ calls' \subseteq Call
  <2>1. /\ artifact \in [Keys -> Artifact] /\ purge \in [Keys -> Nat]
        /\ calls \subseteq Call
    BY DEF TypeInv, TypeOK, DatabaseType, AttemptType, RequestType
  <2>2. AutomaticCall(k[1], "rescan") \in Call
    BY KeyTorrent DEF AutomaticCall, Call, FilesOf, Triggers
  <2> QED BY <2>1, <2>2, EmptyValues DEF FinishJob
<1>7. TypeOK'
  <2> HIDE DEF rows, frames, owner, purges
  <2> QED BY <1>5, <1>6
     DEF FinishJob, TypeInv, TypeOK, DatabaseType, QueueType, AttemptType,
         RequestType, BoundsType, setting, bounds
<1>8. TransitionHeld' /\ SuspensionsBalanced'
  BY SlotsUnchanged DEF FinishJob, TypeInv, TransitionHeld, setting
<1> QED BY <1>5, <1>7, <1>8 DEF TypeInv

\* Requests that cancel.  Types of the request's own slot records.
LEMMA SlotRecords ==
    ASSUME activePromise \in Nat, NEW t \in Torrents \cup {NoTorrent},
           NEW op \in WaitingOps
    PROVE  Wait(op, t) \in Slot /\ Wait(op, t).op \in WaitingOps
BY DEF Wait, Slot, WaitingOps

\* The part of TypeOK that cancelJobs leaves alone is up to its caller.
LEMMA CancelStepType ==
    ASSUME TypeOK,
           job' \in [Keys -> Row],
           artifact' \in [Keys -> Artifact],
           pending' \subseteq Entry,
           pendingAttempts' \in [Keys -> Nat],
           pumpScheduled' \in BOOLEAN,
           exec' \in [Keys -> Frame],
           activePromise' \in Nat,
           suspensions' \in Nat,
           purge' \in [Keys -> Nat],
           slot' \in [Slots -> Slot],
           lease' \in [Keys -> {"none", "opening", "held"}],
           cancelling' \subseteq Torrents,
           transitions' \in Seq(BOOLEAN),
           removing' \subseteq Torrents,
           BoundsType',
           UNCHANGED <<automatic, known, local, mode, model, lastTs, deferred,
                       scanning, scan, calls, worker, provider>>
    PROVE  TypeOK'
BY DEF TypeOK, DatabaseType, QueueType, AttemptType, RequestType

\* A client's slot is not the slot of the settings.
LEMMA ClientTransitionHeld ==
    ASSUME TypeInv, NEW c \in Clients, mode # "down",
           NEW w \in Slot, w.op # "disable", slot' = [slot EXCEPT ![c] = w],
           UNCHANGED <<mode, transitions, scanning>>
    PROVE  TransitionHeld'
<1>1. c \in Slots /\ Setting \in Slots /\ c # Setting
  BY SlotAssumption DEF Slots
<1>2. slot \in [Slots -> Slot]
  BY DEF TypeInv, TypeOK, RequestType
<1> QED BY <1>1, <1>2 DEF TypeInv, TransitionHeld

\* DELETE .../files/:fileId/transcription.
LEMMA CancelFileType ==
    ASSUME TypeInv, NEW c \in Clients, NEW k \in Keys, CancelFile(c, k)
    PROVE  TypeInv'
<1> DEFINE waits == Wait("file", k[1])
<1>1. waits \in Slot /\ waits.op \in WaitingOps /\ waits.op = "file"
  <2>1. k[1] \in Torrents \cup {NoTorrent} /\ "file" \in WaitingOps
    BY KeyTorrent DEF WaitingOps
  <2>2. activePromise \in Nat
    BY DEF TypeInv, TypeOK, AttemptType
  <2> QED BY <2>1, <2>2, SlotRecords DEF Wait
<1>2. NoSlot \in Slot /\ NoSlot.op \notin WaitingOps /\ NoSlot.op = "none"
  BY EmptyValues DEF NoSlot, WaitingOps
<1>3. /\ {k} \in SUBSET Keys /\ "cancelled" \in Codes /\ FALSE \in BOOLEAN
      /\ c \in Slots /\ ~Waiting(c)
      /\ CancelJobs({k}, FALSE, "cancelled", c, waits, NoSlot)
  <2>1. {k} \in SUBSET Keys /\ "cancelled" \in Codes /\ c \in Slots /\ ~Waiting(c)
    BY DEF CancelFile, Codes, Slots, Waiting, NoSlot
  <2>2. CancelJobs({k}, FALSE, "cancelled", c, waits, NoSlot)
    BY Zenon DEF CancelFile
  <2> QED BY <2>1, <2>2, Zenon
<1>4. TypeOK /\ AbortSane /\ SuspensionsBalanced
  BY DEF TypeInv
<1>5. /\ job' \in [Keys -> Row]
      /\ artifact' \in [Keys -> Artifact]
      /\ pending' \subseteq Entry
      /\ pendingAttempts' \in [Keys -> Nat]
      /\ pumpScheduled' \in BOOLEAN
      /\ exec' \in [Keys -> Frame]
      /\ activePromise' \in Nat
      /\ suspensions' \in Nat
      /\ purge' \in [Keys -> Nat]
      /\ slot' \in [Slots -> Slot]
      /\ lease' \in [Keys -> {"none", "opening", "held"}]
      /\ AbortSane' /\ SuspensionsBalanced'
  <2> HIDE DEF waits
  <2> QED BY <1>1, <1>2, <1>3, <1>4, CancelJobsType, Zenon
<1>6. /\ cancelling' \subseteq Torrents /\ removing' \subseteq Torrents
      /\ transitions' \in Seq(BOOLEAN) /\ BoundsType'
  BY BoundsAssumption
     DEF CancelFile, Accepts, Input, setting, TypeInv, TypeOK, RequestType,
         BoundsType
<1>7. UNCHANGED <<automatic, known, local, mode, model, lastTs, deferred,
                  scanning, scan, calls, worker, provider, transitions>>
      /\ mode # "down"
  BY DEF CancelFile, setting, Accepts
<1>8. TypeOK'
  BY <1>4, <1>5, <1>6, <1>7, CancelStepType
<1>9. TransitionHeld'
  <2> HIDE DEF waits
  <2>1. slot' = [slot EXCEPT ![c] = waits] \/ slot' = [slot EXCEPT ![c] = NoSlot]
    BY <1>3, Zenon DEF CancelJobs
  <2> QED BY <1>1, <1>2, <1>7, <2>1, ClientTransitionHeld
<1> QED BY <1>5, <1>8, <1>9 DEF TypeInv

\* DELETE .../transcriptions, which purges.
LEMMA CancelTorrentType ==
    ASSUME TypeInv, NEW c \in Clients, NEW t \in Torrents, CancelTorrent(c, t)
    PROVE  TypeInv'
<1> DEFINE waits == Wait("torrent", t)
<1>1. waits \in Slot /\ waits.op \in WaitingOps /\ waits.op = "torrent"
  <2>1. t \in Torrents \cup {NoTorrent} /\ "torrent" \in WaitingOps
    BY DEF WaitingOps
  <2>2. activePromise \in Nat
    BY DEF TypeInv, TypeOK, AttemptType
  <2> QED BY <2>1, <2>2, SlotRecords DEF Wait
<1>2. NoSlot \in Slot /\ NoSlot.op \notin WaitingOps /\ NoSlot.op = "none"
  BY EmptyValues DEF NoSlot, WaitingOps
<1>3. /\ RowsOf(t) \in SUBSET Keys /\ "cancelled" \in Codes /\ TRUE \in BOOLEAN
      /\ c \in Slots /\ ~Waiting(c)
      /\ CancelJobs(RowsOf(t), TRUE, "cancelled", c, waits, NoSlot)
  <2>1. RowsOf(t) \in SUBSET Keys /\ "cancelled" \in Codes /\ c \in Slots /\ ~Waiting(c)
    BY DEF CancelTorrent, RowsOf, FilesOf, Codes, Slots, Waiting, NoSlot
  <2>2. CancelJobs(RowsOf(t), TRUE, "cancelled", c, waits, NoSlot)
    BY Zenon DEF CancelTorrent
  <2> QED BY <2>1, <2>2, Zenon
<1>4. TypeOK /\ AbortSane /\ SuspensionsBalanced
  BY DEF TypeInv
<1>5. /\ job' \in [Keys -> Row]
      /\ artifact' \in [Keys -> Artifact]
      /\ pending' \subseteq Entry
      /\ pendingAttempts' \in [Keys -> Nat]
      /\ pumpScheduled' \in BOOLEAN
      /\ exec' \in [Keys -> Frame]
      /\ activePromise' \in Nat
      /\ suspensions' \in Nat
      /\ purge' \in [Keys -> Nat]
      /\ slot' \in [Slots -> Slot]
      /\ lease' \in [Keys -> {"none", "opening", "held"}]
      /\ AbortSane' /\ SuspensionsBalanced'
  <2> HIDE DEF waits
  <2> QED BY <1>1, <1>2, <1>3, <1>4, CancelJobsType, Zenon
<1>6. /\ cancelling' \subseteq Torrents /\ removing' \subseteq Torrents
      /\ transitions' \in Seq(BOOLEAN) /\ BoundsType'
  BY BoundsAssumption
     DEF CancelTorrent, Accepts, Input, setting, TypeInv, TypeOK, RequestType,
         BoundsType
<1>7. UNCHANGED <<automatic, known, local, mode, model, lastTs, deferred,
                  scanning, scan, calls, worker, provider, transitions>>
      /\ mode # "down"
  BY DEF CancelTorrent, setting, Accepts
<1>8. TypeOK'
  BY <1>4, <1>5, <1>6, <1>7, CancelStepType
<1>9. TransitionHeld'
  <2> HIDE DEF waits
  <2>1. slot' = [slot EXCEPT ![c] = waits] \/ slot' = [slot EXCEPT ![c] = NoSlot]
    BY <1>3, Zenon DEF CancelJobs
  <2> QED BY <1>1, <1>2, <1>7, <2>1, ClientTransitionHeld
<1> QED BY <1>5, <1>8, <1>9 DEF TypeInv

\* The hook of a removal cancels before files are deleted.
LEMMA RemoveCancelType ==
    ASSUME TypeInv, NEW c \in Clients, RemoveCancel(c)
    PROVE  TypeInv'
<1> DEFINE t == slot[c].torrent
           waits == Wait("removal", t)
           done == [slot[c] EXCEPT !.op = "deleting"]
<1>1. /\ c \in Slots /\ slot[c].op = "reserved" /\ slot[c] \in Slot
      /\ t \in Torrents \cup {NoTorrent} /\ slot \in [Slots -> Slot]
      /\ ~Waiting(c)
  BY DEF RemoveCancel, Slots, TypeInv, TypeOK, RequestType, Slot, Waiting
<1>2. waits \in Slot /\ waits.op \in WaitingOps /\ waits.op = "removal"
  <2>1. "removal" \in WaitingOps
    BY DEF WaitingOps
  <2>2. activePromise \in Nat
    BY DEF TypeInv, TypeOK, AttemptType
  <2> QED BY <1>1, <2>1, <2>2, SlotRecords DEF Wait
<1>3. done \in Slot /\ done.op \notin WaitingOps /\ done.op = "deleting"
  BY <1>1 DEF Slot, WaitingOps
<1>4. TypeOK /\ AbortSane /\ SuspensionsBalanced
  BY DEF TypeInv
<1>5. UNCHANGED <<automatic, known, local, mode, model, lastTs, deferred,
                  scanning, scan, calls, worker, provider, transitions>>
      /\ mode # "down"
  <2>1. mode # "down"
    BY <1>1 DEF TypeInv, TransitionHeld, NoSlot
  <2> QED BY <2>1 DEF RemoveCancel, setting
<1>6. BoundsType' /\ transitions' \in Seq(BOOLEAN)
  BY DEF RemoveCancel, bounds, setting, TypeInv, TypeOK, BoundsType, RequestType
<1>7. CASE t \in cancelling
  <2>1. /\ removing' = removing \ {t}
        /\ slot' = [slot EXCEPT ![c] = NoSlot]
        /\ UNCHANGED <<job, artifact, queue, exec, activePromise, suspensions,
                       purge, cancelling, lease>>
    BY <1>7 DEF RemoveCancel
  <2>2. NoSlot \in Slot /\ NoSlot.op \notin WaitingOps /\ NoSlot.op = "none"
    BY EmptyValues DEF NoSlot, WaitingOps
  <2>3. TypeOK'
    <3> HIDE DEF t, waits, done
    <3> QED BY <1>4, <1>5, <1>6, <2>1, <2>2
            DEF TypeOK, DatabaseType, QueueType, AttemptType, RequestType, queue
  <2>4. SuspensionsBalanced'
    <3>1. suspensions' = suspensions
      BY <2>1
    <3> QED BY <1>1, <1>4, <2>1, <2>2, <3>1, SlotUncounted
  <2>5. TransitionHeld' /\ AbortSane'
    BY <1>4, <1>5, <2>1, <2>2, ClientTransitionHeld DEF AbortSane
  <2> QED BY <2>3, <2>4, <2>5 DEF TypeInv
<1>8. CASE t \notin cancelling
  <2>1. /\ CancelJobs(RowsOf(t), FALSE, "cancelled", c, waits, done)
        /\ cancelling' = IF \E k \in RowsOf(t) : Running(k)
                         THEN cancelling \cup {t} ELSE cancelling
        /\ removing' = removing
    BY <1>8 DEF RemoveCancel
  <2>2. /\ RowsOf(t) \in SUBSET Keys /\ "cancelled" \in Codes
        /\ FALSE \in BOOLEAN
    BY DEF RowsOf, FilesOf, Codes
  <2>3. /\ job' \in [Keys -> Row]
        /\ artifact' \in [Keys -> Artifact]
        /\ pending' \subseteq Entry
        /\ pendingAttempts' \in [Keys -> Nat]
        /\ pumpScheduled' \in BOOLEAN
        /\ exec' \in [Keys -> Frame]
        /\ activePromise' \in Nat
        /\ suspensions' \in Nat
        /\ purge' \in [Keys -> Nat]
        /\ slot' \in [Slots -> Slot]
        /\ lease' \in [Keys -> {"none", "opening", "held"}]
        /\ AbortSane' /\ SuspensionsBalanced'
    <3> HIDE DEF t, waits, done
    <3> QED BY <1>1, <1>2, <1>3, <1>4, <2>1, <2>2, CancelJobsType, Zenon
  <2>4. cancelling' \subseteq Torrents /\ removing' \subseteq Torrents
    <3>1. (\E k \in RowsOf(t) : Running(k)) => t \in Torrents
      BY KeyTorrent DEF RowsOf, FilesOf
    <3> HIDE DEF t, waits, done
    <3> QED BY <2>1, <3>1 DEF TypeInv, TypeOK, RequestType
  <2>5. TypeOK'
    BY <1>4, <1>5, <1>6, <2>3, <2>4, CancelStepType
  <2>6. TransitionHeld'
    <3> HIDE DEF t, waits, done
    <3>1. slot' = [slot EXCEPT ![c] = waits] \/ slot' = [slot EXCEPT ![c] = done]
      BY <1>3, <2>1, Zenon DEF CancelJobs
    <3> QED BY <1>2, <1>3, <1>5, <3>1, ClientTransitionHeld
  <2> QED BY <2>3, <2>5, <2>6 DEF TypeInv
<1> QED BY <1>7, <1>8

\* The setting is turned off in its turn.
LEMMA ApplyDisabledType ==
    ASSUME TypeInv, ApplyDisabled
    PROVE  TypeInv'
<1> DEFINE waits == Wait("disable", NoTorrent)
<1>1. waits \in Slot /\ waits.op \in WaitingOps /\ waits.op = "disable"
  <2>1. "disable" \in WaitingOps
    BY DEF WaitingOps
  <2>2. activePromise \in Nat
    BY DEF TypeInv, TypeOK, AttemptType
  <2> QED BY <2>1, <2>2, SlotRecords DEF Wait
<1>2. NoSlot \in Slot /\ NoSlot.op \notin WaitingOps /\ NoSlot.op = "none"
  BY EmptyValues DEF NoSlot, WaitingOps
<1>3. /\ AutomaticJobs \in SUBSET Keys /\ "automatic_disabled" \in Codes
      /\ FALSE \in BOOLEAN /\ Setting \in Slots /\ ~Waiting(Setting)
      /\ CancelJobs(AutomaticJobs, FALSE, "automatic_disabled", Setting, waits,
                    NoSlot)
  <2>1. AutomaticJobs \in SUBSET Keys /\ "automatic_disabled" \in Codes
    BY DEF AutomaticJobs, Codes
  <2>3. Setting \in Slots /\ slot[Setting] = NoSlot
    BY Zenon DEF ApplyDisabled, InTurn, Slots
  <2>4. ~Waiting(Setting)
    BY <2>3 DEF Waiting, NoSlot
  <2>2. CancelJobs(AutomaticJobs, FALSE, "automatic_disabled", Setting, waits,
                   NoSlot)
    BY Zenon DEF ApplyDisabled
  <2> QED BY <2>1, <2>2, <2>3, <2>4, Zenon
<1>4. TypeOK /\ AbortSane /\ SuspensionsBalanced
  BY DEF TypeInv
<1>5. /\ job' \in [Keys -> Row]
      /\ artifact' \in [Keys -> Artifact]
      /\ pending' \subseteq Entry
      /\ pendingAttempts' \in [Keys -> Nat]
      /\ pumpScheduled' \in BOOLEAN
      /\ exec' \in [Keys -> Frame]
      /\ activePromise' \in Nat
      /\ suspensions' \in Nat
      /\ purge' \in [Keys -> Nat]
      /\ slot' \in [Slots -> Slot]
      /\ lease' \in [Keys -> {"none", "opening", "held"}]
      /\ AbortSane' /\ SuspensionsBalanced'
  <2> HIDE DEF waits
  <2> QED BY <1>1, <1>2, <1>3, <1>4, CancelJobsType, Zenon
<1>6. transitions' \in Seq(BOOLEAN)
  <2>1. transitions \in Seq(BOOLEAN) /\ transitions # <<>>
    BY DEF ApplyDisabled, InTurn, TypeInv, TypeOK, RequestType
  <2>2. Tail(transitions) \in Seq(BOOLEAN)
    BY <2>1
  <2> QED BY <2>1, <2>2 DEF ApplyDisabled
<1>7. /\ cancelling' \subseteq Torrents /\ removing' \subseteq Torrents
      /\ BoundsType'
  BY DEF ApplyDisabled, bounds, TypeInv, TypeOK, RequestType, BoundsType
<1>8. UNCHANGED <<automatic, known, local, mode, model, lastTs, deferred,
                  scanning, scan, calls, worker, provider>>
  BY DEF ApplyDisabled
<1>9. TypeOK'
  BY <1>4, <1>5, <1>6, <1>7, <1>8, CancelStepType
<1>10. TransitionHeld'
  <2>1. /\ mode' = mode /\ mode # "down" /\ scanning' = scanning /\ ~scanning
        /\ transitions # <<>> /\ slot[Setting] = NoSlot
    BY <1>8 DEF ApplyDisabled, InTurn
  <2>2. \A s \in Slots : slot[s].op = "disable" => s = Setting
    BY DEF TypeInv, TransitionHeld
  <2>3. slot \in [Slots -> Slot] /\ Setting \in Slots
    BY <1>3, <1>4 DEF TypeOK, RequestType
  <2>4. CASE \E k \in AutomaticJobs : Running(k)
    <3>1. slot' = [slot EXCEPT ![Setting] = waits]
      <4> HIDE DEF waits
      <4> QED BY <1>3, <2>4, Zenon DEF CancelJobs
    <3>2. transitions' = transitions
      BY <2>4 DEF ApplyDisabled
    <3> HIDE DEF waits
    <3> QED BY <2>1, <2>2, <2>3, <3>1, <3>2 DEF TransitionHeld
  <2>5. CASE ~\E k \in AutomaticJobs : Running(k)
    <3>1. slot' = [slot EXCEPT ![Setting] = NoSlot]
      <4> HIDE DEF waits
      <4> QED BY <1>3, <2>5, Zenon DEF CancelJobs
    <3>2. \A s \in Slots : slot'[s].op # "disable"
      BY <1>2, <2>2, <2>3, <3>1
    <3> QED BY <2>1, <3>2 DEF TransitionHeld
  <2> QED BY <2>4, <2>5
<1> QED BY <1>5, <1>9, <1>10 DEF TypeInv

\* The process.
LEMMA CloseType ==
    ASSUME TypeInv, Close
    PROVE  TypeInv'
<1>1. exec \in [Keys -> Frame] /\ AbortSane
  BY DEF TypeInv, TypeOK, AttemptType
<1>2. exec' \in [Keys -> Frame] /\ AbortSane'
  <2> DEFINE stopped(k) == [exec[k] EXCEPT !.cancelled = TRUE,
                               !.abort = IF @ = "none" THEN "cancelled" ELSE @]
  <2>1. ASSUME NEW k \in Keys
        PROVE  /\ stopped(k) \in Frame
               /\ stopped(k).abort = "done" => stopped(k).pc = "cleanup"
    BY <1>1 DEF Frame, AbortSane
  <2>2. exec' = [k \in Keys |-> IF exec[k].pc = "none" THEN exec[k]
                                ELSE stopped(k)]
    BY DEF Close
  <2> HIDE DEF stopped
  <2> QED BY <1>1, <2>1, <2>2 DEF AbortSane
<1>3. TypeOK'
  BY <1>2
     DEF Close, TypeInv, TypeOK, DatabaseType, QueueType, AttemptType,
         RequestType, BoundsType, database, queue, setting, resources, bounds
<1>4. TransitionHeld' /\ SuspensionsBalanced'
  BY SlotsUnchanged DEF Close, TypeInv, TransitionHeld, setting
<1> QED BY <1>2, <1>3, <1>4 DEF TypeInv

\* An empty process has no request that waits.
LEMMA NobodyWaits ==
    ASSUME slot = [s \in Slots |-> NoSlot], suspensions = 0
    PROVE  SuspensionsBalanced
<1>1. \A s \in Slots : ~Waiting(s)
  BY DEF Waiting, NoSlot
<1>2. {s \in Slots : Waiting(s)} = {}
  BY <1>1
<1> QED BY <1>2, FS_EmptySet DEF SuspensionsBalanced

\* A crash forgets everything but the database.
LEMMA HaltType ==
    ASSUME TypeInv, Halt
    PROVE  TypeInv'
<1>1. /\ pending' \subseteq Entry /\ pendingAttempts' \in [Keys -> Nat]
      /\ pumpScheduled' \in BOOLEAN /\ suspensions' \in Nat
      /\ mode' \in {"down", "starting", "serving", "closing"}
  BY DEF Halt, Each
<1>2. /\ exec' \in [Keys -> Frame] /\ activePromise' \in Nat
      /\ purge' \in [Keys -> Nat]
  BY EmptyValues DEF Halt, Each
<1>3. /\ lease' \in [Keys -> {"none", "opening", "held"}]
      /\ worker' \in [Keys -> {"none", "decoding", "window"}]
      /\ provider' \in [Keys -> {"idle", "busy", "orphan"}]
  BY DEF Halt, Each
<1>4. RequestType'
  <2>1. << >> \in Seq(BOOLEAN)
    OBVIOUS
  <2>2. transitions' \in Seq(BOOLEAN)
    BY <2>1 DEF Halt
  <2>3. slot' \in [Slots -> Slot] /\ deferred' \in [Torrents -> Nat]
    BY EmptyValues DEF Halt
  <2> QED BY <2>2, <2>3 DEF Halt, RequestType
<1>5. TypeOK'
  BY <1>1, <1>2, <1>3, <1>4
     DEF Halt, TypeInv, TypeOK, DatabaseType, QueueType, AttemptType,
         BoundsType, database, bounds
<1>6. AbortSane'
  BY DEF Halt, AbortSane, Each, NoFrame
<1>7. TransitionHeld'
  BY DEF Halt, TransitionHeld, NoSlot, Slots
<1>8. SuspensionsBalanced'
  <2>1. \A s \in Slots : ~Waiting(s)'
    BY DEF Halt, Waiting, NoSlot
  <2>2. {s \in Slots : Waiting(s)'} = {}
    BY <2>1
  <2> QED BY <2>2, FS_EmptySet DEF Halt, SuspensionsBalanced
<1> QED BY <1>5, <1>6, <1>7, <1>8 DEF TypeInv

\* start() rebuilds the queue from the rows.
LEMMA BootType ==
    ASSUME TypeInv, NEW m \in Models, Boot(m)
    PROVE  TypeInv'
<1>1. /\ job \in [Keys -> Row] /\ known \in [Torrents -> BOOLEAN]
      /\ local \in [Torrents -> BOOLEAN] /\ automatic \in BOOLEAN
  BY DEF TypeInv, TypeOK, DatabaseType
<1>2. job' \in [Keys -> Row]
  <2>1. ASSUME NEW row \in Row
        PROVE  RecoveredRow(row) \in Row
    BY DEF RecoveredRow, Row, States, Codes
  <2> QED BY <1>1, <2>1 DEF Boot
<1>3. lastTs' \in Nat
  BY <1>1 DEF Boot, Row
<1>4. /\ pending' \subseteq Entry /\ pendingAttempts' \in [Keys -> Nat]
      /\ pumpScheduled' \in BOOLEAN
  <2> DEFINE again == {k \in Keys : RecoveredRow(job[k]).state = "queued"}
  <2>1. ASSUME NEW k \in Keys
        PROVE  RecoveredPlace(k) \in Nat /\ job[k].attempt \in Nat
    BY <1>1, KeysCounted DEF RecoveredPlace, Row
  <2>2. /\ pending' = {[key |-> k, attempt |-> job[k].attempt,
                        place |-> RecoveredPlace(k)] : k \in again}
        /\ pendingAttempts' = [k \in Keys |-> IF k \in again
                                              THEN job[k].attempt ELSE 0]
        /\ pumpScheduled' = (again # {})
    BY DEF Boot
  <2>3. again \subseteq Keys
    OBVIOUS
  <2> HIDE DEF again
  <2> QED BY <2>1, <2>2, <2>3 DEF Entry
<1>5. /\ scanning' \in BOOLEAN /\ scan' \subseteq Torrents
      /\ mode' \in {"down", "starting", "serving", "closing"}
      /\ model' \in Models \cup {NoModel}
  BY <1>1 DEF Boot, LocallyAvailable
<1>6. BoundsType'
  BY BoundsAssumption DEF Boot, TypeInv, TypeOK, BoundsType
<1>7. TypeOK'
  BY <1>2, <1>3, <1>4, <1>5, <1>6
     DEF Boot, TypeInv, TypeOK, DatabaseType, QueueType, AttemptType,
         RequestType, resources
<1>8. TransitionHeld'
  <2>1. slot = [s \in Slots |-> NoSlot] /\ slot' = slot
    BY DEF Boot, TypeInv, TransitionHeld
  <2>2. mode' \in {"starting", "serving"} /\ (scanning' => mode' = "starting")
    BY DEF Boot
  <2> QED BY <2>1, <2>2 DEF TransitionHeld, NoSlot, Slots
<1>9. AbortSane' /\ SuspensionsBalanced'
  BY SlotsUnchanged DEF Boot, TypeInv, AbortSane
<1> QED BY <1>7, <1>8, <1>9 DEF TypeInv

\* Every step keeps TypeInv.
LEMMA StepType ==
    ASSUME TypeInv, [Next]_vars
    PROVE  TypeInv'
<1>1. CASE Microtask
  <2>1. CASE PumpMicrotask
    BY <2>1, PumpMicrotaskType
  <2>2. CASE \E s \in Slots : Confirm(s)
    BY <2>2, ConfirmType
  <2>3. CASE \E c \in Clients : RemoveCancel(c)
    BY <2>3, RemoveCancelType
  <2>4. CASE \E t \in Torrents : ReleaseCancelling(t) \/ ScanNext(t)
    BY <2>4, SmallStepType
  <2>5. CASE ApplyEnabled
    BY <2>5, SmallStepType
  <2>6. CASE ApplyDisabled
    BY <2>6, ApplyDisabledType
  <2>7. CASE ScanEnds
    BY <2>7, ScanEndsType
  <2>8. CASE \E k \in Keys : Interrupted(k) \/ WindowInterrupted(k)
    BY <2>8, PipelineType
  <2>9. CASE \E k \in Keys : FinishJob(k)
    BY <2>9, FinishJobType
  <2> QED
    BY <1>1, <2>1, <2>2, <2>3, <2>4, <2>5, <2>6, <2>7, <2>8, <2>9 DEF Microtask
<1>2. CASE \E c \in calls : RunCall(c)
  BY <1>2, RunCallType
<1>3. CASE Request
  <2>1. CASE \E t \in Torrents : QueueTorrent(t) \/ Register(t)
    BY <2>1, SmallStepType
  <2>2. CASE \E k \in Keys : QueueFile(k)
    BY <2>2, QueueFileType
  <2>3. CASE \E c \in Clients, k \in Keys : CancelFile(c, k)
    BY <2>3, CancelFileType
  <2>4. CASE \E c \in Clients, t \in Torrents :
                 CancelTorrent(c, t) \/ RemoveStart(c, t)
    BY <2>4, CancelTorrentType, RemoveStartType
  <2>5. CASE \E enabled \in BOOLEAN : SetAutomatic(enabled)
    BY <2>5, SetAutomaticType
  <2> QED BY <1>3, <2>1, <2>2, <2>3, <2>4, <2>5 DEF Request
<1>4. CASE Timer
  <2>1. CASE \E s \in Slots : ConfirmTimesOut(s)
    BY <2>1, ConfirmTimesOutType
  <2>2. CASE \E k \in Keys : WatchdogExpires(k) \/ RequestTimesOut(k)
    BY <2>2, PipelineType
  <2> QED BY <1>4, <2>1, <2>2 DEF Timer
<1>5. CASE Pipeline \/ Release
  BY <1>5, PipelineType DEF Pipeline, Release
<1>6. CASE Environment
  <2>1. CASE \E c \in calls : AbandonCall(c)
    BY <2>1, SmallStepType
  <2>2. CASE \E c \in Clients : RemoveDelete(c)
    BY <2>2, RemoveDeleteType
  <2>3. CASE \E t \in Torrents : CacheCompleted(t) \/ Evict(t)
    BY <2>3, SmallStepType
  <2>4. CASE \E m \in Models : Boot(m)
    BY <2>4, BootType
  <2>5. CASE Close
    BY <2>5, CloseType
  <2> QED BY <1>6, <2>1, <2>2, <2>3, <2>4, <2>5 DEF Environment
<1>7. CASE Halt
  BY <1>7, HaltType
<1>8. CASE UNCHANGED vars
  <2>1. TypeOK'
    BY <1>8 DEF vars, TypeInv, TypeOK, DatabaseType, QueueType, AttemptType,
                RequestType, BoundsType, database, queue, setting, resources,
                bounds
  <2>2. AbortSane' /\ TransitionHeld' /\ SuspensionsBalanced'
    BY <1>8, SlotsUnchanged DEF vars, TypeInv, AbortSane, TransitionHeld, setting
  <2> QED BY <2>1, <2>2 DEF TypeInv
<1> QED BY <1>1, <1>2, <1>3, <1>4, <1>5, <1>6, <1>7, <1>8 DEF Next

\* An empty database and no process.
LEMMA InitType ==
    ASSUME Init
    PROVE  TypeInv
<1>1. /\ DatabaseType /\ QueueType
  BY EmptyValues DEF Init, DatabaseType, QueueType, Each
<1>2. AttemptType
  BY EmptyValues DEF Init, AttemptType, Each
<1>3. RequestType
  <2>1. << >> \in Seq(BOOLEAN)
    OBVIOUS
  <2>2. transitions \in Seq(BOOLEAN)
    BY <2>1 DEF Init
  <2>3. slot \in [Slots -> Slot] /\ deferred \in [Torrents -> Nat]
    BY EmptyValues DEF Init
  <2> QED BY <2>2, <2>3 DEF Init, RequestType
<1>7. BoundsType
  BY BoundsAssumption DEF Init, BoundsType
<1>4. AbortSane
  BY DEF Init, AbortSane, Each, NoFrame
<1>5. TransitionHeld
  BY DEF Init, TransitionHeld, NoSlot, Slots
<1>6. SuspensionsBalanced
  BY NobodyWaits DEF Init
<1> QED BY <1>1, <1>2, <1>3, <1>4, <1>5, <1>6, <1>7 DEF TypeInv, TypeOK

\* The inductive invariant of the types.
LEMMA TypeInvariant == Spec => []TypeInv
<1>1. Init => TypeInv
  BY InitType
<1>2. TypeInv /\ [Next]_vars => TypeInv'
  BY StepType
<1> QED BY <1>1, <1>2, PTL DEF Spec

\* Rows, queue entries, attempts and requests keep their shape, whatever the
\* interleaving of requests, timers, completions and crashes.
THEOREM Typing == Spec => []TypeOK
<1>1. TypeInv => TypeOK
  BY DEF TypeInv
<1> QED BY <1>1, TypeInvariant, PTL

-----------------------------------------------------------------------------
(***************************************************************************)
(* One attempt at a time.                                                  *)
(***************************************************************************)

\* Why the resources of two files never overlap: the queue waits for the promise of
\* the attempt that has a frame, there is one such attempt, and only it uses
\* resources.  Queue times are not 0, so a started attempt is told from none.
AttemptIsAwaited ==
    \A k \in Keys : exec[k].pc # "none" =>
        exec[k].job.ts = activePromise /\ activePromise # 0
OneAttempt ==
    \A j, k \in Keys : exec[j].pc # "none" /\ exec[k].pc # "none" => j = k
OnlyAttemptsAreBusy == \A k \in Keys : Busy(k) => exec[k].pc # "none"
QueuedHaveTime == \A k \in Keys : job[k].state = "queued" => job[k].ts # 0
OwnInv ==
    AttemptIsAwaited /\ OneAttempt /\ OnlyAttemptsAreBusy /\ QueuedHaveTime

\* pump() starts an attempt only when the queue waits for none.
LEMMA PumpOwn ==
    ASSUME NEW rows \in [Keys -> Row], NEW entries \in SUBSET Entry,
           NEW attempts, NEW execs \in [Keys -> Frame], NEW owner,
           NEW suspended, NEW scheduled,
           lease \in [Keys -> {"none", "opening", "held"}],
           \A k \in Keys : execs[k].pc # "none" =>
               execs[k].job.ts = owner /\ owner # 0,
           \A j, k \in Keys :
               execs[j].pc # "none" /\ execs[k].pc # "none" => j = k,
           \A k \in Keys : Busy(k) => execs[k].pc # "none",
           \A k \in Keys : rows[k].state = "queued" => rows[k].ts # 0,
           UNCHANGED <<worker, provider>>,
           Pump(rows, entries, attempts, execs, owner, suspended, scheduled)
    PROVE  OwnInv'
<1>1. CASE /\ job' = rows /\ exec' = execs /\ activePromise' = owner
           /\ UNCHANGED lease
  BY <1>1 DEF OwnInv, AttemptIsAwaited, OneAttempt, OnlyAttemptsAreBusy,
              QueuedHaveTime, Busy
<1>2. CASE \E e \in entries :
             owner = 0 /\ Live(e, rows, attempts) /\ Start(e, rows, execs)
  <2>1. PICK e \in entries :
          owner = 0 /\ Live(e, rows, attempts) /\ Start(e, rows, execs)
    BY <1>2
  <2> DEFINE row == [rows[e.key] EXCEPT !.state = "preparing"]
             frame == [NoFrame EXCEPT !.pc = "opening", !.job = row,
                                      !.timer = "watchdog"]
  <2>2. /\ job' = [rows EXCEPT ![e.key] = row]
        /\ exec' = [execs EXCEPT ![e.key] = frame]
        /\ activePromise' = row.ts
        /\ lease' = [lease EXCEPT ![e.key] =
               IF e.key[1] \in removing THEN "none" ELSE "opening"]
    BY <2>1 DEF Start
  <2>3. e.key \in Keys
    BY DEF Entry
  <2>4. rows[e.key].state = "queued"
    BY <2>1 DEF Live
  <2>5. row.ts # 0 /\ row.state = "preparing"
    BY <2>3, <2>4 DEF Row
  <2>6. frame.pc = "opening" /\ frame.job = row
    BY DEF NoFrame
  <2>7. \A k \in Keys : execs[k].pc = "none"
    BY <2>1
  <2>8. \A k \in Keys : exec'[k] = IF k = e.key THEN frame ELSE execs[k]
    BY <2>2
  <2>9. \A k \in Keys : exec'[k].pc # "none" => k = e.key
    BY <2>7, <2>8
  <2>10. AttemptIsAwaited' /\ OneAttempt'
    BY <2>2, <2>3, <2>5, <2>6, <2>8, <2>9 DEF AttemptIsAwaited, OneAttempt
  <2>11. OnlyAttemptsAreBusy'
    BY <2>2, <2>3, <2>6, <2>7, <2>8 DEF OnlyAttemptsAreBusy, Busy
  <2>12. QueuedHaveTime'
    BY <2>2, <2>5 DEF QueuedHaveTime
  <2> QED BY <2>10, <2>11, <2>12 DEF OwnInv
<1>3. \/ /\ job' = rows /\ exec' = execs /\ activePromise' = owner
         /\ UNCHANGED lease
      \/ \E e \in entries :
             owner = 0 /\ Live(e, rows, attempts) /\ Start(e, rows, execs)
  <2>1. CASE ~Idle(owner, suspended) \/ entries = {}
    BY <2>1 DEF Pump
  <2>2. CASE ~(~Idle(owner, suspended) \/ entries = {})
    <3>1. owner = 0
      BY <2>2 DEF Idle
    <3> QED BY <2>2, <3>1 DEF Pump
  <2> QED BY <2>1, <2>2
<1> QED BY <1>1, <1>2, <1>3

\* The facts about the state that pump() is called in.
LEMMA PumpHereOwn ==
    ASSUME TypeInv, OwnInv, NEW suspended, NEW scheduled,
           UNCHANGED <<worker, provider>>,
           Pump(job, pending, pendingAttempts, exec, activePromise, suspended,
                scheduled)
    PROVE  OwnInv'
<1>1. /\ job \in [Keys -> Row] /\ pending \in SUBSET Entry
      /\ exec \in [Keys -> Frame]
      /\ lease \in [Keys -> {"none", "opening", "held"}]
  BY DEF TypeInv, TypeOK, DatabaseType, QueueType, AttemptType
<1>2. /\ \A k \in Keys : exec[k].pc # "none" =>
             exec[k].job.ts = activePromise /\ activePromise # 0
      /\ \A j, k \in Keys :
             exec[j].pc # "none" /\ exec[k].pc # "none" => j = k
      /\ \A k \in Keys : Busy(k) => exec[k].pc # "none"
      /\ \A k \in Keys : job[k].state = "queued" => job[k].ts # 0
  BY DEF OwnInv, AttemptIsAwaited, OneAttempt, OnlyAttemptsAreBusy,
         QueuedHaveTime
<1> QED BY <1>1, <1>2, PumpOwn, Zenon

\* Steps that leave attempts, rows and resources alone.
LEMMA OwnUnchanged ==
    ASSUME OwnInv, UNCHANGED <<job, exec, activePromise, resources>>
    PROVE  OwnInv'
BY DEF OwnInv, AttemptIsAwaited, OneAttempt, OnlyAttemptsAreBusy,
       QueuedHaveTime, Busy, resources

\* Steps that give an attempt another frame for the same row, queue nothing and
\* let only an attempt use resources.
LEMMA OwnKept ==
    ASSUME OwnInv,
           activePromise' = activePromise,
           \A k \in Keys : (exec'[k].pc # "none") = (exec[k].pc # "none"),
           \A k \in Keys : exec[k].pc # "none" => exec'[k].job.ts = exec[k].job.ts,
           \A k \in Keys : Busy(k)' => Busy(k) \/ exec[k].pc # "none",
           \A k \in Keys : job'[k].state = "queued" => job'[k] = job[k]
    PROVE  OwnInv'
<1>1. AttemptIsAwaited'
  BY DEF OwnInv, AttemptIsAwaited
<1>2. OneAttempt'
  BY DEF OwnInv, OneAttempt
<1>3. OnlyAttemptsAreBusy'
  BY DEF OwnInv, OnlyAttemptsAreBusy
<1>4. QueuedHaveTime'
  BY DEF OwnInv, QueuedHaveTime
<1> QED BY <1>1, <1>2, <1>3, <1>4 DEF OwnInv

\* cancelJobs neither starts an attempt while another one runs, nor ends one.
LEMMA CancelJobsOwn ==
    ASSUME TypeInv, OwnInv,
           NEW S \in SUBSET Keys, NEW purging \in BOOLEAN, NEW code \in Codes,
           NEW s, NEW waits, NEW done,
           UNCHANGED <<worker, provider>>,
           CancelJobs(S, purging, code, s, waits, done)
    PROVE  OwnInv'
<1> DEFINE rows == RowsAfterCancel(S, purging, code)
           attempts == AttemptsAfterCancel(S)
           frames == FramesAfterCancel(S)
           entries == Compacted(attempts)
<1>1. /\ job \in [Keys -> Row] /\ pending \in SUBSET Entry
      /\ exec \in [Keys -> Frame]
      /\ lease \in [Keys -> {"none", "opening", "held"}]
  BY DEF TypeInv, TypeOK, DatabaseType, QueueType, AttemptType
<1>2. ASSUME NEW k \in Keys
      PROVE  /\ frames[k] \in Frame
             /\ frames[k].pc = exec[k].pc /\ frames[k].job = exec[k].job
  <2> DEFINE stopped == [exec[k] EXCEPT !.cancelled = TRUE,
                            !.abort = IF @ = "none" THEN "cancelled" ELSE @]
  <2>1. exec[k] \in Frame
    BY <1>1
  <2>2. stopped \in Frame /\ stopped.pc = exec[k].pc /\ stopped.job = exec[k].job
    BY <2>1 DEF Frame
  <2>3. frames[k] = stopped \/ frames[k] = exec[k]
    BY DEF FramesAfterCancel
  <2> QED BY <2>1, <2>2, <2>3
<1>3. ASSUME NEW k \in Keys
      PROVE  /\ rows[k] \in Row
             /\ rows[k].state = "queued" => rows[k] = job[k]
  <2>1. CancelledRow(k, code) \in Row /\ CancelledRow(k, code).state = "cancelled"
    <3>1. job[k] \in Row
      BY <1>1
    <3> QED BY <3>1 DEF CancelledRow, Row, States
  <2>2. NoRow \in Row /\ NoRow.state = "none"
    BY EmptyValues DEF NoRow
  <2> QED BY <1>1, <2>1, <2>2 DEF RowsAfterCancel
<1>4. /\ rows \in [Keys -> Row] /\ frames \in [Keys -> Frame]
      /\ entries \in SUBSET Entry
  BY <1>1, <1>2, <1>3 DEF RowsAfterCancel, FramesAfterCancel, Compacted
<1>5. CASE \E k \in S : Running(k)
  <2>1. /\ job' = rows /\ exec' = frames
        /\ UNCHANGED <<activePromise, lease>>
    BY <1>5 DEF CancelJobs
  <2>2. \A k \in Keys : Busy(k)' => Busy(k)
    BY <2>1 DEF Busy
  <2> HIDE DEF rows, frames
  <2> QED BY <1>2, <1>3, <2>1, <2>2, OwnKept
<1>6. CASE (~\E k \in S : Running(k)) /\ S = {}
  <2>1. UNCHANGED <<job, exec, activePromise, lease>>
    BY <1>6 DEF CancelJobs
  <2> QED BY <2>1, OwnUnchanged DEF resources
<1>7. CASE (~\E k \in S : Running(k)) /\ S # {}
  <2>1. Pump(rows, entries, attempts, frames, activePromise, suspensions,
             pumpScheduled)
    BY <1>7 DEF CancelJobs
  <2>2. /\ \A k \in Keys : frames[k].pc # "none" =>
               frames[k].job.ts = activePromise /\ activePromise # 0
        /\ \A j, k \in Keys :
               frames[j].pc # "none" /\ frames[k].pc # "none" => j = k
        /\ \A k \in Keys : Busy(k) => frames[k].pc # "none"
        /\ \A k \in Keys : rows[k].state = "queued" => rows[k].ts # 0
    <3> HIDE DEF rows, frames
    <3> QED BY <1>2, <1>3
            DEF OwnInv, AttemptIsAwaited, OneAttempt, OnlyAttemptsAreBusy,
                QueuedHaveTime
  <2> HIDE DEF rows, frames, attempts, entries
  <2> QED BY <1>1, <1>4, <2>1, <2>2, PumpOwn, Zenon
<1> QED BY <1>5, <1>6, <1>7

\* An attempt that ends leaves nothing behind, and no other attempt.
LEMMA FinishJobOwn ==
    ASSUME TypeInv, OwnInv, NEW k \in Keys, FinishJob(k)
    PROVE  OwnInv'
<1> DEFINE rows == IF purge[k] = exec[k].job.attempt
                   THEN [job EXCEPT ![k] = NoRow] ELSE job
           frames == [exec EXCEPT ![k] = NoFrame]
           owner == IF activePromise = exec[k].job.ts THEN 0 ELSE activePromise
<1>1. /\ job \in [Keys -> Row] /\ pending \in SUBSET Entry
      /\ exec \in [Keys -> Frame]
      /\ lease \in [Keys -> {"none", "opening", "held"}]
  BY DEF TypeInv, TypeOK, DatabaseType, QueueType, AttemptType
<1>2. rows \in [Keys -> Row] /\ frames \in [Keys -> Frame]
  BY <1>1, EmptyValues
<1>3. exec[k].pc = "cleanup" /\ ~Busy(k)
  BY DEF FinishJob, CleanupSettled, Busy
<1>4. \A j \in Keys : frames[j].pc = "none"
  BY <1>1, <1>3 DEF OwnInv, OneAttempt, NoFrame
<1>5. \A j \in Keys : ~Busy(j)
  BY <1>3 DEF OwnInv, OneAttempt, OnlyAttemptsAreBusy
<1>6. \A j \in Keys : rows[j].state = "queued" => rows[j].ts # 0
  BY <1>1 DEF OwnInv, QueuedHaveTime, NoRow
<1>7. /\ Pump(rows, pending, pendingAttempts, frames, owner, suspensions,
              pumpScheduled)
      /\ UNCHANGED <<worker, provider>>
  BY DEF FinishJob
<1> HIDE DEF rows, frames, owner
<1>8. /\ \A j \in Keys : frames[j].pc # "none" =>
             frames[j].job.ts = owner /\ owner # 0
      /\ \A i, j \in Keys : frames[i].pc # "none" /\ frames[j].pc # "none" => i = j
      /\ \A j \in Keys : Busy(j) => frames[j].pc # "none"
  BY <1>4, <1>5
<1> QED BY <1>1, <1>2, <1>6, <1>7, <1>8, PumpOwn, Zenon

\* The queue time of a row that a call queues is not 0.
LEMMA RunCallOwn ==
    ASSUME TypeInv, OwnInv, NEW c \in calls, RunCall(c)
    PROVE  OwnInv'
<1> DEFINE new == QueuedBy(c)
           before(k) == {j \in new : j[2] <= k[2]}
           ts(k) == lastTs + Cardinality(before(k))
<1>1. new \in SUBSET Keys /\ lastTs \in Nat
  BY QueuedByKeys DEF TypeInv, TypeOK, QueueType, RequestType
<1>2. ASSUME NEW k \in new
      PROVE  ts(k) # 0
  <2>1. k[2] \in Nat
    BY <1>1, KeysAssumption
  <2>2. k \in before(k)
    BY <2>1
  <2>3. IsFiniteSet(before(k)) /\ Cardinality(before(k)) \in Nat
    BY <1>1, KeysCounted
  <2>4. Cardinality(before(k)) # 0
    BY <2>2, <2>3, FS_EmptySet
  <2> HIDE DEF before
  <2> QED BY <1>1, <2>3, <2>4
<1>3. /\ job' = [k \in Keys |-> IF k \in new THEN QueuedRow(k, c.trigger, ts(k))
                                ELSE job[k]]
      /\ UNCHANGED <<exec, activePromise, resources>>
  BY DEF RunCall
<1>4. QueuedHaveTime'
  <2>1. \A k \in Keys : QueuedRow(k, c.trigger, ts(k)).ts = ts(k)
    BY DEF QueuedRow
  <2> HIDE DEF new, ts
  <2> QED BY <1>2, <1>3, <2>1 DEF OwnInv, QueuedHaveTime
<1> QED BY <1>3, <1>4
        DEF OwnInv, AttemptIsAwaited, OneAttempt, OnlyAttemptsAreBusy, Busy,
            resources

\* The steps of an attempt: its frame stays that of the same row.
LEMMA EndFrameKeeps ==
    ASSUME exec \in [Keys -> Frame], NEW k \in Keys, exec[k].pc # "none",
           NEW reason, exec' = EndFrame(k, reason)
    PROVE  /\ \A j \in Keys : (exec'[j].pc # "none") = (exec[j].pc # "none")
           /\ \A j \in Keys : exec'[j].job = exec[j].job
BY DEF EndFrame, Frame

\* An attempt that fails keeps its frame until its cleanup has settled.
LEMMA FailOwn ==
    ASSUME TypeInv, OwnInv, NEW k \in Keys, exec[k].pc # "none", NEW reason,
           Fail(k, reason), activePromise' = activePromise,
           \A j \in Keys : Busy(j)' => Busy(j)
    PROVE  OwnInv'
<1>1. exec \in [Keys -> Frame] /\ job \in [Keys -> Row] /\ exec[k].job \in Row
  BY DEF TypeInv, TypeOK, DatabaseType, AttemptType, Frame
<1>2. /\ exec' = EndFrame(k, reason)
      /\ job' = IF Owned(k) THEN [job EXCEPT ![k] = FailedRow(k, reason)] ELSE job
  BY DEF Fail
<1>3. FailedRow(k, reason).state \in {"failed", "cancelled"}
  BY <1>1 DEF FailedRow, Row
<1>4. \A j \in Keys : job'[j].state = "queued" => job'[j] = job[j]
  BY <1>1, <1>2, <1>3
<1> QED BY <1>1, <1>2, <1>4, EndFrameKeeps, OwnKept

\* The steps of an attempt that FFmpeg, the reader, the speech service or a timer
\* takes.
LEMMA PipelineOwn ==
    ASSUME TypeInv, OwnInv, NEW k \in Keys,
           \/ OpenSucceeds(k) \/ OpenFails(k)
           \/ WindowStarts(k) \/ ProviderAnswers(k) \/ ProviderFails(k)
           \/ TranscodeSucceeds(k) \/ TranscodeFails(k)
           \/ WatchdogExpires(k) \/ RequestTimesOut(k)
           \/ Interrupted(k) \/ WindowInterrupted(k)
           \/ LeaseReleased(k) \/ WorkerStopped(k) \/ OrphanSettles(k)
    PROVE  OwnInv'
<1>1. /\ exec \in [Keys -> Frame] /\ job \in [Keys -> Row]
      /\ lease \in [Keys -> {"none", "opening", "held"}]
      /\ worker \in [Keys -> {"none", "decoding", "window"}]
      /\ provider \in [Keys -> {"idle", "busy", "orphan"}]
      /\ exec[k] \in Frame /\ exec[k].job \in Row
  BY DEF TypeInv, TypeOK, DatabaseType, AttemptType, Frame
<1>2. activePromise' = activePromise
  BY DEF OpenSucceeds, OpenFails, WindowStarts, ProviderAnswers, ProviderFails,
         TranscodeSucceeds, TranscodeFails, WatchdogExpires, RequestTimesOut,
         Interrupted, WindowInterrupted, LeaveWindow, LeaseReleased,
         WorkerStopped, OrphanSettles, ExecUnchanged
<1>3. CASE OpenSucceeds(k)
  <2>1. \A j \in Keys : Busy(j)' => Busy(j) \/ exec[j].pc # "none"
    BY <1>1, <1>3 DEF OpenSucceeds, Busy
  <2>2. CASE Owned(k)
    <3> DEFINE row == [exec[k].job EXCEPT !.state = "transcribing"]
               frame == [exec[k] EXCEPT !.pc = "transcribing", !.job = row,
                                        !.timer = "watchdog"]
    <3>1. /\ job' = [job EXCEPT ![k] = row]
          /\ exec' = [exec EXCEPT ![k].pc = "transcribing", ![k].job = row,
                                  ![k].timer = "watchdog"]
          /\ exec[k].pc = "opening"
      BY <1>3, <2>2 DEF OpenSucceeds
    <3>2. exec' = [exec EXCEPT ![k] = frame]
      BY <1>1, <3>1 DEF Frame
    <3>3. row.ts = exec[k].job.ts /\ row.state = "transcribing"
      BY <1>1 DEF Row
    <3>4. frame.pc = "transcribing" /\ frame.job = row
      BY <1>1 DEF Frame
    <3> HIDE DEF frame, row
    <3> QED BY <1>1, <1>2, <2>1, <3>1, <3>2, <3>3, <3>4, OwnKept
  <2>3. CASE ~Owned(k)
    <3>1. Fail(k, "failed") /\ exec[k].pc # "none"
      BY <1>3, <2>3 DEF OpenSucceeds
    <3>2. \A j \in Keys : Busy(j)' => Busy(j)
      BY <1>1, <1>3, <2>3 DEF OpenSucceeds, Busy
    <3> QED BY <1>2, <3>1, <3>2, FailOwn
  <2> QED BY <2>2, <2>3
<1>4. CASE OpenFails(k)
  <2>1. Fail(k, "failed") /\ exec[k].pc # "none"
    BY <1>4 DEF OpenFails
  <2>2. \A j \in Keys : Busy(j)' => Busy(j)
    BY <1>1, <1>4 DEF OpenFails, Busy
  <2> QED BY <1>2, <2>1, <2>2, FailOwn
<1>5. CASE WindowStarts(k)
  <2>1. \A j \in Keys : Busy(j)' => Busy(j) \/ exec[j].pc # "none"
    BY <1>1, <1>5 DEF WindowStarts, Busy
  <2>2. \A j \in Keys : exec'[j].pc = exec[j].pc /\ exec'[j].job = exec[j].job
    BY <1>1, <1>5 DEF WindowStarts, Frame
  <2>3. job' = job
    BY <1>5 DEF WindowStarts
  <2> QED BY <1>2, <2>1, <2>2, <2>3, OwnKept
<1>6. CASE ProviderAnswers(k) \/ ProviderFails(k)
  <2>1. \A j \in Keys : Busy(j)' => Busy(j) \/ exec[j].pc # "none"
    BY <1>1, <1>6 DEF ProviderAnswers, ProviderFails, Busy
  <2>2. \A j \in Keys : exec'[j].pc = exec[j].pc /\ exec'[j].job = exec[j].job
    <3>1. CASE exec' = [exec EXCEPT ![k].timer = "watchdog"]
      BY <1>1, <3>1 DEF Frame
    <3>2. CASE exec' = [exec EXCEPT ![k].timer = "none", ![k].abort = "failed"]
      BY <1>1, <3>2 DEF Frame
    <3> QED BY <1>6, <3>1, <3>2 DEF ProviderAnswers, ProviderFails
  <2>3. job' = job
    BY <1>6 DEF ProviderAnswers, ProviderFails
  <2> QED BY <1>2, <2>1, <2>2, <2>3, OwnKept
<1>7. CASE TranscodeSucceeds(k)
  <2>1. \A j \in Keys : Busy(j)' => Busy(j)
    BY <1>1, <1>7 DEF TranscodeSucceeds, Busy
  <2>2. exec[k].pc # "none"
    BY <1>7 DEF TranscodeSucceeds
  <2>3. CASE Owned(k)
    <3> DEFINE row == [exec[k].job EXCEPT !.state = "completed"]
    <3>1. job' = [job EXCEPT ![k] = row] /\ exec' = EndFrame(k, "done")
      BY <1>7, <2>3 DEF TranscodeSucceeds
    <3>2. row.state = "completed"
      BY <1>1 DEF Row
    <3>3. \A j \in Keys : job'[j].state = "queued" => job'[j] = job[j]
      <4> HIDE DEF row
      <4> QED BY <1>1, <3>1, <3>2
    <3> QED BY <1>1, <1>2, <2>1, <2>2, <3>1, <3>3, EndFrameKeeps, OwnKept
  <2>4. CASE ~Owned(k)
    <3>1. Fail(k, "failed")
      BY <1>7, <2>4 DEF TranscodeSucceeds
    <3> QED BY <1>2, <2>1, <2>2, <3>1, FailOwn
  <2> QED BY <2>3, <2>4
<1>8. CASE TranscodeFails(k)
  <2>1. Fail(k, "failed") /\ exec[k].pc # "none"
    BY <1>8 DEF TranscodeFails
  <2>2. \A j \in Keys : Busy(j)' => Busy(j)
    BY <1>1, <1>8 DEF TranscodeFails, Busy
  <2> QED BY <1>2, <2>1, <2>2, FailOwn
<1>9. CASE WatchdogExpires(k)
  <2>1. \A j \in Keys : Busy(j)' => Busy(j)
    BY <1>9 DEF WatchdogExpires, Busy, resources
  <2>2. \A j \in Keys : exec'[j].pc = exec[j].pc /\ exec'[j].job = exec[j].job
    BY <1>1, <1>9 DEF WatchdogExpires, Frame
  <2>3. job' = job
    BY <1>9 DEF WatchdogExpires
  <2> QED BY <1>2, <2>1, <2>2, <2>3, OwnKept
<1>10. CASE RequestTimesOut(k)
  <2>1. \A j \in Keys : Busy(j)' => Busy(j)
    BY <1>1, <1>10 DEF RequestTimesOut, LeaveWindow, Busy
  <2>2. \A j \in Keys : exec'[j].pc = exec[j].pc /\ exec'[j].job = exec[j].job
    BY <1>1, <1>10 DEF RequestTimesOut, Frame
  <2>3. job' = job
    BY <1>10 DEF RequestTimesOut
  <2> QED BY <1>2, <2>1, <2>2, <2>3, OwnKept
<1>11. CASE Interrupted(k)
  <2>1. Fail(k, exec[k].abort) /\ exec[k].pc # "none"
    BY <1>11 DEF Interrupted
  <2>2. \A j \in Keys : Busy(j)' => Busy(j)
    BY <1>11 DEF Interrupted, Busy, resources
  <2> QED BY <1>2, <2>1, <2>2, FailOwn
<1>12. CASE WindowInterrupted(k)
  <2>1. \A j \in Keys : Busy(j)' => Busy(j)
    BY <1>1, <1>12 DEF WindowInterrupted, LeaveWindow, Busy
  <2>2. UNCHANGED <<job, exec>>
    BY <1>12 DEF WindowInterrupted
  <2> QED BY <1>2, <2>1, <2>2, OwnKept
<1>13. CASE LeaseReleased(k) \/ WorkerStopped(k) \/ OrphanSettles(k)
  <2>1. \A j \in Keys : Busy(j)' => Busy(j)
    BY <1>1, <1>13 DEF LeaseReleased, WorkerStopped, OrphanSettles, Busy
  <2>2. UNCHANGED <<job, exec>>
    BY <1>13 DEF LeaseReleased, WorkerStopped, OrphanSettles
  <2> QED BY <1>2, <2>1, <2>2, OwnKept
<1> QED BY <1>3, <1>4, <1>5, <1>6, <1>7, <1>8, <1>9, <1>10, <1>11, <1>12, <1>13

\* The removal of rows, the shutdown, a crash and a start.
LEMMA ProcessOwn ==
    ASSUME TypeInv, OwnInv,
           \/ \E c \in Clients : RemoveDelete(c)
           \/ \E m \in Models : Boot(m)
           \/ Close \/ Halt
    PROVE  OwnInv'
<1>1. job \in [Keys -> Row] /\ exec \in [Keys -> Frame]
  BY DEF TypeInv, TypeOK, DatabaseType, AttemptType
<1>2. CASE \E c \in Clients : RemoveDelete(c)
  <2>1. UNCHANGED <<exec, activePromise, resources>>
    BY <1>2 DEF RemoveDelete
  <2>2. \A k \in Keys : job'[k] = job[k] \/ job'[k] = NoRow
    BY <1>2 DEF RemoveDelete
  <2>3. QueuedHaveTime'
    BY <2>2 DEF OwnInv, QueuedHaveTime, NoRow
  <2> QED BY <2>1, <2>3
          DEF OwnInv, AttemptIsAwaited, OneAttempt, OnlyAttemptsAreBusy, Busy,
              resources
<1>3. CASE \E m \in Models : Boot(m)
  <2>1. UNCHANGED <<exec, activePromise, resources>>
    BY <1>3 DEF Boot
  <2>2. job' = [k \in Keys |-> RecoveredRow(job[k])]
    BY <1>3 DEF Boot
  <2>3. \A row \in Row : RecoveredRow(row).state = "queued" =>
                             RecoveredRow(row) = row
    BY DEF RecoveredRow, Row
  <2>4. QueuedHaveTime'
    BY <1>1, <2>2, <2>3 DEF OwnInv, QueuedHaveTime
  <2> QED BY <2>1, <2>4
          DEF OwnInv, AttemptIsAwaited, OneAttempt, OnlyAttemptsAreBusy, Busy,
              resources
<1>4. CASE Close
  <2>1. UNCHANGED <<job, activePromise, resources>>
    BY <1>4 DEF Close, database
  <2>2. \A k \in Keys : exec'[k].pc = exec[k].pc /\ exec'[k].job = exec[k].job
    BY <1>1, <1>4 DEF Close, Frame
  <2>3. \A k \in Keys : Busy(k)' => Busy(k)
    BY <2>1 DEF Busy, resources
  <2> QED BY <2>1, <2>2, <2>3, OwnKept
<1>5. CASE Halt
  <2>1. /\ \A k \in Keys : exec'[k].pc = "none"
        /\ \A k \in Keys : ~Busy(k)'
        /\ job' = job
    BY <1>5 DEF Halt, Each, NoFrame, Busy, database
  <2> QED BY <2>1
          DEF OwnInv, AttemptIsAwaited, OneAttempt, OnlyAttemptsAreBusy,
              QueuedHaveTime
<1> QED BY <1>2, <1>3, <1>4, <1>5

\* Requests and microtasks that cancel.
LEMMA CancelOwn ==
    ASSUME TypeInv, OwnInv,
           \/ \E c \in Clients, k \in Keys : CancelFile(c, k)
           \/ \E c \in Clients, t \in Torrents : CancelTorrent(c, t)
           \/ \E c \in Clients : RemoveCancel(c)
           \/ ApplyDisabled
    PROVE  OwnInv'
<1>1. "cancelled" \in Codes /\ "automatic_disabled" \in Codes
      /\ TRUE \in BOOLEAN /\ FALSE \in BOOLEAN
  BY DEF Codes
<1>2. ASSUME NEW c \in Clients, NEW k \in Keys, CancelFile(c, k)
      PROVE  OwnInv'
  <2>1. /\ CancelJobs({k}, FALSE, "cancelled", c, Wait("file", k[1]), NoSlot)
        /\ UNCHANGED <<worker, provider>>
    BY <1>2, Zenon DEF CancelFile
  <2>2. {k} \in SUBSET Keys
    OBVIOUS
  <2> QED BY <1>1, <2>1, <2>2, CancelJobsOwn, Zenon
<1>3. ASSUME NEW c \in Clients, NEW t \in Torrents, CancelTorrent(c, t)
      PROVE  OwnInv'
  <2>1. /\ CancelJobs(RowsOf(t), TRUE, "cancelled", c, Wait("torrent", t), NoSlot)
        /\ UNCHANGED <<worker, provider>>
    BY <1>3, Zenon DEF CancelTorrent
  <2>2. RowsOf(t) \in SUBSET Keys
    BY DEF RowsOf, FilesOf
  <2> QED BY <1>1, <2>1, <2>2, CancelJobsOwn, Zenon
<1>4. ASSUME NEW c \in Clients, RemoveCancel(c)
      PROVE  OwnInv'
  <2> DEFINE t == slot[c].torrent
  <2>1. CASE t \in cancelling
    BY <1>4, <2>1, OwnUnchanged DEF RemoveCancel, resources
  <2>2. CASE t \notin cancelling
    <3>1. /\ CancelJobs(RowsOf(t), FALSE, "cancelled", c, Wait("removal", t),
                        [slot[c] EXCEPT !.op = "deleting"])
          /\ UNCHANGED <<worker, provider>>
      BY <1>4, <2>2, Zenon DEF RemoveCancel
    <3>2. RowsOf(t) \in SUBSET Keys
      BY DEF RowsOf, FilesOf
    <3> HIDE DEF t
    <3> QED BY <1>1, <3>1, <3>2, CancelJobsOwn, Zenon
  <2> QED BY <2>1, <2>2
<1>5. ASSUME ApplyDisabled
      PROVE  OwnInv'
  <2>1. /\ CancelJobs(AutomaticJobs, FALSE, "automatic_disabled", Setting,
                      Wait("disable", NoTorrent), NoSlot)
        /\ UNCHANGED <<worker, provider>>
    BY <1>5, Zenon DEF ApplyDisabled
  <2>2. AutomaticJobs \in SUBSET Keys
    BY DEF AutomaticJobs
  <2> QED BY <1>1, <2>1, <2>2, CancelJobsOwn, Zenon
<1> QED BY <1>2, <1>3, <1>4, <1>5

\* Every step keeps OwnInv.
LEMMA OwnStep ==
    ASSUME TypeInv, OwnInv, [Next]_vars
    PROVE  OwnInv'
<1>1. CASE Microtask
  <2>1. CASE PumpMicrotask
    BY <2>1, PumpHereOwn DEF PumpMicrotask
  <2>2. CASE \E s \in Slots : Confirm(s)
    BY <2>2, PumpHereOwn DEF Confirm
  <2>3. CASE (\E c \in Clients : RemoveCancel(c)) \/ ApplyDisabled
    BY <2>3, CancelOwn
  <2>4. CASE \/ \E t \in Torrents : ReleaseCancelling(t) \/ ScanNext(t)
             \/ ApplyEnabled \/ ScanEnds
    BY <2>4, OwnUnchanged
       DEF ReleaseCancelling, ScanNext, ApplyEnabled, ScanEnds, database
  <2>5. CASE \E k \in Keys : Interrupted(k) \/ WindowInterrupted(k)
    BY <2>5, PipelineOwn
  <2>6. CASE \E k \in Keys : FinishJob(k)
    BY <2>6, FinishJobOwn
  <2> QED BY <1>1, <2>1, <2>2, <2>3, <2>4, <2>5, <2>6 DEF Microtask
<1>2. CASE \E c \in calls : RunCall(c)
  BY <1>2, RunCallOwn
<1>3. CASE Request
  <2>1. CASE \/ \E t \in Torrents : QueueTorrent(t) \/ Register(t)
             \/ \E k \in Keys : QueueFile(k)
             \/ \E enabled \in BOOLEAN : SetAutomatic(enabled)
             \/ \E c \in Clients, t \in Torrents : RemoveStart(c, t)
    BY <2>1, OwnUnchanged
       DEF QueueTorrent, QueueFile, ManualCall, Register, SetAutomatic,
           RemoveStart, database
  <2>2. CASE \/ \E c \in Clients, k \in Keys : CancelFile(c, k)
             \/ \E c \in Clients, t \in Torrents : CancelTorrent(c, t)
    BY <2>2, CancelOwn
  <2> QED BY <1>3, <2>1, <2>2 DEF Request
<1>4. CASE Timer
  <2>1. CASE \E s \in Slots : ConfirmTimesOut(s)
    BY <2>1, PumpHereOwn DEF ConfirmTimesOut
  <2>2. CASE \E k \in Keys : WatchdogExpires(k) \/ RequestTimesOut(k)
    BY <2>2, PipelineOwn
  <2> QED BY <1>4, <2>1, <2>2 DEF Timer
<1>5. CASE Pipeline \/ Release
  BY <1>5, PipelineOwn DEF Pipeline, Release
<1>6. CASE Environment
  <2>1. CASE \/ \E c \in calls : AbandonCall(c)
             \/ \E t \in Torrents : CacheCompleted(t) \/ Evict(t)
    BY <2>1, OwnUnchanged DEF AbandonCall, CacheCompleted, Evict, database
  <2>2. CASE \/ \E c \in Clients : RemoveDelete(c)
             \/ \E m \in Models : Boot(m)
             \/ Close
    BY <2>2, ProcessOwn
  <2> QED BY <1>6, <2>1, <2>2 DEF Environment
<1>7. CASE Halt
  BY <1>7, ProcessOwn
<1>8. CASE UNCHANGED vars
  BY <1>8, OwnUnchanged DEF vars, database
<1> QED BY <1>1, <1>2, <1>3, <1>4, <1>5, <1>6, <1>7, <1>8 DEF Next

\* The inductive invariant of ownership.
LEMMA OwnInvariant == Spec => []OwnInv
<1>1. Init => OwnInv
  BY DEF Init, OwnInv, AttemptIsAwaited, OneAttempt, OnlyAttemptsAreBusy,
         QueuedHaveTime, Busy, Each, NoFrame, NoRow
<1>2. TypeInv /\ OwnInv /\ [Next]_vars => OwnInv'
  BY OwnStep
<1> QED BY <1>1, <1>2, TypeInvariant, PTL DEF Spec

\* Whatever is cancelled, timed out, removed, requeued or restarted, and however
\* late reader, FFmpeg and speech service settle, at most one file at a time has a
\* cache lease, an FFmpeg process or a speech request.
THEOREM OneOwner == Spec => []SingleOwner
<1>1. OwnInv => SingleOwner
  BY DEF OwnInv, OneAttempt, OnlyAttemptsAreBusy, SingleOwner
<1> QED BY <1>1, OwnInvariant, PTL

\* What still runs belongs to the attempt that activeJobs has an entry for and
\* whose promise the queue waits for.
THEOREM Ownership == Spec => []ResourcesOwned
<1>1. OwnInv => ResourcesOwned
  BY DEF OwnInv, AttemptIsAwaited, OnlyAttemptsAreBusy, ResourcesOwned
<1> QED BY <1>1, OwnInvariant, PTL
=============================================================================
