---------------------- MODULE TranscriptionAnswersProofs ----------------------
(***************************************************************************)
(* The rest of what is proved about TranscriptionManager: what is stored   *)
(* tells one story, what was answered stays true, captions are written by  *)
(* the attempt that holds the row, chapters start in their order, what the *)
(* setting cancelled is not forgotten once it is on again, and the whole   *)
(* implements JobQueue.                                                    *)
(***************************************************************************)
EXTENDS TranscriptionQueueProofs

-----------------------------------------------------------------------------
(***************************************************************************)
(* Captions and completed rows.                                            *)
(***************************************************************************)

\* No move separates captions from the row they belong to.
LEMMA CaptionsStep ==
    ASSUME TypeInv, RowInv, CompletedHasCaptions, \A k \in Keys : Move(k)
    PROVE  CompletedHasCaptions'
<1> SUFFICES ASSUME NEW k \in Keys
             PROVE  /\ job'[k].state = "completed" =>
                           artifact'[k] = [model |-> job'[k].model,
                                           ts |-> job'[k].ts]
                    /\ job'[k].state = "none" => artifact'[k] = NoArtifact
  BY DEF CompletedHasCaptions
<1>1. /\ job[k] \in Row /\ exec[k].job \in Row
      /\ RowOf(job[k], exec[k])
  BY QueueTypes DEF RowInv, HasRow
<1>2. /\ job[k].state = "completed" =>
             artifact[k] = [model |-> job[k].model, ts |-> job[k].ts]
      /\ job[k].state = "none" => artifact[k] = NoArtifact
  BY DEF CompletedHasCaptions
<1>3. CASE Kept(k) \/ Lost(k)
  BY <1>2, <1>3 DEF Kept, Lost, SameCaptions
<1>4. CASE Requeued(k)
  BY <1>4 DEF Requeued
<1>5. CASE Started(k) \/ Opened(k)
  <2>1. job'[k].state \in {"preparing", "transcribing"}
    BY <1>1, <1>5 DEF Started, Opened, Row
  <2> QED BY <2>1
<1>6. CASE Left(k)
  <2>1. CASE job'[k] = job[k] /\ SameCaptions(k)
    BY <1>2, <2>1 DEF SameCaptions
  <2>2. CASE job'[k].state \in {"failed", "cancelled"}
    BY <2>2
  <2>3. CASE /\ job'[k] = [exec[k].job EXCEPT !.state = job'[k].state,
                                              !.code = job'[k].code]
             /\ job'[k].state = "completed"
             /\ artifact'[k] = [model |-> exec[k].job.model,
                                ts |-> exec[k].job.ts]
    <3>1. job'[k].model = exec[k].job.model /\ job'[k].ts = exec[k].job.ts
      BY <1>1, <2>3 DEF Row
    <3> QED BY <2>3, <3>1
  <2> QED BY <1>6, <2>1, <2>2, <2>3 DEF Left
<1>7. CASE Stopped(k)
  BY <1>7 DEF Stopped
<1>8. CASE Dropped(k)
  BY <1>8 DEF Dropped, NoRow
<1>9. CASE Finished(k)
  BY <1>2, <1>9 DEF Finished, SameCaptions, NoRow
<1>10. CASE Recovered(k)
  <2>1. job'[k] = job[k] \/ job'[k].state \in {"cancelled", "failed"}
    BY <1>1, <1>10 DEF Recovered, RecoveredRow, Row
  <2> QED BY <1>2, <1>10, <2>1 DEF Recovered, SameCaptions
<1> QED BY <1>3, <1>4, <1>5, <1>6, <1>7, <1>8, <1>9, <1>10 DEF Move

-----------------------------------------------------------------------------
(***************************************************************************)
(* The automatic setting.                                                  *)
(***************************************************************************)

\* The transitions at the head of the chain whose jobs are cancelled already.
Applied == IF slot[Setting].op = "disable" THEN 1 ELSE 0
\* The last value still to be applied is the one that was stored last.
LastTransition ==
    Len(transitions) > Applied => transitions[Len(transitions)] = automatic
\* While the setting is off and its transition has been applied, no automatic job
\* is active.
Disabled ==
    mode # "down" /\ ~automatic /\ Len(transitions) <= Applied
        => AutomaticJobs = {}
\* The scan of a transition is that of an enabling one.
ScanApplies == scanning /\ mode # "starting" => Head(transitions)
SettingInv == LastTransition /\ Disabled /\ ScanApplies

\* Only a call makes an automatic job active, and only with the setting on.
LEMMA AutomaticMoves ==
    ASSUME TypeInv, RowInv, NEW k \in Keys, Move(k), mode # "down", ~automatic,
           Active(job'[k]), job'[k].trigger = "automatic"
    PROVE  Active(job[k]) /\ job[k].trigger = "automatic"
<1>1. /\ job[k] \in Row /\ exec[k].job \in Row
      /\ RowOf(job[k], exec[k])
  BY QueueTypes DEF RowInv, HasRow
<1>2. CASE Kept(k) \/ Lost(k)
  BY <1>2 DEF Kept, Lost
<1>3. CASE Requeued(k)
  BY <1>3 DEF Requeued
<1>4. CASE Started(k)
  <2>1. job'[k].trigger = job[k].trigger
    BY <1>1, <1>4 DEF Started, Row
  <2> QED BY <1>4, <2>1 DEF Started, Active, ACTIVE_STATES
<1>5. CASE Opened(k)
  <2>1. Active(job[k]) /\ exec[k].job = job[k]
    BY <1>1, <1>5 DEF Opened, Owned, RowOf
  <2>2. job'[k].trigger = job[k].trigger
    BY <1>1, <1>5, <2>1 DEF Opened, Row
  <2> QED BY <2>1, <2>2
<1>6. CASE Left(k)
  BY <1>6 DEF Left, Active, ACTIVE_STATES
<1>7. CASE Stopped(k)
  BY <1>7 DEF Stopped, Active, ACTIVE_STATES
<1>8. CASE Dropped(k) \/ Finished(k)
  BY <1>8 DEF Dropped, Finished, NoRow, Active, ACTIVE_STATES
<1> QED BY <1>2, <1>3, <1>4, <1>5, <1>6, <1>7, <1>8 DEF Move, Recovered

\* So a setting that is off stays quiet.
LEMMA QuietStays ==
    ASSUME TypeInv, RowInv, \A k \in Keys : Move(k), mode # "down", ~automatic,
           AutomaticJobs = {}
    PROVE  AutomaticJobs' = {}
BY AutomaticMoves DEF AutomaticJobs, Active

\* A step that leaves the chain and the setting alone.
LEMMA SettingSame ==
    ASSUME TypeInv, RowInv, SettingInv, \A k \in Keys : Move(k), mode # "down",
           UNCHANGED <<automatic, transitions, scanning>>, Applied' = Applied,
           mode' = mode \/ mode # "starting"
    PROVE  SettingInv'
<1>1. LastTransition'
  BY DEF SettingInv, LastTransition
<1>2. Disabled'
  BY QuietStays DEF SettingInv, Disabled
<1>3. ScanApplies'
  BY DEF SettingInv, ScanApplies
<1> QED BY <1>1, <1>2, <1>3 DEF SettingInv

\* The head of the chain has been applied.
LEMMA HeadApplied ==
    ASSUME TypeInv, transitions # <<>>, LastTransition,
           transitions' = Tail(transitions), automatic' = automatic,
           Applied' = 0
    PROVE  /\ LastTransition'
           /\ Len(transitions') = Len(transitions) - 1
           /\ Len(transitions) \in Nat \ {0}
<1>1. transitions \in Seq(BOOLEAN) /\ Len(transitions) \in Nat \ {0}
  BY DEF TypeInv, TypeOK, RequestType
<1>2. Len(transitions') = Len(transitions) - 1
  BY <1>1
<1>3. Len(transitions') > 0 =>
          transitions'[Len(transitions')] = transitions[Len(transitions)]
  BY <1>1, <1>2
<1>4. Applied \in {0, 1}
  BY DEF Applied
<1>5. Len(transitions') > 0 => Len(transitions) > Applied
  BY <1>1, <1>2, <1>4
<1>6. LastTransition'
  BY <1>3, <1>5 DEF LastTransition
<1> QED BY <1>1, <1>2, <1>6

\* Disabling cancels every automatic job before anything else can run.
LEMMA DisableQuiets ==
    ASSUME TypeInv, OwnInv, RowInv, \A k \in Keys : Move(k), ~automatic,
           ApplyDisabled
    PROVE  AutomaticJobs' = {}
<1>1. mode # "down"
  BY DEF ApplyDisabled, InTurn
<1>2. CancelJobs(AutomaticJobs, FALSE, "automatic_disabled", Setting,
                 Wait("disable", NoTorrent), NoSlot)
  BY Zenon DEF ApplyDisabled
<1>3. /\ AutomaticJobs \in SUBSET Keys /\ "automatic_disabled" \in Codes
      /\ FALSE \in BOOLEAN
  BY DEF AutomaticJobs, Codes
<1>4. \A k \in AutomaticJobs : ~Active(job'[k])
  <2> SUFFICES ASSUME NEW k \in AutomaticJobs
               PROVE  ~Active(job'[k])
    OBVIOUS
  <2>1. k \in Keys
    BY DEF AutomaticJobs
  <2> QED BY <1>1, <1>2, <1>3, <2>1, CancelOutcome, Zenon
<1>5. \A k \in Keys : Active(job'[k]) /\ job'[k].trigger = "automatic"
                          => k \in AutomaticJobs
  BY <1>1, AutomaticMoves DEF AutomaticJobs
<1> QED BY <1>4, <1>5 DEF AutomaticJobs, Active

\* A confirmed or timed out cleanup of a disabling transition applies it.
LEMMA ResumeSetting ==
    ASSUME TypeInv, RowInv, SettingInv, \A k \in Keys : Move(k), mode # "down",
           NEW s \in Slots, NEW w, w.op # "disable",
           slot' = [slot EXCEPT ![s] = w],
           transitions' = IF slot[s].op = "disable" THEN Tail(transitions)
                          ELSE transitions,
           UNCHANGED <<automatic, mode, scanning>>
    PROVE  SettingInv'
<1>1. slot \in [Slots -> Slot] /\ TransitionHeld /\ Setting \in Slots
  BY DEF TypeInv, TypeOK, RequestType, Slots
<1>2. CASE slot[s].op # "disable"
  <2>1. Applied' = Applied
    BY <1>1, <1>2 DEF Applied
  <2> QED BY <1>2, <2>1, SettingSame
<1>3. CASE slot[s].op = "disable"
  <2>1. s = Setting /\ transitions # <<>> /\ ~scanning
    BY <1>1, <1>3 DEF TransitionHeld, NoSlot
  <2>2. Applied = 1 /\ Applied' = 0
    BY <1>1, <1>3, <2>1 DEF Applied
  <2>3. /\ LastTransition'
        /\ Len(transitions') = Len(transitions) - 1
        /\ Len(transitions) \in Nat \ {0}
    BY <1>3, <2>1, <2>2, HeadApplied DEF SettingInv
  <2>4. Disabled'
    BY <2>2, <2>3, QuietStays DEF SettingInv, Disabled
  <2> QED BY <2>1, <2>3, <2>4 DEF SettingInv, ScanApplies
<1> QED BY <1>2, <1>3

\* A request that is not the setting's leaves the slot of the setting alone.
LEMMA ClientApplied ==
    ASSUME TypeInv, NEW c \in Clients, NEW w, slot' = [slot EXCEPT ![c] = w]
    PROVE  Applied' = Applied
<1>1. c # Setting /\ c \in Slots /\ Setting \in Slots
  BY SlotAssumption DEF Slots
<1>2. slot'[Setting] = slot[Setting]
  BY <1>1 DEF TypeInv, TypeOK, RequestType
<1> QED BY <1>2 DEF Applied

\* A request that cancels leaves it alone too.
LEMMA CancelApplied ==
    ASSUME TypeInv, NEW c \in Clients, NEW S, NEW purging, NEW code, NEW waits,
           NEW done, CancelJobs(S, purging, code, c, waits, done)
    PROVE  Applied' = Applied
<1>1. \/ slot' = [slot EXCEPT ![c] = waits]
      \/ slot' = [slot EXCEPT ![c] = done]
  BY DEF CancelJobs
<1> QED BY <1>1, ClientApplied

\* The settings request at the head of the chain.
LEMMA DisableSetting ==
    ASSUME TypeInv, OwnInv, RowInv, SettingInv, \A k \in Keys : Move(k),
           ApplyDisabled
    PROVE  SettingInv'
<1>1. /\ transitions # <<>> /\ ~scanning /\ slot[Setting] = NoSlot
      /\ ~Head(transitions)
      /\ transitions' = IF \E k \in AutomaticJobs : Running(k)
                        THEN transitions ELSE Tail(transitions)
      /\ UNCHANGED <<automatic, scanning, mode>>
  BY Zenon DEF ApplyDisabled, InTurn
<1>2. Setting \in Slots /\ slot \in [Slots -> Slot] /\ transitions \in Seq(BOOLEAN)
  BY DEF Slots, TypeInv, TypeOK, RequestType
<1>3. Applied = 0
  <2>1. slot[Setting] = NoSlot
    BY <1>1
  <2> QED BY <2>1 DEF Applied, NoSlot
<1>4. CancelJobs(AutomaticJobs, FALSE, "automatic_disabled", Setting,
                 Wait("disable", NoTorrent), NoSlot)
  BY Zenon DEF ApplyDisabled
<1>5. IF \E k \in AutomaticJobs : Running(k)
      THEN slot' = [slot EXCEPT ![Setting] = Wait("disable", NoTorrent)]
      ELSE slot' = [slot EXCEPT ![Setting] = NoSlot]
  BY <1>4, Zenon DEF CancelJobs
<1>6. ~automatic => AutomaticJobs' = {}
  BY DisableQuiets
<1>7. ScanApplies'
  BY <1>1 DEF ScanApplies
<1>8. CASE \E k \in AutomaticJobs : Running(k)
  <2>1. Applied' = 1
    BY <1>2, <1>5, <1>8 DEF Applied, Wait
  <2>2. transitions' = transitions /\ automatic' = automatic
    BY <1>1, <1>8
  <2>3. LastTransition /\ Len(transitions) \in Nat
    BY <1>2 DEF SettingInv
  <2>4. LastTransition'
    BY <1>3, <2>1, <2>2, <2>3 DEF LastTransition
  <2> QED BY <1>1, <1>6, <1>7, <2>4 DEF SettingInv, Disabled
<1>9. CASE ~\E k \in AutomaticJobs : Running(k)
  <2>1. Applied' = 0
    BY <1>2, <1>5, <1>9 DEF Applied, NoSlot
  <2>2. /\ transitions' = Tail(transitions) /\ automatic' = automatic
        /\ transitions # <<>> /\ LastTransition
    BY <1>1, <1>9 DEF SettingInv
  <2>3. LastTransition'
    BY <2>1, <2>2, HeadApplied
  <2> QED BY <1>1, <1>6, <1>7, <2>3 DEF SettingInv, Disabled
<1> QED BY <1>8, <1>9

\* The end of a scan ends its transition, or the boot.
LEMMA ScanSetting ==
    ASSUME TypeInv, RowInv, SettingInv, \A k \in Keys : Move(k), mode # "down",
           ScanEnds
    PROVE  SettingInv'
<1>1. /\ scanning /\ ~scanning' /\ UNCHANGED <<slot, automatic>>
      /\ mode' \in {mode, "serving"}
      /\ IF mode = "starting" THEN transitions' = transitions
                              ELSE transitions' = Tail(transitions)
  BY DEF ScanEnds, database
<1>2. Applied = 0 /\ Applied' = 0
  BY <1>1 DEF Applied, TypeInv, TransitionHeld, NoSlot
<1>3. ScanApplies'
  BY <1>1 DEF ScanApplies
<1>4. CASE mode = "starting"
  <2>1. LastTransition'
    BY <1>1, <1>2, <1>4 DEF SettingInv, LastTransition
  <2>2. Disabled'
    BY <1>1, <1>2, <1>4, QuietStays DEF SettingInv, Disabled
  <2> QED BY <1>3, <2>1, <2>2 DEF SettingInv
<1>5. CASE mode # "starting"
  <2>1. transitions # <<>> /\ Head(transitions)
    BY <1>1, <1>5 DEF TypeInv, TransitionHeld, SettingInv, ScanApplies
  <2>2. /\ LastTransition'
        /\ Len(transitions') = Len(transitions) - 1
        /\ Len(transitions) \in Nat \ {0}
    BY <1>1, <1>2, <1>5, <2>1, HeadApplied DEF SettingInv
  <2>3. ASSUME ~automatic, Len(transitions) = 1
        PROVE  FALSE
    <3>1. transitions[1] = automatic
      BY <1>2, <2>3 DEF SettingInv, LastTransition
    <3>2. transitions \in Seq(BOOLEAN)
      BY DEF TypeInv, TypeOK, RequestType
    <3>3. transitions # <<>>
      BY <2>1
    <3>4. transitions[1] = Head(transitions)
      BY <3>2, <3>3
    <3> QED BY <2>1, <2>3, <3>1, <3>4
  <2>4. Disabled'
    BY <1>1, <1>2, <2>2, <2>3 DEF Disabled
  <2> QED BY <1>3, <2>2, <2>4 DEF SettingInv
<1> QED BY <1>4, <1>5

\* A change of the setting is stored and appended to the chain at once.
LEMMA StoredSetting ==
    ASSUME TypeInv, SettingInv, NEW enabled \in BOOLEAN, SetAutomatic(enabled)
    PROVE  SettingInv'
<1>1. /\ automatic' = enabled /\ transitions' = Append(transitions, enabled)
      /\ UNCHANGED <<slot, scanning, mode>>
  BY DEF SetAutomatic
<1>2. transitions \in Seq(BOOLEAN) /\ Len(transitions) \in Nat
  BY DEF TypeInv, TypeOK, RequestType
<1>3. /\ Len(transitions') = Len(transitions) + 1
      /\ transitions'[Len(transitions')] = enabled
      /\ transitions # <<>> => Head(transitions') = Head(transitions)
  BY <1>1, <1>2
<1>4. Applied' = Applied /\ Applied <= Len(transitions)
  BY <1>1, <1>2 DEF Applied, TypeInv, TransitionHeld, Slots
<1>5. LastTransition'
  BY <1>1, <1>3 DEF LastTransition
<1>6. Disabled'
  <2>1. Applied \in {0, 1}
    BY DEF Applied
  <2> QED BY <1>2, <1>3, <1>4, <2>1 DEF Disabled
<1>7. ScanApplies'
  BY <1>1, <1>3 DEF ScanApplies, SettingInv, TypeInv, TransitionHeld
<1> QED BY <1>5, <1>6, <1>7 DEF SettingInv

\* A start with the setting off cancels the automatic jobs it finds.
LEMMA BootSetting ==
    ASSUME TypeInv, DownIdle, NEW m \in Models, Boot(m)
    PROVE  SettingInv'
<1>1. /\ mode = "down" /\ UNCHANGED <<automatic, transitions, slot>>
      /\ \A k \in Keys : job'[k] = RecoveredRow(job[k])
      /\ automatic => mode' = "starting"
      /\ ~automatic => scanning' = FALSE
      /\ automatic \in BOOLEAN /\ scanning' = automatic
  BY DEF Boot, TypeInv, TypeOK, DatabaseType
<1>2. transitions = <<>> /\ Setting \in Slots /\ slot[Setting] = NoSlot
  BY <1>1 DEF DownIdle, TypeInv, TransitionHeld, Slots
<1>3. Applied' = 0 /\ Len(transitions') = 0
  BY <1>1, <1>2 DEF Applied, NoSlot
<1>4. ~automatic => \A k \in Keys : ~(Active(job'[k]) /\ job'[k].trigger = "automatic")
  BY <1>1, QueueTypes DEF RecoveredRow, Row, Active, ACTIVE_STATES
<1>5. Disabled'
  BY <1>1, <1>4 DEF Disabled, AutomaticJobs, Active
<1>6. LastTransition'
  BY <1>3 DEF LastTransition
<1>7. ScanApplies'
  BY <1>1 DEF ScanApplies
<1> QED BY <1>5, <1>6, <1>7 DEF SettingInv

\* Every step keeps the chain of the setting in order.
LEMMA SettingStep ==
    ASSUME TypeInv, OwnInv, RowInv, SettingInv, \A k \in Keys : Move(k),
           [Next]_vars
    PROVE  SettingInv'
<1>0. ASSUME mode # "down",
             UNCHANGED <<slot, automatic, transitions, scanning>>,
             mode' = mode \/ mode # "starting"
      PROVE  SettingInv'
  <2>1. Applied' = Applied
    BY <1>0 DEF Applied
  <2> QED BY <1>0, <2>1, SettingSame
<1>1. CASE mode = "down"
  <2>1. CASE UNCHANGED vars
    <3>1. /\ UNCHANGED <<automatic, transitions, scanning, mode, slot, job>>
      BY <2>1 DEF vars, database, setting
    <3> QED BY <3>1 DEF SettingInv, LastTransition, Disabled, ScanApplies,
                        Applied, AutomaticJobs, Active
  <2>2. CASE \E m \in Models : Boot(m)
    BY <2>2, BootSetting DEF RowInv
  <2> QED BY <1>1, <2>1, <2>2, DownOnlyBoots DEF RowInv
<1>2. CASE mode # "down" /\ Microtask
  <2>1. CASE PumpMicrotask \/ \E k \in Keys : FinishJob(k)
    BY <1>0, <1>2, <2>1 DEF PumpMicrotask, FinishJob, setting
  <2>2. ASSUME NEW s \in Slots, Confirm(s)
        PROVE  SettingInv'
    <3> DEFINE w == IF slot[s].op = "removal"
                    THEN [NoSlot EXCEPT !.op = "deleting",
                                        !.torrent = slot[s].torrent]
                    ELSE NoSlot
    <3>1. w.op # "disable"
      BY DEF NoSlot
    <3>2. /\ slot' = [slot EXCEPT ![s] = w]
          /\ transitions' = IF slot[s].op = "disable" THEN Tail(transitions)
                            ELSE transitions
          /\ UNCHANGED <<automatic, mode, scanning>>
      BY <2>2 DEF Confirm
    <3> HIDE DEF w
    <3> QED BY <1>2, <3>1, <3>2, ResumeSetting
  <2>3. ASSUME NEW c \in Clients, RemoveCancel(c)
        PROVE  SettingInv'
    <3>1. UNCHANGED <<automatic, transitions, scanning, mode>>
      BY <2>3 DEF RemoveCancel, setting
    <3>2. CASE slot' = [slot EXCEPT ![c] = NoSlot]
      BY <1>2, <3>1, <3>2, ClientApplied, SettingSame
    <3>3. CASE slot' # [slot EXCEPT ![c] = NoSlot]
      <4>1. CancelJobs(RowsOf(slot[c].torrent), FALSE, "cancelled", c,
                       Wait("removal", slot[c].torrent),
                       [slot[c] EXCEPT !.op = "deleting"])
        BY <2>3, <3>3, Zenon DEF RemoveCancel
      <4>2. Applied' = Applied
        BY <4>1, CancelApplied, Zenon
      <4> QED BY <1>2, <3>1, <4>2, SettingSame
    <3> QED BY <3>2, <3>3
  <2>4. CASE \E t \in Torrents : ReleaseCancelling(t) \/ ScanNext(t)
    BY <1>0, <1>2, <2>4 DEF ReleaseCancelling, ScanNext, setting, database
  <2>5. CASE ApplyEnabled
    <3>1. /\ UNCHANGED <<automatic, transitions, mode, slot>>
          /\ Head(transitions) /\ Applied' = Applied
      BY <2>5 DEF ApplyEnabled, Applied, database
    <3>2. LastTransition'
      BY <3>1 DEF SettingInv, LastTransition
    <3>3. Disabled'
      BY <1>2, <3>1, QuietStays DEF SettingInv, Disabled
    <3>4. ScanApplies'
      BY <3>1 DEF ScanApplies
    <3> QED BY <3>2, <3>3, <3>4 DEF SettingInv
  <2>6. CASE ApplyDisabled
    BY <2>6, DisableSetting
  <2>7. CASE ScanEnds
    BY <1>2, <2>7, ScanSetting
  <2>8. CASE \E k \in Keys : Interrupted(k) \/ WindowInterrupted(k)
    BY <1>0, <1>2, <2>8
       DEF Interrupted, WindowInterrupted, LeaveWindow, ExecUnchanged, setting
  <2> QED BY <1>2, <2>1, <2>2, <2>3, <2>4, <2>5, <2>6, <2>7, <2>8 DEF Microtask
<1>3. CASE \E c \in calls : RunCall(c)
  BY <1>0, <1>3 DEF RunCall, setting
<1>4. CASE mode # "down" /\ Request
  <2>1. CASE \/ \E t \in Torrents : QueueTorrent(t) \/ Register(t)
             \/ \E k \in Keys : QueueFile(k)
    BY <1>0, <1>4, <2>1
       DEF QueueTorrent, QueueFile, ManualCall, Register, setting, database
  <2>2. ASSUME NEW c \in Clients, NEW k \in Keys, CancelFile(c, k)
        PROVE  SettingInv'
    <3>1. CancelJobs({k}, FALSE, "cancelled", c, Wait("file", k[1]), NoSlot)
      BY <2>2, Zenon DEF CancelFile
    <3>2. Applied' = Applied
      BY <3>1, CancelApplied, Zenon
    <3>3. UNCHANGED <<automatic, transitions, scanning, mode>>
      BY <2>2 DEF CancelFile, setting
    <3> QED BY <1>4, <3>2, <3>3, SettingSame
  <2>3. ASSUME NEW c \in Clients, NEW t \in Torrents, CancelTorrent(c, t)
        PROVE  SettingInv'
    <3>1. CancelJobs(RowsOf(t), TRUE, "cancelled", c, Wait("torrent", t), NoSlot)
      BY <2>3, Zenon DEF CancelTorrent
    <3>2. Applied' = Applied
      BY <3>1, CancelApplied, Zenon
    <3>3. UNCHANGED <<automatic, transitions, scanning, mode>>
      BY <2>3 DEF CancelTorrent, setting
    <3> QED BY <1>4, <3>2, <3>3, SettingSame
  <2>4. ASSUME NEW c \in Clients, NEW t \in Torrents, RemoveStart(c, t)
        PROVE  SettingInv'
    <3>1. Applied' = Applied
      BY <2>4, ClientApplied DEF RemoveStart
    <3>2. UNCHANGED <<automatic, transitions, scanning, mode>>
      BY <2>4 DEF RemoveStart, setting, database
    <3> QED BY <1>4, <3>1, <3>2, SettingSame
  <2>5. CASE \E enabled \in BOOLEAN : SetAutomatic(enabled)
    BY <2>5, StoredSetting
  <2> QED BY <1>4, <2>1, <2>2, <2>3, <2>4, <2>5 DEF Request
<1>5. CASE mode # "down" /\ Timer
  <2>1. ASSUME NEW s \in Slots, ConfirmTimesOut(s)
        PROVE  SettingInv'
    <3>1. /\ slot' = [slot EXCEPT ![s] = NoSlot] /\ NoSlot.op # "disable"
          /\ transitions' = IF slot[s].op = "disable" THEN Tail(transitions)
                            ELSE transitions
          /\ UNCHANGED <<automatic, mode, scanning>>
      BY <2>1 DEF ConfirmTimesOut, NoSlot
    <3> QED BY <1>5, <3>1, ResumeSetting
  <2>2. CASE \E k \in Keys : WatchdogExpires(k) \/ RequestTimesOut(k)
    BY <1>0, <1>5, <2>2
       DEF WatchdogExpires, RequestTimesOut, LeaveWindow, ExecUnchanged, setting
  <2> QED BY <1>5, <2>1, <2>2 DEF Timer
<1>6. CASE mode # "down" /\ (Pipeline \/ Release)
  <2>1. UNCHANGED <<slot, automatic, transitions, scanning, mode>>
    BY <1>6 DEF Pipeline, Release, OpenSucceeds, OpenFails, WindowStarts,
                ProviderAnswers, ProviderFails, TranscodeSucceeds, TranscodeFails,
                LeaseReleased, WorkerStopped, OrphanSettles, ExecUnchanged, setting
  <2> QED BY <1>0, <1>6, <2>1
<1>7. CASE mode # "down" /\ Environment
  <2>1. CASE \E c \in calls : AbandonCall(c)
    BY <1>0, <1>7, <2>1 DEF AbandonCall, setting, database
  <2>2. ASSUME NEW c \in Clients, RemoveDelete(c)
        PROVE  SettingInv'
    <3>1. Applied' = Applied
      BY <2>2, ClientApplied DEF RemoveDelete
    <3>2. UNCHANGED <<automatic, transitions, scanning, mode>>
      BY <2>2 DEF RemoveDelete, setting
    <3> QED BY <1>7, <3>1, <3>2, SettingSame
  <2>3. CASE \E t \in Torrents : CacheCompleted(t) \/ Evict(t)
    BY <1>0, <1>7, <2>3 DEF CacheCompleted, Evict, setting
  <2>4. CASE \E m \in Models : Boot(m)
    BY <1>7, <2>4 DEF Boot
  <2>5. CASE Close
    BY <1>0, <1>7, <2>5 DEF Close, setting, database
  <2> QED BY <1>7, <2>1, <2>2, <2>3, <2>4, <2>5 DEF Environment
<1>8. CASE Halt
  <2>1. /\ mode' = "down" /\ transitions' = <<>> /\ scanning' = FALSE
        /\ slot' = [s \in Slots |-> NoSlot] /\ Setting \in Slots
    BY <1>8 DEF Halt, Slots
  <2>2. Len(transitions') = 0 /\ Applied' \in {0, 1}
    BY <2>1 DEF Applied
  <2>3. LastTransition'
    BY <2>2 DEF LastTransition
  <2>4. Disabled' /\ ScanApplies'
    BY <2>1 DEF Disabled, ScanApplies
  <2> QED BY <2>3, <2>4 DEF SettingInv
<1>9. CASE mode # "down" /\ UNCHANGED vars
  BY <1>0, <1>9 DEF vars, setting, database
<1> QED BY <1>1, <1>2, <1>3, <1>4, <1>5, <1>6, <1>7, <1>8, <1>9 DEF Next

-----------------------------------------------------------------------------
(***************************************************************************)
(* What is stored.                                                         *)
(***************************************************************************)

StoredInv == CompletedHasCaptions /\ SettingInv

\* Captions, rows and setting agree in every reachable state.
LEMMA StoredInvariant == Spec => []StoredInv
<1>1. Init => StoredInv
  <2> SUFFICES ASSUME Init
               PROVE  StoredInv
    OBVIOUS
  <2>1. CompletedHasCaptions
    BY DEF Init, CompletedHasCaptions, Each, NoRow
  <2>2. /\ mode = "down" /\ transitions = <<>> /\ scanning = FALSE
    BY DEF Init
  <2>3. Len(transitions) = 0 /\ Applied \in {0, 1}
    BY <2>2 DEF Applied
  <2>4. LastTransition
    BY <2>3 DEF LastTransition
  <2>5. Disabled /\ ScanApplies
    BY <2>2 DEF Disabled, ScanApplies
  <2> QED BY <2>1, <2>4, <2>5 DEF StoredInv, SettingInv
<1>2. TypeInv /\ OwnInv /\ QueueInv /\ StoredInv /\ [Next]_vars => StoredInv'
  BY MoveStep, CaptionsStep, SettingStep DEF QueueInv, StoredInv
<1> QED BY <1>1, <1>2, TypeInvariant, OwnInvariant, QueueInvariant, PTL DEF Spec

\* A completed row always has the captions of that very attempt and captions never
\* outlive the row, through crashes, retries and purges; and once the requests that
\* disable automatic transcription have been answered, no automatic job is left or
\* comes back.
THEOREM StoredIsConsistent == Spec => []StoredConsistent
<1>1. TypeInv /\ StoredInv => StoredConsistent
  <2> SUFFICES ASSUME TypeInv, StoredInv
               PROVE  StoredConsistent
    OBVIOUS
  <2>1. Applied \in {0, 1}
    BY DEF Applied
  <2>2. transitions = <<>> => Len(transitions) <= Applied
    BY <2>1
  <2>3. DisabledMeansQuiet
    BY <2>2 DEF DisabledMeansQuiet, StoredInv, SettingInv, Disabled
  <2> QED BY <2>3 DEF StoredConsistent, StoredInv
<1> QED BY <1>1, TypeInvariant, StoredInvariant, PTL

-----------------------------------------------------------------------------
(***************************************************************************)
(* What an attempt holds while it works.                                   *)
(***************************************************************************)

\* Nothing decodes before the reader is open; until it is aborted, an attempt that
\* transcribes holds its lease, and FFmpeg goes on only without a speech request.
PipeOf(k) ==
    /\ exec[k].pc = "opening" => worker[k] = "none" /\ provider[k] = "idle"
    /\ exec[k].pc = "transcribing" /\ ~Aborted(k) =>
           /\ lease[k] = "held"
           /\ worker[k] = "decoding" => provider[k] = "idle"
Pipe == \A k \in Keys : PipeOf(k)

\* A step that is not the attempt's own: it may start it, abort it or end it, and
\* leaves what it holds alone.
Steady(k) ==
    /\ worker'[k] = worker[k] /\ provider'[k] = provider[k]
    /\ \/ exec'[k].pc \in {"none", "cleanup"}
       \/ exec'[k].pc = "opening" /\ exec[k].pc = "none"
       \/ /\ exec'[k].pc = exec[k].pc
          /\ Aborted(k) => exec'[k].abort # "none"
          /\ lease'[k] = lease[k]

\* A frame that does not advance in its pipeline still holds what it may.
LEMMA SteadyPipe ==
    ASSUME OwnInv, Pipe, \A k \in Keys : Steady(k)
    PROVE  Pipe'
<1> SUFFICES ASSUME NEW k \in Keys
             PROVE  PipeOf(k)'
  BY DEF Pipe
<1>1. PipeOf(k) /\ Steady(k) /\ (exec[k].pc = "none" => ~Busy(k))
  BY DEF Pipe, OwnInv, OnlyAttemptsAreBusy
<1> QED BY <1>1 DEF PipeOf, Steady, Aborted, Busy

\* pump() is steady.
LEMMA PumpSteady ==
    ASSUME NEW rows \in [Keys -> Row], NEW entries \in SUBSET Entry,
           NEW attempts \in [Keys -> Nat], NEW execs \in [Keys -> Frame],
           NEW owner, NEW suspended, NEW scheduled,
           Matches(rows, entries, attempts),
           lease \in [Keys -> {"none", "opening", "held"}],
           UNCHANGED <<worker, provider>>,
           \A k \in Keys : \/ execs[k].pc = "none"
                           \/ /\ execs[k].pc = exec[k].pc
                              /\ Aborted(k) => execs[k].abort # "none",
           \A k \in Keys : rows[k].state = "queued" => exec[k].pc = "none",
           Pump(rows, entries, attempts, execs, owner, suspended, scheduled)
    PROVE  \A k \in Keys : Steady(k)
<1>1. CASE PumpsNothing(rows, entries, attempts, execs, owner, scheduled)
  BY <1>1 DEF PumpsNothing, Steady
<1>2. ASSUME NEW e \in entries,
             PumpsEntry(e, rows, entries, attempts, execs, owner, scheduled),
             NEW k \in Keys
      PROVE  Steady(k)
  <2>1. e.key \in Keys
    BY DEF Entry
  <2>2. CASE k = e.key
    <3>1. exec'[k] = Fresh([rows[k] EXCEPT !.state = "preparing"])
      BY <1>2, <2>1, <2>2 DEF PumpsEntry
    <3>2. exec'[k].pc = "opening"
      BY <3>1, FreshFields
    <3>3. exec[k].pc = "none"
      BY <1>2, <2>2 DEF PumpsEntry
    <3> QED BY <3>2, <3>3 DEF Steady
  <2>3. CASE k # e.key
    <3>1. exec'[k] = execs[k] /\ lease'[k] = lease[k]
      BY <1>2, <2>1, <2>3 DEF PumpsEntry
    <3> QED BY <3>1 DEF Steady
  <2> QED BY <2>2, <2>3
<1> QED BY <1>1, <1>2, PumpOutcome

\* A handler that only pumps is steady.
LEMMA PumpHereSteady ==
    ASSUME TypeInv, RowInv, mode # "down", UNCHANGED <<worker, provider>>,
           NEW suspended, NEW scheduled,
           Pump(job, pending, pendingAttempts, exec, activePromise, suspended,
                scheduled)
    PROVE  \A k \in Keys : Steady(k)
<1>1. /\ Matches(job, pending, pendingAttempts) /\ HasRow
  BY DEF RowInv
<1>2. \A k \in Keys : job[k].state = "queued" => exec[k].pc = "none"
  BY <1>1, IdleFiles
<1>3. \A k \in Keys : Aborted(k) => exec[k].abort # "none"
  BY DEF Aborted
<1> QED BY <1>1, <1>2, <1>3, QueueTypes, PumpSteady

\* cancelJobs is steady.
LEMMA CancelSteady ==
    ASSUME TypeInv, RowInv, mode # "down", UNCHANGED <<worker, provider>>,
           NEW S \in SUBSET Keys, NEW purging \in BOOLEAN, NEW code \in Codes,
           NEW s, NEW waits, NEW done,
           CancelJobs(S, purging, code, s, waits, done)
    PROVE  \A k \in Keys : Steady(k)
<1> DEFINE rows == RowsAfterCancel(S, purging, code)
           attempts == AttemptsAfterCancel(S)
           frames == FramesAfterCancel(S)
           entries == Compacted(attempts)
<1>1. HasRow
  BY DEF RowInv
<1>2. Matches(rows, entries, attempts)
  BY CancelMatches
<1>3. /\ rows \in [Keys -> Row] /\ frames \in [Keys -> Frame]
      /\ entries \in SUBSET Entry /\ attempts \in [Keys -> Nat]
  BY <1>1, CancelEach, QueueTypes
     DEF RowsAfterCancel, FramesAfterCancel, AttemptsAfterCancel, Compacted
<1>4. ASSUME NEW k \in Keys
      PROVE  /\ frames[k].pc = exec[k].pc
             /\ Aborted(k) => frames[k].abort # "none"
             /\ rows[k].state = "queued" => exec[k].pc = "none"
  <2>1. frames[k].pc = exec[k].pc
    BY <1>1, CancelEach
  <2>2. Aborted(k) => frames[k].abort # "none"
    BY QueueTypes DEF FramesAfterCancel, Aborted, Frame
  <2>3. job[k] \in Row /\ NoRow.state = "none"
    BY QueueTypes DEF NoRow
  <2>4. CancelledRow(k, code).state = "cancelled"
    BY <2>3 DEF CancelledRow, Row
  <2>5. rows[k].state = "queued" => job[k].state = "queued"
    BY <2>3, <2>4 DEF RowsAfterCancel
  <2> HIDE DEF rows, frames
  <2> QED BY <1>1, <2>1, <2>2, <2>5, IdleFiles
<1>5. \/ /\ exec' = frames /\ UNCHANGED lease
      \/ UNCHANGED <<exec, lease>>
      \/ Pump(rows, entries, attempts, frames, activePromise, suspensions,
              pumpScheduled)
  BY DEF CancelJobs
<1> HIDE DEF rows, entries, attempts, frames
<1>6. CASE exec' = frames /\ UNCHANGED lease
  BY <1>4, <1>6 DEF Steady
<1>7. CASE UNCHANGED <<exec, lease>>
  BY <1>7 DEF Steady, Aborted
<1>8. CASE Pump(rows, entries, attempts, frames, activePromise, suspensions,
                pumpScheduled)
  BY <1>2, <1>3, <1>4, <1>8, QueueTypes, PumpSteady
<1> QED BY <1>5, <1>6, <1>7, <1>8

\* So is the end of an attempt.
LEMMA FinishSteady ==
    ASSUME TypeInv, RowInv, mode # "down", NEW k \in Keys, FinishJob(k)
    PROVE  \A j \in Keys : Steady(j)
<1> DEFINE rows == IF purge[k] = exec[k].job.attempt
                   THEN [job EXCEPT ![k] = NoRow] ELSE job
           frames == [exec EXCEPT ![k] = NoFrame]
           owner == IF activePromise = exec[k].job.ts THEN 0 ELSE activePromise
<1>1. /\ Pump(rows, pending, pendingAttempts, frames, owner, suspensions,
              pumpScheduled)
      /\ UNCHANGED <<worker, provider>>
  BY DEF FinishJob
<1>2. HasRow /\ Matches(job, pending, pendingAttempts)
  BY DEF RowInv
<1>3. rows \in [Keys -> Row] /\ frames \in [Keys -> Frame]
  BY QueueTypes, EmptyValues
<1>4. exec[k].pc = "cleanup" /\ NoFrame.pc = "none" /\ NoRow.state = "none"
  BY DEF FinishJob, CleanupSettled, NoFrame, NoRow
<1>5. job[k].state # "queued"
  BY <1>2, <1>4, IdleFiles
<1>6. \A j \in Keys : rows[j] = job[j] \/ (rows[j] = NoRow /\ j = k)
  BY QueueTypes
<1>7. \A j \in Keys : \/ frames[j].pc = "none"
                      \/ /\ frames[j].pc = exec[j].pc
                         /\ Aborted(j) => frames[j].abort # "none"
  BY <1>4, QueueTypes DEF Aborted
<1> HIDE DEF rows, frames, owner
<1>8. \A j \in Keys : rows[j].state = "queued" => exec[j].pc = "none"
  BY <1>2, <1>4, <1>6, IdleFiles
<1>9. Matches(rows, pending, pendingAttempts)
  BY <1>2, <1>4, <1>5, <1>6, QueueTypes, OutsideQueue
<1> QED BY <1>1, <1>3, <1>7, <1>8, <1>9, QueueTypes, PumpSteady

\* An attempt that fails has left its pipeline.
LEMMA FailPipe ==
    ASSUME TypeInv, Pipe, NEW k \in Keys, NEW reason, Fail(k, reason),
           \A j \in Keys : j # k => /\ worker'[j] = worker[j]
                                    /\ provider'[j] = provider[j]
                                    /\ lease'[j] = lease[j]
    PROVE  Pipe'
<1>1. exec \in [Keys -> Frame] /\ exec[k] \in Frame
  BY QueueTypes
<1>2. exec' = EndFrame(k, reason)
  BY DEF Fail
<1>3. exec'[k].pc = "cleanup" /\ \A j \in Keys : j # k => exec'[j] = exec[j]
  BY <1>1, <1>2 DEF EndFrame, Frame
<1> QED BY <1>3 DEF Pipe, PipeOf, Aborted

\* The attempt's own steps.
LEMMA PipelinePipe ==
    ASSUME TypeInv, Pipe, NEW k \in Keys,
           \/ OpenSucceeds(k) \/ OpenFails(k)
           \/ WindowStarts(k) \/ ProviderAnswers(k) \/ ProviderFails(k)
           \/ TranscodeSucceeds(k) \/ TranscodeFails(k)
           \/ WatchdogExpires(k) \/ RequestTimesOut(k)
           \/ Interrupted(k) \/ WindowInterrupted(k)
           \/ LeaseReleased(k) \/ WorkerStopped(k) \/ OrphanSettles(k)
    PROVE  Pipe'
<1>1. /\ exec \in [Keys -> Frame] /\ exec[k] \in Frame
      /\ lease \in [Keys -> {"none", "opening", "held"}]
      /\ worker \in [Keys -> {"none", "decoding", "window"}]
      /\ provider \in [Keys -> {"idle", "busy", "orphan"}]
  BY DEF TypeInv, TypeOK, AttemptType
<1>2. PipeOf(k)
  BY DEF Pipe
<1>3. ASSUME PipeOf(k)',
             \A j \in Keys : j # k => /\ exec'[j] = exec[j]
                                      /\ worker'[j] = worker[j]
                                      /\ provider'[j] = provider[j]
                                      /\ lease'[j] = lease[j]
      PROVE  Pipe'
  BY <1>3 DEF Pipe, PipeOf, Aborted
<1>4. CASE OpenSucceeds(k)
  <2>1. CASE Owned(k)
    <3>1. /\ exec[k].pc = "opening" /\ lease' = [lease EXCEPT ![k] = "held"]
          /\ exec' = [exec EXCEPT ![k].pc = "transcribing",
                         ![k].job = [exec[k].job EXCEPT !.state = "transcribing"],
                         ![k].timer = "watchdog"]
          /\ worker' = [worker EXCEPT ![k] = "decoding"]
          /\ provider' = provider
      BY <1>4, <2>1 DEF OpenSucceeds
    <3>2. lease'[k] = "held" /\ provider'[k] = "idle" /\ exec'[k].pc = "transcribing"
      BY <1>1, <1>2, <3>1 DEF PipeOf, Frame
    <3>3. PipeOf(k)'
      BY <3>2 DEF PipeOf
    <3> QED BY <1>1, <1>3, <3>1, <3>3
  <2>2. CASE ~Owned(k)
    BY <1>1, <1>4, <2>2, FailPipe DEF OpenSucceeds
  <2> QED BY <2>1, <2>2
<1>5. CASE OpenFails(k)
  BY <1>1, <1>5, FailPipe DEF OpenFails
<1>6. CASE WindowStarts(k)
  <2>1. CASE Owned(k)
    <3>1. /\ exec[k].pc = "transcribing" /\ ~Aborted(k) /\ lease' = lease
          /\ exec' = [exec EXCEPT ![k].timer = "request", ![k].windows = @ + 1]
          /\ worker' = [worker EXCEPT ![k] = "window"]
          /\ provider' = [provider EXCEPT ![k] = "busy"]
      BY <1>6, <2>1 DEF WindowStarts
    <3>2. /\ lease'[k] = "held" /\ worker'[k] = "window"
          /\ exec'[k].pc = "transcribing"
      BY <1>1, <1>2, <3>1 DEF PipeOf, Frame
    <3>3. PipeOf(k)'
      BY <3>2 DEF PipeOf
    <3> QED BY <1>1, <1>3, <3>1, <3>3
  <2>2. CASE ~Owned(k)
    <3>1. /\ exec' = [exec EXCEPT ![k].abort = "failed"]
          /\ UNCHANGED <<lease, worker, provider>>
      BY <1>6, <2>2 DEF WindowStarts
    <3>2. exec'[k].abort = "failed" /\ exec'[k].pc = exec[k].pc
      BY <1>1, <3>1 DEF Frame
    <3>3. PipeOf(k)'
      BY <1>2, <3>1, <3>2 DEF PipeOf, Aborted
    <3> QED BY <1>1, <1>3, <3>1, <3>3
  <2> QED BY <2>1, <2>2
<1>7. CASE ProviderAnswers(k) /\ Owned(k)
  <2>1. /\ exec[k].pc = "transcribing" /\ ~Aborted(k) /\ lease' = lease
        /\ exec' = [exec EXCEPT ![k].timer = "watchdog"]
        /\ worker' = [worker EXCEPT ![k] = "decoding"]
        /\ provider' = [provider EXCEPT ![k] = "idle"]
    BY <1>7 DEF ProviderAnswers
  <2>2. /\ lease'[k] = "held" /\ provider'[k] = "idle"
        /\ exec'[k].pc = "transcribing"
    BY <1>1, <1>2, <2>1 DEF PipeOf, Frame
  <2>3. PipeOf(k)'
    BY <2>2 DEF PipeOf
  <2> QED BY <1>1, <1>3, <2>1, <2>3
<1>8. CASE (ProviderAnswers(k) /\ ~Owned(k)) \/ ProviderFails(k)
  <2>1. /\ exec[k].pc = "transcribing"
        /\ exec' = [exec EXCEPT ![k].timer = "none", ![k].abort = "failed"]
        /\ lease' = lease
        /\ worker' = [worker EXCEPT ![k] = "decoding"]
        /\ provider' = [provider EXCEPT ![k] = "idle"]
    BY <1>8 DEF ProviderAnswers, ProviderFails
  <2>2. exec'[k].abort = "failed" /\ exec'[k].pc = "transcribing"
    BY <1>1, <2>1 DEF Frame
  <2>3. PipeOf(k)'
    BY <2>2 DEF PipeOf, Aborted
  <2> QED BY <1>1, <1>3, <2>1, <2>3
<1>9. CASE TranscodeSucceeds(k)
  <2>1. CASE Owned(k)
    <3>1. exec' = EndFrame(k, "done") /\ worker' = [worker EXCEPT ![k] = "none"]
          /\ UNCHANGED <<lease, provider>>
      BY <1>9, <2>1 DEF TranscodeSucceeds
    <3>2. exec'[k].pc = "cleanup" /\ \A j \in Keys : j # k => exec'[j] = exec[j]
      BY <1>1, <3>1 DEF EndFrame, Frame
    <3>3. PipeOf(k)'
      BY <3>2 DEF PipeOf
    <3> QED BY <1>1, <1>3, <3>1, <3>2, <3>3
  <2>2. CASE ~Owned(k)
    BY <1>1, <1>9, <2>2, FailPipe DEF TranscodeSucceeds
  <2> QED BY <2>1, <2>2
<1>10. CASE TranscodeFails(k)
  BY <1>1, <1>10, FailPipe DEF TranscodeFails
<1>11. CASE WatchdogExpires(k)
  <2>1. /\ exec' = [exec EXCEPT ![k].timer = "none",
                                ![k].abort = "transcription_stalled"]
        /\ UNCHANGED <<lease, worker, provider>>
    BY <1>11 DEF WatchdogExpires, resources
  <2>2. exec'[k].abort # "none" /\ exec'[k].pc = exec[k].pc
    BY <1>1, <2>1 DEF Frame
  <2>3. PipeOf(k)'
    BY <1>2, <2>1, <2>2 DEF PipeOf, Aborted
  <2> QED BY <1>1, <1>3, <2>1, <2>3
<1>12. CASE RequestTimesOut(k) \/ WindowInterrupted(k)
  <2>1. /\ provider[k] = "busy" /\ lease' = lease
        /\ provider' = [provider EXCEPT ![k] = "orphan"]
        /\ worker' = [worker EXCEPT ![k] = "decoding"]
    BY <1>12 DEF RequestTimesOut, WindowInterrupted, LeaveWindow
  <2>2. /\ exec'[k].abort # "none" /\ exec'[k].pc = exec[k].pc
        /\ \A j \in Keys : j # k => exec'[j] = exec[j]
    <3>1. CASE RequestTimesOut(k)
      BY <1>1, <3>1 DEF RequestTimesOut, Frame
    <3>2. CASE WindowInterrupted(k)
      BY <3>2 DEF WindowInterrupted, Aborted
    <3> QED BY <1>12, <3>1, <3>2
  <2>3. PipeOf(k)'
    BY <1>2, <2>1, <2>2 DEF PipeOf, Aborted
  <2> QED BY <1>1, <1>3, <2>1, <2>2, <2>3
<1>13. CASE Interrupted(k)
  BY <1>1, <1>13, FailPipe DEF Interrupted, resources
<1>14. CASE LeaseReleased(k) \/ WorkerStopped(k)
  <2>1. /\ Aborted(k) /\ exec' = exec /\ provider' = provider
        /\ worker' \in {worker, [worker EXCEPT ![k] = "none"]}
        /\ lease' \in {lease, [lease EXCEPT ![k] = "none"]}
    BY <1>14 DEF LeaseReleased, WorkerStopped
  <2>2. PipeOf(k)'
    BY <1>1, <1>2, <2>1 DEF PipeOf, Aborted
  <2> QED BY <1>1, <1>3, <2>1, <2>2
<1>15. CASE OrphanSettles(k)
  <2>1. /\ exec' = exec /\ worker' = worker /\ lease' = lease
        /\ provider' = [provider EXCEPT ![k] = "idle"]
    BY <1>15 DEF OrphanSettles
  <2>2. PipeOf(k)'
    BY <1>1, <1>2, <2>1 DEF PipeOf, Aborted
  <2> QED BY <1>1, <1>3, <2>1, <2>2
<1> QED BY <1>4, <1>5, <1>6, <1>7, <1>8, <1>9, <1>10, <1>11, <1>12, <1>13, <1>14,
           <1>15

\* Every step keeps what an attempt holds.
LEMMA PipeStep ==
    ASSUME TypeInv, OwnInv, RowInv, Pipe, [Next]_vars
    PROVE  Pipe'
<1>0. ASSUME UNCHANGED <<exec, lease, worker, provider>>
      PROVE  Pipe'
  BY <1>0 DEF Pipe, PipeOf, Aborted
<1>1. CASE mode = "down"
  BY <1>0, <1>1, DownOnlyBoots DEF RowInv, Boot, vars, resources
<1>2. CASE mode # "down" /\ Microtask
  <2>1. CASE PumpMicrotask \/ \E s \in Slots : Confirm(s)
    <3>1. \A k \in Keys : Steady(k)
      <4>1. UNCHANGED <<worker, provider>>
        BY <2>1 DEF PumpMicrotask, Confirm
      <4> QED BY <1>2, <2>1, <4>1, PumpHereSteady DEF PumpMicrotask, Confirm
    <3> QED BY <3>1, SteadyPipe
  <2>2. ASSUME NEW c \in Clients, RemoveCancel(c)
        PROVE  Pipe'
    <3> DEFINE t == slot[c].torrent
    <3>1. CASE t \in cancelling
      BY <1>0, <2>2, <3>1 DEF RemoveCancel
    <3>2. CASE t \notin cancelling
      <4>1. /\ CancelJobs(RowsOf(t), FALSE, "cancelled", c, Wait("removal", t),
                          [slot[c] EXCEPT !.op = "deleting"])
            /\ UNCHANGED <<worker, provider>>
        BY <2>2, <3>2, Zenon DEF RemoveCancel
      <4>2. RowsOf(t) \in SUBSET Keys /\ "cancelled" \in Codes /\ FALSE \in BOOLEAN
        BY DEF RowsOf, FilesOf, Codes
      <4> HIDE DEF t
      <4>3. \A k \in Keys : Steady(k)
        BY <1>2, <4>1, <4>2, CancelSteady, Zenon
      <4> QED BY <4>3, SteadyPipe
    <3> QED BY <3>1, <3>2
  <2>3. CASE ApplyDisabled
    <3>1. /\ CancelJobs(AutomaticJobs, FALSE, "automatic_disabled", Setting,
                        Wait("disable", NoTorrent), NoSlot)
          /\ UNCHANGED <<worker, provider>>
      BY <2>3, Zenon DEF ApplyDisabled
    <3>2. /\ AutomaticJobs \in SUBSET Keys /\ "automatic_disabled" \in Codes
          /\ FALSE \in BOOLEAN
      BY DEF AutomaticJobs, Codes
    <3>3. \A k \in Keys : Steady(k)
      BY <1>2, <3>1, <3>2, CancelSteady, Zenon
    <3> QED BY <3>3, SteadyPipe
  <2>4. CASE \/ \E t \in Torrents : ReleaseCancelling(t) \/ ScanNext(t)
             \/ ApplyEnabled \/ ScanEnds
    BY <1>0, <2>4
       DEF ReleaseCancelling, ScanNext, ApplyEnabled, ScanEnds, resources
  <2>5. CASE \E k \in Keys : Interrupted(k) \/ WindowInterrupted(k)
    BY <2>5, PipelinePipe
  <2>6. CASE \E k \in Keys : FinishJob(k)
    BY <1>2, <2>6, FinishSteady, SteadyPipe
  <2> QED BY <1>2, <2>1, <2>2, <2>3, <2>4, <2>5, <2>6 DEF Microtask
<1>3. CASE \E c \in calls : RunCall(c)
  BY <1>0, <1>3 DEF RunCall, resources
<1>4. CASE mode # "down" /\ Request
  <2>1. CASE \/ \E t \in Torrents : QueueTorrent(t) \/ Register(t)
             \/ \E k \in Keys : QueueFile(k)
             \/ \E enabled \in BOOLEAN : SetAutomatic(enabled)
             \/ \E c \in Clients, t \in Torrents : RemoveStart(c, t)
    BY <1>0, <2>1
       DEF QueueTorrent, QueueFile, ManualCall, Register, SetAutomatic,
           RemoveStart, resources
  <2>2. ASSUME NEW c \in Clients, NEW k \in Keys, CancelFile(c, k)
        PROVE  Pipe'
    <3>1. /\ CancelJobs({k}, FALSE, "cancelled", c, Wait("file", k[1]), NoSlot)
          /\ UNCHANGED <<worker, provider>>
      BY <2>2, Zenon DEF CancelFile
    <3>2. {k} \in SUBSET Keys /\ "cancelled" \in Codes /\ FALSE \in BOOLEAN
      BY DEF Codes
    <3>3. \A j \in Keys : Steady(j)
      BY <1>4, <3>1, <3>2, CancelSteady, Zenon
    <3> QED BY <3>3, SteadyPipe
  <2>3. ASSUME NEW c \in Clients, NEW t \in Torrents, CancelTorrent(c, t)
        PROVE  Pipe'
    <3>1. /\ CancelJobs(RowsOf(t), TRUE, "cancelled", c, Wait("torrent", t), NoSlot)
          /\ UNCHANGED <<worker, provider>>
      BY <2>3, Zenon DEF CancelTorrent
    <3>2. RowsOf(t) \in SUBSET Keys /\ "cancelled" \in Codes /\ TRUE \in BOOLEAN
      BY DEF Codes, RowsOf, FilesOf
    <3>3. \A k \in Keys : Steady(k)
      BY <1>4, <3>1, <3>2, CancelSteady, Zenon
    <3> QED BY <3>3, SteadyPipe
  <2> QED BY <1>4, <2>1, <2>2, <2>3 DEF Request
<1>5. CASE mode # "down" /\ Timer
  <2>1. CASE \E s \in Slots : ConfirmTimesOut(s)
    <3>1. \A k \in Keys : Steady(k)
      <4>1. UNCHANGED <<worker, provider>>
        BY <2>1 DEF ConfirmTimesOut
      <4> QED BY <1>5, <2>1, <4>1, PumpHereSteady DEF ConfirmTimesOut
    <3> QED BY <3>1, SteadyPipe
  <2>2. CASE \E k \in Keys : WatchdogExpires(k) \/ RequestTimesOut(k)
    BY <2>2, PipelinePipe
  <2> QED BY <1>5, <2>1, <2>2 DEF Timer
<1>6. CASE Pipeline \/ Release
  BY <1>6, PipelinePipe DEF Pipeline, Release
<1>7. CASE mode # "down" /\ Environment
  <2>1. CASE Close
    <3>1. UNCHANGED <<lease, worker, provider>>
      BY <2>1 DEF Close, resources
    <3>2. ASSUME NEW k \in Keys
          PROVE  Steady(k)
      <4> DEFINE stopped == [exec[k] EXCEPT !.cancelled = TRUE,
                                !.abort = IF @ = "none" THEN "cancelled" ELSE @]
      <4>1. exec'[k] = exec[k] \/ exec'[k] = stopped
        BY <2>1 DEF Close
      <4>2. exec[k] \in Frame
        BY QueueTypes
      <4>3. stopped.pc = exec[k].pc /\ stopped.abort # "none"
        BY <4>2 DEF Frame
      <4> HIDE DEF stopped
      <4> QED BY <3>1, <4>1, <4>3 DEF Steady, Aborted
    <3> QED BY <3>2, SteadyPipe
  <2>2. CASE ~Close
    BY <1>0, <1>7, <2>2
       DEF Environment, AbandonCall, RemoveDelete, CacheCompleted, Evict, Boot,
           resources
  <2> QED BY <2>1, <2>2
<1>8. CASE Halt
  <2>1. \A k \in Keys : exec'[k].pc = "none"
    BY <1>8 DEF Halt, Each, NoFrame
  <2> QED BY <2>1 DEF Pipe, PipeOf
<1>9. CASE UNCHANGED vars
  BY <1>0, <1>9 DEF vars, resources
<1> QED BY <1>1, <1>2, <1>3, <1>4, <1>5, <1>6, <1>7, <1>8, <1>9 DEF Next

\* In every reachable state a frame holds what its place in the pipeline says.
LEMMA PipeInvariant == Spec => []Pipe
<1>1. Init => Pipe
  BY DEF Init, Pipe, PipeOf, Each, NoFrame
<1>2. TypeInv /\ OwnInv /\ QueueInv /\ Pipe /\ [Next]_vars => Pipe'
  BY PipeStep DEF QueueInv
<1> QED BY <1>1, <1>2, TypeInvariant, OwnInvariant, QueueInvariant, PTL DEF Spec

\* Only an attempt that completes writes captions.
LEMMA CaptionWrites ==
    ASSUME TypeInv, [Next]_vars, NEW k \in Keys
    PROVE  \/ artifact'[k] \in {artifact[k], NoArtifact}
           \/ /\ TranscodeSucceeds(k) /\ Owned(k)
              /\ artifact'[k] = [model |-> exec[k].job.model,
                                 ts |-> exec[k].job.ts]
<1>0. artifact \in [Keys -> Artifact]
  BY DEF TypeInv, TypeOK, DatabaseType
<1>1. ASSUME NEW S, NEW purging, NEW code, NEW s, NEW waits, NEW done,
             CancelJobs(S, purging, code, s, waits, done)
      PROVE  artifact'[k] \in {artifact[k], NoArtifact}
  <2>1. artifact' = [j \in Keys |-> IF j \in S /\ purging /\ ~Running(j)
                                    THEN NoArtifact ELSE artifact[j]]
    BY <1>1, Zenon DEF CancelJobs
  <2> QED BY <2>1
<1>2. CASE Microtask
  <2>1. CASE \/ PumpMicrotask \/ \E s \in Slots : Confirm(s)
             \/ \E t \in Torrents : ReleaseCancelling(t) \/ ScanNext(t)
             \/ ApplyEnabled \/ ScanEnds
             \/ \E j \in Keys : Interrupted(j) \/ WindowInterrupted(j)
    <3>1. artifact' = artifact
      BY <2>1 DEF PumpMicrotask, Confirm, ReleaseCancelling, ScanNext,
                  ApplyEnabled, ScanEnds, Interrupted, WindowInterrupted,
                  LeaveWindow, database
    <3> QED BY <3>1
  <2>2. ASSUME NEW c \in Clients, RemoveCancel(c)
        PROVE  artifact'[k] \in {artifact[k], NoArtifact}
    <3> DEFINE t == slot[c].torrent
    <3>1. CASE t \in cancelling
      BY <2>2, <3>1 DEF RemoveCancel
    <3>2. CASE t \notin cancelling
      <4>1. CancelJobs(RowsOf(t), FALSE, "cancelled", c, Wait("removal", t),
                       [slot[c] EXCEPT !.op = "deleting"])
        BY <2>2, <3>2, Zenon DEF RemoveCancel
      <4> QED BY <1>1, <4>1, Zenon
    <3> QED BY <3>1, <3>2
  <2>3. CASE ApplyDisabled
    <3>1. CancelJobs(AutomaticJobs, FALSE, "automatic_disabled", Setting,
                     Wait("disable", NoTorrent), NoSlot)
      BY <2>3, Zenon DEF ApplyDisabled
    <3> QED BY <1>1, <3>1, Zenon
  <2>4. CASE \E j \in Keys : FinishJob(j)
    BY <1>0, <2>4 DEF FinishJob
  <2> QED BY <1>2, <2>1, <2>2, <2>3, <2>4 DEF Microtask
<1>3. CASE Request
  <2>1. CASE \/ \E t \in Torrents : QueueTorrent(t) \/ Register(t)
             \/ \E j \in Keys : QueueFile(j)
             \/ \E enabled \in BOOLEAN : SetAutomatic(enabled)
             \/ \E c \in Clients, t \in Torrents : RemoveStart(c, t)
    <3>1. artifact' = artifact
      BY <2>1 DEF QueueTorrent, QueueFile, ManualCall, Register, SetAutomatic,
                  RemoveStart, database
    <3> QED BY <3>1
  <2>2. CASE \E c \in Clients, j \in Keys : CancelFile(c, j)
    BY <1>1, <2>2, Zenon DEF CancelFile
  <2>3. CASE \E c \in Clients, t \in Torrents : CancelTorrent(c, t)
    BY <1>1, <2>3, Zenon DEF CancelTorrent
  <2> QED BY <1>3, <2>1, <2>2, <2>3 DEF Request
<1>4. CASE Pipeline
  <2>1. ASSUME NEW j \in Keys, TranscodeSucceeds(j), Owned(j)
        PROVE  \/ artifact'[k] \in {artifact[k], NoArtifact}
               \/ /\ TranscodeSucceeds(k) /\ Owned(k)
                  /\ artifact'[k] = [model |-> exec[k].job.model,
                                     ts |-> exec[k].job.ts]
    <3>1. artifact' = [artifact EXCEPT ![j] = [model |-> exec[j].job.model,
                                               ts |-> exec[j].job.ts]]
      BY <2>1 DEF TranscodeSucceeds
    <3>2. CASE j = k
      BY <1>0, <2>1, <3>1, <3>2
    <3>3. CASE j # k
      BY <1>0, <3>1, <3>3
    <3> QED BY <3>2, <3>3
  <2>2. CASE ~\E j \in Keys : TranscodeSucceeds(j) /\ Owned(j)
    <3>1. artifact' = artifact
      BY <1>4, <2>2 DEF Pipeline, OpenSucceeds, OpenFails, WindowStarts,
                        ProviderAnswers, ProviderFails, TranscodeSucceeds,
                        TranscodeFails
    <3> QED BY <3>1
  <2> QED BY <2>1, <2>2
<1>5. CASE Environment
  <2>1. CASE \E c \in Clients : RemoveDelete(c)
    BY <2>1 DEF RemoveDelete
  <2>2. CASE ~\E c \in Clients : RemoveDelete(c)
    <3>1. artifact' = artifact
      BY <1>5, <2>2 DEF Environment, AbandonCall, CacheCompleted, Evict, Boot,
                        Close, database
    <3> QED BY <3>1
  <2> QED BY <2>1, <2>2
<1>6. CASE \/ \E c \in calls : RunCall(c)
           \/ Timer \/ Release \/ Halt \/ UNCHANGED vars
  <2>1. artifact' = artifact
    BY <1>6 DEF RunCall, Timer, ConfirmTimesOut, WatchdogExpires, RequestTimesOut,
                LeaveWindow, Release, LeaseReleased, WorkerStopped, OrphanSettles,
                Halt, vars, database
  <2> QED BY <2>1
<1> QED BY <1>2, <1>3, <1>4, <1>5, <1>6 DEF Next

\* Captions change only by the attempt that holds the row and the cache lease, with
\* every speech request answered: no cancelled, timed out or superseded attempt
\* writes them.
THEOREM CaptionsHaveOwner == Spec => CaptionsByOwner
<1> DEFINE Written ==
      \A k \in Keys : artifact'[k] \notin {artifact[k], NoArtifact} =>
          /\ job[k].state = "transcribing"
          /\ artifact'[k].ts = job[k].ts
          /\ lease[k] = "held" /\ provider[k] = "idle"
<1>1. TypeInv /\ QueueInv /\ Pipe /\ [Next]_vars => Written
  <2> SUFFICES ASSUME TypeInv, QueueInv, Pipe, [Next]_vars, NEW k \in Keys,
                      artifact'[k] \notin {artifact[k], NoArtifact}
               PROVE  /\ job[k].state = "transcribing"
                      /\ artifact'[k].ts = job[k].ts
                      /\ lease[k] = "held" /\ provider[k] = "idle"
    OBVIOUS
  <2>1. /\ TranscodeSucceeds(k) /\ Owned(k)
        /\ artifact'[k] = [model |-> exec[k].job.model, ts |-> exec[k].job.ts]
    BY CaptionWrites
  <2>2. exec[k].pc = "transcribing" /\ ~Aborted(k) /\ worker[k] = "decoding"
    BY <2>1 DEF TranscodeSucceeds
  <2>3. lease[k] = "held" /\ provider[k] = "idle"
    BY <2>2 DEF Pipe, PipeOf
  <2>4. /\ job[k].ts = exec[k].job.ts /\ job[k].state \notin {"queued", "preparing"}
        /\ Active(job[k])
    BY <2>1, <2>2 DEF QueueInv, RowInv, HasRow, RowOf, Owned
  <2> QED BY <2>1, <2>3, <2>4 DEF Active, ACTIVE_STATES
<1>2. TypeInv /\ QueueInv /\ Pipe /\ [Next]_vars => [Written]_vars
  BY <1>1
<1> QED BY <1>2, TypeInvariant, QueueInvariant, PipeInvariant, PTL
        DEF Spec, CaptionsByOwner

-----------------------------------------------------------------------------
(***************************************************************************)
(* Queue times.                                                            *)
(***************************************************************************)

\* lastQueueTimestampMs is past every queue time that is in use, no two rows have
\* the same, and the entries are ordered by the queue times of their rows.
TimesPast == mode # "down" => \A k \in Keys : job[k].ts <= lastTs
TimesDistinct ==
    \A j, k \in Keys : job[j].ts = job[k].ts /\ job[j].ts # 0 => j = k
Places ==
    \A e \in pending :
        /\ e.place <= lastTs
        /\ \A f \in pending : e.place <= f.place
                                  => job[e.key].ts <= job[f.key].ts
TimeInv == TimesPast /\ TimesDistinct /\ Places

\* A row that no call queues keeps its queue time, or is deleted.
LEMMA MoveTimes ==
    ASSUME TypeInv, RowInv, NEW k \in Keys, Move(k), ~Requeued(k)
    PROVE  /\ job'[k].ts \in {job[k].ts, 0}
           /\ job'[k].state = "queued" => job'[k] = job[k]
<1>1. /\ job[k] \in Row /\ exec[k].job \in Row
      /\ RowOf(job[k], exec[k])
  BY QueueTypes DEF RowInv, HasRow
<1>2. NoRow.ts = 0 /\ NoRow.state = "none"
  BY DEF NoRow
<1>3. CASE Kept(k) \/ Lost(k)
  BY <1>3 DEF Kept, Lost
<1>4. CASE Started(k)
  BY <1>1, <1>4 DEF Started, Row
<1>5. CASE Opened(k)
  BY <1>1, <1>5 DEF Opened, Row, RowOf
<1>6. CASE Left(k)
  <2>1. CASE job'[k] = job[k]
    BY <2>1
  <2>2. CASE /\ job'[k] = [exec[k].job EXCEPT !.state = job'[k].state,
                                              !.code = job'[k].code]
             /\ job'[k].state \in {"failed", "cancelled", "completed"}
    <3>1. job'[k].ts = exec[k].job.ts
      BY <1>1, <2>2 DEF Row
    <3> QED BY <1>1, <1>6, <2>2, <3>1 DEF RowOf, Left
  <2> QED BY <1>6, <2>1, <2>2 DEF Left
<1>7. CASE Stopped(k)
  <2>1. job'[k].ts = job[k].ts
    BY <1>1, <1>7 DEF Stopped, Row
  <2> QED BY <1>7, <2>1 DEF Stopped
<1>8. CASE Dropped(k) \/ Finished(k)
  BY <1>2, <1>8 DEF Dropped, Finished
<1>9. CASE Recovered(k)
  BY <1>1, <1>9, RecoveredQueued DEF Recovered, RecoveredRow, Row
<1> QED BY <1>3, <1>4, <1>5, <1>6, <1>7, <1>8, <1>9 DEF Move

\* Entries enter the queue by a call, or by a start.
LEMMA QueueGrows ==
    ASSUME TypeInv, mode # "down", [Next]_vars
    PROVE  \/ lastTs' = lastTs /\ pending' \subseteq pending
           \/ \E c \in calls : RunCall(c)
<1>1. ASSUME NEW rows, NEW entries, entries \subseteq pending, NEW attempts,
             NEW execs, NEW owner, NEW suspended, NEW scheduled,
             Pump(rows, entries, attempts, execs, owner, suspended, scheduled)
      PROVE  pending' \subseteq pending
  BY <1>1 DEF Pump
<1>2. ASSUME NEW S, NEW purging, NEW code, NEW s, NEW waits, NEW done,
             CancelJobs(S, purging, code, s, waits, done)
      PROVE  pending' \subseteq pending
  <2> DEFINE entries == Compacted(AttemptsAfterCancel(S))
  <2>1. entries \subseteq pending
    BY DEF Compacted
  <2>2. \/ pending' = entries
        \/ UNCHANGED queue
        \/ Pump(RowsAfterCancel(S, purging, code), entries,
                AttemptsAfterCancel(S), FramesAfterCancel(S), activePromise,
                suspensions, pumpScheduled)
    BY <1>2, Zenon DEF CancelJobs
  <2> HIDE DEF entries
  <2>3. CASE Pump(RowsAfterCancel(S, purging, code), entries,
                  AttemptsAfterCancel(S), FramesAfterCancel(S), activePromise,
                  suspensions, pumpScheduled)
    BY <1>1, <2>1, <2>3, Zenon
  <2> QED BY <2>1, <2>2, <2>3 DEF queue
<1>3. CASE Microtask
  <2>1. CASE PumpMicrotask \/ \E s \in Slots : Confirm(s)
    BY <1>1, <2>1 DEF PumpMicrotask, Confirm
  <2>2. ASSUME NEW c \in Clients, RemoveCancel(c)
        PROVE  lastTs' = lastTs /\ pending' \subseteq pending
    <3> DEFINE t == slot[c].torrent
    <3>1. CASE t \in cancelling
      BY <2>2, <3>1 DEF RemoveCancel, queue
    <3>2. CASE t \notin cancelling
      <4>1. /\ CancelJobs(RowsOf(t), FALSE, "cancelled", c, Wait("removal", t),
                          [slot[c] EXCEPT !.op = "deleting"])
            /\ lastTs' = lastTs
        BY <2>2, <3>2, Zenon DEF RemoveCancel
      <4> QED BY <1>2, <4>1, Zenon
    <3> QED BY <3>1, <3>2
  <2>3. CASE ApplyDisabled
    <3>1. /\ CancelJobs(AutomaticJobs, FALSE, "automatic_disabled", Setting,
                        Wait("disable", NoTorrent), NoSlot)
          /\ lastTs' = lastTs
      BY <2>3, Zenon DEF ApplyDisabled
    <3> QED BY <1>2, <3>1, Zenon
  <2>4. CASE \E k \in Keys : FinishJob(k)
    BY <1>1, <2>4 DEF FinishJob
  <2>5. CASE \/ \E t \in Torrents : ReleaseCancelling(t) \/ ScanNext(t)
             \/ ApplyEnabled \/ ScanEnds
             \/ \E k \in Keys : Interrupted(k) \/ WindowInterrupted(k)
    BY <2>5 DEF ReleaseCancelling, ScanNext, ApplyEnabled, ScanEnds, Interrupted,
                WindowInterrupted, LeaveWindow, ExecUnchanged, queue
  <2> QED BY <1>3, <2>1, <2>2, <2>3, <2>4, <2>5 DEF Microtask
<1>4. CASE Request
  <2>1. CASE \/ \E t \in Torrents : QueueTorrent(t) \/ Register(t)
             \/ \E k \in Keys : QueueFile(k)
             \/ \E enabled \in BOOLEAN : SetAutomatic(enabled)
             \/ \E c \in Clients, t \in Torrents : RemoveStart(c, t)
    BY <2>1 DEF QueueTorrent, QueueFile, ManualCall, Register, SetAutomatic,
                RemoveStart, queue
  <2>2. CASE \E c \in Clients, k \in Keys : CancelFile(c, k)
    BY <1>2, <2>2, Zenon DEF CancelFile
  <2>3. CASE \E c \in Clients, t \in Torrents : CancelTorrent(c, t)
    BY <1>2, <2>3, Zenon DEF CancelTorrent
  <2> QED BY <1>4, <2>1, <2>2, <2>3 DEF Request
<1>5. CASE Timer
  <2>1. CASE \E s \in Slots : ConfirmTimesOut(s)
    BY <1>1, <2>1 DEF ConfirmTimesOut
  <2>2. CASE \E k \in Keys : WatchdogExpires(k) \/ RequestTimesOut(k)
    BY <2>2 DEF WatchdogExpires, RequestTimesOut, LeaveWindow, ExecUnchanged, queue
  <2> QED BY <1>5, <2>1, <2>2 DEF Timer
<1>6. CASE Pipeline \/ Release
  BY <1>6 DEF Pipeline, Release, OpenSucceeds, OpenFails, WindowStarts,
              ProviderAnswers, ProviderFails, TranscodeSucceeds, TranscodeFails,
              LeaseReleased, WorkerStopped, OrphanSettles, ExecUnchanged, queue
<1>7. CASE Environment
  BY <1>7 DEF Environment, AbandonCall, RemoveDelete, CacheCompleted, Evict, Boot,
              Close, queue
<1>8. CASE Halt
  BY <1>8 DEF Halt
<1>9. CASE UNCHANGED vars
  BY <1>9 DEF vars, queue
<1> QED BY <1>3, <1>4, <1>5, <1>6, <1>7, <1>8, <1>9 DEF Next

\* A step that queues nothing keeps the times and their order.
LEMMA TimesKept ==
    ASSUME TypeInv, TypeInv', RowInv, RowInv', TimeInv, \A k \in Keys : Move(k),
           mode # "down", lastTs' = lastTs, pending' \subseteq pending
    PROVE  TimeInv'
<1>1. \A k \in Keys : job[k] \in Row /\ job'[k] \in Row
  BY DEF TypeInv, TypeOK, DatabaseType
<1>2. \A k \in Keys : job[k].ts \in Nat /\ job'[k].ts \in Nat /\ job[k].ts <= lastTs
  BY <1>1 DEF Row, TimeInv, TimesPast
<1>3. lastTs \in Nat /\ \A e \in pending : e.key \in Keys
  BY QueueTypes DEF Entry
<1>4. ASSUME NEW k \in Keys
      PROVE  /\ job'[k].ts \in {job[k].ts, 0}
             /\ job'[k].state = "queued" => job'[k] = job[k]
  <2>1. ~Requeued(k)
    BY <1>2, <1>3 DEF Requeued
  <2> QED BY <2>1, MoveTimes
<1>5. TimesPast'
  BY <1>2, <1>3, <1>4 DEF TimesPast
<1>6. TimesDistinct'
  BY <1>4 DEF TimeInv, TimesDistinct
<1>7. \A e \in pending' : job'[e.key].ts = job[e.key].ts
  <2>1. CASE mode' = "down"
    BY <2>1 DEF RowInv, DownIdle
  <2>2. CASE mode' # "down"
    <3>1. \A e \in pending' : job'[e.key].state = "queued"
      BY <2>2 DEF RowInv, Matches
    <3> QED BY <1>3, <1>4, <3>1
  <2> QED BY <2>1, <2>2
<1>8. Places'
  BY <1>7 DEF TimeInv, Places
<1> QED BY <1>5, <1>6, <1>8 DEF TimeInv

\* The files of a call are queued in file order, one queue time after the other.
LEMMA RanksDistinct ==
    ASSUME TypeInv, RowInv, NEW c \in calls,
           NEW j \in QueuedBy(c), NEW k \in QueuedBy(c),
           Cardinality({i \in QueuedBy(c) : i[2] <= j[2]})
               = Cardinality({i \in QueuedBy(c) : i[2] <= k[2]})
    PROVE  j = k
<1> DEFINE upTo(i) == {h \in QueuedBy(c) : h[2] <= i[2]}
<1>1. QueuedBy(c) \in SUBSET Keys
  BY QueuedByKeys DEF TypeInv, TypeOK, RequestType
<1>2. \A i \in QueuedBy(c) : i[1] = c.torrent
  <2>1. QueuedBy(c) \subseteq c.files
    BY DEF QueuedBy
  <2> QED BY <2>1 DEF RowInv, CallsSane, FilesOf
<1>3. \A i \in QueuedBy(c) : i[2] \in Nat /\ i = <<i[1], i[2]>>
  BY <1>1, KeysAssumption
<1>4. \A i \in QueuedBy(c) : i \in upTo(i)
  BY <1>3
<1>5. IsFiniteSet(upTo(j)) /\ IsFiniteSet(upTo(k))
  BY <1>1, KeysCounted
<1>6. CASE j[2] <= k[2]
  <2>1. upTo(j) \subseteq upTo(k)
    BY <1>3, <1>6
  <2>2. Cardinality(upTo(k)) = Cardinality(upTo(j))
    OBVIOUS
  <2> HIDE DEF upTo
  <2>3. upTo(k) = upTo(j)
    BY <1>5, <2>1, <2>2, FS_Subset
  <2>4. k \in upTo(j)
    BY <1>4, <2>3
  <2>5. k[2] <= j[2]
    BY <2>4 DEF upTo
  <2> QED BY <1>2, <1>3, <1>6, <2>5
<1>7. CASE k[2] <= j[2]
  <2>1. upTo(k) \subseteq upTo(j)
    BY <1>3, <1>7
  <2>2. Cardinality(upTo(k)) = Cardinality(upTo(j))
    OBVIOUS
  <2> HIDE DEF upTo
  <2>3. upTo(j) = upTo(k)
    BY <1>5, <2>1, <2>2, FS_Subset
  <2>4. j \in upTo(k)
    BY <1>4, <2>3
  <2>5. j[2] <= k[2]
    BY <2>4 DEF upTo
  <2> QED BY <1>2, <1>3, <1>7, <2>5
<1> QED BY <1>3, <1>6, <1>7

\* A call gives each file it queues a time of its own, past all that are in use.
LEMMA RunCallTimes ==
    ASSUME TypeInv, RowInv, TimeInv, NEW c \in calls, RunCall(c)
    PROVE  TimeInv'
<1> DEFINE new == QueuedBy(c)
           rank(k) == Cardinality({j \in new : j[2] <= k[2]})
           ts(k) == lastTs + Cardinality({j \in new : j[2] <= k[2]})
           pushed == {k \in new : pendingAttempts[k] = 0 /\ exec[k].pc = "none"}
           item(k) == [key |-> k, attempt |-> job[k].attempt + 1, place |-> ts(k)]
<1>1. mode # "down" /\ mode' = mode
  BY DEF RunCall
<1>2. /\ job' = [k \in Keys |-> IF k \in new THEN QueuedRow(k, c.trigger, ts(k))
                                             ELSE job[k]]
      /\ pending' = pending \cup {item(k) : k \in pushed}
      /\ lastTs' = lastTs + Cardinality(new)
  BY DEF RunCall
<1>3. new \in SUBSET Keys /\ \A k \in new : ~Active(job[k])
  BY <1>1, QueuedFiles
<1>4. lastTs \in Nat /\ Cardinality(new) \in Nat
  BY <1>3, QueueTypes, KeysCounted
<1>5. \A k \in new : rank(k) \in Nat \ {0} /\ rank(k) <= Cardinality(new)
  BY PlaceInCall
<1>6. \A j, k \in new : rank(j) = rank(k) => j = k
  BY RanksDistinct
<1>7. \A k \in new : ts(k) = lastTs + rank(k)
  OBVIOUS
<1>8. \A k \in new : job'[k].ts = ts(k)
  BY <1>2, <1>3 DEF QueuedRow
<1>9. \A k \in Keys : k \notin new => job'[k] = job[k]
  BY <1>2
<1>10. \A k \in new : item(k).key = k /\ item(k).place = ts(k)
  OBVIOUS
<1>11. \A e \in pending' : e \in pending \/ \E k \in new : e = item(k)
  BY <1>2
<1> HIDE DEF rank, ts, item, pushed
<1>12. \A k \in Keys : job[k].ts \in Nat /\ job[k].ts <= lastTs
  <2>1. \A k \in Keys : job[k] \in Row /\ job[k].ts <= lastTs
    BY <1>1, QueueTypes DEF TimeInv, TimesPast
  <2> QED BY <2>1 DEF Row
<1>13. \A e \in pending : /\ e.key \in Keys /\ e.key \notin new
                          /\ e.place \in Nat /\ e.place <= lastTs
  <2>1. \A e \in pending : e.key \in Keys /\ e.place \in Nat
    BY QueueTypes DEF Entry
  <2>2. \A e \in pending : job[e.key].state = "queued"
    BY <1>1 DEF RowInv, Matches
  <2>3. \A e \in pending : e.place <= lastTs
    BY DEF TimeInv, Places
  <2> QED BY <1>3, <2>1, <2>2, <2>3 DEF Active, ACTIVE_STATES
<1>14. \A k \in new : ts(k) \in Nat /\ ts(k) > lastTs /\ ts(k) <= lastTs'
  BY <1>2, <1>4, <1>5, <1>7
<1> HIDE DEF new
<1>15. lastTs' \in Nat /\ lastTs <= lastTs'
  BY <1>2, <1>4
<1>16. TimesPast'
  BY <1>3, <1>4, <1>8, <1>9, <1>12, <1>14, <1>15 DEF TimesPast
<1>17. TimesDistinct'
  <2> SUFFICES ASSUME NEW j \in Keys, NEW k \in Keys, job'[j].ts = job'[k].ts,
                      job'[j].ts # 0
               PROVE  j = k
    BY DEF TimesDistinct
  <2>1. CASE j \in new /\ k \in new
    BY <1>4, <1>5, <1>6, <1>7, <1>8, <2>1
  <2>2. CASE j \in new /\ k \notin new
    BY <1>4, <1>8, <1>9, <1>12, <1>14, <2>2
  <2>3. CASE j \notin new /\ k \in new
    BY <1>4, <1>8, <1>9, <1>12, <1>14, <2>3
  <2>4. CASE j \notin new /\ k \notin new
    BY <1>9, <2>4 DEF TimeInv, TimesDistinct
  <2> QED BY <2>1, <2>2, <2>3, <2>4
<1>18. Places'
  <2>1. \A e \in pending' : e.place <= lastTs'
    <3>1. \A e \in pending : e.place <= lastTs'
      BY <1>4, <1>13, <1>15
    <3>2. \A k \in new : item(k).place <= lastTs'
      BY <1>10, <1>14
    <3> QED BY <1>11, <3>1, <3>2
  <2>2. ASSUME NEW e \in pending', NEW f \in pending', e.place <= f.place
        PROVE  job'[e.key].ts <= job'[f.key].ts
    <3>1. CASE e \in pending /\ f \in pending
      <4>1. job'[e.key] = job[e.key] /\ job'[f.key] = job[f.key]
        BY <1>9, <1>13, <3>1
      <4> QED BY <2>2, <3>1, <4>1 DEF TimeInv, Places
    <3>2. ASSUME e \in pending, NEW k \in new, f = item(k)
          PROVE  job'[e.key].ts <= job'[f.key].ts
      <4>1. job'[e.key] = job[e.key] /\ e.key \in Keys /\ f.key = k
        BY <1>9, <1>10, <1>13, <3>2
      <4> QED BY <1>4, <1>8, <1>12, <1>14, <4>1
    <3>3. ASSUME f \in pending, NEW k \in new, e = item(k)
          PROVE  FALSE
      BY <1>4, <1>10, <1>13, <1>14, <2>2, <3>3
    <3>4. ASSUME NEW j \in new, NEW k \in new, e = item(j), f = item(k)
          PROVE  job'[e.key].ts <= job'[f.key].ts
      BY <1>8, <1>10, <2>2, <3>4
    <3> QED BY <1>11, <3>1, <3>2, <3>3, <3>4
  <2> QED BY <2>1, <2>2 DEF Places
<1> QED BY <1>16, <1>17, <1>18 DEF TimeInv

\* start() numbers the queued rows by their queue times: the places are in the order
\* of the times and not past the last of them.
LEMMA PlacesRecovered ==
    ASSUME TypeInv, RowInv, TimesDistinct, NEW k \in Keys, job[k].state = "queued"
    PROVE  /\ RecoveredPlace(k) \in Nat
           /\ RecoveredPlace(k) <= job[k].ts
           /\ \A j \in Keys : /\ job[j].state = "queued"
                              /\ RecoveredPlace(k) <= RecoveredPlace(j)
                              => job[k].ts <= job[j].ts
<1> DEFINE S(i) == {j \in Keys : job[j].state = "queued" /\ job[j].ts <= job[i].ts}
           n == job[k].ts
           f == [j \in S(k) |-> job[j].ts]
<1>1. \A j \in Keys : job[j] \in Row /\ job[j].ts \in Nat
  BY QueueTypes DEF Row
<1>2. \A j \in Keys : job[j].state = "queued" => job[j].ts # 0
  BY DEF RowInv, RowsTimed, Timed
<1>3. \A i \in Keys : IsFiniteSet(S(i)) /\ Cardinality(S(i)) \in Nat
  BY KeysCounted
<1>4. Cardinality(S(k)) <= n
  <2>1. f \in [S(k) -> 1..n]
    BY <1>1, <1>2
  <2>2. \A i, j \in S(k) : f[i] = f[j] => i = j
    BY <1>2 DEF TimesDistinct
  <2> HIDE DEF f
  <2>3. f \in Injection(S(k), 1..n)
    BY <2>1, <2>2 DEF Injection, IsInjective
  <2>4. IsFiniteSet(1..n) /\ Cardinality(1..n) = n
    <3>1. n \in Nat
      BY <1>1
    <3> HIDE DEF n
    <3> QED BY <3>1, FS_Interval
  <2> HIDE DEF S, n
  <2> QED BY <2>3, <2>4, FS_Injection
<1>5. ASSUME NEW j \in Keys, job[j].state = "queued",
             Cardinality(S(k)) <= Cardinality(S(j)), ~(job[k].ts <= job[j].ts)
      PROVE  FALSE
  <2>1. S(j) \subseteq S(k)
    BY <1>1, <1>5
  <2>2. k \in S(k) /\ k \notin S(j)
    BY <1>1, <1>5
  <2>3. IsFiniteSet(S(k)) /\ Cardinality(S(k)) \in Nat /\ Cardinality(S(j)) \in Nat
    BY <1>3
  <2> HIDE DEF S
  <2>4. Cardinality(S(j)) <= Cardinality(S(k))
        /\ (Cardinality(S(k)) = Cardinality(S(j)) => S(k) = S(j))
    BY <2>1, <2>3, FS_Subset
  <2> QED BY <1>5, <2>2, <2>3, <2>4
<1> QED BY <1>3, <1>4, <1>5 DEF RecoveredPlace

\* start() begins with the last queue time in the table.
LEMMA BootTimes ==
    ASSUME TypeInv, RowInv, TimeInv, NEW m \in Models, Boot(m)
    PROVE  TimeInv'
<1> DEFINE again == {k \in Keys : RecoveredRow(job[k]).state = "queued"}
           item(k) == [key |-> k, attempt |-> job[k].attempt,
                       place |-> RecoveredPlace(k)]
<1>1. \A k \in Keys : job[k] \in Row /\ job[k].ts \in Nat
  BY QueueTypes DEF Row
<1>2. \A k \in Keys : job'[k].ts = job[k].ts
  <2>1. \A k \in Keys : job'[k] = RecoveredRow(job[k])
    BY DEF Boot
  <2> QED BY <1>1, <2>1 DEF RecoveredRow, Row
<1>3. /\ pending' = {item(k) : k \in again}
      /\ \A k \in Keys : job[k].ts <= lastTs'
  BY DEF Boot
<1>4. lastTs' \in Nat
  <2>1. lastTs' \in {0} \cup {job[k].ts : k \in Keys}
    BY DEF Boot
  <2> QED BY <1>1, <2>1
<1>5. \A k \in again : k \in Keys /\ job[k].state = "queued"
  BY <1>1, RecoveredQueued
<1>6. \A k \in again : item(k).key = k /\ item(k).place = RecoveredPlace(k)
  OBVIOUS
<1> HIDE DEF again, item
<1>7. TimesPast'
  BY <1>2, <1>3 DEF TimesPast
<1>8. TimesDistinct'
  BY <1>2 DEF TimeInv, TimesDistinct
<1>9. Places'
  <2>1. ASSUME NEW e \in pending'
        PROVE  e.place <= lastTs'
    <3>1. PICK k \in again : e = item(k)
      BY <1>3
    <3>2. /\ RecoveredPlace(k) \in Nat
          /\ RecoveredPlace(k) <= job[k].ts
      BY <1>5, PlacesRecovered DEF TimeInv
    <3> QED BY <1>1, <1>3, <1>4, <1>5, <1>6, <3>1, <3>2
  <2>2. ASSUME NEW e \in pending', NEW f \in pending', e.place <= f.place
        PROVE  job'[e.key].ts <= job'[f.key].ts
    <3>1. PICK j \in again, k \in again : e = item(j) /\ f = item(k)
      BY <1>3
    <3>2. RecoveredPlace(j) <= RecoveredPlace(k)
      BY <1>6, <2>2, <3>1
    <3>3. job[j].ts <= job[k].ts
      BY <1>5, <3>2, PlacesRecovered DEF TimeInv
    <3> QED BY <1>2, <1>5, <1>6, <3>1, <3>3
  <2> QED BY <2>1, <2>2 DEF Places
<1> QED BY <1>7, <1>8, <1>9 DEF TimeInv

\* Every step keeps the order of the queue times.
LEMMA TimeStep ==
    ASSUME TypeInv, OwnInv, QueueInv, TimeInv, [Next]_vars
    PROVE  TimeInv'
<1>1. TypeInv'
  BY StepType
<1>2. RowInv'
  BY QueueStep DEF QueueInv
<1>3. \A k \in Keys : Move(k)
  BY MoveStep DEF QueueInv
<1>4. RowInv
  BY DEF QueueInv
<1>5. CASE mode = "down"
  <2>1. UNCHANGED vars \/ \E m \in Models : Boot(m)
    BY <1>4, <1>5, DownOnlyBoots DEF RowInv
  <2>2. CASE UNCHANGED vars
    <3>1. UNCHANGED <<job, pending, lastTs, mode>>
      BY <2>2 DEF vars, database, queue
    <3> QED BY <3>1 DEF TimeInv, TimesPast, TimesDistinct, Places
  <2> QED BY <1>4, <2>1, <2>2, BootTimes
<1>6. CASE mode # "down" /\ lastTs' = lastTs /\ pending' \subseteq pending
  BY <1>1, <1>2, <1>3, <1>4, <1>6, TimesKept
<1>7. CASE \E c \in calls : RunCall(c)
  BY <1>4, <1>7, RunCallTimes
<1> QED BY <1>5, <1>6, <1>7, QueueGrows

\* Queue times are past, distinct and in the order of the queue in every state.
LEMMA TimeInvariant == Spec => []TimeInv
<1>1. Init => TimeInv
  BY DEF Init, TimeInv, TimesPast, TimesDistinct, Places, Each, NoRow
<1>2. TypeInv /\ OwnInv /\ QueueInv /\ TimeInv /\ [Next]_vars => TimeInv'
  BY TimeStep
<1> QED BY <1>1, <1>2, TypeInvariant, OwnInvariant, QueueInvariant, PTL DEF Spec

\* A row that becomes queued was queued by a call.
LEMMA QueuedByCall ==
    ASSUME TypeInv, RowInv, NEW k \in Keys, Move(k),
           job[k].state # "queued", job'[k].state = "queued"
    PROVE  Requeued(k)
BY MoveTimes

\* A row that goes from queued to preparing was started by pump().
LEMMA PreparedByPump ==
    ASSUME TypeInv, RowInv, NEW k \in Keys, Move(k),
           job[k].state = "queued", job'[k].state = "preparing"
    PROVE  Started(k)
<1>1. exec[k].pc = "none" /\ Active(job[k])
  BY DEF RowInv, HasRow, RowOf, Active, ACTIVE_STATES
<1>2. RecoveredRow(job[k]).state # "preparing"
  BY QueueTypes DEF RecoveredRow, Row
<1>3. NoRow.state = "none"
  BY DEF NoRow
<1> QED BY <1>1, <1>2, <1>3
        DEF Move, Kept, Requeued, Opened, Left, Stopped, Dropped, Finished,
            Recovered, Lost

\* Chapters start in the order they were queued, whatever is cancelled, purged or
\* recovered in between; audio that may have been sent, or was stopped by the user,
\* is queued again only on request and then with a queue time of its own.
THEOREM QueueInOrder == Spec => StartsInOrder
<1> DEFINE First ==
      \A k \in Keys : job[k].state = "queued" /\ job'[k].state = "preparing"
          => \A j \in Keys : job[j].state = "queued" /\ job'[j] = job[j]
                                => job[k].ts <= job[j].ts
           Once ==
      \A k \in Keys :
          /\ \/ job[k].state \in {"preparing", "transcribing", "failed"}
             \/ job[k].state = "cancelled" /\ job[k].code = "cancelled"
          /\ job'[k].state = "queued"
          => job'[k].trigger = "manual" /\ job'[k].ts # job[k].ts
<1>1. TypeInv /\ OwnInv /\ QueueInv /\ TimeInv /\ [Next]_vars => First
  <2> SUFFICES ASSUME TypeInv, OwnInv, QueueInv, TimeInv, [Next]_vars,
                      NEW k \in Keys, NEW j \in Keys,
                      job[k].state = "queued", job'[k].state = "preparing",
                      job[j].state = "queued", job'[j] = job[j]
               PROVE  job[k].ts <= job[j].ts
    OBVIOUS
  <2>1. RowInv /\ RowInv' /\ \A i \in Keys : Move(i)
    BY MoveStep, QueueStep DEF QueueInv
  <2>2. Started(k)
    BY <2>1, PreparedByPump
  <2>3. PICK e \in pending :
          /\ e.key = k
          /\ \A f \in pending' : f \in pending /\ e.place <= f.place
    BY <2>2 DEF Started, FirstIn
  <2>4. mode' # "down"
    <3>1. exec'[k].pc = "opening"
      BY <2>2 DEF Started
    <3>2. mode' = "down" => exec'[k].pc = "none"
      BY <2>1 DEF RowInv, DownIdle, Each, NoFrame
    <3> QED BY <3>1, <3>2
  <2>5. PICK f \in pending' : f.key = j
    BY <2>1, <2>4 DEF RowInv, Matches
  <2> QED BY <2>3, <2>5 DEF TimeInv, Places
<1>2. TypeInv /\ OwnInv /\ QueueInv /\ TimeInv /\ [Next]_vars => Once
  <2> SUFFICES ASSUME TypeInv, OwnInv, QueueInv, TimeInv, [Next]_vars,
                      NEW k \in Keys,
                      \/ job[k].state \in {"preparing", "transcribing", "failed"}
                      \/ job[k].state = "cancelled" /\ job[k].code = "cancelled",
                      job'[k].state = "queued"
               PROVE  job'[k].trigger = "manual" /\ job'[k].ts # job[k].ts
    OBVIOUS
  <2>1. TypeInv' /\ RowInv /\ \A i \in Keys : Move(i)
    BY MoveStep, StepType DEF QueueInv
  <2>2. Requeued(k)
    BY <2>1, QueuedByCall
  <2>3. job'[k] \in Row /\ job[k] \in Row /\ lastTs \in Nat
    BY <2>1, QueueTypes DEF TypeInv, TypeOK, DatabaseType
  <2>4. job[k].ts <= lastTs /\ job'[k].ts > lastTs
    BY <2>2 DEF Requeued, TimeInv, TimesPast
  <2>5. LeftAlone(k)
    BY <2>2 DEF LeftAlone, Requeued, Active, ACTIVE_STATES
  <2>6. job'[k].trigger = "manual"
    BY <2>2, <2>3, <2>5 DEF Requeued, Row, Triggers
  <2> QED BY <2>3, <2>4, <2>6 DEF Row
<1>3. TypeInv /\ OwnInv /\ QueueInv /\ TimeInv /\ [Next]_vars
          => [First]_vars /\ [Once]_vars
  BY <1>1, <1>2
<1> QED BY <1>3, TypeInvariant, OwnInvariant, QueueInvariant, TimeInvariant, PTL
        DEF Spec, StartsInOrder, FirstComeFirstServed, NeverReplayed

-----------------------------------------------------------------------------
(***************************************************************************)
(* What was answered.                                                      *)
(***************************************************************************)

\* A row that has ended changes only by a new attempt, or is deleted.
LEMMA EndedRow ==
    ASSUME TypeInv, RowInv, TimeInv, NEW k \in Keys, Move(k),
           job[k].state \in TERMINAL_STATES, job'[k].ts = job[k].ts
    PROVE  job'[k] = job[k]
<1>1. job[k] \in Row /\ lastTs \in Nat /\ ~Active(job[k]) /\ job[k].state # "queued"
  BY QueueTypes DEF TERMINAL_STATES, Active, ACTIVE_STATES
<1>2. job[k].ts # 0 /\ NoRow.ts = 0
  BY DEF RowInv, RowsTimed, Timed, TERMINAL_STATES, NoRow
<1>3. ~Requeued(k)
  <2>1. mode # "down" => job[k].ts <= lastTs
    BY DEF TimeInv, TimesPast
  <2> QED BY <1>1, <2>1 DEF Requeued, Row
<1>4. RecoveredRow(job[k]) = job[k]
  BY DEF RecoveredRow, TERMINAL_STATES
<1>5. ~Started(k) /\ ~Opened(k) /\ ~Stopped(k)
  BY <1>1 DEF Started, Opened, Stopped, Owned
<1>6. ~Dropped(k)
  BY <1>2 DEF Dropped
<1>7. CASE Left(k) \/ Finished(k)
  BY <1>1, <1>2, <1>7 DEF Left, Finished, Owned
<1>8. CASE Kept(k) \/ Recovered(k) \/ Lost(k)
  BY <1>4, <1>8 DEF Kept, Recovered, Lost
<1> QED BY <1>3, <1>5, <1>6, <1>7, <1>8 DEF Move

\* The requests that hold a torrent in cancellingTorrents: one a torrent, and no
\* release is due while it waits.  A deferred release has its torrent there too.
CancelOps == {"torrent", "removal"}
Cancelling ==
    \A s \in Slots : slot[s].op \in CancelOps =>
        /\ slot[s].torrent \in cancelling
        /\ deferred[slot[s].torrent] = 0
        /\ \A r \in Slots : slot[r].op \in CancelOps
                            /\ slot[r].torrent = slot[s].torrent => r = s
DeferredHeld == \A t \in Torrents : deferred[t] # 0 => t \in cancelling
HoldInv == Cancelling /\ DeferredHeld

\* A purge that waits has already deleted every row and caption of its torrent, but
\* for the file whose attempt it waits for, which is marked.
PurgedOrMarked(k, on) ==
    /\ ~Active(job[k])
    /\ \/ job[k] = NoRow /\ artifact[k] = NoArtifact
       \/ /\ exec[k].pc # "none" /\ exec[k].job.ts = on
          /\ purge[k] = exec[k].job.attempt
PurgeHeld ==
    \A s \in Slots : slot[s].op = "torrent" =>
        \A k \in FilesOf(slot[s].torrent) : PurgedOrMarked(k, slot[s].on)
\* A mark is for the attempt that runs.
PurgeSound ==
    \A k \in Keys : purge[k] # 0 => /\ exec[k].pc # "none"
                                    /\ purge[k] = exec[k].job.attempt
PurgeInv == PurgeSound /\ PurgeHeld

\* A step that changes one slot, and what it does to cancellingTorrents.
LEMMA HoldChange ==
    ASSUME TypeInv, HoldInv, NEW s \in Slots, NEW w, slot' = [slot EXCEPT ![s] = w],
           \/ w.op \notin CancelOps /\ UNCHANGED <<cancelling, deferred>>
           \/ /\ w.op \notin CancelOps /\ slot[s].op \in CancelOps
              /\ cancelling' = cancelling \ {slot[s].torrent}
              /\ deferred' = deferred
           \/ /\ w.op \notin CancelOps /\ slot[s].op \in CancelOps
              /\ cancelling' = cancelling
              /\ \E x : deferred' = [deferred EXCEPT ![slot[s].torrent] = x]
           \/ /\ w.op \in CancelOps /\ w.torrent \in Torrents \ cancelling
              /\ cancelling' = cancelling \cup {w.torrent}
              /\ deferred' = deferred
    PROVE  HoldInv'
<1>1. /\ slot \in [Slots -> Slot] /\ deferred \in [Torrents -> Nat]
      /\ cancelling \subseteq Torrents
  BY DEF TypeInv, TypeOK, RequestType
<1>2. slot'[s] = w /\ \A r \in Slots : r # s => slot'[r] = slot[r]
  BY <1>1
<1>3. CASE w.op \notin CancelOps /\ UNCHANGED <<cancelling, deferred>>
  BY <1>2, <1>3 DEF HoldInv, Cancelling, DeferredHeld
<1>4. CASE /\ w.op \notin CancelOps /\ slot[s].op \in CancelOps
           /\ cancelling' = cancelling \ {slot[s].torrent}
           /\ deferred' = deferred
  BY <1>2, <1>4 DEF HoldInv, Cancelling, DeferredHeld
<1>5. CASE /\ w.op \notin CancelOps /\ slot[s].op \in CancelOps
           /\ cancelling' = cancelling
           /\ \E x : deferred' = [deferred EXCEPT ![slot[s].torrent] = x]
  <2>1. slot[s].torrent \in cancelling
    BY <1>5 DEF HoldInv, Cancelling
  <2>2. \A t \in Torrents : t # slot[s].torrent => deferred'[t] = deferred[t]
    BY <1>1, <1>5
  <2>3. \A r \in Slots : slot'[r].op \in CancelOps =>
            r # s /\ slot[r].torrent # slot[s].torrent /\ slot[r].torrent \in Torrents
    BY <1>1, <1>2, <1>5 DEF HoldInv, Cancelling
  <2> QED BY <1>2, <1>5, <2>1, <2>2, <2>3 DEF HoldInv, Cancelling, DeferredHeld
<1>6. CASE /\ w.op \in CancelOps /\ w.torrent \in Torrents \ cancelling
           /\ cancelling' = cancelling \cup {w.torrent}
           /\ deferred' = deferred
  <2>1. deferred[w.torrent] = 0
    BY <1>6 DEF HoldInv, DeferredHeld
  <2>2. \A r \in Slots : slot[r].op \in CancelOps => slot[r].torrent # w.torrent
    BY <1>6 DEF HoldInv, Cancelling
  <2> QED BY <1>2, <1>6, <2>1, <2>2 DEF HoldInv, Cancelling, DeferredHeld
<1> QED BY <1>3, <1>4, <1>5, <1>6

\* A torrent-wide cancellation holds its torrent if it waits.
LEMMA CancelHold ==
    ASSUME TypeInv, OwnInv, HoldInv, NEW s \in Slots, NEW t \in Torrents \ cancelling,
           NEW purging, NEW code, NEW op \in CancelOps, NEW done,
           CancelJobs(RowsOf(t), purging, code, s, Wait(op, t), done),
           done.op \notin CancelOps,
           cancelling' = IF \E k \in RowsOf(t) : Running(k)
                         THEN cancelling \cup {t} ELSE cancelling,
           deferred' = deferred
    PROVE  HoldInv'
<1> DEFINE waits == Wait(op, t)
<1>1. waits.op = op /\ waits.torrent = t
  BY DEF Wait
<1>2. \/ /\ \E k \in RowsOf(t) : Running(k)
         /\ slot' = [slot EXCEPT ![s] = waits]
      \/ /\ ~\E k \in RowsOf(t) : Running(k)
         /\ slot' = [slot EXCEPT ![s] = done]
  BY DEF CancelJobs
<1> HIDE DEF waits
<1>3. CASE /\ \E k \in RowsOf(t) : Running(k)
           /\ slot' = [slot EXCEPT ![s] = waits]
  <2>1. cancelling' = cancelling \cup {waits.torrent}
    BY <1>1, <1>3
  <2> QED BY <1>1, <1>3, <2>1, HoldChange
<1>4. CASE /\ ~\E k \in RowsOf(t) : Running(k)
           /\ slot' = [slot EXCEPT ![s] = done]
  <2>1. cancelling' = cancelling
    BY <1>4
  <2> QED BY <1>4, <2>1, HoldChange
<1> QED BY <1>2, <1>3, <1>4

\* Any other cancellation leaves cancellingTorrents alone.
LEMMA CancelHoldsNone ==
    ASSUME TypeInv, HoldInv, NEW S, NEW purging, NEW code, NEW s \in Slots,
           NEW op \in {"file", "disable"}, NEW t,
           CancelJobs(S, purging, code, s, Wait(op, t), NoSlot),
           UNCHANGED <<cancelling, deferred>>
    PROVE  HoldInv'
<1> DEFINE waits == Wait(op, t)
<1>1. waits.op \notin CancelOps /\ NoSlot.op \notin CancelOps
  BY DEF Wait, NoSlot, CancelOps
<1>2. slot' = [slot EXCEPT ![s] = waits] \/ slot' = [slot EXCEPT ![s] = NoSlot]
  BY DEF CancelJobs
<1> HIDE DEF waits
<1> QED BY <1>1, <1>2, HoldChange

\* Every step keeps the torrents that are being cancelled.
LEMMA HoldStep ==
    ASSUME TypeInv, OwnInv, QueueInv, HoldInv, [Next]_vars
    PROVE  HoldInv'
<1>0. ASSUME UNCHANGED <<slot, cancelling, deferred>>
      PROVE  HoldInv'
  BY <1>0 DEF HoldInv, Cancelling, DeferredHeld
<1>1. /\ slot \in [Slots -> Slot] /\ Clients \subseteq Slots /\ Setting \in Slots
      /\ NoSlot.op \notin CancelOps
      /\ cancelling \subseteq Torrents /\ deferred \in [Torrents -> Nat]
  BY DEF TypeInv, TypeOK, RequestType, Slots, NoSlot, CancelOps
<1>2. CASE Microtask
  <2>1. ASSUME NEW s \in Slots, Confirm(s)
        PROVE  HoldInv'
    <3> DEFINE w == IF slot[s].op = "removal"
                    THEN [NoSlot EXCEPT !.op = "deleting",
                                        !.torrent = slot[s].torrent]
                    ELSE NoSlot
    <3>1. /\ slot' = [slot EXCEPT ![s] = w] /\ deferred' = deferred
          /\ cancelling' = IF slot[s].op \in {"torrent", "removal"}
                           THEN cancelling \ {slot[s].torrent} ELSE cancelling
      BY <2>1 DEF Confirm
    <3>2. w.op \notin CancelOps
      BY DEF NoSlot, CancelOps
    <3> HIDE DEF w
    <3>3. CASE slot[s].op \in CancelOps
      <4>1. cancelling' = cancelling \ {slot[s].torrent}
        BY <3>1, <3>3 DEF CancelOps
      <4> QED BY <3>1, <3>2, <3>3, <4>1, HoldChange
    <3>4. CASE slot[s].op \notin CancelOps
      <4>1. cancelling' = cancelling
        BY <3>1, <3>4 DEF CancelOps
      <4> QED BY <3>1, <3>2, <4>1, HoldChange
    <3> QED BY <3>3, <3>4
  <2>2. ASSUME NEW c \in Clients, RemoveCancel(c)
        PROVE  HoldInv'
    <3> DEFINE t == slot[c].torrent
               done == [slot[c] EXCEPT !.op = "deleting"]
    <3>1. slot[c].op = "reserved" /\ slot[c] \in Slot /\ deferred' = deferred
      BY <1>1, <2>2 DEF RemoveCancel
    <3>2. CASE t \in cancelling
      <4>1. slot' = [slot EXCEPT ![c] = NoSlot] /\ cancelling' = cancelling
        BY <2>2, <3>2 DEF RemoveCancel
      <4> QED BY <1>1, <3>1, <4>1, HoldChange
    <3>3. CASE t \notin cancelling
      <4>1. /\ CancelJobs(RowsOf(t), FALSE, "cancelled", c, Wait("removal", t), done)
            /\ cancelling' = IF \E k \in RowsOf(t) : Running(k)
                             THEN cancelling \cup {t} ELSE cancelling
        BY <2>2, <3>3, Zenon DEF RemoveCancel
      <4>2. t \in Torrents \ cancelling
        <5>1. t \in removing /\ removing \subseteq Torrents
          BY <1>1, <3>1 DEF QueueInv, SlotInv, Reserved, RemovalOps, TypeInv, TypeOK,
                            RequestType
        <5> QED BY <3>3, <5>1
      <4>3. done.op \notin CancelOps
        BY <3>1 DEF Slot, CancelOps
      <4>4. "removal" \in CancelOps /\ c \in Slots
        BY <1>1 DEF CancelOps
      <4> HIDE DEF t, done
      <4> QED BY <3>1, <4>1, <4>2, <4>3, <4>4, CancelHold, Zenon
    <3> QED BY <3>2, <3>3
  <2>3. CASE ApplyDisabled
    <3>1. /\ CancelJobs(AutomaticJobs, FALSE, "automatic_disabled", Setting,
                        Wait("disable", NoTorrent), NoSlot)
          /\ UNCHANGED <<cancelling, deferred>>
      BY <2>3, Zenon DEF ApplyDisabled
    <3> QED BY <1>1, <3>1, CancelHoldsNone, Zenon
  <2>4. ASSUME NEW t \in Torrents, ReleaseCancelling(t)
        PROVE  HoldInv'
    <3>1. /\ cancelling' = cancelling \ {t} /\ slot' = slot
          /\ deferred' = [deferred EXCEPT ![t] = 0] /\ deferred[t] # 0
      BY <2>4 DEF ReleaseCancelling, ReleaseDue
    <3>2. \A s \in Slots : slot[s].op \in CancelOps =>
              slot[s].torrent # t /\ slot[s].torrent \in Torrents
      BY <1>1, <3>1 DEF HoldInv, Cancelling
    <3>3. \A u \in Torrents : deferred'[u] = IF u = t THEN 0 ELSE deferred[u]
      BY <1>1, <3>1
    <3> QED BY <3>1, <3>2, <3>3 DEF HoldInv, Cancelling, DeferredHeld
  <2>5. CASE ~(\/ \E s \in Slots : Confirm(s)
               \/ \E c \in Clients : RemoveCancel(c)
               \/ ApplyDisabled
               \/ \E t \in Torrents : ReleaseCancelling(t))
    BY <1>0, <1>2, <2>5
       DEF Microtask, PumpMicrotask, ScanNext, ApplyEnabled, ScanEnds, Interrupted,
           WindowInterrupted, LeaveWindow, FinishJob, ExecUnchanged
  <2> QED BY <2>1, <2>2, <2>3, <2>4, <2>5
<1>3. CASE \E c \in calls : RunCall(c)
  BY <1>0, <1>3 DEF RunCall
<1>4. CASE Request
  <2>1. ASSUME NEW c \in Clients, NEW t \in Torrents, RemoveStart(c, t)
        PROVE  HoldInv'
    <3> DEFINE w == [NoSlot EXCEPT !.op = "reserved", !.torrent = t]
    <3>1. slot' = [slot EXCEPT ![c] = w] /\ UNCHANGED <<cancelling, deferred>>
      BY <2>1 DEF RemoveStart
    <3>2. w.op \notin CancelOps
      BY DEF NoSlot, CancelOps
    <3> HIDE DEF w
    <3> QED BY <1>1, <3>1, <3>2, HoldChange
  <2>2. ASSUME NEW c \in Clients, NEW k \in Keys, CancelFile(c, k)
        PROVE  HoldInv'
    <3>1. /\ CancelJobs({k}, FALSE, "cancelled", c, Wait("file", k[1]), NoSlot)
          /\ UNCHANGED <<cancelling, deferred>>
      BY <2>2, Zenon DEF CancelFile
    <3>2. c \in Slots
      BY <1>1
    <3> QED BY <3>1, <3>2, CancelHoldsNone, Zenon
  <2>3. ASSUME NEW c \in Clients, NEW t \in Torrents, CancelTorrent(c, t)
        PROVE  HoldInv'
    <3>1. /\ CancelJobs(RowsOf(t), TRUE, "cancelled", c, Wait("torrent", t), NoSlot)
          /\ cancelling' = IF \E k \in RowsOf(t) : Running(k)
                           THEN cancelling \cup {t} ELSE cancelling
          /\ deferred' = deferred /\ t \notin cancelling
      BY <2>3, Zenon DEF CancelTorrent
    <3>2. t \in Torrents \ cancelling /\ "torrent" \in CancelOps /\ c \in Slots
      BY <1>1, <3>1 DEF CancelOps
    <3> QED BY <1>1, <3>1, <3>2, CancelHold, Zenon
  <2>4. CASE ~(\/ \E c \in Clients, t \in Torrents : RemoveStart(c, t)
               \/ \E c \in Clients, k \in Keys : CancelFile(c, k)
               \/ \E c \in Clients, t \in Torrents : CancelTorrent(c, t))
    BY <1>0, <1>4, <2>4 DEF Request, QueueTorrent, QueueFile, ManualCall, Register,
                            SetAutomatic
  <2> QED BY <2>1, <2>2, <2>3, <2>4
<1>5. CASE Timer
  <2>1. ASSUME NEW s \in Slots, ConfirmTimesOut(s)
        PROVE  HoldInv'
    <3> DEFINE t == slot[s].torrent
               keeps == HasActiveTorrent(t) /\ activePromise # 0
    <3>1. slot' = [slot EXCEPT ![s] = NoSlot]
      BY <2>1 DEF ConfirmTimesOut
    <3>2. /\ cancelling' = IF slot[s].op \in CancelOps /\ ~keeps
                           THEN cancelling \ {t} ELSE cancelling
          /\ deferred' = IF slot[s].op \in CancelOps /\ keeps
                         THEN [deferred EXCEPT ![t] = activePromise] ELSE deferred
      BY <2>1, Zenon DEF ConfirmTimesOut, CancelOps
    <3> HIDE DEF keeps
    <3>3. CASE slot[s].op \notin CancelOps
      BY <1>1, <3>1, <3>2, <3>3, HoldChange
    <3>4. CASE slot[s].op \in CancelOps /\ ~keeps
      BY <1>1, <3>1, <3>2, <3>4, HoldChange
    <3>5. CASE slot[s].op \in CancelOps /\ keeps
      BY <1>1, <3>1, <3>2, <3>5, HoldChange
    <3> QED BY <3>3, <3>4, <3>5
  <2>2. CASE \E k \in Keys : WatchdogExpires(k) \/ RequestTimesOut(k)
    BY <1>0, <2>2 DEF WatchdogExpires, RequestTimesOut, LeaveWindow, ExecUnchanged
  <2> QED BY <1>5, <2>1, <2>2 DEF Timer
<1>6. CASE Pipeline \/ Release
  BY <1>0, <1>6 DEF Pipeline, Release, OpenSucceeds, OpenFails, WindowStarts,
                    ProviderAnswers, ProviderFails, TranscodeSucceeds,
                    TranscodeFails, LeaseReleased, WorkerStopped, OrphanSettles,
                    ExecUnchanged
<1>7. CASE Environment
  <2>1. ASSUME NEW c \in Clients, RemoveDelete(c)
        PROVE  HoldInv'
    <3>1. slot' = [slot EXCEPT ![c] = NoSlot] /\ UNCHANGED <<cancelling, deferred>>
      BY <2>1 DEF RemoveDelete
    <3> QED BY <1>1, <3>1, HoldChange
  <2>2. CASE ~\E c \in Clients : RemoveDelete(c)
    BY <1>0, <1>7, <2>2 DEF Environment, AbandonCall, CacheCompleted, Evict, Boot,
                            Close
  <2> QED BY <2>1, <2>2
<1>8. CASE Halt
  <2>1. \A s \in Slots : slot'[s].op \notin CancelOps
    BY <1>1, <1>8 DEF Halt
  <2>2. \A t \in Torrents : deferred'[t] = 0
    BY <1>8 DEF Halt
  <2> QED BY <2>1, <2>2 DEF HoldInv, Cancelling, DeferredHeld
<1>9. CASE UNCHANGED vars
  BY <1>0, <1>9 DEF vars
<1> QED BY <1>2, <1>3, <1>4, <1>5, <1>6, <1>7, <1>8, <1>9 DEF Next

\* Only the end of its attempt frees a file, while the process runs.
LEMMA FreedByFinish ==
    ASSUME TypeInv, OwnInv, RowInv, mode # "down", mode' # "down", [Next]_vars,
           NEW k \in Keys, exec[k].pc # "none", exec'[k].pc = "none"
    PROVE  FinishJob(k)
<1>1. activePromise # 0 /\ HasRow /\ exec' # exec
  BY DEF OwnInv, AttemptIsAwaited, RowInv
<1>2. ASSUME NEW rows, NEW entries, NEW attempts, NEW execs, NEW suspended,
             NEW scheduled,
             Pump(rows, entries, attempts, execs, activePromise, suspended, scheduled)
      PROVE  exec' = execs
  BY <1>1, <1>2 DEF Pump, Idle
<1>3. ASSUME NEW S \in SUBSET Keys, NEW purging \in BOOLEAN, NEW code \in Codes,
             NEW s, NEW waits, NEW done,
             CancelJobs(S, purging, code, s, waits, done)
      PROVE  FALSE
  <2> DEFINE frames == FramesAfterCancel(S)
             rows == RowsAfterCancel(S, purging, code)
             attempts == AttemptsAfterCancel(S)
             entries == Compacted(attempts)
  <2>1. frames[k].pc = exec[k].pc
    BY <1>1, CancelEach
  <2>2. \/ exec' = frames \/ exec' = exec
        \/ Pump(rows, entries, attempts, frames, activePromise, suspensions,
                pumpScheduled)
    BY <1>3 DEF CancelJobs
  <2> HIDE DEF frames, rows, entries, attempts
  <2> QED BY <1>1, <1>2, <2>1, <2>2
<1>4. ASSUME NEW j \in Keys,
             \/ OpenSucceeds(j) \/ OpenFails(j)
             \/ WindowStarts(j) \/ ProviderAnswers(j) \/ ProviderFails(j)
             \/ TranscodeSucceeds(j) \/ TranscodeFails(j)
             \/ WatchdogExpires(j) \/ RequestTimesOut(j)
             \/ Interrupted(j) \/ WindowInterrupted(j)
             \/ LeaseReleased(j) \/ WorkerStopped(j) \/ OrphanSettles(j)
      PROVE  FALSE
  <2>1. Kept(k) \/ Opened(k) \/ Left(k)
    BY <1>4, PipelineMoves
  <2> QED BY <2>1 DEF Kept, SameFrame, Opened, Left
<1>5. CASE Microtask
  <2>1. ~PumpMicrotask /\ \A s \in Slots : ~Confirm(s)
    BY <1>1, <1>2 DEF PumpMicrotask, Confirm
  <2>2. ASSUME NEW c \in Clients, RemoveCancel(c)
        PROVE  FALSE
    <3> DEFINE t == slot[c].torrent
    <3>1. CASE t \in cancelling
      BY <1>1, <2>2, <3>1 DEF RemoveCancel
    <3>2. CASE t \notin cancelling
      <4>1. CancelJobs(RowsOf(t), FALSE, "cancelled", c, Wait("removal", t),
                       [slot[c] EXCEPT !.op = "deleting"])
        BY <2>2, <3>2, Zenon DEF RemoveCancel
      <4>2. RowsOf(t) \in SUBSET Keys /\ "cancelled" \in Codes /\ FALSE \in BOOLEAN
        BY DEF RowsOf, FilesOf, Codes
      <4> HIDE DEF t
      <4> QED BY <1>3, <4>1, <4>2, Zenon
    <3> QED BY <3>1, <3>2
  <2>3. ASSUME ApplyDisabled
        PROVE  FALSE
    <3>1. CancelJobs(AutomaticJobs, FALSE, "automatic_disabled", Setting,
                     Wait("disable", NoTorrent), NoSlot)
      BY <2>3, Zenon DEF ApplyDisabled
    <3>2. /\ AutomaticJobs \in SUBSET Keys /\ "automatic_disabled" \in Codes
          /\ FALSE \in BOOLEAN
      BY DEF AutomaticJobs, Codes
    <3> QED BY <1>3, <3>1, <3>2, Zenon
  <2>4. \A t \in Torrents : ~ReleaseCancelling(t) /\ ~ScanNext(t)
    BY <1>1 DEF ReleaseCancelling, ScanNext
  <2>5. ~ApplyEnabled /\ ~ScanEnds
    BY <1>1 DEF ApplyEnabled, ScanEnds
  <2>6. ASSUME NEW j \in Keys, FinishJob(j)
        PROVE  j = k
    BY <2>6 DEF FinishJob, CleanupSettled, OwnInv, OneAttempt
  <2> QED BY <1>4, <1>5, <2>1, <2>2, <2>3, <2>4, <2>5, <2>6 DEF Microtask
<1>6. CASE \E c \in calls : RunCall(c)
  BY <1>1, <1>6 DEF RunCall
<1>7. CASE Request
  <2>1. ASSUME NEW c \in Clients, NEW j \in Keys, CancelFile(c, j)
        PROVE  FALSE
    <3>1. CancelJobs({j}, FALSE, "cancelled", c, Wait("file", j[1]), NoSlot)
      BY <2>1, Zenon DEF CancelFile
    <3>2. {j} \in SUBSET Keys /\ "cancelled" \in Codes /\ FALSE \in BOOLEAN
      BY DEF Codes
    <3> QED BY <1>3, <3>1, <3>2, Zenon
  <2>2. ASSUME NEW c \in Clients, NEW t \in Torrents, CancelTorrent(c, t)
        PROVE  FALSE
    <3>1. CancelJobs(RowsOf(t), TRUE, "cancelled", c, Wait("torrent", t), NoSlot)
      BY <2>2, Zenon DEF CancelTorrent
    <3>2. RowsOf(t) \in SUBSET Keys /\ "cancelled" \in Codes /\ TRUE \in BOOLEAN
      BY DEF RowsOf, FilesOf, Codes
    <3> QED BY <1>3, <3>1, <3>2, Zenon
  <2> QED BY <1>1, <1>7, <2>1, <2>2
          DEF Request, QueueTorrent, QueueFile, ManualCall, Register, SetAutomatic,
              RemoveStart
<1>8. CASE Timer
  <2>1. \A s \in Slots : ~ConfirmTimesOut(s)
    BY <1>1, <1>2 DEF ConfirmTimesOut
  <2> QED BY <1>4, <1>8, <2>1 DEF Timer
<1>9. CASE Pipeline \/ Release
  BY <1>4, <1>9 DEF Pipeline, Release
<1>10. CASE Environment
  <2>1. ~Close
    <3>1. ASSUME Close
          PROVE  exec'[k].pc = exec[k].pc
      <4> DEFINE stopped == [exec[k] EXCEPT !.cancelled = TRUE,
                                !.abort = IF @ = "none" THEN "cancelled" ELSE @]
      <4>1. exec'[k] = exec[k] \/ exec'[k] = stopped
        BY <3>1 DEF Close
      <4>2. stopped.pc = exec[k].pc
        BY QueueTypes DEF Frame
      <4> HIDE DEF stopped
      <4> QED BY <4>1, <4>2
    <3> QED BY <3>1
  <2> QED BY <1>1, <1>10, <2>1
          DEF Environment, AbandonCall, RemoveDelete, CacheCompleted, Evict, Boot
<1>11. ~Halt /\ ~UNCHANGED vars
  BY <1>1 DEF Halt, vars
<1> QED BY <1>5, <1>6, <1>7, <1>8, <1>9, <1>10, <1>11 DEF Next

\* The end of an attempt carries out the purge that was left to it.
LEMMA FinishPurges ==
    ASSUME TypeInv, OwnInv, RowInv, NEW k \in Keys, FinishJob(k)
    PROVE  /\ exec'[k].pc = "none"
           /\ \A j \in Keys : j # k => exec[j].pc = "none" /\ purge'[j] = purge[j]
           /\ purge[k] = exec[k].job.attempt =>
                  purge'[k] = 0 /\ job'[k] = NoRow /\ artifact'[k] = NoArtifact
           /\ purge[k] # exec[k].job.attempt => purge'[k] = purge[k]
<1> DEFINE purges == purge[k] = exec[k].job.attempt
           rows == IF purges THEN [job EXCEPT ![k] = NoRow] ELSE job
           frames == [exec EXCEPT ![k] = NoFrame]
           owner == IF activePromise = exec[k].job.ts THEN 0 ELSE activePromise
<1>1. /\ exec[k].pc = "cleanup" /\ mode # "down" /\ HasRow
      /\ Matches(job, pending, pendingAttempts)
  <2>1. exec[k].pc = "cleanup"
    BY DEF FinishJob, CleanupSettled
  <2>2. mode = "down" => exec[k].pc = "none"
    BY DEF RowInv, DownIdle, Each, NoFrame
  <2> QED BY <2>1, <2>2 DEF RowInv
<1>2. /\ Pump(rows, pending, pendingAttempts, frames, owner, suspensions,
              pumpScheduled)
      /\ artifact' = IF purges THEN [artifact EXCEPT ![k] = NoArtifact]
                     ELSE artifact
      /\ purge' = IF purges THEN [purge EXCEPT ![k] = 0] ELSE purge
  BY DEF FinishJob
<1>3. /\ purge \in [Keys -> Nat] /\ artifact \in [Keys -> Artifact]
      /\ rows \in [Keys -> Row] /\ frames \in [Keys -> Frame]
  BY QueueTypes, EmptyValues DEF TypeInv, TypeOK, DatabaseType, AttemptType
<1>4. NoRow.state = "none" /\ NoFrame.pc = "none" /\ job[k].state # "queued"
  BY <1>1, IdleFiles DEF NoRow, NoFrame
<1>5. /\ rows[k] = (IF purges THEN NoRow ELSE job[k]) /\ frames[k] = NoFrame
      /\ \A j \in Keys : j # k => rows[j] = job[j]
  BY <1>3, QueueTypes
<1>6. \A j \in Keys : j # k => exec[j].pc = "none"
  BY <1>1 DEF OwnInv, OneAttempt
<1> HIDE DEF rows, frames, owner
<1>7. Matches(rows, pending, pendingAttempts)
  BY <1>1, <1>4, <1>5, QueueTypes, OutsideQueue
<1>8. job'[k] = rows[k] /\ exec'[k] = frames[k]
  <2>1. \/ job'[k] = rows[k] /\ exec'[k] = frames[k]
        \/ /\ rows[k].state = "queued"
           /\ FirstIn(k, pending)
           /\ job'[k] = [rows[k] EXCEPT !.state = "preparing"]
           /\ exec'[k] = Fresh([rows[k] EXCEPT !.state = "preparing"])
    BY <1>2, <1>3, <1>7, QueueTypes, PumpEach
  <2>2. rows[k].state # "queued"
    BY <1>4, <1>5
  <2> QED BY <2>1, <2>2
<1> QED BY <1>2, <1>3, <1>4, <1>5, <1>6, <1>8

\* Only a DELETE of all transcriptions of a torrent marks files.
LEMMA MarksKept ==
    ASSUME TypeInv, mode' # "down", [Next]_vars,
           ~\E k \in Keys : FinishJob(k),
           ~\E c \in Clients, t \in Torrents : CancelTorrent(c, t)
    PROVE  purge' = purge
<1>1. purge \in [Keys -> Nat]
  BY DEF TypeInv, TypeOK, AttemptType
<1>2. ASSUME NEW S, NEW code, NEW s, NEW waits, NEW done,
             CancelJobs(S, FALSE, code, s, waits, done)
      PROVE  purge' = purge
  <2>1. purge' = [k \in Keys |-> IF k \in S /\ FALSE /\ Running(k)
                                 THEN job[k].attempt ELSE purge[k]]
    BY <1>2, Zenon DEF CancelJobs
  <2> QED BY <1>1, <2>1
<1>3. \A c \in Clients, k \in Keys : CancelFile(c, k) => purge' = purge
  BY <1>2, Zenon DEF CancelFile
<1>4. ApplyDisabled => purge' = purge
  BY <1>2, Zenon DEF ApplyDisabled
<1>5. ASSUME NEW c \in Clients, RemoveCancel(c)
      PROVE  purge' = purge
  <2> DEFINE t == slot[c].torrent
  <2>1. CASE t \in cancelling
    BY <1>5, <2>1 DEF RemoveCancel
  <2>2. CASE t \notin cancelling
    BY <1>2, <1>5, <2>2, Zenon DEF RemoveCancel
  <2> QED BY <2>1, <2>2
<1>6. CASE Microtask
  BY <1>4, <1>5, <1>6
     DEF Microtask, PumpMicrotask, Confirm, ReleaseCancelling, ScanNext, ApplyEnabled,
         ScanEnds, Interrupted, WindowInterrupted, LeaveWindow, ExecUnchanged
<1>7. CASE Request
  BY <1>3, <1>7 DEF Request, QueueTorrent, QueueFile, ManualCall, Register,
                    RemoveStart, SetAutomatic
<1>8. CASE Timer
  BY <1>8 DEF Timer, ConfirmTimesOut, WatchdogExpires, RequestTimesOut, LeaveWindow,
              ExecUnchanged
<1>9. CASE Pipeline \/ Release
  BY <1>9 DEF Pipeline, Release, OpenSucceeds, OpenFails, WindowStarts,
              ProviderAnswers, ProviderFails, TranscodeSucceeds, TranscodeFails,
              LeaseReleased, WorkerStopped, OrphanSettles, ExecUnchanged
<1>10. CASE Environment
  BY <1>10 DEF Environment, AbandonCall, RemoveDelete, CacheCompleted, Evict, Boot,
               Close
<1>11. CASE \/ \E c \in calls : RunCall(c)
            \/ UNCHANGED vars
  BY <1>11 DEF RunCall, vars
<1> QED BY <1>6, <1>7, <1>8, <1>9, <1>10, <1>11 DEF Next, Halt

\* DELETE of all transcriptions of a torrent deletes what nobody works on and marks
\* the file whose attempt it waits for.
LEMMA CancelPurges ==
    ASSUME TypeInv, OwnInv, RowInv, CompletedHasCaptions,
           NEW c \in Clients, NEW t \in Torrents, CancelTorrent(c, t), NEW k \in Keys
    PROVE  /\ t \notin cancelling
           /\ exec[k].pc # "none" => exec'[k].pc # "none" /\ exec'[k].job = exec[k].job
           /\ \/ purge'[k] = purge[k]
              \/ /\ k[1] = t /\ exec[k].pc # "none"
                 /\ purge'[k] = exec[k].job.attempt
           /\ slot'[c].op = "torrent" /\ k[1] = t => PurgedOrMarked(k, slot[c].on)'
<1> DEFINE S == RowsOf(t)
           waits == Wait("torrent", t)
<1>1. /\ CancelJobs(S, TRUE, "cancelled", c, waits, NoSlot)
      /\ mode = "serving" /\ t \notin cancelling
  BY Zenon DEF CancelTorrent, Accepts
<1>2. /\ S \in SUBSET Keys /\ "cancelled" \in Codes /\ TRUE \in BOOLEAN
      /\ mode # "down"
  BY <1>1 DEF Codes, RowsOf, FilesOf
<1>3. HasRow /\ RowsTimed /\ job[k] \in Row /\ exec[k] \in Frame
      /\ c \in Slots /\ slot \in [Slots -> Slot]
  BY QueueTypes DEF RowInv, Slots, TypeInv, TypeOK, RequestType
<1>4. k \in S <=> k[1] = t /\ job[k].state # "none"
  BY DEF RowsOf, FilesOf
<1>5. waits.op = "torrent" /\ waits.on = activePromise /\ NoSlot.op = "none"
  BY DEF Wait, NoSlot
<1>6. /\ purge' = [j \in Keys |-> IF j \in S /\ TRUE /\ Running(j)
                                  THEN job[j].attempt ELSE purge[j]]
      /\ artifact' = [j \in Keys |-> IF j \in S /\ TRUE /\ ~Running(j)
                                     THEN NoArtifact ELSE artifact[j]]
  BY <1>1, Zenon DEF CancelJobs
<1> HIDE DEF S, waits
<1>7. exec[k].pc # "none" => exec'[k].pc # "none" /\ exec'[k].job = exec[k].job
  <2>1. exec[k].pc # "none" => job[k].state # "queued"
    BY <1>3, IdleFiles
  <2>2. k \in S \/ job[k].state # "queued" =>
            exec'[k].pc = exec[k].pc /\ exec'[k].job = exec[k].job
    BY <1>1, <1>2, CancelOutcome, Zenon
  <2> QED BY <2>1, <2>2
<1>8. /\ Running(k) <=> exec[k].pc # "none"
      /\ exec[k].pc # "none" => /\ job[k].attempt = exec[k].job.attempt
                                /\ job[k].state # "none"
  BY <1>3 DEF HasRow, RowOf, Running
<1>9. \/ purge'[k] = purge[k]
      \/ /\ k[1] = t /\ exec[k].pc # "none"
         /\ purge'[k] = exec[k].job.attempt
  BY <1>4, <1>6, <1>8
<1>10. ASSUME slot'[c].op = "torrent", k[1] = t
       PROVE  PurgedOrMarked(k, slot[c].on)'
  <2>1. /\ \E j \in S : Running(j)
        /\ slot' = [slot EXCEPT ![c] = waits]
    <3>1. \/ /\ \E j \in S : Running(j)
             /\ slot' = [slot EXCEPT ![c] = waits]
          \/ slot' = [slot EXCEPT ![c] = NoSlot]
      BY <1>1 DEF CancelJobs
    <3> QED BY <1>3, <1>5, <1>10, <3>1
  <2>2. slot'[c].on = activePromise
    BY <1>3, <1>5, <2>1
  <2>3. job'[k] = RowsAfterCancel(S, TRUE, "cancelled")[k]
    BY <1>1, <2>1 DEF CancelJobs
  <2>4. CASE job[k].state = "none"
    <3>1. job[k] = NoRow /\ artifact[k] = NoArtifact /\ k \notin S
      BY <1>3, <1>4, <2>4 DEF RowsTimed, Timed, CompletedHasCaptions
    <3>2. job'[k] = NoRow /\ artifact'[k] = NoArtifact
      BY <1>6, <2>3, <3>1 DEF RowsAfterCancel
    <3> QED BY <3>2 DEF PurgedOrMarked, NoRow, Active, ACTIVE_STATES
  <2>5. CASE job[k].state # "none" /\ ~Running(k)
    <3>1. k \in S
      BY <1>4, <1>10, <2>5
    <3>2. job'[k] = NoRow /\ artifact'[k] = NoArtifact
      BY <1>6, <2>3, <2>5, <3>1 DEF RowsAfterCancel
    <3> QED BY <3>2 DEF PurgedOrMarked, NoRow, Active, ACTIVE_STATES
  <2>6. CASE job[k].state # "none" /\ Running(k)
    <3>1. k \in S
      BY <1>4, <1>10, <2>6
    <3>2. ~Active(job'[k])
      <4>1. CancelledRow(k, "cancelled").state = "cancelled"
        BY <1>3 DEF CancelledRow, Row
      <4>2. job'[k] = IF Active(job[k]) THEN CancelledRow(k, "cancelled") ELSE job[k]
        BY <2>3, <2>6, <3>1 DEF RowsAfterCancel
      <4> QED BY <4>1, <4>2 DEF Active, ACTIVE_STATES
    <3>3. /\ exec'[k].pc # "none" /\ exec'[k].job = exec[k].job
          /\ exec[k].job.ts = activePromise
          /\ purge'[k] = exec[k].job.attempt
      BY <1>6, <1>7, <1>8, <2>6, <3>1 DEF OwnInv, AttemptIsAwaited
    <3> QED BY <2>2, <3>2, <3>3 DEF PurgedOrMarked, Active
  <2> QED BY <2>4, <2>5, <2>6
<1> QED BY <1>1, <1>7, <1>9, <1>10

\* An attempt stays the attempt it is.
LEMMA SameAttempt ==
    ASSUME TypeInv, NEW k \in Keys, Move(k), exec[k].pc # "none", exec'[k].pc # "none"
    PROVE  exec'[k].job.attempt = exec[k].job.attempt
<1>1. exec[k].job \in Row
  BY QueueTypes
<1>2. CASE Opened(k)
  BY <1>1, <1>2 DEF Opened, Row
<1> QED BY <1>2 DEF Move, Kept, Requeued, Started, Left, Stopped, Dropped, Finished,
                    Recovered, Lost, SameFrame

\* Marks are for the attempt that runs.
LEMMA PurgeSoundStep ==
    ASSUME TypeInv, OwnInv, QueueInv, CompletedHasCaptions, PurgeSound, [Next]_vars
    PROVE  PurgeSound'
<1>1. RowInv /\ RowInv' /\ \A k \in Keys : Move(k)
  BY QueueStep, MoveStep DEF QueueInv
<1>2. CASE mode' = "down"
  BY <1>1, <1>2 DEF RowInv, DownIdle, Each, PurgeSound
<1>3. ASSUME mode' # "down", NEW k \in Keys, FinishJob(k)
      PROVE  PurgeSound'
  BY <1>1, <1>3, FinishPurges DEF PurgeSound
<1>4. ASSUME NEW c \in Clients, NEW t \in Torrents, CancelTorrent(c, t)
      PROVE  PurgeSound'
  <2> SUFFICES ASSUME NEW k \in Keys, purge'[k] # 0
               PROVE  /\ exec'[k].pc # "none"
                      /\ purge'[k] = exec'[k].job.attempt
    BY DEF PurgeSound
  <2> QED BY <1>1, <1>4, CancelPurges DEF PurgeSound
<1>5. CASE /\ mode' # "down"
           /\ ~\E k \in Keys : FinishJob(k)
           /\ ~\E c \in Clients, t \in Torrents : CancelTorrent(c, t)
  <2> SUFFICES ASSUME NEW k \in Keys, purge'[k] # 0
               PROVE  /\ exec'[k].pc # "none"
                      /\ purge'[k] = exec'[k].job.attempt
    BY DEF PurgeSound
  <2>1. purge' = purge
    BY <1>5, MarksKept
  <2>2. exec[k].pc # "none" /\ purge[k] = exec[k].job.attempt
    BY <2>1 DEF PurgeSound
  <2>3. mode # "down"
    BY <1>1, <2>2 DEF RowInv, DownIdle, Each, NoFrame
  <2>4. exec'[k].pc # "none"
    BY <1>1, <1>5, <2>2, <2>3, FreedByFinish
  <2> QED BY <1>1, <2>1, <2>2, <2>4, SameAttempt
<1> QED BY <1>2, <1>3, <1>4, <1>5

\* A slot comes to wait for a purge by DELETE of all transcriptions only.
LEMMA PurgeBegins ==
    ASSUME TypeInv, [Next]_vars, NEW s \in Slots, slot'[s].op = "torrent"
    PROVE  \/ slot'[s] = slot[s]
           \/ /\ s \in Clients
              /\ \E t \in Torrents : CancelTorrent(s, t) /\ slot'[s].torrent = t
<1>1. /\ slot \in [Slots -> Slot] /\ Clients \subseteq Slots /\ Setting \in Slots
      /\ NoSlot.op = "none"
  BY DEF TypeInv, TypeOK, RequestType, Slots, NoSlot
<1>2. ASSUME NEW S, NEW purging, NEW code, NEW r \in Slots, NEW op, NEW t,
             NEW done, done.op # "torrent",
             CancelJobs(S, purging, code, r, Wait(op, t), done)
      PROVE  slot'[s] = slot[s] \/ (s = r /\ op = "torrent" /\ slot'[s].torrent = t)
  <2> DEFINE waits == Wait(op, t)
  <2>1. waits.op = op /\ waits.torrent = t
    BY DEF Wait
  <2>2. slot' = [slot EXCEPT ![r] = waits] \/ slot' = [slot EXCEPT ![r] = done]
    BY <1>2 DEF CancelJobs
  <2> HIDE DEF waits
  <2> QED BY <1>1, <1>2, <2>1, <2>2
<1>3. ASSUME NEW r \in Slots, NEW w, slot' = [slot EXCEPT ![r] = w], w.op # "torrent"
      PROVE  slot'[s] = slot[s]
  BY <1>1, <1>3
<1>4. CASE Microtask
  <2>1. ASSUME NEW r \in Slots, Confirm(r)
        PROVE  slot'[s] = slot[s]
    <3> DEFINE w == IF slot[r].op = "removal"
                    THEN [NoSlot EXCEPT !.op = "deleting",
                                        !.torrent = slot[r].torrent]
                    ELSE NoSlot
    <3>1. slot' = [slot EXCEPT ![r] = w]
      BY <2>1 DEF Confirm
    <3>2. w.op # "torrent"
      BY DEF NoSlot
    <3> HIDE DEF w
    <3> QED BY <1>3, <3>1, <3>2
  <2>2. ASSUME NEW c \in Clients, RemoveCancel(c)
        PROVE  slot'[s] = slot[s]
    <3> DEFINE t == slot[c].torrent
               done == [slot[c] EXCEPT !.op = "deleting"]
    <3>1. slot[c] \in Slot /\ c \in Slots
      BY <1>1
    <3>2. CASE t \in cancelling
      <4>1. slot' = [slot EXCEPT ![c] = NoSlot]
        BY <2>2, <3>2 DEF RemoveCancel
      <4> QED BY <1>1, <1>3, <3>1, <4>1
    <3>3. CASE t \notin cancelling
      <4>1. CancelJobs(RowsOf(t), FALSE, "cancelled", c, Wait("removal", t), done)
        BY <2>2, <3>3, Zenon DEF RemoveCancel
      <4>2. done.op # "torrent"
        BY <3>1 DEF Slot
      <4> HIDE DEF t, done
      <4>3. \/ slot'[s] = slot[s]
            \/ s = c /\ "removal" = "torrent" /\ slot'[s].torrent = t
        BY <1>2, <3>1, <4>1, <4>2, Zenon
      <4> QED BY <4>3
    <3> QED BY <3>2, <3>3
  <2>3. ASSUME ApplyDisabled
        PROVE  slot'[s] = slot[s]
    <3>1. /\ CancelJobs(AutomaticJobs, FALSE, "automatic_disabled", Setting,
                        Wait("disable", NoTorrent), NoSlot)
          /\ NoSlot.op # "torrent"
      BY <1>1, <2>3, Zenon DEF ApplyDisabled, NoSlot
    <3>2. \/ slot'[s] = slot[s]
          \/ s = Setting /\ "disable" = "torrent" /\ slot'[s].torrent = NoTorrent
      BY <1>1, <1>2, <3>1, Zenon
    <3> QED BY <3>2
  <2>4. CASE ~(\/ \E r \in Slots : Confirm(r)
               \/ \E c \in Clients : RemoveCancel(c)
               \/ ApplyDisabled)
    BY <1>4, <2>4
       DEF Microtask, PumpMicrotask, ReleaseCancelling, ScanNext, ApplyEnabled,
           ScanEnds, Interrupted, WindowInterrupted, LeaveWindow, FinishJob,
           ExecUnchanged
  <2> QED BY <2>1, <2>2, <2>3, <2>4
<1>5. CASE Request
  <2>1. ASSUME NEW c \in Clients, NEW t \in Torrents, RemoveStart(c, t)
        PROVE  slot'[s] = slot[s]
    <3> DEFINE w == [NoSlot EXCEPT !.op = "reserved", !.torrent = t]
    <3>1. slot' = [slot EXCEPT ![c] = w]
      BY <2>1 DEF RemoveStart
    <3>2. w.op # "torrent"
      BY DEF NoSlot
    <3> HIDE DEF w
    <3> QED BY <1>1, <1>3, <3>1, <3>2
  <2>2. ASSUME NEW c \in Clients, NEW k \in Keys, CancelFile(c, k)
        PROVE  slot'[s] = slot[s]
    <3>1. /\ CancelJobs({k}, FALSE, "cancelled", c, Wait("file", k[1]), NoSlot)
          /\ NoSlot.op # "torrent" /\ c \in Slots
      BY <1>1, <2>2, Zenon DEF CancelFile, NoSlot
    <3>2. \/ slot'[s] = slot[s]
          \/ s = c /\ "file" = "torrent" /\ slot'[s].torrent = k[1]
      BY <1>2, <3>1, Zenon
    <3> QED BY <3>2
  <2>3. ASSUME NEW c \in Clients, NEW t \in Torrents, CancelTorrent(c, t)
        PROVE  slot'[s] = slot[s] \/ (s = c /\ slot'[s].torrent = t)
    <3>1. /\ CancelJobs(RowsOf(t), TRUE, "cancelled", c, Wait("torrent", t), NoSlot)
          /\ NoSlot.op # "torrent" /\ c \in Slots
      BY <1>1, <2>3, Zenon DEF CancelTorrent, NoSlot
    <3> QED BY <1>2, <3>1, Zenon
  <2>4. CASE ~(\/ \E c \in Clients, t \in Torrents : RemoveStart(c, t)
               \/ \E c \in Clients, k \in Keys : CancelFile(c, k)
               \/ \E c \in Clients, t \in Torrents : CancelTorrent(c, t))
    BY <1>5, <2>4 DEF Request, QueueTorrent, QueueFile, ManualCall, Register,
                      SetAutomatic
  <2> QED BY <2>1, <2>2, <2>3, <2>4
<1>6. CASE Timer
  <2>1. ASSUME NEW r \in Slots, ConfirmTimesOut(r)
        PROVE  slot'[s] = slot[s]
    BY <1>1, <1>3, <2>1 DEF ConfirmTimesOut
  <2> QED BY <1>6, <2>1 DEF Timer, WatchdogExpires, RequestTimesOut, LeaveWindow,
                            ExecUnchanged
<1>7. CASE Pipeline \/ Release
  BY <1>7 DEF Pipeline, Release, OpenSucceeds, OpenFails, WindowStarts,
              ProviderAnswers, ProviderFails, TranscodeSucceeds, TranscodeFails,
              LeaseReleased, WorkerStopped, OrphanSettles, ExecUnchanged
<1>8. CASE Environment
  <2>1. ASSUME NEW c \in Clients, RemoveDelete(c)
        PROVE  slot'[s] = slot[s]
    <3>1. slot' = [slot EXCEPT ![c] = NoSlot]
      BY <2>1 DEF RemoveDelete
    <3> QED BY <1>1, <1>3, <3>1
  <2> QED BY <1>8, <2>1 DEF Environment, AbandonCall, CacheCompleted, Evict, Boot,
                            Close
<1>9. ~Halt
  BY <1>1 DEF Halt
<1>10. CASE UNCHANGED vars \/ \E c \in calls : RunCall(c)
  BY <1>10 DEF vars, RunCall
<1> QED BY <1>4, <1>5, <1>6, <1>7, <1>8, <1>9, <1>10 DEF Next

\* Nothing new begins on a file of a torrent that is being cancelled.
LEMMA HeldMove ==
    ASSUME TypeInv, RowInv, mode # "down", mode' # "down",
           NEW k \in Keys, k[1] \in cancelling, ~Active(job[k]), Move(k)
    PROVE  /\ ~Active(job'[k])
           /\ \/ job'[k] = job[k] /\ artifact'[k] = artifact[k]
              \/ job'[k] = NoRow /\ artifact'[k] = NoArtifact
           /\ exec'[k].pc # "none" => exec'[k].job = exec[k].job
<1>1. ~Requeued(k)
  BY DEF Requeued
<1>2. ~Started(k) /\ ~Opened(k) /\ ~Stopped(k)
  BY DEF Started, Opened, Stopped, Owned, Active, ACTIVE_STATES
<1>3. CASE Left(k)
  BY <1>3 DEF Left, Owned, SameCaptions
<1>4. CASE Kept(k) \/ Dropped(k) \/ Finished(k)
  BY <1>4 DEF Kept, Dropped, Finished, SameCaptions, SameFrame, NoRow, Active,
              ACTIVE_STATES
<1> QED BY <1>1, <1>2, <1>3, <1>4 DEF Move, Recovered

\* A purge that waits still has only the file it waits for before it.
LEMMA PurgeHeldStep ==
    ASSUME TypeInv, OwnInv, QueueInv, CompletedHasCaptions, HoldInv, PurgeHeld,
           [Next]_vars
    PROVE  PurgeHeld'
<1>1. /\ RowInv /\ HasRow /\ \A k \in Keys : Move(k)
  BY MoveStep DEF QueueInv, RowInv
<1>2. ASSUME NEW s \in Slots, slot'[s].op = "torrent", slot'[s] = slot[s],
             NEW k \in Keys, k[1] = slot[s].torrent, mode' # "down"
      PROVE  PurgedOrMarked(k, slot[s].on)'
  <2>1. /\ k[1] \in cancelling /\ PurgedOrMarked(k, slot[s].on)
        /\ ~Active(job[k]) /\ k \in FilesOf(slot[s].torrent)
    BY <1>2 DEF HoldInv, Cancelling, PurgeHeld, PurgedOrMarked, CancelOps, FilesOf
  <2>2. mode # "down"
    BY <1>2 DEF TypeInv, TransitionHeld, NoSlot
  <2>3. /\ ~Active(job'[k])
        /\ \/ job'[k] = job[k] /\ artifact'[k] = artifact[k]
           \/ job'[k] = NoRow /\ artifact'[k] = NoArtifact
        /\ exec'[k].pc # "none" => exec'[k].job = exec[k].job
    BY <1>1, <1>2, <2>1, <2>2, HeldMove
  <2>4. CASE job[k] = NoRow /\ artifact[k] = NoArtifact
    BY <2>3, <2>4 DEF PurgedOrMarked, Active
  <2>5. CASE /\ exec[k].pc # "none" /\ exec[k].job.ts = slot[s].on
             /\ purge[k] = exec[k].job.attempt
    <3>1. ASSUME NEW j \in Keys, FinishJob(j)
          PROVE  PurgedOrMarked(k, slot[s].on)'
      <4>1. j = k
        BY <1>1, <2>5, <3>1, FinishPurges
      <4>2. job'[k] = NoRow /\ artifact'[k] = NoArtifact
        BY <1>1, <2>5, <3>1, <4>1, FinishPurges
      <4> QED BY <2>3, <4>2 DEF PurgedOrMarked, Active
    <3>2. CASE ~\E j \in Keys : FinishJob(j)
      <4>1. exec'[k].pc # "none" /\ exec'[k].job = exec[k].job
        BY <1>1, <1>2, <2>2, <2>3, <2>5, <3>2, FreedByFinish
      <4>2. purge'[k] = purge[k]
        <5>1. ASSUME NEW c \in Clients, NEW t \in Torrents, CancelTorrent(c, t)
              PROVE  purge'[k] = purge[k]
          BY <1>1, <2>1, <5>1, CancelPurges
        <5> QED BY <1>2, <3>2, <5>1, MarksKept
      <4> QED BY <1>2, <2>3, <2>5, <4>1, <4>2 DEF PurgedOrMarked, Active
    <3> QED BY <3>1, <3>2
  <2> QED BY <2>1, <2>4, <2>5 DEF PurgedOrMarked
<1>3. ASSUME NEW s \in Slots, slot'[s].op = "torrent",
             NEW k \in Keys, k[1] = slot'[s].torrent
      PROVE  PurgedOrMarked(k, slot[s].on)'
  <2>1. mode' # "down"
    BY <1>3, StepType DEF TypeInv, TransitionHeld, NoSlot
  <2>2. CASE slot'[s] = slot[s]
    BY <1>2, <1>3, <2>1, <2>2
  <2>3. ASSUME s \in Clients, NEW t \in Torrents, CancelTorrent(s, t),
               slot'[s].torrent = t
        PROVE  PurgedOrMarked(k, slot[s].on)'
    BY <1>1, <1>3, <2>3, CancelPurges
  <2> QED BY <1>3, <2>2, <2>3, PurgeBegins
<1> QED BY <1>3 DEF PurgeHeld, FilesOf

\* What is held and what is marked, in every state.
LEMMA PurgeInvariant == Spec => [](HoldInv /\ PurgeInv)
<1>1. Init => HoldInv /\ PurgeInv
  BY DEF Init, HoldInv, Cancelling, DeferredHeld, PurgeInv, PurgeSound, PurgeHeld,
         NoSlot, CancelOps, Each
<1>2. TypeInv /\ OwnInv /\ QueueInv /\ StoredInv /\ HoldInv /\ PurgeInv
          /\ [Next]_vars => HoldInv' /\ PurgeInv'
  BY HoldStep, PurgeSoundStep, PurgeHeldStep DEF StoredInv, PurgeInv
<1> QED BY <1>1, <1>2, TypeInvariant, OwnInvariant, QueueInvariant, StoredInvariant,
           PTL DEF Spec

\* What a client was told stays true: a job that was shown as ended is not written
\* again by its attempt, however late that settles, and a purge that was answered
\* with success has deleted every row and every caption of the torrent.
THEOREM AnswersStay == Spec => AnswersStayTrue
<1> DEFINE Final ==
      \A k \in Keys : job[k].state \in TERMINAL_STATES /\ job'[k].ts = job[k].ts
          => job'[k] = job[k]
           Purged ==
      \A c \in Clients :
          slot[c].op = "torrent" /\ Settled(c) /\ slot'[c] = NoSlot /\ mode' # "down"
          => \A k \in FilesOf(slot[c].torrent) :
                 job'[k] = NoRow /\ artifact'[k] = NoArtifact
<1>1. TypeInv /\ OwnInv /\ QueueInv /\ TimeInv /\ [Next]_vars => Final
  BY MoveStep, EndedRow DEF QueueInv
<1>2. TypeInv /\ OwnInv /\ QueueInv /\ HoldInv /\ PurgeInv /\ [Next]_vars => Purged
  <2> SUFFICES ASSUME TypeInv, OwnInv, QueueInv, HoldInv, PurgeInv, [Next]_vars,
                      NEW c \in Clients, slot[c].op = "torrent", Settled(c),
                      mode' # "down", NEW k \in FilesOf(slot[c].torrent)
               PROVE  job'[k] = NoRow /\ artifact'[k] = NoArtifact
    OBVIOUS
  <2>1. c \in Slots /\ k \in Keys /\ k[1] = slot[c].torrent
    BY DEF Slots, FilesOf
  <2>2. mode # "down"
    BY <2>1 DEF TypeInv, TransitionHeld, NoSlot
  <2>3. k[1] \in cancelling /\ PurgedOrMarked(k, slot[c].on)
    BY <2>1 DEF HoldInv, Cancelling, CancelOps, PurgeInv, PurgeHeld
  <2>4. ~(exec[k].pc # "none" /\ exec[k].job.ts = slot[c].on)
    BY <2>1 DEF Settled, OwnInv, AttemptIsAwaited
  <2>5. job[k] = NoRow /\ artifact[k] = NoArtifact /\ ~Active(job[k])
    BY <2>3, <2>4 DEF PurgedOrMarked
  <2>6. RowInv /\ Move(k)
    BY <2>1, MoveStep DEF QueueInv
  <2> QED BY <2>1, <2>2, <2>3, <2>5, <2>6, HeldMove
<1>3. TypeInv /\ OwnInv /\ QueueInv /\ TimeInv /\ HoldInv /\ PurgeInv /\ [Next]_vars
          => [Final]_vars /\ [Purged]_vars
  BY <1>1, <1>2
<1> QED BY <1>3, TypeInvariant, OwnInvariant, QueueInvariant, TimeInvariant,
           PurgeInvariant, PTL
        DEF Spec, AnswersStayTrue, TerminalIsFinal, PurgeIsComplete

-----------------------------------------------------------------------------
(***************************************************************************)
(* Chapters the setting has cancelled.                                     *)
(***************************************************************************)

\* The chapter was cancelled by the setting; the scan or a call could queue it; and
\* one of them, or a setting still to be applied, is on its way.
Off(k) == job[k].state = "cancelled" /\ job[k].code = "automatic_disabled"
Reach(k) == /\ mode \in {"starting", "serving"} /\ automatic
            /\ k[1] \in LocallyAvailable
Listed(k) ==
    \/ \E c \in calls : c.trigger = "automatic" /\ k \in c.files
    \/ scanning /\ k[1] \in scan
    \/ \E i \in DOMAIN transitions : transitions[i] /\ (scanning => i > 1)

\* What this rests on: no request gives up an automatic call, what is local is known,
\* and the transition whose jobs are being cancelled is a disabling one.
CallsKept == \A c \in calls : c.trigger = "automatic" => c.origin # "request"
LocalKnown == \A t \in Torrents : local[t] => known[t]
HeadDisables == Applied = 1 => ~Head(transitions)
HandInv == CallsKept /\ LocalKnown /\ HeadDisables

\* Requests make manual calls.
LEMMA CallsKeptStep ==
    ASSUME TypeInv, CallsKept, [Next]_vars
    PROVE  CallsKept'
<1>1. CASE calls' \subseteq calls
  BY <1>1 DEF CallsKept
<1>2. ASSUME NEW t, NEW origin \in {"listener", "scan", "rescan"},
             calls' \subseteq calls \cup {AutomaticCall(t, origin)}
      PROVE  CallsKept'
  BY <1>2 DEF AutomaticCall, CallsKept
<1>3. ASSUME NEW t, NEW files, ManualCall(t, files)
      PROVE  CallsKept'
  BY <1>3 DEF ManualCall, CallsKept
<1>4. CASE Microtask
  <2>1. CASE \E t \in Torrents : ScanNext(t)
    BY <1>1, <1>2, <2>1 DEF ScanNext
  <2>2. CASE \E k \in Keys : FinishJob(k)
    BY <1>1, <1>2, <2>2 DEF FinishJob
  <2>3. CASE ~((\E t \in Torrents : ScanNext(t)) \/ \E k \in Keys : FinishJob(k))
    <3>1. calls' = calls
      BY <1>4, <2>3
         DEF Microtask, PumpMicrotask, Confirm, RemoveCancel, ReleaseCancelling,
             ApplyEnabled, ApplyDisabled, ScanEnds, Interrupted,
             WindowInterrupted, LeaveWindow, ExecUnchanged
    <3> QED BY <1>1, <3>1
  <2> QED BY <2>1, <2>2, <2>3
<1>5. CASE \E c \in calls : RunCall(c)
  BY <1>1, <1>5 DEF RunCall
<1>6. CASE Request
  <2>1. CASE \/ \E t \in Torrents : QueueTorrent(t)
             \/ \E k \in Keys : QueueFile(k)
    BY <1>3, <2>1 DEF QueueTorrent, QueueFile
  <2>2. CASE ~((\E t \in Torrents : QueueTorrent(t)) \/ \E k \in Keys : QueueFile(k))
    <3>1. calls' = calls
      BY <1>6, <2>2
         DEF Request, Register, CancelFile, CancelTorrent, RemoveStart, SetAutomatic
    <3> QED BY <1>1, <3>1
  <2> QED BY <2>1, <2>2
<1>7. CASE Timer \/ Pipeline \/ Release
  <2>1. calls' = calls
    BY <1>7
       DEF Timer, ConfirmTimesOut, WatchdogExpires, RequestTimesOut, LeaveWindow,
           Pipeline, OpenSucceeds, OpenFails, WindowStarts, ProviderAnswers,
           ProviderFails, TranscodeSucceeds, TranscodeFails, Release,
           LeaseReleased, WorkerStopped, OrphanSettles, ExecUnchanged
  <2> QED BY <1>1, <2>1
<1>8. CASE Environment
  <2>1. CASE \E t \in Torrents : CacheCompleted(t)
    BY <1>1, <1>2, <2>1 DEF CacheCompleted
  <2>2. CASE ~\E t \in Torrents : CacheCompleted(t)
    <3>1. calls' \subseteq calls
      BY <1>8, <2>2
         DEF Environment, AbandonCall, RemoveDelete, Evict, Boot, Close
    <3> QED BY <1>1, <3>1
  <2> QED BY <2>1, <2>2
<1>9. CASE Halt \/ UNCHANGED vars
  BY <1>1, <1>9 DEF Halt, vars
<1> QED BY <1>4, <1>5, <1>6, <1>7, <1>8, <1>9 DEF Next

\* A torrent becomes local while it is known, and is forgotten with its files.
LEMMA LocalKnownStep ==
    ASSUME TypeInv, LocalKnown, [Next]_vars
    PROVE  LocalKnown'
<1>1. CASE UNCHANGED <<known, local>>
  BY <1>1 DEF LocalKnown
<1>2. /\ known \in [Torrents -> BOOLEAN]
      /\ local \in [Torrents -> BOOLEAN]
  BY DEF TypeInv, TypeOK, DatabaseType
<1>3. CASE Microtask
  BY <1>1, <1>3
     DEF Microtask, PumpMicrotask, Confirm, RemoveCancel, ReleaseCancelling,
         ScanNext, ApplyEnabled, ApplyDisabled, ScanEnds, Interrupted,
         WindowInterrupted, LeaveWindow, FinishJob, ExecUnchanged, database
<1>4. CASE \E c \in calls : RunCall(c)
  BY <1>1, <1>4 DEF RunCall
<1>5. CASE Request
  <2>1. CASE \E t \in Torrents : Register(t)
    BY <1>2, <2>1 DEF Register, LocalKnown
  <2>2. CASE ~\E t \in Torrents : Register(t)
    BY <1>1, <1>5, <2>2
       DEF Request, QueueTorrent, QueueFile, ManualCall, CancelFile, CancelTorrent,
           RemoveStart, SetAutomatic, database
  <2> QED BY <2>1, <2>2
<1>6. CASE Timer \/ Pipeline \/ Release
  BY <1>1, <1>6
     DEF Timer, ConfirmTimesOut, WatchdogExpires, RequestTimesOut, LeaveWindow,
         Pipeline, OpenSucceeds, OpenFails, WindowStarts, ProviderAnswers,
         ProviderFails, TranscodeSucceeds, TranscodeFails, Release,
         LeaseReleased, WorkerStopped, OrphanSettles, ExecUnchanged
<1>7. CASE Environment
  <2>1. CASE \E c \in Clients : RemoveDelete(c)
    BY <1>2, <2>1 DEF RemoveDelete, LocalKnown
  <2>2. CASE \E t \in Torrents : CacheCompleted(t) \/ Evict(t)
    BY <1>2, <2>2 DEF CacheCompleted, Evict, LocalKnown
  <2>3. CASE \/ \E c \in calls : AbandonCall(c)
             \/ \E m \in Models : Boot(m)
             \/ Close
    BY <1>1, <2>3 DEF AbandonCall, Boot, Close, database
  <2> QED BY <1>7, <2>1, <2>2, <2>3 DEF Environment
<1>8. CASE Halt \/ UNCHANGED vars
  BY <1>1, <1>8 DEF Halt, vars, database
<1> QED BY <1>3, <1>4, <1>5, <1>6, <1>7, <1>8 DEF Next

\* A transition is being applied only between its cancellations and their cleanup.
LEMMA HeadDisablesStep ==
    ASSUME TypeInv, HeadDisables, [Next]_vars
    PROVE  HeadDisables'
<1>1. /\ slot \in [Slots -> Slot] /\ Setting \in Slots
      /\ transitions \in Seq(BOOLEAN)
      /\ TransitionHeld
  BY DEF TypeInv, TypeOK, RequestType, Slots
<1>2. CASE Applied' = Applied /\ transitions' = transitions
  BY <1>2 DEF HeadDisables
<1>3. CASE UNCHANGED <<slot, transitions>>
  BY <1>3 DEF HeadDisables, Applied
<1>4. ASSUME NEW c \in Clients, NEW w, slot' = [slot EXCEPT ![c] = w],
             transitions' = transitions
      PROVE  HeadDisables'
  BY <1>2, <1>4, ClientApplied
<1>5. ASSUME NEW s \in Slots, NEW w, w.op # "disable",
             slot' = [slot EXCEPT ![s] = w],
             transitions' = IF slot[s].op = "disable" THEN Tail(transitions)
                            ELSE transitions
      PROVE  HeadDisables'
  <2>1. CASE s = Setting
    <3>1. Applied' # 1
      BY <1>1, <1>5, <2>1 DEF Applied
    <3> QED BY <3>1 DEF HeadDisables
  <2>2. CASE s # Setting
    <3>1. slot[s].op # "disable" /\ s \in Clients
      BY <1>1, <2>2 DEF TransitionHeld, Slots
    <3> QED BY <1>4, <1>5, <3>1
  <2> QED BY <2>1, <2>2
<1>6. ASSUME NEW c \in Clients, NEW S, NEW purging, NEW code, NEW waits, NEW done,
             CancelJobs(S, purging, code, c, waits, done), transitions' = transitions
      PROVE  HeadDisables'
  BY <1>2, <1>6, CancelApplied, Zenon
<1>7. CASE Microtask
  <2>1. ASSUME NEW s \in Slots, Confirm(s)
        PROVE  HeadDisables'
    <3> DEFINE w == IF slot[s].op = "removal"
                    THEN [NoSlot EXCEPT !.op = "deleting",
                                        !.torrent = slot[s].torrent]
                    ELSE NoSlot
    <3>1. w.op # "disable"
      BY DEF NoSlot
    <3>2. /\ slot' = [slot EXCEPT ![s] = w]
          /\ transitions' = IF slot[s].op = "disable" THEN Tail(transitions)
                            ELSE transitions
      BY <2>1 DEF Confirm
    <3> HIDE DEF w
    <3> QED BY <1>5, <3>1, <3>2
  <2>2. ASSUME NEW c \in Clients, RemoveCancel(c)
        PROVE  HeadDisables'
    <3>1. transitions' = transitions
      BY <2>2 DEF RemoveCancel, setting
    <3>2. CASE slot' = [slot EXCEPT ![c] = NoSlot]
      BY <1>4, <3>1, <3>2
    <3>3. CASE slot' # [slot EXCEPT ![c] = NoSlot]
      <4>1. CancelJobs(RowsOf(slot[c].torrent), FALSE, "cancelled", c,
                       Wait("removal", slot[c].torrent),
                       [slot[c] EXCEPT !.op = "deleting"])
        BY <2>2, <3>3, Zenon DEF RemoveCancel
      <4> QED BY <1>6, <3>1, <4>1, Zenon
    <3> QED BY <3>2, <3>3
  <2>3. CASE ApplyDisabled
    <3>1. CASE transitions' = transitions
      BY <2>3, <3>1 DEF ApplyDisabled, HeadDisables
    <3>2. CASE transitions' # transitions
      <4>1. ~\E k \in AutomaticJobs : Running(k)
        BY <2>3, <3>2, Zenon DEF ApplyDisabled
      <4>2. slot' = [slot EXCEPT ![Setting] = NoSlot]
        BY <2>3, <4>1, Zenon DEF ApplyDisabled, CancelJobs
      <4>3. Applied' # 1
        BY <1>1, <4>2 DEF Applied, NoSlot
      <4> QED BY <4>3 DEF HeadDisables
    <3> QED BY <3>1, <3>2
  <2>4. CASE ScanEnds
    <3>1. slot' = slot /\ scanning
      BY <2>4 DEF ScanEnds
    <3>2. Applied' # 1
      BY <1>1, <3>1 DEF Applied, TransitionHeld, NoSlot
    <3> QED BY <3>2 DEF HeadDisables
  <2>5. CASE \/ PumpMicrotask \/ ApplyEnabled
             \/ \E t \in Torrents : ReleaseCancelling(t) \/ ScanNext(t)
             \/ \E k \in Keys : Interrupted(k) \/ WindowInterrupted(k) \/ FinishJob(k)
    BY <1>3, <2>5
       DEF PumpMicrotask, ApplyEnabled, ReleaseCancelling, ScanNext, Interrupted,
           WindowInterrupted, LeaveWindow, FinishJob, ExecUnchanged, setting
  <2> QED BY <1>7, <2>1, <2>2, <2>3, <2>4, <2>5 DEF Microtask
<1>8. CASE \E c \in calls : RunCall(c)
  BY <1>3, <1>8 DEF RunCall, setting
<1>9. CASE Request
  <2>1. ASSUME NEW c \in Clients, NEW k \in Keys, CancelFile(c, k)
        PROVE  HeadDisables'
    <3>1. /\ CancelJobs({k}, FALSE, "cancelled", c, Wait("file", k[1]), NoSlot)
          /\ transitions' = transitions
      BY <2>1, Zenon DEF CancelFile, setting
    <3> QED BY <1>6, <3>1, Zenon
  <2>2. ASSUME NEW c \in Clients, NEW t \in Torrents, CancelTorrent(c, t)
        PROVE  HeadDisables'
    <3>1. /\ CancelJobs(RowsOf(t), TRUE, "cancelled", c, Wait("torrent", t), NoSlot)
          /\ transitions' = transitions
      BY <2>2, Zenon DEF CancelTorrent, setting
    <3> QED BY <1>6, <3>1, Zenon
  <2>3. CASE \E c \in Clients, t \in Torrents : RemoveStart(c, t)
    BY <1>4, <2>3 DEF RemoveStart, setting
  <2>4. CASE \E enabled \in BOOLEAN : SetAutomatic(enabled)
    <3>1. PICK enabled \in BOOLEAN : SetAutomatic(enabled)
      BY <2>4
    <3>2. slot' = slot /\ transitions' = Append(transitions, enabled)
      BY <3>1 DEF SetAutomatic
    <3>3. Applied' = Applied /\ (Applied = 1 => transitions # <<>>)
      BY <1>1, <3>2 DEF Applied, TransitionHeld
    <3>4. transitions # <<>> => Head(transitions') = Head(transitions)
      BY <1>1, <3>2
    <3> QED BY <3>3, <3>4 DEF HeadDisables
  <2>5. CASE \/ \E t \in Torrents : QueueTorrent(t) \/ Register(t)
             \/ \E k \in Keys : QueueFile(k)
    BY <1>3, <2>5 DEF QueueTorrent, QueueFile, ManualCall, Register, setting
  <2> QED BY <1>9, <2>1, <2>2, <2>3, <2>4, <2>5 DEF Request
<1>10. CASE Timer
  <2>1. ASSUME NEW s \in Slots, ConfirmTimesOut(s)
        PROVE  HeadDisables'
    <3>1. /\ slot' = [slot EXCEPT ![s] = NoSlot] /\ NoSlot.op # "disable"
          /\ transitions' = IF slot[s].op = "disable" THEN Tail(transitions)
                            ELSE transitions
      BY <2>1 DEF ConfirmTimesOut, NoSlot
    <3> QED BY <1>5, <3>1
  <2>2. CASE \E k \in Keys : WatchdogExpires(k) \/ RequestTimesOut(k)
    BY <1>3, <2>2 DEF WatchdogExpires, RequestTimesOut, LeaveWindow, ExecUnchanged,
                      setting
  <2> QED BY <1>10, <2>1, <2>2 DEF Timer
<1>11. CASE Pipeline \/ Release
  BY <1>3, <1>11
     DEF Pipeline, OpenSucceeds, OpenFails, WindowStarts, ProviderAnswers,
         ProviderFails, TranscodeSucceeds, TranscodeFails, Release,
         LeaseReleased, WorkerStopped, OrphanSettles, ExecUnchanged, setting
<1>12. CASE Environment
  <2>1. CASE \E c \in Clients : RemoveDelete(c)
    BY <1>4, <2>1 DEF RemoveDelete, setting
  <2>2. CASE ~\E c \in Clients : RemoveDelete(c)
    BY <1>3, <1>12, <2>2
       DEF Environment, AbandonCall, CacheCompleted, Evict, Boot, Close, setting
  <2> QED BY <2>1, <2>2
<1>13. CASE Halt
  <2>1. slot'[Setting] = NoSlot
    BY <1>1, <1>13 DEF Halt
  <2>2. Applied' # 1
    BY <2>1 DEF Applied, NoSlot
  <2> QED BY <2>2 DEF HeadDisables
<1>14. CASE UNCHANGED vars
  BY <1>3, <1>14 DEF vars, setting
<1> QED BY <1>7, <1>8, <1>9, <1>10, <1>11, <1>12, <1>13, <1>14 DEF Next

\* So they hold in every state.
LEMMA HandInvariant == Spec => []HandInv
<1>1. Init => HandInv
  <2> SUFFICES ASSUME Init
               PROVE  HandInv
    OBVIOUS
  <2>1. Applied # 1
    BY DEF Init, Applied, NoSlot, Slots
  <2>2. CallsKept /\ LocalKnown
    BY DEF Init, CallsKept, LocalKnown
  <2> QED BY <2>1, <2>2 DEF HandInv, HeadDisables
<1>2. TypeInv /\ HandInv /\ [Next]_vars => HandInv'
  BY CallsKeptStep, LocalKnownStep, HeadDisablesStep DEF HandInv
<1> QED BY <1>1, <1>2, TypeInvariant, PTL DEF Spec

\* pump() cancels nothing.
LEMMA PumpCancelled ==
    ASSUME NEW rows \in [Keys -> Row], NEW entries \in SUBSET Entry, NEW attempts,
           NEW execs, NEW owner, NEW suspended, NEW scheduled,
           Pump(rows, entries, attempts, execs, owner, suspended, scheduled),
           NEW k \in Keys, job'[k].state = "cancelled"
    PROVE  job'[k] = rows[k]
<1>1. CASE job' = rows
  BY <1>1
<1>2. ASSUME NEW e \in entries, Start(e, rows, execs)
      PROVE  job'[k] = rows[k]
  <2> DEFINE row == [rows[e.key] EXCEPT !.state = "preparing"]
  <2>1. e.key \in Keys /\ rows[e.key] \in Row
    BY DEF Entry
  <2>2. row.state = "preparing"
    BY <2>1 DEF Row
  <2>3. job' = [rows EXCEPT ![e.key] = row]
    BY <1>2 DEF Start
  <2> HIDE DEF row
  <2> QED BY <2>1, <2>2, <2>3
<1> QED BY <1>1, <1>2 DEF Pump

\* Only the transition that disables the setting cancels a row because of it.
LEMMA OnlyDisablingStops ==
    ASSUME TypeInv, OwnInv, RowInv, mode # "down", [Next]_vars,
           NEW k \in Keys, Stopped(k), Off(k)'
    PROVE  ApplyDisabled
<1>1. /\ Active(job[k]) /\ job'[k].state = "cancelled"
      /\ job'[k].code = "automatic_disabled" /\ job'[k] # job[k]
      /\ exec'[k].pc = exec[k].pc
  BY DEF Stopped, SameFrame, Off, Active, ACTIVE_STATES
<1>2. /\ job \in [Keys -> Row] /\ pending \in SUBSET Entry /\ HasRow
  BY QueueTypes DEF RowInv
<1>3. ASSUME NEW attempts, NEW execs, NEW owner, NEW suspended, NEW scheduled,
             Pump(job, pending, attempts, execs, owner, suspended, scheduled)
      PROVE  FALSE
  BY <1>1, <1>2, <1>3, PumpCancelled
<1>4. ASSUME NEW S \in SUBSET Keys, NEW purging \in BOOLEAN,
             NEW s, NEW waits, NEW done,
             CancelJobs(S, purging, "cancelled", s, waits, done)
      PROVE  FALSE
  <2> DEFINE rows == RowsAfterCancel(S, purging, "cancelled")
             attempts == AttemptsAfterCancel(S)
             entries == Compacted(attempts)
             frames == FramesAfterCancel(S)
  <2>1. rows \in [Keys -> Row] /\ entries \in SUBSET Entry
    <3>1. \A i \in Keys : rows[i] \in Row
      BY <1>2, CancelEach DEF Codes
    <3> QED BY <1>2, <3>1 DEF RowsAfterCancel, Compacted
  <2>2. \/ job' = rows \/ job' = job
        \/ Pump(rows, entries, attempts, frames, activePromise, suspensions,
                pumpScheduled)
    BY <1>4 DEF CancelJobs
  <2> HIDE DEF rows, entries, attempts, frames
  <2>3. job'[k] = rows[k]
    BY <1>1, <2>1, <2>2, PumpCancelled
  <2>4. rows[k].code # "automatic_disabled" \/ rows[k] = job[k]
    <3>1. CancelledRow(k, "cancelled").code = "cancelled"
      BY <1>2 DEF CancelledRow, Row
    <3> QED BY <3>1 DEF rows, RowsAfterCancel, NoRow
  <2> QED BY <1>1, <2>3, <2>4
<1>5. ASSUME NEW j \in Keys,
             \/ OpenSucceeds(j) \/ OpenFails(j)
             \/ WindowStarts(j) \/ ProviderAnswers(j) \/ ProviderFails(j)
             \/ TranscodeSucceeds(j) \/ TranscodeFails(j)
             \/ WatchdogExpires(j) \/ RequestTimesOut(j)
             \/ Interrupted(j) \/ WindowInterrupted(j)
             \/ LeaseReleased(j) \/ WorkerStopped(j) \/ OrphanSettles(j)
      PROVE  FALSE
  <2>1. Kept(k) \/ Opened(k) \/ Left(k)
    BY <1>5, PipelineMoves
  <2> QED BY <1>1, <2>1 DEF Kept, Opened, Left
<1>6. CASE Microtask
  <2>1. ~PumpMicrotask /\ \A s \in Slots : ~Confirm(s)
    BY <1>3 DEF PumpMicrotask, Confirm
  <2>2. ASSUME NEW c \in Clients, RemoveCancel(c)
        PROVE  FALSE
    <3> DEFINE t == slot[c].torrent
    <3>1. CASE t \in cancelling
      BY <1>1, <2>2, <3>1 DEF RemoveCancel
    <3>2. CASE t \notin cancelling
      <4>1. CancelJobs(RowsOf(t), FALSE, "cancelled", c, Wait("removal", t),
                       [slot[c] EXCEPT !.op = "deleting"])
        BY <2>2, <3>2, Zenon DEF RemoveCancel
      <4>2. RowsOf(t) \in SUBSET Keys /\ FALSE \in BOOLEAN
        BY DEF RowsOf, FilesOf
      <4> HIDE DEF t
      <4> QED BY <1>4, <4>1, <4>2, Zenon
    <3> QED BY <3>1, <3>2
  <2>3. /\ \A t \in Torrents : ~ReleaseCancelling(t) /\ ~ScanNext(t)
        /\ ~ApplyEnabled /\ ~ScanEnds
    BY <1>1 DEF ReleaseCancelling, ScanNext, ApplyEnabled, ScanEnds, database
  <2>4. ASSUME NEW j \in Keys, FinishJob(j)
        PROVE  FALSE
    <3> DEFINE purges == purge[j] = exec[j].job.attempt
               rows == IF purges THEN [job EXCEPT ![j] = NoRow] ELSE job
               frames == [exec EXCEPT ![j] = NoFrame]
               owner == IF activePromise = exec[j].job.ts THEN 0 ELSE activePromise
    <3>1. exec[j].pc = "cleanup"
      BY <2>4 DEF FinishJob, CleanupSettled
    <3>2. j # k
      BY <1>1, <1>2, <3>1, IdleFiles
    <3>3. Pump(rows, pending, pendingAttempts, frames, owner, suspensions,
               pumpScheduled)
      BY <2>4 DEF FinishJob
    <3>4. rows \in [Keys -> Row] /\ rows[k] = job[k]
      BY <1>2, <3>2, EmptyValues
    <3> HIDE DEF rows, frames, owner
    <3> QED BY <1>1, <1>2, <3>3, <3>4, PumpCancelled
  <2> QED BY <1>5, <1>6, <2>1, <2>2, <2>3, <2>4 DEF Microtask
<1>7. ~\E c \in calls : RunCall(c)
  <2> SUFFICES ASSUME NEW c \in calls, RunCall(c)
               PROVE  FALSE
    OBVIOUS
  <2>1. job'[k] = job[k] \/ job'[k].state = "queued"
    BY DEF RunCall, QueuedRow
  <2> QED BY <1>1, <2>1
<1>8. CASE Request
  <2>1. ASSUME NEW c \in Clients, NEW j \in Keys, CancelFile(c, j)
        PROVE  FALSE
    <3>1. CancelJobs({j}, FALSE, "cancelled", c, Wait("file", j[1]), NoSlot)
      BY <2>1, Zenon DEF CancelFile
    <3>2. {j} \in SUBSET Keys /\ FALSE \in BOOLEAN
      OBVIOUS
    <3> QED BY <1>4, <3>1, <3>2, Zenon
  <2>2. ASSUME NEW c \in Clients, NEW t \in Torrents, CancelTorrent(c, t)
        PROVE  FALSE
    <3>1. CancelJobs(RowsOf(t), TRUE, "cancelled", c, Wait("torrent", t), NoSlot)
      BY <2>2, Zenon DEF CancelTorrent
    <3>2. RowsOf(t) \in SUBSET Keys /\ TRUE \in BOOLEAN
      BY DEF RowsOf, FilesOf
    <3> QED BY <1>4, <3>1, <3>2, Zenon
  <2> QED BY <1>1, <1>8, <2>1, <2>2
          DEF Request, QueueTorrent, QueueFile, ManualCall, Register, SetAutomatic,
              RemoveStart, database
<1>9. CASE Timer
  <2>1. \A s \in Slots : ~ConfirmTimesOut(s)
    BY <1>3 DEF ConfirmTimesOut
  <2> QED BY <1>5, <1>9, <2>1 DEF Timer
<1>10. CASE Pipeline \/ Release
  BY <1>5, <1>10 DEF Pipeline, Release
<1>11. CASE Environment
  <2>1. ASSUME NEW c \in Clients, RemoveDelete(c)
        PROVE  FALSE
    <3>1. job'[k] = job[k] \/ job'[k] = NoRow
      BY <2>1 DEF RemoveDelete
    <3> QED BY <1>1, <3>1 DEF NoRow
  <2> QED BY <1>1, <1>11, <2>1
          DEF Environment, AbandonCall, CacheCompleted, Evict, Boot, Close, database
<1>12. ~Halt /\ ~UNCHANGED vars
  BY <1>1 DEF Halt, vars, database
<1> QED BY <1>6, <1>7, <1>8, <1>9, <1>10, <1>11, <1>12 DEF Next

\* A step that takes nobody off the list.
LEMMA ListedKept ==
    ASSUME NEW k \in Keys, Reach(k) => Listed(k), Reach(k)', calls \subseteq calls',
           UNCHANGED <<automatic, transitions, scanning, scan>>,
           mode' \in {"starting", "serving"} => mode \in {"starting", "serving"},
           k[1] \in LocallyAvailable' => k[1] \in LocallyAvailable
    PROVE  Listed(k)'
<1>1. Reach(k)
  BY DEF Reach
<1> QED BY <1>1 DEF Listed

\* An element of a sequence is its head, or one of its tail.
LEMMA HeadOrTail ==
    ASSUME NEW values \in Seq(BOOLEAN), NEW i \in DOMAIN values
    PROVE  \/ i > 1 /\ i - 1 \in DOMAIN Tail(values) /\ Tail(values)[i - 1] = values[i]
           \/ ~(i > 1) /\ values[i] = Head(values)
<1>1. DOMAIN values = 1..Len(values) /\ Len(values) \in Nat /\ values # <<>>
  OBVIOUS
<1>2. CASE i > 1
  <2>1. DOMAIN Tail(values) = 1..(Len(values) - 1)
    BY <1>1
  <2>2. i - 1 \in 1..(Len(values) - 1)
    BY <1>1, <1>2
  <2> QED BY <1>1, <1>2, <2>1, <2>2
<1>3. CASE ~(i > 1)
  <2>1. i = 1
    BY <1>1, <1>3
  <2> QED BY <1>1, <1>3, <2>1
<1> QED BY <1>2, <1>3

\* The head of the chain goes: what enables comes after it.
LEMMA HeadDropped ==
    ASSUME TypeInv, transitions' = Tail(transitions),
           NEW i \in DOMAIN transitions, transitions[i],
           i > 1 \/ ~Head(transitions)
    PROVE  \E j \in DOMAIN transitions' : transitions'[j]
<1>1. transitions \in Seq(BOOLEAN)
  BY Zenon DEF TypeInv, TypeOK, RequestType
<1> QED BY <1>1, HeadOrTail, Zenon

\* A call that finds the chapter idle queues it.
LEMMA CallQueues ==
    ASSUME TypeInv, RowInv, NEW c \in calls, RunCall(c), NEW k \in Keys,
           Off(k), exec[k].pc = "none", k[1] \notin removing \cup cancelling,
           Reach(k), c.trigger = "automatic", k \in c.files
    PROVE  ~Off(k)'
<1>1. k[1] = c.torrent
  BY DEF RowInv, CallsSane, FilesOf
<1>2. Queues(k, "automatic")
  BY DEF Queues, Off, Active, ACTIVE_STATES, CleanupPending, LeftAlone, UpToDate,
         Reach
<1>3. k \in QueuedBy(c)
  BY <1>1, <1>2 DEF QueuedBy, Reach, LocallyAvailable
<1>4. job'[k].state = "queued"
  BY <1>3 DEF RunCall, QueuedRow
<1> QED BY <1>4 DEF Off

\* A disabling transition is applied with the setting on only if an enabling one
\* follows it.
LEMMA DisablingLists ==
    ASSUME TypeInv, SettingInv, NEW k \in Keys, Reach(k)', ApplyDisabled
    PROVE  Listed(k)'
<1>1. /\ ~Head(transitions) /\ ~scanning' /\ automatic' = automatic
      /\ transitions' = transitions \/ transitions' = Tail(transitions)
  BY Zenon DEF ApplyDisabled, InTurn
<1>2. transitions # <<>> /\ slot[Setting] = NoSlot
  BY Zenon DEF ApplyDisabled, InTurn
<1>3. /\ Len(transitions) > Applied
      /\ Len(transitions) \in DOMAIN transitions
  <2>1. Applied = 0
    BY <1>2 DEF Applied, NoSlot
  <2>2. transitions \in Seq(BOOLEAN)
    BY DEF TypeInv, TypeOK, RequestType
  <2> QED BY <1>2, <2>1, <2>2
<1>4. automatic
  BY <1>1, Zenon DEF Reach
<1>5. transitions[Len(transitions)]
  BY <1>3, <1>4, Zenon DEF SettingInv, LastTransition
<1>6. \E j \in DOMAIN transitions' : transitions'[j]
  BY <1>1, <1>3, <1>5, HeadDropped, Zenon
<1> QED BY <1>1, <1>6, Zenon DEF Listed

\* The transitions of the chain, and the scan.
LEMMA ChainLists ==
    ASSUME TypeInv, SettingInv, HeadDisables, NEW k \in Keys,
           Reach(k) => Listed(k), Reach(k)',
           \/ \E s \in Slots : Confirm(s) \/ ConfirmTimesOut(s)
           \/ \E t \in Torrents : ScanNext(t)
           \/ ApplyEnabled \/ ApplyDisabled \/ ScanEnds
           \/ \E enabled \in BOOLEAN : SetAutomatic(enabled)
    PROVE  Listed(k)'
<1>1. /\ transitions \in Seq(BOOLEAN) /\ Len(transitions) \in Nat
      /\ DOMAIN transitions = 1..Len(transitions)
      /\ TransitionHeld
  BY DEF TypeInv, TypeOK, RequestType
<1>2. ASSUME NEW s \in Slots, Confirm(s) \/ ConfirmTimesOut(s)
      PROVE  Listed(k)'
  <2>1. /\ UNCHANGED <<automatic, known, local, mode, calls, scanning, scan>>
        /\ transitions' = IF slot[s].op = "disable" THEN Tail(transitions)
                          ELSE transitions
    BY <1>2 DEF Confirm, ConfirmTimesOut
  <2>2. CASE slot[s].op # "disable"
    BY <2>1, <2>2, ListedKept DEF LocallyAvailable
  <2>3. CASE slot[s].op = "disable"
    <3>1. s = Setting /\ transitions # <<>> /\ ~scanning
      BY <1>1, <2>3 DEF TransitionHeld, NoSlot
    <3>2. ~Head(transitions)
      BY <2>3, <3>1 DEF HeadDisables, Applied
    <3>3. Reach(k)
      BY <2>1 DEF Reach, LocallyAvailable
    <3>4. CASE \E i \in DOMAIN transitions : transitions[i]
      <4>1. \E j \in DOMAIN transitions' : transitions'[j]
        BY <2>1, <2>3, <3>1, <3>2, <3>4, HeadDropped
      <4> QED BY <2>1, <3>1, <4>1 DEF Listed
    <3>5. CASE ~\E i \in DOMAIN transitions : transitions[i]
      BY <2>1, <3>1, <3>3, <3>5 DEF Listed
    <3> QED BY <3>4, <3>5
  <2> QED BY <2>2, <2>3
<1>3. ASSUME NEW t \in Torrents, ScanNext(t)
      PROVE  Listed(k)'
  <2>1. /\ UNCHANGED <<automatic, known, local, mode, transitions, scanning>>
        /\ calls \subseteq calls' /\ scan' = scan \ {t}
        /\ t \in LocallyAvailable => AutomaticCall(t, "scan") \in calls'
    BY <1>3 DEF ScanNext, database
  <2>2. Reach(k) /\ k[1] \in LocallyAvailable
    BY <2>1 DEF Reach, LocallyAvailable
  <2>3. CASE k[1] = t
    <3>1. AutomaticCall(t, "scan") \in calls'
      BY <2>1, <2>2, <2>3
    <3>2. /\ AutomaticCall(t, "scan").trigger = "automatic"
          /\ k \in AutomaticCall(t, "scan").files
      BY <2>3 DEF AutomaticCall, FilesOf
    <3> QED BY <3>1, <3>2 DEF Listed
  <2>4. CASE k[1] # t
    BY <2>1, <2>2, <2>4 DEF Listed
  <2> QED BY <2>3, <2>4
<1>4. CASE ApplyEnabled
  BY <1>4 DEF ApplyEnabled, Reach, Listed, LocallyAvailable, database
<1>5. CASE ApplyDisabled
  BY <1>5, DisablingLists
<1>6. CASE ScanEnds
  <2>1. /\ UNCHANGED <<automatic, known, local, calls>>
        /\ scanning /\ scan = {} /\ ~scanning'
        /\ IF mode = "starting" THEN transitions' = transitions
           ELSE transitions' = Tail(transitions) /\ mode' = mode
    BY <1>6 DEF ScanEnds, database
  <2>2. Reach(k)
    BY <2>1 DEF Reach, LocallyAvailable
  <2>3. CASE \E c \in calls : c.trigger = "automatic" /\ k \in c.files
    BY <2>1, <2>3 DEF Listed
  <2>4. CASE ~\E c \in calls : c.trigger = "automatic" /\ k \in c.files
    <3>1. PICK i \in DOMAIN transitions : transitions[i] /\ i > 1
      BY <2>1, <2>2, <2>4 DEF Listed
    <3>2. CASE transitions' = transitions
      BY <2>1, <3>1, <3>2 DEF Listed
    <3>3. CASE transitions' = Tail(transitions)
      <4>1. \E j \in DOMAIN transitions' : transitions'[j]
        BY <3>1, <3>3, HeadDropped, Zenon
      <4> QED BY <2>1, <4>1 DEF Listed
    <3> QED BY <2>1, <3>2, <3>3
  <2> QED BY <2>3, <2>4
<1>7. ASSUME NEW enabled \in BOOLEAN, SetAutomatic(enabled)
      PROVE  Listed(k)'
  <2>1. /\ automatic' = enabled /\ mode = "serving" /\ scanning' = scanning
        /\ transitions' = Append(transitions, enabled)
    BY <1>7 DEF SetAutomatic, Accepts
  <2>2. enabled
    BY <2>1 DEF Reach
  <2>3. /\ Len(transitions) + 1 \in DOMAIN transitions'
        /\ transitions'[Len(transitions) + 1] = enabled
    BY <1>1, <2>1
  <2>4. scanning => Len(transitions) + 1 > 1
    BY <1>1, <2>1 DEF TransitionHeld
  <2> QED BY <2>1, <2>2, <2>3, <2>4 DEF Listed
<1> QED BY <1>2, <1>3, <1>4, <1>5, <1>6, <1>7

\* A chapter that something could queue stays on a list, whatever runs.
LEMMA ListedStep ==
    ASSUME TypeInv, RowInv, SettingInv, HandInv, [Next]_vars, NEW k \in Keys,
           Off(k), Off(k)', exec[k].pc = "none",
           k[1] \notin removing \cup cancelling,
           Reach(k) => Listed(k), Reach(k)'
    PROVE  Listed(k)'
<1>1. ASSUME UNCHANGED <<automatic, known, local, transitions, scanning, scan>>,
             calls \subseteq calls',
             mode' \in {"starting", "serving"} => mode \in {"starting", "serving"}
      PROVE  Listed(k)'
  BY <1>1, ListedKept DEF LocallyAvailable
<1>2. CASE \/ \E s \in Slots : Confirm(s) \/ ConfirmTimesOut(s)
           \/ \E t \in Torrents : ScanNext(t)
           \/ ApplyEnabled \/ ApplyDisabled \/ ScanEnds
           \/ \E enabled \in BOOLEAN : SetAutomatic(enabled)
  BY <1>2, ChainLists DEF HandInv
<1>3. CASE \/ PumpMicrotask
           \/ \E c \in Clients : RemoveCancel(c)
           \/ \E t \in Torrents : ReleaseCancelling(t)
           \/ \E j \in Keys : Interrupted(j) \/ WindowInterrupted(j) \/ FinishJob(j)
  BY <1>1, <1>3
     DEF PumpMicrotask, RemoveCancel, ReleaseCancelling, Interrupted,
         WindowInterrupted, LeaveWindow, FinishJob, ExecUnchanged, setting, database
<1>4. CASE Microtask
  BY <1>2, <1>3, <1>4 DEF Microtask
<1>5. ASSUME NEW c \in calls, RunCall(c)
      PROVE  Listed(k)'
  <2>1. /\ calls' = calls \ {c}
        /\ UNCHANGED <<automatic, known, local, mode, transitions, scanning, scan>>
    BY <1>5 DEF RunCall, setting
  <2>2. Reach(k) /\ Listed(k)
    BY <2>1 DEF Reach, LocallyAvailable
  <2>3. ~(c.trigger = "automatic" /\ k \in c.files)
    BY <1>5, <2>2, CallQueues
  <2> QED BY <2>1, <2>2, <2>3 DEF Listed
<1>6. CASE Request
  <2>1. ASSUME NEW t \in Torrents, Register(t)
        PROVE  Listed(k)'
    <3>1. /\ UNCHANGED <<automatic, local, mode, transitions, scanning, scan, calls>>
          /\ known' = [known EXCEPT ![t] = TRUE]
          /\ ~known[t] /\ known \in [Torrents -> BOOLEAN]
      BY <2>1 DEF Register, setting, TypeInv, TypeOK, DatabaseType
    <3>2. k[1] \in Torrents /\ ~local[t] /\ local[k[1]] /\ known'[k[1]]
      BY <3>1 DEF HandInv, LocalKnown, Reach, LocallyAvailable
    <3>3. k[1] \in LocallyAvailable
      BY <3>1, <3>2 DEF LocallyAvailable
    <3> QED BY <3>1, <3>3, ListedKept
  <2>2. CASE \/ \E t \in Torrents : QueueTorrent(t)
             \/ \E j \in Keys : QueueFile(j)
             \/ \E c \in Clients, j \in Keys : CancelFile(c, j)
             \/ \E c \in Clients, t \in Torrents : CancelTorrent(c, t)
                                                   \/ RemoveStart(c, t)
    BY <1>1, <2>2 DEF QueueTorrent, QueueFile, ManualCall, CancelFile,
                      CancelTorrent, RemoveStart, setting, database
  <2> QED BY <1>2, <1>6, <2>1, <2>2 DEF Request
<1>7. CASE Timer
  <2>1. CASE \E j \in Keys : WatchdogExpires(j) \/ RequestTimesOut(j)
    BY <1>1, <2>1 DEF WatchdogExpires, RequestTimesOut, LeaveWindow, ExecUnchanged,
                      setting
  <2> QED BY <1>2, <1>7, <2>1 DEF Timer
<1>8. CASE Pipeline \/ Release
  <2>1. UNCHANGED <<automatic, known, local, mode, transitions, scanning, scan, calls>>
    BY <1>8
       DEF Pipeline, OpenSucceeds, OpenFails, WindowStarts, ProviderAnswers,
           ProviderFails, TranscodeSucceeds, TranscodeFails, Release,
           LeaseReleased, WorkerStopped, OrphanSettles, ExecUnchanged, setting
  <2> QED BY <1>1, <2>1
<1>9. CASE Environment
  <2>1. ASSUME NEW c \in calls, AbandonCall(c)
        PROVE  Listed(k)'
    <3>1. /\ calls' = calls \ {c} /\ c.trigger # "automatic"
          /\ UNCHANGED <<automatic, known, local, mode, transitions, scanning, scan>>
      BY <2>1 DEF AbandonCall, HandInv, CallsKept, setting, database
    <3>2. Listed(k)
      BY <3>1 DEF Reach, LocallyAvailable
    <3> QED BY <3>1, <3>2 DEF Listed
  <2>2. ASSUME NEW c \in Clients, RemoveDelete(c)
        PROVE  Listed(k)'
    <3>1. /\ UNCHANGED <<automatic, mode, transitions, scanning, scan, calls>>
          /\ known' = [known EXCEPT ![slot[c].torrent] = FALSE]
          /\ local' = [local EXCEPT ![slot[c].torrent] = FALSE]
      BY <2>2 DEF RemoveDelete, setting
    <3>2. k[1] \in LocallyAvailable' => k[1] \in LocallyAvailable
      BY <3>1 DEF LocallyAvailable, TypeInv, TypeOK, DatabaseType
    <3> QED BY <3>1, <3>2, ListedKept
  <2>3. ASSUME NEW t \in Torrents, CacheCompleted(t)
        PROVE  Listed(k)'
    <3>1. /\ UNCHANGED <<automatic, known, mode, transitions, scanning, scan>>
          /\ local' = [local EXCEPT ![t] = TRUE] /\ calls \subseteq calls'
          /\ automatic /\ mode # "closing"
                 => AutomaticCall(t, "listener") \in calls'
      BY <2>3 DEF CacheCompleted, setting
    <3>2. CASE k[1] = t
      <4>1. AutomaticCall(t, "listener") \in calls'
        BY <3>1 DEF Reach
      <4>2. /\ AutomaticCall(t, "listener").trigger = "automatic"
            /\ k \in AutomaticCall(t, "listener").files
        BY <3>2 DEF AutomaticCall, FilesOf
      <4> QED BY <4>1, <4>2 DEF Listed
    <3>3. CASE k[1] # t
      <4>1. k[1] \in LocallyAvailable' => k[1] \in LocallyAvailable
        BY <3>1, <3>3 DEF LocallyAvailable, TypeInv, TypeOK, DatabaseType
      <4> QED BY <3>1, <4>1, ListedKept
    <3> QED BY <3>2, <3>3
  <2>4. ASSUME NEW t \in Torrents, Evict(t)
        PROVE  Listed(k)'
    <3>1. /\ UNCHANGED <<automatic, known, mode, transitions, scanning, scan, calls>>
          /\ local' = [local EXCEPT ![t] = FALSE]
      BY <2>4 DEF Evict, setting
    <3>2. k[1] \in LocallyAvailable' => k[1] \in LocallyAvailable
      BY <3>1 DEF LocallyAvailable, TypeInv, TypeOK, DatabaseType
    <3> QED BY <3>1, <3>2, ListedKept
  <2>5. CASE \E m \in Models : Boot(m)
    BY <2>5 DEF Boot, Reach, Listed, LocallyAvailable
  <2>6. CASE Close
    BY <2>6 DEF Close, Reach
  <2> QED BY <1>9, <2>1, <2>2, <2>3, <2>4, <2>5, <2>6 DEF Environment
<1>10. CASE Halt
  BY <1>10 DEF Halt, Reach
<1>11. CASE UNCHANGED vars
  BY <1>1, <1>11 DEF vars, setting, database
<1> QED BY <1>4, <1>5, <1>6, <1>7, <1>8, <1>9, <1>10, <1>11 DEF Next

\* The end of an attempt makes the call that looks at its chapter again.
LEMMA FinishLists ==
    ASSUME TypeInv, RowInv, NEW k \in Keys, FinishJob(k), Off(k)', Reach(k)'
    PROVE  Listed(k)'
<1> DEFINE purges == purge[k] = exec[k].job.attempt
           rows == IF purges THEN [job EXCEPT ![k] = NoRow] ELSE job
           frames == [exec EXCEPT ![k] = NoFrame]
           owner == IF activePromise = exec[k].job.ts THEN 0 ELSE activePromise
           again == AutomaticCall(k[1], "rescan")
<1>1. /\ exec[k].pc = "cleanup"
      /\ calls' = IF Rescans(k, rows) THEN calls \cup {again} ELSE calls
      /\ Pump(rows, pending, pendingAttempts, frames, owner, suspensions,
              pumpScheduled)
      /\ UNCHANGED <<automatic, known, local, mode>>
  BY DEF FinishJob, CleanupSettled
<1>2. job \in [Keys -> Row] /\ pending \in SUBSET Entry /\ HasRow
  BY QueueTypes DEF RowInv
<1>3. rows \in [Keys -> Row] /\ rows[k] \in {NoRow, job[k]}
  BY <1>2, EmptyValues
<1>4. job'[k] = rows[k]
  <2> HIDE DEF rows, frames, owner
  <2> QED BY <1>1, <1>2, <1>3, PumpCancelled DEF Off
<1>5. rows[k] = job[k] /\ rows[k].state = "cancelled"
      /\ rows[k].code = "automatic_disabled"
  BY <1>3, <1>4 DEF Off, NoRow
<1>6. rows[k].attempt = exec[k].job.attempt
  BY <1>1, <1>2, <1>5 DEF HasRow, RowOf
<1>7. again \in calls'
  BY <1>1, <1>5, <1>6 DEF Rescans, Reach, LocallyAvailable
<1>8. again.trigger = "automatic" /\ k \in again.files
  BY DEF AutomaticCall, FilesOf
<1> QED BY <1>7, <1>8 DEF Listed

\* With the setting on, a chapter of a local torrent that the setting had cancelled
\* is lost to the scans, calls and cleanups that would queue it only by a step taken
\* while its torrent is being removed or purged.
THEOREM NoneLeftBehind == Spec => OnlyRemovalsLeaveBehind
<1> DEFINE Looked ==
      \A k \in Keys : ~LeftBehind(k) /\ LeftBehind(k)'
          => k[1] \in removing \cup cancelling
<1>1. TypeInv /\ OwnInv /\ QueueInv /\ StoredInv /\ HandInv /\ [Next]_vars => Looked
  <2> SUFFICES ASSUME TypeInv, OwnInv, QueueInv, StoredInv, HandInv, [Next]_vars,
                      NEW k \in Keys, ~LeftBehind(k), LeftBehind(k)',
                      k[1] \notin removing \cup cancelling
               PROVE  FALSE
    OBVIOUS
  <2>1. /\ Reach(k)' /\ Off(k)' /\ ~Listed(k)'
        /\ exec'[k].pc = "none" /\ mode' # "down"
    BY DEF LeftBehind, LookedAt, Reach, Off, Listed
  <2>2. RowInv /\ SettingInv /\ Move(k)
    BY MoveStep DEF QueueInv, StoredInv
  <2>3. mode # "down"
    <3>1. UNCHANGED vars => mode' = mode
      BY DEF vars
    <3>2. ASSUME NEW m \in Models, Boot(m)
          PROVE  FALSE
      BY <2>1, <3>2 DEF Boot, Reach, Listed, LocallyAvailable
    <3> QED BY <2>1, <2>2, <3>1, <3>2, DownOnlyBoots DEF RowInv
  <2>4. exec[k].pc = "none"
    BY <2>1, <2>2, <2>3, FreedByFinish, FinishLists
  <2>5. ~Stopped(k)
    BY <2>1, <2>2, <2>3, OnlyDisablingStops, DisablingLists
  <2>6. Off(k)
    BY <2>1, <2>3, <2>4, <2>2, <2>5
       DEF Move, Kept, Requeued, Started, Opened, Left, Dropped, Finished,
           Recovered, Lost, NoRow, Off
  <2>7. Reach(k) => Listed(k)
    BY <2>4, <2>6 DEF LeftBehind, LookedAt, Reach, Off, Listed
  <2> QED BY <2>1, <2>2, <2>4, <2>6, <2>7, ListedStep
<1>2. TypeInv /\ OwnInv /\ QueueInv /\ StoredInv /\ HandInv /\ [Next]_vars
          => [Looked]_vars
  BY <1>1
<1> QED BY <1>2, TypeInvariant, OwnInvariant, QueueInvariant, StoredInvariant,
           HandInvariant, PTL DEF Spec, OnlyRemovalsLeaveBehind
-----------------------------------------------------------------------------
(***************************************************************************)
(* The queue that whoever asks for captions sees.                          *)
(***************************************************************************)

\* While the process lives, a row that says so has an attempt that prepares or
\* transcribes it.
RunningHasFrame ==
    mode # "down" => \A k \in Keys : job[k].state \in {"preparing", "transcribing"}
                                        => exec[k].pc # "none"

\* start() leaves no row that runs.
LEMMA RecoveredRests ==
    ASSUME NEW row \in Row
    PROVE  RecoveredRow(row).state \notin {"preparing", "transcribing"}
BY DEF RecoveredRow, Row

LEMMA RunningHasFrameStep ==
    ASSUME TypeInv, RowInv, RunningHasFrame, \A k \in Keys : Move(k), [Next]_vars
    PROVE  RunningHasFrame'
<1> SUFFICES ASSUME mode' # "down", NEW k \in Keys,
                    job'[k].state \in {"preparing", "transcribing"}
             PROVE  exec'[k].pc # "none"
  BY DEF RunningHasFrame
<1>1. job[k] \in Row /\ RowOf(job[k], exec[k]) /\ Move(k)
  BY QueueTypes DEF RowInv, HasRow
<1>2. CASE mode = "down"
  <2>1. PICK m \in Models : Boot(m)
    <3>1. ~UNCHANGED vars
      BY <1>2 DEF vars
    <3> QED BY <1>2, <3>1, DownOnlyBoots DEF RowInv
  <2>2. job'[k] = RecoveredRow(job[k])
    BY <2>1 DEF Boot
  <2> QED BY <1>1, <2>2, RecoveredRests
<1>3. CASE mode # "down"
  <2>1. job[k].state \in {"preparing", "transcribing"} => exec[k].pc # "none"
    BY <1>3 DEF RunningHasFrame
  <2>2. CASE Kept(k)
    BY <2>1, <2>2 DEF Kept, SameFrame
  <2>3. CASE Requeued(k) \/ Stopped(k) \/ Dropped(k)
    BY <2>3 DEF Requeued, Stopped, Dropped, NoRow
  <2>4. CASE Started(k) \/ Opened(k)
    BY <2>4 DEF Started, Opened
  <2>5. CASE Left(k)
    BY <2>5 DEF Left
  <2>6. CASE Finished(k)
    <3>1. ~Active(job[k])
      BY <1>1, <2>6 DEF Finished, RowOf
    <3> QED BY <2>6, <3>1 DEF Finished, Active, ACTIVE_STATES, NoRow
  <2> QED BY <1>1, <1>3, <2>2, <2>3, <2>4, <2>5, <2>6 DEF Move, Recovered
<1> QED BY <1>2, <1>3

LEMMA RunningInvariant == Spec => []RunningHasFrame
<1>1. Init => RunningHasFrame
  BY DEF Init, RunningHasFrame
<1>2. TypeInv /\ OwnInv /\ QueueInv /\ RunningHasFrame /\ [Next]_vars
          => RunningHasFrame'
  <2> SUFFICES ASSUME TypeInv, OwnInv, QueueInv, RunningHasFrame, [Next]_vars
               PROVE  RunningHasFrame'
    OBVIOUS
  <2>1. RowInv /\ \A k \in Keys : Move(k)
    BY MoveStep DEF QueueInv
  <2> QED BY <2>1, RunningHasFrameStep
<1> QED BY <1>1, <1>2, TypeInvariant, OwnInvariant, QueueInvariant, PTL DEF Spec

\* What is shown of a row.
RunningRow(r) == r.state \in {"preparing", "transcribing"}
OffRow(r) == r.state = "cancelled" /\ r.code = "automatic_disabled"
LEMMA ShownFields ==
    ASSUME NEW r \in Row
    PROVE  /\ Shown(r).at = r.ts /\ Shown(r).by = r.trigger
           /\ Shown(r).state = "running" <=> RunningRow(r)
           /\ Shown(r).state = "off" <=> OffRow(r)
           /\ ~RunningRow(r) /\ ~OffRow(r) => Shown(r).state = r.state
BY DEF Shown, RunningRow, OffRow, Row, States, ACTIVE_STATES

\* A row that keeps its time and trigger changes its state only.
LEMMA ShownState ==
    ASSUME NEW r \in Row, NEW q \in Row, q.ts = r.ts, q.trigger = r.trigger,
           NEW state, Shown(q).state = state
    PROVE  Shown(q) = [Shown(r) EXCEPT !.state = state]
BY DEF Shown

\* What it takes to compare two states of one file.
LEMMA RowFacts ==
    ASSUME TypeInv, TypeInv', NEW k \in Keys
    PROVE  /\ job[k] \in Row /\ job'[k] \in Row
           /\ Rows[k] = Shown(job[k]) /\ Rows'[k] = Shown(job'[k])
           /\ Captions[k] = artifact[k].ts /\ Captions'[k] = artifact'[k].ts
           /\ SameCaptions(k) => Captions'[k] = Captions[k]
           /\ job'[k] = NoRow => Rows'[k] = Queue!NoRow
           /\ artifact'[k] = NoArtifact => Captions'[k] = 0
BY DEF TypeInv, TypeOK, DatabaseType, Rows, Captions, SameCaptions, Shown, NoRow,
       Queue!NoRow, NoArtifact

\* A call queues a chapter behind all others.
LEMMA RequeuedAsks ==
    ASSUME TypeInv, TypeInv', TimeInv, TimeInv', NEW k \in Keys, Requeued(k)
    PROVE  Queue!Ask(k)
<1>1. /\ \A j \in Keys : job[j] \in Row /\ job'[j] \in Row
      /\ \A j \in Keys : Rows[j] = Shown(job[j]) /\ Rows'[j] = Shown(job'[j])
      /\ Captions'[k] = Captions[k]
  BY RowFacts DEF Requeued
<1>2. /\ ~Active(job[k]) /\ job'[k].state = "queued" /\ mode # "down"
      /\ job'[k].ts > lastTs /\ lastTs \in Nat
      /\ job'[k].trigger = "automatic" => ~LeftAlone(k)
  BY QueueTypes DEF Requeued
<1>3. Rows[k].state \notin {"queued", "running"}
  BY <1>1, <1>2, ShownFields DEF Active, ACTIVE_STATES, RunningRow, OffRow
<1>4. Rows'[k].state = "queued"
  BY <1>1, <1>2, ShownFields DEF RunningRow, OffRow
<1>5. Rows'[k].by = "automatic" => Rows[k].state \in {"none", "completed", "off"}
  <2>1. Rows'[k].by = "automatic" => ~LeftAlone(k)
    BY <1>1, <1>2, ShownFields
  <2>2. ~LeftAlone(k) => job[k].state \in {"none", "completed"} \/ OffRow(job[k])
    BY <1>1, <1>2 DEF LeftAlone, OffRow, Active, ACTIVE_STATES, Row, States
  <2>3. job[k].state \in {"none", "completed"} => Rows[k].state = job[k].state
    BY <1>1, ShownFields DEF RunningRow, OffRow
  <2>4. OffRow(job[k]) => Rows[k].state = "off"
    BY <1>1, ShownFields
  <2> QED BY <2>1, <2>2, <2>3, <2>4
<1>6. \A j \in Keys : Rows[j].at < Rows'[k].at
  <2> SUFFICES ASSUME NEW j \in Keys
               PROVE  Rows[j].at < Rows'[k].at
    OBVIOUS
  <2>1. job[j].ts \in Nat /\ job'[k].ts \in Nat /\ job[j].ts <= lastTs
    BY <1>1, <1>2 DEF Row, TimeInv, TimesPast
  <2> QED BY <1>1, <1>2, <2>1, ShownFields
<1>7. \A j \in Keys \ {k} : Rows'[j].at # Rows'[k].at
  <2> SUFFICES ASSUME NEW j \in Keys, j # k
               PROVE  Rows'[j].at # Rows'[k].at
    OBVIOUS
  <2>1. job'[k].ts # 0
    BY <1>1, <1>2 DEF Row
  <2>2. job'[j].ts # job'[k].ts
    BY <2>1 DEF TimeInv, TimesDistinct
  <2> QED BY <1>1, <2>2, ShownFields
<1> QED BY <1>1, <1>3, <1>4, <1>5, <1>6, <1>7 DEF Queue!Ask, Queue!SameCaptions

\* pump() starts the first chapter of the queue, and no other runs.
LEMMA StartedBegins ==
    ASSUME TypeInv, TypeInv', OwnInv', RowInv, RowInv', TimeInv, RunningHasFrame',
           \A j \in Keys : Move(j), NEW k \in Keys, Started(k)
    PROVE  Queue!Begin(k)
<1>1. /\ \A j \in Keys : job[j] \in Row /\ job'[j] \in Row
      /\ \A j \in Keys : Rows[j] = Shown(job[j]) /\ Rows'[j] = Shown(job'[j])
      /\ Captions'[k] = Captions[k]
  BY RowFacts DEF Started
<1>2. /\ job[k].state = "queued"
      /\ job'[k] = [job[k] EXCEPT !.state = "preparing"]
      /\ exec[k].pc = "none" /\ exec'[k].pc = "opening"
  BY DEF Started
<1>3. mode' # "down" /\ mode # "down"
  <2>1. mode' = "down" => exec'[k].pc = "none"
    BY DEF RowInv, DownIdle, Each, NoFrame
  <2>2. mode = "down" => pending = {}
    BY DEF RowInv, DownIdle
  <2> QED BY <1>2, <2>1, <2>2 DEF Started, FirstIn
<1>4. /\ job'[k].ts = job[k].ts /\ job'[k].trigger = job[k].trigger
      /\ job'[k].state = "preparing"
  BY <1>1, <1>2 DEF Row
<1>5. Rows[k].state = "queued" /\ Rows'[k] = [Rows[k] EXCEPT !.state = "running"]
  <2>1. Rows[k].state = "queued"
    BY <1>1, <1>2, ShownFields DEF RunningRow, OffRow
  <2>2. Rows'[k].state = "running"
    BY <1>1, <1>4, ShownFields DEF RunningRow
  <2>3. Shown(job'[k]) = [Shown(job[k]) EXCEPT !.state = "running"]
    BY <1>1, <1>4, <2>2, ShownState
  <2> QED BY <1>1, <2>1, <2>3
<1>6. ASSUME NEW j \in Keys, j # k
      PROVE  Rows'[j].state # "running"
  <2>1. exec'[j].pc = "none"
    BY <1>2, <1>6 DEF OwnInv, OneAttempt
  <2>2. ~RunningRow(job'[j])
    BY <1>3, <2>1 DEF RunningHasFrame, RunningRow
  <2> QED BY <1>1, <2>2, ShownFields
<1>7. ASSUME NEW j \in Keys, j # k, Rows'[j].state = "queued"
      PROVE  Rows[k].at < Rows'[j].at
  <2>1. job'[j].state = "queued"
    BY <1>1, <1>7, ShownFields DEF RunningRow, OffRow
  <2>2. /\ job[k].ts \in Nat /\ job'[j].ts \in Nat /\ job[j].ts \in Nat
        /\ job[k].ts <= lastTs /\ lastTs \in Nat /\ job[k].ts # 0
    BY <1>1, <1>2, <1>3, QueueTypes DEF Row, TimeInv, TimesPast, RowInv, RowsTimed, Timed
  <2>3. CASE Requeued(j)
    <3>1. job'[j].ts > lastTs
      BY <2>3 DEF Requeued
    <3> QED BY <1>1, <2>2, <3>1, ShownFields
  <2>4. CASE ~Requeued(j)
    <3>1. job'[j] = job[j]
      BY <2>1, <2>4, MoveTimes
    <3>2. PICK e \in pending :
            /\ e.key = k
            /\ \A f \in pending' : f \in pending /\ e.place <= f.place
      BY DEF Started, FirstIn
    <3>3. PICK f \in pending' : f.key = j
      BY <1>3, <2>1 DEF RowInv, Matches
    <3>4. job[k].ts <= job[j].ts
      BY <3>2, <3>3 DEF TimeInv, Places
    <3>5. job[k].ts # job[j].ts
      BY <1>7, <2>2 DEF TimeInv, TimesDistinct
    <3> QED BY <1>1, <2>2, <3>1, <3>4, <3>5, ShownFields
  <2> QED BY <2>3, <2>4
<1> QED BY <1>1, <1>5, <1>6, <1>7 DEF Queue!Begin, Queue!SameCaptions

\* An attempt that opens its file, or leaves its pipeline, ends what runs or changes
\* nothing that is shown.
LEMMA AttemptEnds ==
    ASSUME TypeInv, TypeInv', RowInv, NEW k \in Keys, Opened(k) \/ Left(k)
    PROVE  Queue!Same(k) \/ Queue!Complete(k) \/ Queue!Fail(k) \/ Queue!Cancel(k)
<1>1. /\ job[k] \in Row /\ job'[k] \in Row /\ exec[k].job \in Row
      /\ Rows[k] = Shown(job[k]) /\ Rows'[k] = Shown(job'[k])
      /\ Captions'[k] = artifact'[k].ts
      /\ SameCaptions(k) => Captions'[k] = Captions[k]
  BY RowFacts, QueueTypes
<1>2. RowOf(job[k], exec[k])
  BY DEF RowInv, HasRow
<1>3. CASE Opened(k)
  <2>1. /\ job[k] = exec[k].job /\ job[k].state = "preparing"
        /\ job'[k] = [job[k] EXCEPT !.state = "transcribing"]
    BY <1>1, <1>2, <1>3 DEF Opened, Owned, RowOf, Active, ACTIVE_STATES
  <2>2. /\ job'[k].ts = job[k].ts /\ job'[k].trigger = job[k].trigger
        /\ job'[k].state = "transcribing"
    BY <1>1, <2>1 DEF Row
  <2>3. Shown(job'[k]) = Shown(job[k])
    BY <2>1, <2>2 DEF Shown
  <2> QED BY <1>1, <1>3, <2>3 DEF Opened, Queue!Same, Queue!SameCaptions
<1>4. CASE Left(k) /\ ~Owned(k)
  BY <1>1, <1>4 DEF Left, Queue!Same, Queue!SameCaptions
<1>5. CASE Left(k) /\ Owned(k)
  <2>1. /\ job[k] = exec[k].job /\ job[k].state \in {"preparing", "transcribing"}
        /\ job'[k] = [job[k] EXCEPT !.state = job'[k].state, !.code = job'[k].code]
        /\ \/ /\ job'[k].state \in {"failed", "cancelled"}
              /\ job'[k].state = "cancelled" => job'[k].code = "cancelled"
              /\ SameCaptions(k)
           \/ /\ job'[k].state = "completed"
              /\ artifact'[k] = [model |-> job[k].model, ts |-> job[k].ts]
    BY <1>1, <1>2, <1>5 DEF Left, Owned, RowOf, Active, ACTIVE_STATES
  <2>2. job'[k].ts = job[k].ts /\ job'[k].trigger = job[k].trigger
    BY <1>1, <2>1 DEF Row
  <2>3. Rows[k].state = "running" /\ Rows[k].at = job[k].ts
    BY <1>1, <2>1, ShownFields DEF RunningRow
  <2>4. ASSUME NEW state \in {"failed", "cancelled", "completed"},
               job'[k].state = state
        PROVE  Rows'[k] = [Rows[k] EXCEPT !.state = state]
    <3>1. ~RunningRow(job'[k]) /\ ~OffRow(job'[k])
      BY <2>1, <2>4 DEF RunningRow, OffRow
    <3>2. Shown(job'[k]).state = state
      BY <1>1, <2>4, <3>1, ShownFields
    <3> QED BY <1>1, <2>2, <3>2, ShownState
  <2>5. CASE job'[k].state = "failed"
    BY <1>1, <2>1, <2>3, <2>4, <2>5 DEF Queue!Fail, Queue!SameCaptions
  <2>6. CASE job'[k].state = "cancelled"
    BY <1>1, <2>1, <2>3, <2>4, <2>6 DEF Queue!Cancel, Queue!SameCaptions
  <2>7. CASE job'[k].state = "completed"
    <3>1. Captions'[k] = job[k].ts
      BY <1>1, <2>1, <2>7
    <3> QED BY <2>3, <2>4, <2>7, <3>1 DEF Queue!Complete
  <2> QED BY <2>1, <2>5, <2>6, <2>7
<1> QED BY <1>3, <1>4, <1>5

\* What the transition that disables the setting cancels was queued by the setting.
LEMMA DisabledAreAutomatic ==
    ASSUME TypeInv, RowInv, ApplyDisabled, NEW k \in Keys, Active(job[k]), Off(k)'
    PROVE  job[k].trigger = "automatic"
<1> DEFINE S == AutomaticJobs
           rows == RowsAfterCancel(S, FALSE, "automatic_disabled")
           attempts == AttemptsAfterCancel(S)
           entries == Compacted(attempts)
           frames == FramesAfterCancel(S)
<1>1. /\ job \in [Keys -> Row] /\ pending \in SUBSET Entry /\ HasRow
  BY QueueTypes DEF RowInv
<1>2. job'[k].state = "cancelled" /\ job[k].state # "cancelled"
  BY DEF Off, Active, ACTIVE_STATES
<1>3. rows \in [Keys -> Row] /\ entries \in SUBSET Entry
  <2>1. S \in SUBSET Keys
    BY DEF AutomaticJobs
  <2>2. \A i \in Keys : rows[i] \in Row
    BY <1>1, <2>1, CancelEach DEF Codes
  <2> QED BY <1>1, <2>2 DEF RowsAfterCancel, Compacted
<1>4. CancelJobs(S, FALSE, "automatic_disabled", Setting,
                 Wait("disable", NoTorrent), NoSlot)
  BY Zenon DEF ApplyDisabled
<1>5. \/ job' = rows \/ job' = job
      \/ Pump(rows, entries, attempts, frames, activePromise, suspensions,
              pumpScheduled)
  BY <1>4 DEF CancelJobs
<1>6. k \notin S => rows[k] = job[k]
  BY DEF RowsAfterCancel
<1> HIDE DEF rows, entries, attempts, frames
<1>7. job'[k] = rows[k] \/ job'[k] = job[k]
  BY <1>2, <1>3, <1>5, PumpCancelled
<1>8. k \in S
  BY <1>2, <1>6, <1>7
<1> QED BY <1>8 DEF AutomaticJobs

\* A request cancels a chapter; one the setting stops was queued by it.
LEMMA StoppedCancels ==
    ASSUME TypeInv, TypeInv', OwnInv, RowInv, mode # "down", [Next]_vars,
           NEW k \in Keys, Stopped(k)
    PROVE  Queue!Cancel(k)
<1>1. /\ job[k] \in Row /\ job'[k] \in Row
      /\ Rows[k] = Shown(job[k]) /\ Rows'[k] = Shown(job'[k])
      /\ Captions'[k] = Captions[k]
  BY RowFacts DEF Stopped
<1>2. /\ Active(job[k]) /\ job'[k].state = "cancelled"
      /\ job'[k] = [job[k] EXCEPT !.state = "cancelled", !.code = job'[k].code]
  BY DEF Stopped
<1>3. job'[k].ts = job[k].ts /\ job'[k].trigger = job[k].trigger
  BY <1>1, <1>2 DEF Row
<1>4. Rows[k].state \in {"queued", "running"} /\ Rows[k].by = job[k].trigger
  BY <1>1, <1>2, ShownFields DEF Active, ACTIVE_STATES, RunningRow, OffRow
<1>5. CASE OffRow(job'[k])
  <2>1. Off(k)'
    BY <1>5 DEF Off, OffRow
  <2>2. ApplyDisabled
    BY <2>1, OnlyDisablingStops
  <2>3. job[k].trigger = "automatic"
    BY <1>2, <2>1, <2>2, DisabledAreAutomatic
  <2>4. Rows'[k] = [Rows[k] EXCEPT !.state = "off"]
    BY <1>1, <1>3, <1>5, ShownFields, ShownState
  <2> QED BY <1>1, <1>4, <2>3, <2>4 DEF Queue!Cancel, Queue!SameCaptions
<1>6. CASE ~OffRow(job'[k])
  <2>1. Shown(job'[k]).state = "cancelled"
    BY <1>1, <1>2, <1>6, ShownFields DEF RunningRow
  <2>2. Rows'[k] = [Rows[k] EXCEPT !.state = "cancelled"]
    BY <1>1, <1>3, <2>1, ShownState
  <2> QED BY <1>1, <1>4, <2>2 DEF Queue!Cancel, Queue!SameCaptions
<1> QED BY <1>5, <1>6

\* What is deleted does not run; what its cleanup leaves is as it was or deleted.
LEMMA DeletedForgets ==
    ASSUME TypeInv, TypeInv', RowInv, RunningHasFrame, mode # "down",
           NEW k \in Keys, Dropped(k) \/ Finished(k)
    PROVE  Queue!Same(k) \/ Queue!Forget(k)
<1>1. /\ job[k] \in Row
      /\ Rows[k] = Shown(job[k]) /\ Rows'[k] = Shown(job'[k])
      /\ SameCaptions(k) => Captions'[k] = Captions[k]
      /\ job'[k] = NoRow => Rows'[k] = Queue!NoRow
      /\ artifact'[k] = NoArtifact => Captions'[k] = 0
  BY RowFacts
<1>2. Rows[k].state # "running"
  <2>1. exec[k].pc = "cleanup" => ~Active(job[k])
    BY IdleFiles DEF RowInv
  <2>2. ~RunningRow(job[k])
    BY <2>1 DEF Dropped, Finished, RunningHasFrame, RunningRow, Active, ACTIVE_STATES
  <2> QED BY <1>1, <2>2, ShownFields
<1> QED BY <1>1, <1>2
        DEF Dropped, Finished, Queue!Same, Queue!Forget, Queue!SameCaptions

\* start() fails what ran, cancels what the setting had queued if it is off now, and
\* leaves the rest.
LEMMA RecoveredTurns ==
    ASSUME TypeInv, TypeInv', NEW k \in Keys, Recovered(k)
    PROVE  Queue!Same(k) \/ Queue!Fail(k) \/ Queue!Cancel(k)
<1>1. /\ job[k] \in Row /\ job'[k] \in Row
      /\ Rows[k] = Shown(job[k]) /\ Rows'[k] = Shown(job'[k])
      /\ Captions'[k] = Captions[k]
  BY RowFacts DEF Recovered
<1>2. job'[k] = RecoveredRow(job[k])
  BY DEF Recovered
<1>3. CASE job'[k] = job[k]
  BY <1>1, <1>3 DEF Queue!Same, Queue!SameCaptions
<1>4. CASE /\ job[k].state = "queued" /\ job[k].trigger = "automatic"
           /\ job'[k] = [job[k] EXCEPT !.state = "cancelled",
                                       !.code = "automatic_disabled"]
  <2>1. /\ job'[k].ts = job[k].ts /\ job'[k].trigger = job[k].trigger
        /\ OffRow(job'[k])
    BY <1>1, <1>4 DEF Row, OffRow
  <2>2. Rows'[k] = [Rows[k] EXCEPT !.state = "off"]
    BY <1>1, <2>1, ShownFields, ShownState
  <2>3. Rows[k].state = "queued" /\ Rows[k].by = "automatic"
    BY <1>1, <1>4, ShownFields DEF RunningRow, OffRow
  <2> QED BY <1>1, <2>2, <2>3 DEF Queue!Cancel, Queue!SameCaptions
<1>5. CASE /\ RunningRow(job[k])
           /\ job'[k] = [job[k] EXCEPT !.state = "failed",
                                       !.code = "server_interrupted"]
  <2>1. /\ job'[k].ts = job[k].ts /\ job'[k].trigger = job[k].trigger
        /\ job'[k].state = "failed"
    BY <1>1, <1>5 DEF Row
  <2>2. Shown(job'[k]).state = "failed"
    BY <1>1, <2>1, ShownFields DEF RunningRow, OffRow
  <2>3. Rows'[k] = [Rows[k] EXCEPT !.state = "failed"]
    BY <1>1, <2>1, <2>2, ShownState
  <2>4. Rows[k].state = "running"
    BY <1>1, <1>5, ShownFields
  <2> QED BY <1>1, <2>3, <2>4 DEF Queue!Fail, Queue!SameCaptions
<1> QED BY <1>2, <1>3, <1>4, <1>5 DEF RecoveredRow, RunningRow

\* Every step takes each chapter one step further, or leaves it as it is.
LEMMA TurnsStep ==
    ASSUME TypeInv, TypeInv', OwnInv, OwnInv', RowInv, RowInv', TimeInv, TimeInv',
           RunningHasFrame, RunningHasFrame', \A k \in Keys : Move(k), [Next]_vars
    PROVE  Queue!Next
<1> SUFFICES ASSUME NEW k \in Keys
             PROVE  \/ Queue!Same(k) \/ Queue!Ask(k) \/ Queue!Begin(k)
                    \/ Queue!Complete(k) \/ Queue!Fail(k) \/ Queue!Cancel(k)
                    \/ Queue!Forget(k)
  BY DEF Queue!Next
<1>1. ASSUME job'[k] = job[k], SameCaptions(k)
      PROVE  Queue!Same(k)
  BY <1>1, RowFacts DEF Queue!Same, Queue!SameCaptions
<1>2. CASE mode = "down"
  <2>1. CASE UNCHANGED vars
    BY <1>1, <2>1 DEF vars, database, SameCaptions
  <2>2. ASSUME NEW m \in Models, Boot(m)
        PROVE  Recovered(k)
    BY <1>2, <2>2 DEF Boot, Recovered, SameCaptions, RowInv, DownIdle, Each, NoFrame
  <2>3. CASE Recovered(k)
    BY <2>3, RecoveredTurns
  <2> QED BY <1>2, <2>1, <2>2, <2>3, DownOnlyBoots DEF RowInv
<1>3. CASE mode # "down"
  <2>1. CASE Kept(k) \/ Lost(k)
    BY <1>1, <2>1 DEF Kept, Lost
  <2>2. CASE Requeued(k)
    BY <2>2, RequeuedAsks
  <2>3. CASE Started(k)
    BY <2>3, StartedBegins
  <2>4. CASE Opened(k) \/ Left(k)
    BY <2>4, AttemptEnds
  <2>5. CASE Stopped(k)
    BY <1>3, <2>5, StoppedCancels
  <2>6. CASE Dropped(k) \/ Finished(k)
    BY <1>3, <2>6, DeletedForgets
  <2>7. ~Recovered(k)
    BY <1>3 DEF Recovered
  <2>8. Move(k)
    OBVIOUS
  <2> QED BY <2>1, <2>2, <2>3, <2>4, <2>5, <2>6, <2>7, <2>8 DEF Move
<1> QED BY <1>2, <1>3

LEMMA TurnsInit == Init => Queue!Init
BY DEF Init, Each, Queue!Init, Queue!NoRow, Rows, Captions, Shown, NoRow, NoArtifact

(* Attempts, cleanups, timeouts, cancellations, removals, crashes and restarts     *)
(* implement the plain queue of JobQueue: each chapter takes a step of that queue, *)
(* whatever order the promises of the manager settle in.                           *)
THEOREM TurnsKept == Spec => KeepsTurns
<1>1. /\ TypeInv /\ TypeInv' /\ OwnInv /\ OwnInv' /\ QueueInv /\ QueueInv'
      /\ TimeInv /\ TimeInv' /\ RunningHasFrame /\ RunningHasFrame' /\ [Next]_vars
      => [Queue!Next]_(Queue!vars)
  <2> SUFFICES ASSUME TypeInv, TypeInv', OwnInv, OwnInv', QueueInv, QueueInv',
                      TimeInv, TimeInv', RunningHasFrame, RunningHasFrame',
                      [Next]_vars
               PROVE  Queue!Next
    OBVIOUS
  <2>1. RowInv /\ RowInv' /\ \A k \in Keys : Move(k)
    BY MoveStep DEF QueueInv
  <2> QED BY <2>1, TurnsStep
<1> QED BY <1>1, TurnsInit, TypeInvariant, OwnInvariant, QueueInvariant,
           TimeInvariant, RunningInvariant, PTL DEF Spec, KeepsTurns, Queue!Spec

\* Only a chapter that begins comes to run, and then no other does.
LEMMA OneRunsStep ==
    ASSUME Queue!OneRuns, Queue!Next
    PROVE  Queue!OneRuns'
<1>1. ASSUME NEW f \in Keys, Rows'[f].state = "running"
      PROVE  Rows[f].state = "running" \/ Queue!Begin(f)
  <2>1. CASE Queue!Same(f) \/ Queue!Ask(f)
    BY <1>1, <2>1 DEF Queue!Same, Queue!Ask
  <2>2. CASE Queue!Complete(f) \/ Queue!Fail(f)
    BY <2>2 DEF Queue!Complete, Queue!Fail
  <2>3. ~Queue!Cancel(f)
    <3>1. Rows[f] = Shown(job[f])
      BY DEF Rows
    <3> QED BY <1>1, <3>1 DEF Queue!Cancel, Shown
  <2>4. ~Queue!Forget(f)
    BY <1>1 DEF Queue!Forget, Queue!NoRow
  <2> QED BY <2>1, <2>2, <2>3, <2>4 DEF Queue!Next
<1> SUFFICES ASSUME NEW f \in Keys, NEW g \in Keys, f # g,
                    Rows'[f].state = "running", Rows'[g].state = "running"
             PROVE  FALSE
  BY DEF Queue!OneRuns
<1>2. ~Queue!Begin(f) /\ ~Queue!Begin(g)
  BY DEF Queue!Begin
<1> QED BY <1>1, <1>2 DEF Queue!OneRuns

(* No two chapters are ever shown as running, whatever was cancelled, timed out or  *)
(* died before: it follows from the plain queue alone.                              *)
THEOREM NeverTwoRunning == Spec => []Queue!OneRuns
<1>1. Queue!Init => Queue!OneRuns
  BY DEF Queue!Init, Queue!OneRuns, Queue!NoRow
<1>2. Queue!OneRuns /\ [Queue!Next]_(Queue!vars) => Queue!OneRuns'
  <2>1. CASE Queue!Next
    BY <2>1, OneRunsStep
  <2>2. CASE UNCHANGED Queue!vars
    BY <2>2 DEF Queue!vars, Queue!OneRuns
  <2> QED BY <2>1, <2>2
<1> QED BY <1>1, <1>2, TurnsKept, PTL DEF KeepsTurns, Queue!Spec

=============================================================================
