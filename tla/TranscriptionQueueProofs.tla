------------------------ MODULE TranscriptionQueueProofs ------------------------
(***************************************************************************)
(* More theorems about TranscriptionManager: rows, entries and pending     *)
(* attempts agree, no wakeup of the queue is lost, an attempt is never     *)
(* taken for another, and a removal has its torrent to itself.             *)
(*                                                                         *)
(* Whatever a handler does to the queue, it does to each file one of a few *)
(* things (Move).  The invariants that speak of one file at a time follow  *)
(* from the moves; the rest is about requests that wait.                   *)
(***************************************************************************)
EXTENDS TranscriptionManagerProofs

-----------------------------------------------------------------------------
(***************************************************************************)
(* What the moves keep.                                                    *)
(***************************************************************************)

\* An attempt has a row that is at least as far as the attempt was started with,
\* and while the row is active it is the copy the attempt writes from.
RowOf(row, frame) ==
    frame.pc # "none" =>
        /\ row.attempt = frame.job.attempt
        /\ row.ts = frame.job.ts
        /\ row.state \notin {"none", "queued"}
        /\ Active(row) =>
               /\ row = frame.job
               /\ frame.pc = IF row.state = "preparing" THEN "opening"
                             ELSE "transcribing"
HasRow == \A k \in Keys : RowOf(job[k], exec[k])

\* A row that exists has a queue time and an attempt number.
Timed(row) == IF row.state = "none" THEN row = NoRow
              ELSE row.ts # 0 /\ row.attempt # 0
RowsTimed == \A k \in Keys : Timed(job[k])

\* QueueMatchesRows for any rows, entries and map of pending attempts.
Matches(rows, entries, attempts) ==
    /\ \A k \in Keys : IF rows[k].state = "queued"
                       THEN /\ attempts[k] = rows[k].attempt
                            /\ \E e \in entries : e.key = k
                       ELSE attempts[k] = 0
    /\ \A e \in entries : /\ rows[e.key].state = "queued"
                          /\ e.attempt = rows[e.key].attempt
    /\ \A e, f \in entries : e.key = f.key => e = f

\* A process that is down has nothing but its rows.
DownIdle ==
    mode = "down" =>
        /\ exec = Each(NoFrame)
        /\ activePromise = 0
        /\ pending = {}
        /\ pendingAttempts = Each(0)
        /\ suspensions = 0
        /\ purge = Each(0)
        /\ cancelling = {}
        /\ deferred = [t \in Torrents |-> 0]
        /\ transitions = <<>>
        /\ calls = {}
        /\ removing = {}
        /\ lease = Each("none")
        /\ worker = Each("none")
        /\ provider = Each("idle")

\* The files of a call are files of its torrent.
CallsSane == \A c \in calls : c.files \subseteq FilesOf(c.torrent)

RowInv ==
    /\ HasRow
    /\ RowsTimed
    /\ mode # "down" => Matches(job, pending, pendingAttempts)
    /\ DownIdle
    /\ CallsSane

-----------------------------------------------------------------------------
(***************************************************************************)
(* pump().                                                                 *)
(***************************************************************************)

\* pump() leaves everything as its handler computed it.
PumpsNothing(rows, entries, attempts, execs, owner, scheduled) ==
    /\ job' = rows
    /\ pending' = entries
    /\ pendingAttempts' = attempts
    /\ exec' = execs
    /\ activePromise' = owner
    /\ pumpScheduled' = scheduled
    /\ UNCHANGED lease

Fresh(row) == [NoFrame EXCEPT !.pc = "opening", !.job = row, !.timer = "watchdog"]

\* pump() starts the attempt of entry e.
PumpsEntry(e, rows, entries, attempts, execs, owner, scheduled) ==
    /\ rows[e.key].state = "queued"
    /\ owner = 0
    /\ mode # "closing"
    /\ \A f \in entries : e.place <= f.place
    /\ job' = [rows EXCEPT ![e.key].state = "preparing"]
    /\ pending' = entries \ {e}
    /\ pendingAttempts' = [attempts EXCEPT ![e.key] = 0]
    /\ exec' = [execs EXCEPT ![e.key] =
                   Fresh([rows[e.key] EXCEPT !.state = "preparing"])]
    /\ activePromise' = rows[e.key].ts
    /\ pumpScheduled' = scheduled
    /\ lease' = [lease EXCEPT ![e.key] =
                    IF e.key[1] \in removing THEN "none" ELSE "opening"]

\* Where the entries match the rows, pump() finds no stale entry: it starts the
\* first one or has a reason not to.
LEMMA PumpOutcome ==
    ASSUME NEW rows \in [Keys -> Row], NEW entries \in SUBSET Entry,
           NEW attempts \in [Keys -> Nat], NEW execs, NEW owner, NEW suspended,
           NEW scheduled, Matches(rows, entries, attempts),
           Pump(rows, entries, attempts, execs, owner, suspended, scheduled)
    PROVE  \/ /\ ~Idle(owner, suspended) \/ entries = {}
              /\ PumpsNothing(rows, entries, attempts, execs, owner, scheduled)
           \/ \E e \in entries :
                 PumpsEntry(e, rows, entries, attempts, execs, owner, scheduled)
<1>1. CASE ~Idle(owner, suspended) \/ entries = {}
  BY <1>1 DEF Pump, PumpsNothing
<1>2. CASE ~(~Idle(owner, suspended) \/ entries = {})
  <2>1. PICK e \in entries :
          /\ \A f \in entries : e.place <= f.place
          /\ pending' = entries \ {e}
          /\ IF attempts[e.key] = e.attempt
             THEN pendingAttempts' = [attempts EXCEPT ![e.key] = 0]
             ELSE pendingAttempts' = attempts
          /\ IF Live(e, rows, attempts)
             THEN Start(e, rows, execs) /\ pumpScheduled' = scheduled
             ELSE /\ job' = rows
                  /\ exec' = execs
                  /\ activePromise' = owner
                  /\ pumpScheduled' = TRUE
                  /\ UNCHANGED lease
    BY <1>2 DEF Pump
  <2>2. e.key \in Keys
    BY DEF Entry
  <2>3. Live(e, rows, attempts) /\ attempts[e.key] = e.attempt
        /\ rows[e.key].state = "queued"
    BY <2>1, <2>2 DEF Matches, Live
  <2>4. rows[e.key] \in Row
    BY <2>2
  <2> DEFINE row == [rows[e.key] EXCEPT !.state = "preparing"]
  <2>5. row.ts = rows[e.key].ts
    BY <2>4 DEF Row
  <2>6. [rows EXCEPT ![e.key] = row] = [rows EXCEPT ![e.key].state = "preparing"]
    OBVIOUS
  <2>7. owner = 0 /\ mode # "closing"
    BY <1>2 DEF Idle
  <2>8. PumpsEntry(e, rows, entries, attempts, execs, owner, scheduled)
    BY <2>1, <2>3, <2>5, <2>6, <2>7 DEF Start, PumpsEntry, Fresh
  <2> QED BY <2>8
<1> QED BY <1>1, <1>2

\* The entry that is started leaves the queue with its row.
LEMMA StartMatches ==
    ASSUME NEW rows \in [Keys -> Row], NEW entries \in SUBSET Entry,
           NEW attempts \in [Keys -> Nat], NEW e \in entries,
           Matches(rows, entries, attempts)
    PROVE  Matches([rows EXCEPT ![e.key].state = "preparing"], entries \ {e},
                   [attempts EXCEPT ![e.key] = 0])
<1> DEFINE after == [rows EXCEPT ![e.key].state = "preparing"]
           left == entries \ {e}
           map == [attempts EXCEPT ![e.key] = 0]
<1>1. e.key \in Keys /\ \A f \in entries : f.key \in Keys
  BY DEF Entry
<1>2. after[e.key].state = "preparing"
  BY <1>1 DEF Row
<1>3. \A k \in Keys : k # e.key => after[k] = rows[k] /\ map[k] = attempts[k]
  BY <1>1
<1>4. map[e.key] = 0
  BY <1>1
<1>5. \A f \in left : f.key # e.key
  BY DEF Matches
<1>6. \A k \in Keys : k # e.key =>
          ((\E f \in entries : f.key = k) <=> (\E f \in left : f.key = k))
  OBVIOUS
<1> HIDE DEF after, map
<1>7. \A k \in Keys : IF after[k].state = "queued"
                      THEN /\ map[k] = after[k].attempt
                           /\ \E f \in left : f.key = k
                      ELSE map[k] = 0
  BY <1>2, <1>3, <1>4, <1>6 DEF Matches
<1>8. \A f \in left : /\ after[f.key].state = "queued"
                      /\ f.attempt = after[f.key].attempt
  BY <1>1, <1>3, <1>5 DEF Matches
<1>9. \A f, g \in left : f.key = g.key => f = g
  BY DEF Matches
<1>10. Matches(after, left, map)
  BY <1>7, <1>8, <1>9 DEF Matches
<1> QED BY <1>10 DEF after, map

\* So pump() keeps the agreement.
LEMMA PumpMatches ==
    ASSUME NEW rows \in [Keys -> Row], NEW entries \in SUBSET Entry,
           NEW attempts \in [Keys -> Nat], NEW execs, NEW owner, NEW suspended,
           NEW scheduled, Matches(rows, entries, attempts),
           Pump(rows, entries, attempts, execs, owner, suspended, scheduled)
    PROVE  Matches(job', pending', pendingAttempts')
<1>1. CASE PumpsNothing(rows, entries, attempts, execs, owner, scheduled)
  BY <1>1 DEF PumpsNothing
<1>2. ASSUME NEW e \in entries,
             PumpsEntry(e, rows, entries, attempts, execs, owner, scheduled)
      PROVE  Matches(job', pending', pendingAttempts')
  BY <1>2, StartMatches DEF PumpsEntry
<1> QED BY <1>1, <1>2, PumpOutcome

\* The file of the first entry: none that stays in the queue comes before it.
FirstIn(k, entries) ==
    \E e \in entries :
        /\ e.key = k
        /\ \A f \in pending' : f \in entries /\ e.place <= f.place

\* What pump() does to one file.
LEMMA PumpEach ==
    ASSUME NEW rows \in [Keys -> Row], NEW entries \in SUBSET Entry,
           NEW attempts \in [Keys -> Nat], NEW execs \in [Keys -> Frame],
           NEW owner, NEW suspended, NEW scheduled,
           Matches(rows, entries, attempts),
           Pump(rows, entries, attempts, execs, owner, suspended, scheduled),
           NEW k \in Keys
    PROVE  \/ job'[k] = rows[k] /\ exec'[k] = execs[k]
           \/ /\ rows[k].state = "queued"
              /\ FirstIn(k, entries)
              /\ job'[k] = [rows[k] EXCEPT !.state = "preparing"]
              /\ exec'[k] = Fresh([rows[k] EXCEPT !.state = "preparing"])
<1>1. CASE PumpsNothing(rows, entries, attempts, execs, owner, scheduled)
  BY <1>1 DEF PumpsNothing
<1>2. ASSUME NEW e \in entries,
             PumpsEntry(e, rows, entries, attempts, execs, owner, scheduled)
      PROVE  \/ job'[k] = rows[k] /\ exec'[k] = execs[k]
             \/ /\ rows[k].state = "queued"
                /\ FirstIn(k, entries)
                /\ job'[k] = [rows[k] EXCEPT !.state = "preparing"]
                /\ exec'[k] = Fresh([rows[k] EXCEPT !.state = "preparing"])
  <2>1. CASE k = e.key
    <3>1. FirstIn(k, entries)
      BY <1>2, <2>1 DEF PumpsEntry, FirstIn
    <3> QED BY <1>2, <2>1, <3>1 DEF PumpsEntry
  <2>2. CASE k # e.key
    BY <1>2, <2>2 DEF PumpsEntry
  <2> QED BY <2>1, <2>2
<1> QED BY <1>1, <1>2, PumpOutcome

-----------------------------------------------------------------------------
(***************************************************************************)
(* The moves: all that one step may do to the row, the captions and the    *)
(* attempt of a file.                                                      *)
(***************************************************************************)

SameFrame(k) == exec'[k].pc = exec[k].pc /\ exec'[k].job = exec[k].job
SameCaptions(k) == artifact'[k] = artifact[k]

Kept(k) == job'[k] = job[k] /\ SameCaptions(k) /\ SameFrame(k)

\* A call queues the file.
Requeued(k) ==
    /\ ~Active(job[k])
    /\ exec[k].pc = "none"
    /\ k[1] \notin removing \cup cancelling
    /\ mode # "down"
    /\ job'[k].state = "queued"
    /\ job'[k].attempt # 0
    /\ job'[k].ts > lastTs
    /\ job'[k].ts <= lastTs'
    /\ job'[k].trigger = "automatic" => automatic /\ ~LeftAlone(k)
    /\ SameCaptions(k)
    /\ SameFrame(k)

\* pump() starts its attempt.
Started(k) ==
    /\ job[k].state = "queued"
    /\ FirstIn(k, pending)
    /\ exec[k].pc = "none"
    /\ job'[k] = [job[k] EXCEPT !.state = "preparing"]
    /\ exec'[k].pc = "opening"
    /\ exec'[k].job = job'[k]
    /\ SameCaptions(k)

\* Its cache reader is open.
Opened(k) ==
    /\ exec[k].pc = "opening"
    /\ Owned(k)
    /\ job'[k] = [exec[k].job EXCEPT !.state = "transcribing"]
    /\ exec'[k].pc = "transcribing"
    /\ exec'[k].job = job'[k]
    /\ SameCaptions(k)

\* It leaves its pipeline, and writes how it ended if the row is still its own.
Left(k) ==
    /\ exec[k].pc \in {"opening", "transcribing"}
    /\ exec'[k].pc = "cleanup"
    /\ exec'[k].job = exec[k].job
    /\ \/ /\ ~Owned(k)
          /\ job'[k] = job[k]
          /\ SameCaptions(k)
       \/ /\ Owned(k)
          /\ job'[k] = [exec[k].job EXCEPT !.state = job'[k].state,
                                           !.code = job'[k].code]
          /\ \/ /\ job'[k].state \in {"failed", "cancelled"}
                /\ job'[k].state = "cancelled" => job'[k].code = "cancelled"
                /\ SameCaptions(k)
             \/ /\ job'[k].state = "completed"
                /\ artifact'[k] = [model |-> exec[k].job.model,
                                   ts |-> exec[k].job.ts]

\* A request cancels its row.
Stopped(k) ==
    /\ Active(job[k])
    /\ job'[k].state = "cancelled"
    /\ job'[k] = [job[k] EXCEPT !.state = "cancelled", !.code = job'[k].code]
    /\ SameCaptions(k)
    /\ SameFrame(k)

\* Row and captions are deleted.
Dropped(k) ==
    /\ exec[k].pc = "none"
    /\ exec'[k].pc = "none"
    /\ job'[k] = NoRow
    /\ artifact'[k] = NoArtifact

\* The attempt is over; what a purge left to it is deleted.
Finished(k) ==
    /\ exec[k].pc = "cleanup"
    /\ exec'[k].pc = "none"
    /\ \/ job'[k] = job[k] /\ SameCaptions(k)
       \/ job'[k] = NoRow /\ artifact'[k] = NoArtifact

\* start() recovers it, or the process ends.
Recovered(k) ==
    /\ mode = "down"
    /\ exec[k].pc = "none"
    /\ exec'[k].pc = "none"
    /\ job'[k] = RecoveredRow(job[k])
    /\ SameCaptions(k)
Lost(k) ==
    /\ exec'[k].pc = "none"
    /\ job'[k] = job[k]
    /\ SameCaptions(k)

Move(k) ==
    \/ Kept(k) \/ Requeued(k) \/ Started(k) \/ Opened(k) \/ Left(k)
    \/ Stopped(k) \/ Dropped(k) \/ Finished(k) \/ Recovered(k)
    \/ mode' = "down" /\ Lost(k)

\* What a lost wakeup would break: work that nothing holds back has a pump on its
\* way, and the queue waits for a promise only while its attempt is there.
Due ==
    /\ mode \in {"starting", "serving"}
    /\ pending # {}
    /\ activePromise = 0
    /\ suspensions = 0
    => pumpScheduled
Promised == activePromise # 0 => \E k \in Keys : exec[k].pc # "none"
WakeInv == Due /\ Promised

\* pump() as the last call of a handler loses no wakeup.
LEMMA PumpWakes ==
    ASSUME NEW rows \in [Keys -> Row], NEW entries \in SUBSET Entry,
           NEW attempts \in [Keys -> Nat], NEW execs \in [Keys -> Frame],
           NEW owner, NEW scheduled, Matches(rows, entries, attempts),
           Pump(rows, entries, attempts, execs, owner, suspensions', scheduled),
           mode' = mode,
           \A k \in Keys : rows[k].state = "queued" => rows[k].ts # 0,
           owner # 0 => \E k \in Keys : execs[k].pc # "none"
    PROVE  WakeInv'
<1>1. CASE /\ ~Idle(owner, suspensions') \/ entries = {}
           /\ PumpsNothing(rows, entries, attempts, execs, owner, scheduled)
  <2>1. Due'
    BY <1>1 DEF PumpsNothing, Due, Idle
  <2>2. Promised'
    BY <1>1 DEF PumpsNothing, Promised
  <2> QED BY <2>1, <2>2 DEF WakeInv
<1>2. ASSUME NEW e \in entries,
             PumpsEntry(e, rows, entries, attempts, execs, owner, scheduled)
      PROVE  WakeInv'
  <2> DEFINE row == [rows[e.key] EXCEPT !.state = "preparing"]
  <2>1. e.key \in Keys
    BY DEF Entry
  <2>2. activePromise' # 0
    BY <1>2, <2>1 DEF PumpsEntry
  <2>3. Fresh(row).pc = "opening"
    BY DEF Fresh, NoFrame
  <2>4. exec'[e.key] = Fresh(row)
    BY <1>2, <2>1 DEF PumpsEntry
  <2> HIDE DEF row
  <2> QED BY <2>1, <2>2, <2>3, <2>4 DEF WakeInv, Due, Promised
<1> QED BY <1>1, <1>2, PumpOutcome

\* The facts about types that the lemmas below start from.
LEMMA QueueTypes ==
    ASSUME TypeInv
    PROVE  /\ job \in [Keys -> Row]
           /\ exec \in [Keys -> Frame]
           /\ pending \in SUBSET Entry
           /\ pendingAttempts \in [Keys -> Nat]
           /\ activePromise \in Nat
           /\ suspensions \in Nat
           /\ lastTs \in Nat
           /\ lease \in [Keys -> {"none", "opening", "held"}]
           /\ \A k \in Keys : job[k] \in Row /\ exec[k] \in Frame
                              /\ exec[k].job \in Row
BY DEF TypeInv, TypeOK, DatabaseType, QueueType, AttemptType, Frame

\* The fields of a fresh frame.
LEMMA FreshFields ==
    ASSUME NEW row
    PROVE  Fresh(row).pc = "opening" /\ Fresh(row).job = row
BY DEF Fresh, NoFrame

\* A file that is queued, or idle, has no attempt.
LEMMA IdleFiles ==
    ASSUME HasRow, NEW k \in Keys
    PROVE  /\ job[k].state \in {"none", "queued"} => exec[k].pc = "none"
           /\ ~Running(k) <=> exec[k].pc = "none"
           /\ exec[k].pc = "cleanup" => ~Active(job[k])
BY DEF HasRow, RowOf, Running

\* A handler that only pumps.
LEMMA PumpHere ==
    ASSUME TypeInv, OwnInv, RowInv, WakeInv, mode # "down", mode' = mode,
           artifact' = artifact, NEW scheduled,
           Pump(job, pending, pendingAttempts, exec, activePromise,
                suspensions', scheduled)
    PROVE  /\ \A k \in Keys : Move(k)
           /\ Matches(job', pending', pendingAttempts')
           /\ WakeInv'
<1>1. Matches(job, pending, pendingAttempts) /\ HasRow
  BY DEF RowInv
<1>2. ASSUME NEW k \in Keys
      PROVE  Move(k)
  <2>1. \/ job'[k] = job[k] /\ exec'[k] = exec[k]
        \/ /\ job[k].state = "queued"
           /\ FirstIn(k, pending)
           /\ job'[k] = [job[k] EXCEPT !.state = "preparing"]
           /\ exec'[k] = Fresh([job[k] EXCEPT !.state = "preparing"])
    BY <1>1, QueueTypes, PumpEach
  <2>2. CASE job'[k] = job[k] /\ exec'[k] = exec[k]
    BY <2>2 DEF Move, Kept, SameCaptions, SameFrame
  <2>3. CASE /\ job[k].state = "queued"
             /\ FirstIn(k, pending)
             /\ job'[k] = [job[k] EXCEPT !.state = "preparing"]
             /\ exec'[k] = Fresh([job[k] EXCEPT !.state = "preparing"])
    <3>1. exec[k].pc = "none"
      BY <2>3, <1>1, IdleFiles
    <3>2. exec'[k].pc = "opening" /\ exec'[k].job = job'[k]
      BY <2>3, FreshFields
    <3>3. Started(k)
      BY <2>3, <3>1, <3>2 DEF Started, SameCaptions
    <3> QED BY <3>3 DEF Move
  <2> QED BY <2>1, <2>2, <2>3
<1>3. Matches(job', pending', pendingAttempts')
  BY <1>1, QueueTypes, PumpMatches
<1>4. WakeInv'
  <2>1. \A k \in Keys : job[k].state = "queued" => job[k].ts # 0
    BY DEF OwnInv, QueuedHaveTime
  <2>2. activePromise # 0 => \E k \in Keys : exec[k].pc # "none"
    BY DEF WakeInv, Promised
  <2> QED BY <1>1, <2>1, <2>2, QueueTypes, PumpWakes
<1> QED BY <1>2, <1>3, <1>4

-----------------------------------------------------------------------------
(***************************************************************************)
(* Cancellation.                                                           *)
(***************************************************************************)

\* cancelJobRecord leaves rows and queue in agreement.
LEMMA CancelMatches ==
    ASSUME TypeInv, RowInv, mode # "down",
           NEW S \in SUBSET Keys, NEW purging, NEW code \in Codes
    PROVE  Matches(RowsAfterCancel(S, purging, code),
                   Compacted(AttemptsAfterCancel(S)), AttemptsAfterCancel(S))
<1> DEFINE rows == RowsAfterCancel(S, purging, code)
           attempts == AttemptsAfterCancel(S)
           entries == Compacted(attempts)
<1>1. Matches(job, pending, pendingAttempts) /\ RowsTimed /\ HasRow
  BY DEF RowInv
<1>2. \A e \in pending : e.key \in Keys /\ e.attempt \in Nat
  BY QueueTypes DEF Entry
<1>3. ASSUME NEW k \in Keys
      PROVE  /\ k \in S => rows[k].state # "queued" /\ attempts[k] = 0
             /\ k \notin S => rows[k] = job[k] /\ attempts[k] = pendingAttempts[k]
  <2>1. job[k] \in Row /\ NoRow.state = "none"
    BY QueueTypes DEF NoRow
  <2>2. CancelledRow(k, code).state = "cancelled"
    BY <2>1 DEF CancelledRow, Row
  <2>3. k \in S => rows[k].state # "queued"
    BY <2>1, <2>2 DEF RowsAfterCancel, Active, ACTIVE_STATES
  <2>4. k \in S => attempts[k] = 0
    BY <1>1 DEF AttemptsAfterCancel, Matches
  <2> QED BY <2>3, <2>4 DEF RowsAfterCancel, AttemptsAfterCancel
<1>4. \A e \in pending : e \in entries <=> e.key \notin S
  <2>1. \A e \in pending : e.attempt # 0
    BY <1>1, <1>2 DEF Matches, RowsTimed, Timed
  <2>2. \A e \in pending : pendingAttempts[e.key] = e.attempt
    BY <1>1, <1>2 DEF Matches
  <2> HIDE DEF attempts
  <2> QED BY <1>2, <1>3, <2>1, <2>2 DEF Compacted
<1> HIDE DEF rows, attempts
<1>5. entries \subseteq pending
  BY DEF Compacted
<1> HIDE DEF entries
<1>6. \A k \in Keys : IF rows[k].state = "queued"
                      THEN /\ attempts[k] = rows[k].attempt
                           /\ \E e \in entries : e.key = k
                      ELSE attempts[k] = 0
  BY <1>1, <1>2, <1>3, <1>4 DEF Matches
<1>7. \A e \in entries : /\ rows[e.key].state = "queued"
                         /\ e.attempt = rows[e.key].attempt
  BY <1>1, <1>2, <1>3, <1>4, <1>5 DEF Matches
<1>8. \A e, f \in entries : e.key = f.key => e = f
  BY <1>1, <1>5 DEF Matches
<1>9. Matches(rows, entries, attempts)
  BY <1>6, <1>7, <1>8 DEF Matches
<1> QED BY <1>9 DEF rows, attempts, entries

\* What cancelJobs has computed for a file before it waits or pumps.
LEMMA CancelEach ==
    ASSUME TypeInv, HasRow, NEW S \in SUBSET Keys, NEW purging \in BOOLEAN,
           NEW code \in Codes, NEW k \in Keys
    PROVE  /\ RowsAfterCancel(S, purging, code)[k] \in Row
           /\ FramesAfterCancel(S)[k] \in Frame
           /\ FramesAfterCancel(S)[k].pc = exec[k].pc
           /\ FramesAfterCancel(S)[k].job = exec[k].job
           /\ \/ /\ ~(k \in S /\ purging /\ ~Running(k))
                 /\ RowsAfterCancel(S, purging, code)[k] = job[k]
              \/ /\ ~(k \in S /\ purging /\ ~Running(k))
                 /\ Active(job[k])
                 /\ RowsAfterCancel(S, purging, code)[k] = CancelledRow(k, code)
              \/ /\ k \in S /\ purging /\ ~Running(k)
                 /\ RowsAfterCancel(S, purging, code)[k] = NoRow
<1>1. job[k] \in Row /\ exec[k] \in Frame
  BY QueueTypes
<1>2. CancelledRow(k, code) \in Row
  BY <1>1 DEF CancelledRow, Row, States
<1>3. RowsAfterCancel(S, purging, code)[k] \in Row
  BY <1>1, <1>2, EmptyValues DEF RowsAfterCancel
<1> DEFINE stopped == [exec[k] EXCEPT !.cancelled = TRUE,
                          !.abort = IF @ = "none" THEN "cancelled" ELSE @]
<1>4. stopped \in Frame /\ stopped.pc = exec[k].pc /\ stopped.job = exec[k].job
  BY <1>1 DEF Frame
<1>5. FramesAfterCancel(S)[k] = stopped \/ FramesAfterCancel(S)[k] = exec[k]
  BY DEF FramesAfterCancel
<1>6. \/ /\ ~(k \in S /\ purging /\ ~Running(k))
         /\ RowsAfterCancel(S, purging, code)[k] = job[k]
      \/ /\ ~(k \in S /\ purging /\ ~Running(k))
         /\ Active(job[k])
         /\ RowsAfterCancel(S, purging, code)[k] = CancelledRow(k, code)
      \/ /\ k \in S /\ purging /\ ~Running(k)
         /\ RowsAfterCancel(S, purging, code)[k] = NoRow
  BY DEF RowsAfterCancel
<1> QED BY <1>1, <1>3, <1>4, <1>5, <1>6

\* A row that is left queued by cancelJobs has not been touched.
LEMMA StoppedOrDropped ==
    ASSUME TypeInv, HasRow, NEW S \in SUBSET Keys, NEW purging \in BOOLEAN,
           NEW code \in Codes, NEW k \in Keys,
           job'[k] = RowsAfterCancel(S, purging, code)[k],
           artifact'[k] = IF k \in S /\ purging /\ ~Running(k) THEN NoArtifact
                          ELSE artifact[k],
           exec'[k] = FramesAfterCancel(S)[k]
    PROVE  Kept(k) \/ Stopped(k) \/ Dropped(k)
<1>1. SameFrame(k)
  BY CancelEach DEF SameFrame
<1>2. CASE /\ ~(k \in S /\ purging /\ ~Running(k))
           /\ RowsAfterCancel(S, purging, code)[k] = job[k]
  BY <1>1, <1>2 DEF Kept, SameCaptions
<1>3. CASE /\ ~(k \in S /\ purging /\ ~Running(k))
           /\ Active(job[k])
           /\ RowsAfterCancel(S, purging, code)[k] = CancelledRow(k, code)
  <2>1. job[k] \in Row /\ job'[k] = CancelledRow(k, code)
    BY <1>3, QueueTypes
  <2>2. job'[k].state = "cancelled" /\ job'[k].code = code
    BY <2>1 DEF CancelledRow, Row
  <2>3. job'[k] = [job[k] EXCEPT !.state = "cancelled", !.code = job'[k].code]
    BY <2>1, <2>2 DEF CancelledRow
  <2> QED BY <1>1, <1>3, <2>2, <2>3 DEF Stopped, SameCaptions
<1>4. CASE /\ k \in S /\ purging /\ ~Running(k)
           /\ RowsAfterCancel(S, purging, code)[k] = NoRow
  <2>1. exec[k].pc = "none"
    BY <1>4, IdleFiles
  <2> QED BY <1>1, <1>4, <2>1 DEF Dropped, SameFrame
<1> QED BY <1>2, <1>3, <1>4, CancelEach

\* cancelJobs leaves every file alone or cancels it: stops its attempt or drops
\* it from the queue.
LEMMA CancelMoves ==
    ASSUME TypeInv, OwnInv, RowInv, WakeInv, mode # "down", mode' = mode,
           NEW S \in SUBSET Keys, NEW purging \in BOOLEAN, NEW code \in Codes,
           NEW s, NEW waits, NEW done,
           CancelJobs(S, purging, code, s, waits, done)
    PROVE  /\ \A k \in Keys : Move(k)
           /\ Matches(job', pending', pendingAttempts')
           /\ WakeInv'
<1> DEFINE rows == RowsAfterCancel(S, purging, code)
           attempts == AttemptsAfterCancel(S)
           frames == FramesAfterCancel(S)
           entries == Compacted(attempts)
<1>1. HasRow
  BY DEF RowInv
<1>2. Matches(rows, entries, attempts)
  BY CancelMatches
<1>3. /\ rows \in [Keys -> Row] /\ frames \in [Keys -> Frame]
      /\ entries \in SUBSET Entry /\ attempts \in [Keys -> Nat]
  BY <1>1, CancelEach, QueueTypes
     DEF RowsAfterCancel, FramesAfterCancel, AttemptsAfterCancel, Compacted
<1>4. \A k \in Keys : artifact'[k] = IF k \in S /\ purging /\ ~Running(k)
                                     THEN NoArtifact ELSE artifact[k]
  BY DEF CancelJobs
<1>5. CASE \E k \in S : Running(k)
  <2>1. /\ job' = rows /\ exec' = frames /\ pending' = entries
        /\ pendingAttempts' = attempts /\ suspensions' = suspensions + 1
        /\ activePromise' = activePromise
    BY <1>5 DEF CancelJobs
  <2>2. \A k \in Keys : Move(k)
    BY <1>1, <1>4, <2>1, StoppedOrDropped DEF Move
  <2>3. WakeInv'
    <3>1. \A k \in Keys : exec'[k].pc = exec[k].pc
      BY <1>1, <2>1, CancelEach
    <3>2. suspensions' # 0
      BY <2>1, QueueTypes
    <3> QED BY <3>1, <3>2, <2>1 DEF WakeInv, Due, Promised
  <2> QED BY <1>2, <2>1, <2>2, <2>3
<1>6. CASE (~\E k \in S : Running(k)) /\ S = {}
  <2>1. UNCHANGED <<job, queue, exec, activePromise, suspensions>>
    BY <1>6 DEF CancelJobs
  <2>2. \A k \in Keys : Move(k)
    BY <1>4, <1>6, <2>1 DEF Move, Kept, SameCaptions, SameFrame
  <2>3. WakeInv' /\ Matches(job', pending', pendingAttempts')
    BY <2>1 DEF WakeInv, Due, Promised, RowInv, queue
  <2> QED BY <2>2, <2>3
<1>7. CASE (~\E k \in S : Running(k)) /\ S # {}
  <2>1. Pump(rows, entries, attempts, frames, activePromise, suspensions',
             pumpScheduled)
    BY <1>7 DEF CancelJobs
  <2>2. \A k \in Keys : frames[k].pc = exec[k].pc
    BY <1>1, CancelEach
  <2>3. \A k \in Keys : rows[k].state = "queued" =>
            rows[k] = job[k] /\ artifact'[k] = artifact[k]
    <3>1. ASSUME NEW k \in Keys, rows[k].state = "queued"
          PROVE  rows[k] = job[k] /\ artifact'[k] = artifact[k]
      <4>1. job[k] \in Row
        BY QueueTypes
      <4>2. /\ NoRow.state # "queued"
            /\ CancelledRow(k, code).state # "queued"
        BY <4>1 DEF NoRow, CancelledRow, Row
      <4>3. \/ /\ ~(k \in S /\ purging /\ ~Running(k))
               /\ rows[k] = job[k]
            \/ rows[k] = CancelledRow(k, code)
            \/ rows[k] = NoRow
        BY <1>1, CancelEach
      <4> HIDE DEF rows
      <4> QED BY <1>4, <3>1, <4>2, <4>3
    <3> QED BY <3>1
  <2> HIDE DEF rows, entries, attempts, frames
  <2>4. ASSUME NEW k \in Keys
        PROVE  Move(k)
    <3>1. \/ job'[k] = rows[k] /\ exec'[k] = frames[k]
          \/ /\ rows[k].state = "queued"
             /\ FirstIn(k, entries)
             /\ job'[k] = [rows[k] EXCEPT !.state = "preparing"]
             /\ exec'[k] = Fresh([rows[k] EXCEPT !.state = "preparing"])
      BY <1>2, <1>3, <2>1, PumpEach
    <3>2. CASE job'[k] = rows[k] /\ exec'[k] = frames[k]
      BY <1>1, <1>4, <3>2, StoppedOrDropped DEF Move, rows, frames
    <3>3. CASE /\ rows[k].state = "queued"
               /\ FirstIn(k, entries)
               /\ job'[k] = [rows[k] EXCEPT !.state = "preparing"]
               /\ exec'[k] = Fresh([rows[k] EXCEPT !.state = "preparing"])
      <4>1. rows[k] = job[k] /\ artifact'[k] = artifact[k]
        BY <3>3, <2>3
      <4>2. exec[k].pc = "none"
        BY <1>1, <3>3, <4>1, IdleFiles
      <4>3. exec'[k].pc = "opening" /\ exec'[k].job = job'[k]
        BY <3>3, FreshFields
      <4>4. FirstIn(k, pending)
        BY <3>3 DEF FirstIn, entries, Compacted
      <4>5. Started(k)
        BY <3>3, <4>1, <4>2, <4>3, <4>4 DEF Started, SameCaptions
      <4> QED BY <4>5 DEF Move
    <3> QED BY <3>1, <3>2, <3>3
  <2>5. Matches(job', pending', pendingAttempts')
    BY <1>2, <1>3, <2>1, PumpMatches
  <2>6. WakeInv'
    <3>1. \A k \in Keys : rows[k].state = "queued" => rows[k].ts # 0
      BY <2>3 DEF OwnInv, QueuedHaveTime
    <3>2. activePromise # 0 => \E k \in Keys : frames[k].pc # "none"
      BY <2>2 DEF WakeInv, Promised
    <3> QED BY <1>2, <1>3, <2>1, <3>1, <3>2, PumpWakes
  <2> QED BY <2>4, <2>5, <2>6
<1> QED BY <1>5, <1>6, <1>7

-----------------------------------------------------------------------------
(***************************************************************************)
(* Steps that leave the queue alone.                                       *)
(***************************************************************************)

\* Rows that are not queued may change without the queue.
LEMMA OutsideQueue ==
    ASSUME NEW rows, NEW entries \in SUBSET Entry, NEW attempts, NEW after,
           Matches(rows, entries, attempts),
           \A k \in Keys : \/ after[k] = rows[k]
                           \/ rows[k].state # "queued" /\ after[k].state # "queued"
    PROVE  Matches(after, entries, attempts)
<1>1. \A e \in entries : e.key \in Keys
  BY DEF Entry
<1>2. \A k \in Keys : IF after[k].state = "queued"
                      THEN /\ attempts[k] = after[k].attempt
                           /\ \E e \in entries : e.key = k
                      ELSE attempts[k] = 0
  BY DEF Matches
<1>3. \A e \in entries : /\ after[e.key].state = "queued"
                         /\ e.attempt = after[e.key].attempt
  BY <1>1 DEF Matches
<1>4. \A e, f \in entries : e.key = f.key => e = f
  BY DEF Matches
<1> QED BY <1>2, <1>3, <1>4 DEF Matches

\* A step that leaves queue and promise alone, and no row enters or leaves it.
LEMMA QueueUntouched ==
    ASSUME TypeInv, RowInv, WakeInv, mode # "down",
           UNCHANGED <<queue, activePromise, suspensions>>,
           mode' \in {"starting", "serving"} => mode \in {"starting", "serving"},
           \A k \in Keys : Kept(k) \/ Opened(k) \/ Left(k)
    PROVE  /\ \A k \in Keys : Move(k)
           /\ Matches(job', pending', pendingAttempts')
           /\ WakeInv'
<1>1. \A k \in Keys : Move(k)
  BY DEF Move
<1>2. \A k \in Keys : \/ job'[k] = job[k]
                      \/ job[k].state # "queued" /\ job'[k].state # "queued"
  <2>1. ASSUME NEW k \in Keys, Opened(k)
        PROVE  job[k].state # "queued" /\ job'[k].state # "queued"
    <3>1. exec[k].job \in Row
      BY QueueTypes
    <3>2. job'[k].state = "transcribing"
      BY <2>1, <3>1 DEF Opened, Row
    <3>3. job[k].state # "queued"
      BY <2>1 DEF Opened, RowInv, HasRow, RowOf
    <3> QED BY <3>2, <3>3
  <2>2. ASSUME NEW k \in Keys, Left(k), job'[k] # job[k]
        PROVE  job[k].state # "queued" /\ job'[k].state # "queued"
    BY <2>2 DEF Left, RowInv, HasRow, RowOf
  <2> QED BY <2>1, <2>2 DEF Kept
<1>3. Matches(job', pending', pendingAttempts')
  <2>1. Matches(job, pending, pendingAttempts)
    BY DEF RowInv
  <2>2. Matches(job', pending, pendingAttempts)
    BY <1>2, <2>1, QueueTypes, OutsideQueue
  <2> QED BY <2>2 DEF queue
<1>4. Due'
  BY DEF WakeInv, Due, queue
<1>5. Promised'
  <2>1. \A k \in Keys : exec[k].pc # "none" => exec'[k].pc # "none"
    BY DEF Kept, Opened, Left, SameFrame
  <2> QED BY <2>1 DEF WakeInv, Promised
<1> QED BY <1>1, <1>3, <1>4, <1>5 DEF WakeInv

\* An attempt that fails leaves its pipeline; the other files are kept.
LEMMA FailMoves ==
    ASSUME TypeInv, NEW k \in Keys, exec[k].pc \in {"opening", "transcribing"},
           NEW reason, Fail(k, reason), artifact' = artifact
    PROVE  \A j \in Keys : Kept(j) \/ Left(j)
<1>1. /\ job \in [Keys -> Row] /\ exec \in [Keys -> Frame]
      /\ exec[k] \in Frame /\ exec[k].job \in Row
  BY QueueTypes
<1>2. /\ job' = IF Owned(k) THEN [job EXCEPT ![k] = FailedRow(k, reason)] ELSE job
      /\ exec' = EndFrame(k, reason)
  BY DEF Fail
<1> DEFINE frame == [exec[k] EXCEPT !.pc = "cleanup", !.timer = "none",
                        !.abort = IF @ = "none" THEN reason ELSE @]
<1>3. exec' = [exec EXCEPT ![k] = frame]
  BY <1>1, <1>2 DEF EndFrame, Frame
<1>4. frame.pc = "cleanup" /\ frame.job = exec[k].job
  BY <1>1 DEF Frame
<1>5. /\ FailedRow(k, reason).state \in {"failed", "cancelled"}
      /\ FailedRow(k, reason).state = "cancelled"
             => FailedRow(k, reason).code = "cancelled"
      /\ FailedRow(k, reason) = [exec[k].job EXCEPT
                                    !.state = FailedRow(k, reason).state,
                                    !.code = FailedRow(k, reason).code]
  BY <1>1 DEF FailedRow, Row
<1> HIDE DEF frame
<1>6. ASSUME NEW j \in Keys, j # k
      PROVE  Kept(j)
  <2>1. exec'[j] = exec[j] /\ job'[j] = job[j]
    BY <1>1, <1>2, <1>3, <1>6
  <2> QED BY <2>1 DEF Kept, SameCaptions, SameFrame
<1>7. Left(k)
  <2>1. exec'[k].pc = "cleanup" /\ exec'[k].job = exec[k].job
    BY <1>1, <1>3, <1>4
  <2>2. CASE Owned(k)
    <3>1. job'[k] = FailedRow(k, reason)
      BY <1>1, <1>2, <2>2
    <3> QED BY <1>5, <2>1, <2>2, <3>1 DEF Left, SameCaptions
  <2>3. CASE ~Owned(k)
    BY <1>2, <2>1, <2>3 DEF Left, SameCaptions
  <2> QED BY <2>2, <2>3
<1> QED BY <1>6, <1>7

\* The steps of an attempt that FFmpeg, the reader, the speech service or a timer
\* takes.
LEMMA PipelineMoves ==
    ASSUME TypeInv, NEW k \in Keys,
           \/ OpenSucceeds(k) \/ OpenFails(k)
           \/ WindowStarts(k) \/ ProviderAnswers(k) \/ ProviderFails(k)
           \/ TranscodeSucceeds(k) \/ TranscodeFails(k)
           \/ WatchdogExpires(k) \/ RequestTimesOut(k)
           \/ Interrupted(k) \/ WindowInterrupted(k)
           \/ LeaseReleased(k) \/ WorkerStopped(k) \/ OrphanSettles(k)
    PROVE  \A j \in Keys : Kept(j) \/ Opened(j) \/ Left(j)
<1>1. /\ exec \in [Keys -> Frame] /\ job \in [Keys -> Row]
      /\ exec[k] \in Frame /\ exec[k].job \in Row
  BY QueueTypes
<1>2. ASSUME UNCHANGED <<job, artifact>>,
             \A j \in Keys : SameFrame(j)
      PROVE  \A j \in Keys : Kept(j)
  BY <1>2 DEF Kept, SameCaptions
<1>3. CASE OpenSucceeds(k)
  <2>1. CASE Owned(k)
    <3> DEFINE row == [exec[k].job EXCEPT !.state = "transcribing"]
               frame == [exec[k] EXCEPT !.pc = "transcribing", !.job = row,
                                        !.timer = "watchdog"]
    <3>1. /\ job' = [job EXCEPT ![k] = row]
          /\ exec' = [exec EXCEPT ![k].pc = "transcribing", ![k].job = row,
                                  ![k].timer = "watchdog"]
          /\ exec[k].pc = "opening" /\ artifact' = artifact
      BY <1>3, <2>1 DEF OpenSucceeds
    <3>2. exec' = [exec EXCEPT ![k] = frame]
      BY <1>1, <3>1 DEF Frame
    <3>3. frame.pc = "transcribing" /\ frame.job = row
      BY <1>1 DEF Frame
    <3> HIDE DEF frame
    <3>4. Opened(k)
      BY <1>1, <2>1, <3>1, <3>2, <3>3 DEF Opened, SameCaptions
    <3>5. \A j \in Keys : j # k => Kept(j)
      BY <1>1, <3>1, <3>2 DEF Kept, SameCaptions, SameFrame
    <3> QED BY <3>4, <3>5
  <2>2. CASE ~Owned(k)
    BY <1>3, <2>2, FailMoves DEF OpenSucceeds
  <2> QED BY <2>1, <2>2
<1>4. CASE OpenFails(k)
  BY <1>4, FailMoves DEF OpenFails
<1>5. CASE WindowStarts(k)
  <2>1. \A j \in Keys : SameFrame(j)
    BY <1>1, <1>5 DEF WindowStarts, Frame, SameFrame
  <2> QED BY <1>2, <1>5, <2>1 DEF WindowStarts
<1>6. CASE ProviderAnswers(k) \/ ProviderFails(k)
  <2>1. \A j \in Keys : SameFrame(j)
    <3>1. CASE exec' = [exec EXCEPT ![k].timer = "watchdog"]
      BY <1>1, <3>1 DEF Frame, SameFrame
    <3>2. CASE exec' = [exec EXCEPT ![k].timer = "none", ![k].abort = "failed"]
      BY <1>1, <3>2 DEF Frame, SameFrame
    <3> QED BY <1>6, <3>1, <3>2 DEF ProviderAnswers, ProviderFails
  <2> QED BY <1>2, <1>6, <2>1 DEF ProviderAnswers, ProviderFails
<1>7. CASE TranscodeSucceeds(k)
  <2>1. CASE Owned(k)
    <3> DEFINE row == [exec[k].job EXCEPT !.state = "completed"]
               frame == [exec[k] EXCEPT !.pc = "cleanup", !.timer = "none",
                            !.abort = IF @ = "none" THEN "done" ELSE @]
    <3>1. /\ job' = [job EXCEPT ![k] = row]
          /\ artifact' = [artifact EXCEPT ![k] = [model |-> exec[k].job.model,
                                                  ts |-> exec[k].job.ts]]
          /\ exec' = EndFrame(k, "done")
          /\ exec[k].pc = "transcribing"
      BY <1>7, <2>1 DEF TranscodeSucceeds
    <3>2. exec' = [exec EXCEPT ![k] = frame]
      BY <1>1, <3>1 DEF EndFrame, Frame
    <3>3. frame.pc = "cleanup" /\ frame.job = exec[k].job
      BY <1>1 DEF Frame
    <3>4. row.state = "completed" /\ row.code = exec[k].job.code
      BY <1>1 DEF Row
    <3>5. row = [exec[k].job EXCEPT !.state = row.state, !.code = row.code]
      BY <1>1, <3>4 DEF Row
    <3>6. artifact \in [Keys -> Artifact]
      BY DEF TypeInv, TypeOK, DatabaseType
    <3>7. artifact'[k] = [model |-> exec[k].job.model, ts |-> exec[k].job.ts]
      BY <3>1, <3>6
    <3> HIDE DEF frame, row
    <3>8. Left(k)
      BY <1>1, <2>1, <3>1, <3>2, <3>3, <3>4, <3>5, <3>7 DEF Left
    <3>9. \A j \in Keys : j # k => Kept(j)
      BY <1>1, <3>1, <3>2, <3>6 DEF Kept, SameCaptions, SameFrame
    <3> QED BY <3>8, <3>9
  <2>2. CASE ~Owned(k)
    BY <1>7, <2>2, FailMoves DEF TranscodeSucceeds
  <2> QED BY <2>1, <2>2
<1>8. CASE TranscodeFails(k)
  BY <1>8, FailMoves DEF TranscodeFails
<1>9. CASE WatchdogExpires(k)
  <2>1. \A j \in Keys : SameFrame(j)
    BY <1>1, <1>9 DEF WatchdogExpires, Frame, SameFrame
  <2> QED BY <1>2, <1>9, <2>1 DEF WatchdogExpires
<1>10. CASE RequestTimesOut(k)
  <2>1. \A j \in Keys : SameFrame(j)
    BY <1>1, <1>10 DEF RequestTimesOut, Frame, SameFrame
  <2> QED BY <1>2, <1>10, <2>1 DEF RequestTimesOut, LeaveWindow
<1>11. CASE Interrupted(k)
  BY <1>11, FailMoves DEF Interrupted
<1>12. CASE WindowInterrupted(k)
  BY <1>2, <1>12 DEF WindowInterrupted, LeaveWindow, SameFrame
<1>13. CASE LeaseReleased(k) \/ WorkerStopped(k) \/ OrphanSettles(k)
  BY <1>2, <1>13 DEF LeaseReleased, WorkerStopped, OrphanSettles, SameFrame
<1> QED BY <1>3, <1>4, <1>5, <1>6, <1>7, <1>8, <1>9, <1>10, <1>11, <1>12, <1>13

-----------------------------------------------------------------------------
(***************************************************************************)
(* queueTorrent and queueFile.                                             *)
(***************************************************************************)

\* What makes a call queue a file.
LEMMA QueuedFiles ==
    ASSUME TypeInv, RowInv, mode # "down", NEW c \in calls, NEW k \in QueuedBy(c)
    PROVE  /\ k \in Keys
           /\ ~Active(job[k]) /\ exec[k].pc = "none" /\ pendingAttempts[k] = 0
           /\ k[1] \notin removing \cup cancelling
           /\ c.trigger = "automatic" => automatic /\ ~LeftAlone(k)
<1>1. /\ k \in c.files /\ c.torrent \notin removing /\ mode # "closing"
      /\ Queues(k, c.trigger)
  BY DEF QueuedBy
<1>2. k \in FilesOf(c.torrent)
  BY <1>1 DEF RowInv, CallsSane
<1>3. k \in Keys /\ k[1] = c.torrent
  BY <1>2 DEF FilesOf
<1>4. ~Active(job[k]) /\ k[1] \notin cancelling /\ exec[k].pc = "none"
  BY <1>1 DEF Queues, CleanupPending
<1>5. pendingAttempts[k] = 0
  BY <1>3, <1>4 DEF RowInv, Matches, Active, ACTIVE_STATES
<1> QED BY <1>1, <1>3, <1>4, <1>5 DEF Queues

\* The queue time of a file is past all earlier ones.
LEMMA PlaceInCall ==
    ASSUME TypeInv, NEW c \in calls, NEW k \in QueuedBy(c)
    PROVE  /\ Cardinality({j \in QueuedBy(c) : j[2] <= k[2]}) \in Nat \ {0}
           /\ Cardinality({j \in QueuedBy(c) : j[2] <= k[2]})
                  <= Cardinality(QueuedBy(c))
<1> DEFINE before == {j \in QueuedBy(c) : j[2] <= k[2]}
<1>1. QueuedBy(c) \in SUBSET Keys
  BY QueuedByKeys DEF TypeInv, TypeOK, RequestType
<1>2. k[2] \in Nat
  BY <1>1, KeysAssumption
<1>3. k \in before
  BY <1>2
<1>4. IsFiniteSet(before) /\ Cardinality(before) \in Nat
      /\ IsFiniteSet(QueuedBy(c))
  BY <1>1, KeysCounted
<1>5. Cardinality(before) # 0
  BY <1>3, <1>4, FS_EmptySet
<1>6. before \subseteq QueuedBy(c)
  OBVIOUS
<1> HIDE DEF before
<1>7. Cardinality(before) <= Cardinality(QueuedBy(c))
  BY <1>4, <1>6, FS_Subset
<1> QED BY <1>4, <1>5, <1>7 DEF before

\* A call of queueTorrent or queueFile leaves every file alone or queues it, and
\* may start one.
LEMMA RunCallMoves ==
    ASSUME TypeInv, OwnInv, RowInv, WakeInv, NEW c \in calls, RunCall(c)
    PROVE  /\ \A k \in Keys : Move(k)
           /\ Matches(job', pending', pendingAttempts')
           /\ WakeInv'
<1> DEFINE new == QueuedBy(c)
           ts(k) == lastTs + Cardinality({j \in new : j[2] <= k[2]})
           pushed == {k \in new : pendingAttempts[k] = 0 /\ exec[k].pc = "none"}
           item(k) == [key |-> k, attempt |-> job[k].attempt + 1, place |-> ts(k)]
<1>1. mode # "down" /\ mode' = mode
  BY DEF RunCall
<1>2. /\ new \in SUBSET Keys /\ pushed = new
      /\ \A k \in new : ~Active(job[k]) /\ pendingAttempts[k] = 0
                        /\ exec[k].pc = "none"
  BY <1>1, QueuedFiles
<1>3. \A k \in new : ts(k) > lastTs /\ ts(k) <= lastTs + Cardinality(new)
  <2> SUFFICES ASSUME NEW k \in new
               PROVE  ts(k) > lastTs /\ ts(k) <= lastTs + Cardinality(new)
    OBVIOUS
  <2>1. Cardinality(new) \in Nat
    BY <1>2, KeysCounted
  <2>2. /\ Cardinality({j \in new : j[2] <= k[2]}) \in Nat \ {0}
        /\ Cardinality({j \in new : j[2] <= k[2]}) <= Cardinality(new)
    BY PlaceInCall
  <2> QED BY <2>1, <2>2, QueueTypes
<1>4. /\ job' = [k \in Keys |-> IF k \in new THEN QueuedRow(k, c.trigger, ts(k))
                                             ELSE job[k]]
      /\ pending' = pending \cup {item(k) : k \in pushed}
      /\ pendingAttempts' = [k \in Keys |->
             IF k \in pushed THEN job[k].attempt + 1 ELSE pendingAttempts[k]]
      /\ pumpScheduled' = (pumpScheduled \/ pushed # {})
      /\ lastTs' = lastTs + Cardinality(new)
      /\ UNCHANGED <<artifact, exec, activePromise, suspensions>>
  BY DEF RunCall
<1>5. \A k \in new : job[k].attempt + 1 # 0
  BY <1>2, QueueTypes DEF Row
<1>6. \A k \in Keys : /\ QueuedRow(k, c.trigger, ts(k)).state = "queued"
                      /\ QueuedRow(k, c.trigger, ts(k)).attempt = job[k].attempt + 1
                      /\ QueuedRow(k, c.trigger, ts(k)).ts = ts(k)
                      /\ QueuedRow(k, c.trigger, ts(k)).trigger = c.trigger
  BY DEF QueuedRow
<1>7. \A k \in new : item(k).key = k /\ item(k).attempt = job[k].attempt + 1
  OBVIOUS
<1>8. ASSUME NEW k \in Keys
      PROVE  Move(k)
  <2>1. CASE k \notin new
    <3>1. job'[k] = job[k] /\ exec'[k] = exec[k] /\ artifact'[k] = artifact[k]
      BY <1>4, <2>1
    <3> QED BY <3>1 DEF Move, Kept, SameCaptions, SameFrame
  <2>2. CASE k \in new
    <3>1. job'[k] = QueuedRow(k, c.trigger, ts(k))
      BY <1>4, <2>2
    <3> HIDE DEF ts
    <3>2. Requeued(k)
      BY <1>1, <1>3, <1>4, <1>5, <1>6, <2>2, <3>1, QueuedFiles
         DEF Requeued, SameCaptions, SameFrame
    <3> QED BY <3>2 DEF Move
  <2> QED BY <2>1, <2>2
<1> HIDE DEF pushed, ts
<1>9. \A k \in Keys : IF k \in new
          THEN /\ job'[k].state = "queued"
               /\ job'[k].attempt = job[k].attempt + 1
               /\ pendingAttempts'[k] = job[k].attempt + 1
          ELSE job'[k] = job[k] /\ pendingAttempts'[k] = pendingAttempts[k]
  BY <1>2, <1>4, <1>6
<1>10. Matches(job, pending, pendingAttempts)
  BY <1>1 DEF RowInv
<1>11. \A e \in pending : e.key \in Keys
  BY QueueTypes DEF Entry
<1>12. \A e \in pending : e.key \notin new
  BY <1>2, <1>10, <1>11 DEF Matches, Active, ACTIVE_STATES
<1>13. \A e \in pending' : e \in pending \/ \E k \in new : e = item(k)
  BY <1>2, <1>4
<1>14. \A e \in pending : e \in pending'
  BY <1>4
<1>15. \A k \in new : item(k) \in pending'
  BY <1>2, <1>4
<1>16. Matches(job', pending', pendingAttempts')
  <2> HIDE DEF new, item
  <2>1. \A k \in Keys : IF job'[k].state = "queued"
                        THEN /\ pendingAttempts'[k] = job'[k].attempt
                             /\ \E e \in pending' : e.key = k
                        ELSE pendingAttempts'[k] = 0
    BY <1>7, <1>9, <1>10, <1>14, <1>15 DEF Matches
  <2>2. \A e \in pending' : /\ job'[e.key].state = "queued"
                            /\ e.attempt = job'[e.key].attempt
    <3>1. ASSUME NEW e \in pending
          PROVE  job'[e.key].state = "queued" /\ e.attempt = job'[e.key].attempt
      BY <1>9, <1>10, <1>11, <1>12 DEF Matches
    <3>2. ASSUME NEW k \in new
          PROVE  /\ job'[item(k).key].state = "queued"
                 /\ item(k).attempt = job'[item(k).key].attempt
      BY <1>2, <1>7, <1>9
    <3> QED BY <1>13, <3>1, <3>2
  <2>3. \A e, f \in pending' : e.key = f.key => e = f
    BY <1>7, <1>10, <1>12, <1>13 DEF Matches
  <2> QED BY <2>1, <2>2, <2>3 DEF Matches
<1>17. WakeInv'
  <2>1. Promised'
    BY <1>4 DEF WakeInv, Promised
  <2>2. Due'
    <3>1. CASE new = {}
      <4>1. pending' = pending /\ pumpScheduled' = pumpScheduled
        BY <1>1, <1>2, <1>4, <3>1 DEF TypeInv, TypeOK, QueueType
      <4> QED BY <1>1, <1>4, <4>1 DEF WakeInv, Due
    <3>2. CASE new # {}
      BY <1>2, <1>4, <3>2 DEF Due
    <3> QED BY <3>1, <3>2
  <2> QED BY <2>1, <2>2 DEF WakeInv
<1> QED BY <1>8, <1>16, <1>17

-----------------------------------------------------------------------------
(***************************************************************************)
(* The end of an attempt, the removal of rows, and the process.            *)
(***************************************************************************)

\* The end of an attempt keeps its row or purges it, and the pump may start another.
LEMMA FinishJobMoves ==
    ASSUME TypeInv, OwnInv, RowInv, WakeInv, NEW k \in Keys, FinishJob(k)
    PROVE  /\ \A j \in Keys : Move(j)
           /\ Matches(job', pending', pendingAttempts')
           /\ WakeInv'
<1> DEFINE purges == purge[k] = exec[k].job.attempt
           rows == IF purges THEN [job EXCEPT ![k] = NoRow] ELSE job
           frames == [exec EXCEPT ![k] = NoFrame]
           owner == IF activePromise = exec[k].job.ts THEN 0 ELSE activePromise
<1>1. exec[k].pc = "cleanup" /\ HasRow /\ ~Active(job[k])
  BY IdleFiles DEF FinishJob, CleanupSettled, RowInv
<1>2. mode # "down" /\ mode' = mode
  <2>1. mode = "down" => exec[k].pc = "none"
    BY DEF RowInv, DownIdle, Each, NoFrame
  <2> QED BY <1>1, <2>1 DEF FinishJob
<1>3. /\ Pump(rows, pending, pendingAttempts, frames, owner, suspensions',
              pumpScheduled)
      /\ artifact' = IF purges THEN [artifact EXCEPT ![k] = NoArtifact]
                     ELSE artifact
  BY DEF FinishJob
<1>4. rows \in [Keys -> Row] /\ frames \in [Keys -> Frame]
      /\ artifact \in [Keys -> Artifact]
  BY QueueTypes, EmptyValues DEF TypeInv, TypeOK, DatabaseType
<1>5. /\ \/ rows[k] = job[k] /\ artifact'[k] = artifact[k]
         \/ rows[k] = NoRow /\ artifact'[k] = NoArtifact
      /\ frames[k] = NoFrame
      /\ \A j \in Keys : j # k => /\ rows[j] = job[j] /\ frames[j] = exec[j]
                                  /\ artifact'[j] = artifact[j]
  BY <1>3, <1>4, QueueTypes
<1>6. NoRow.state = "none" /\ NoFrame.pc = "none"
  BY DEF NoRow, NoFrame
<1>7. job[k].state # "queued" /\ rows[k].state # "queued"
  BY <1>1, <1>5, <1>6 DEF Active, ACTIVE_STATES
<1>8. owner = 0
  BY <1>1 DEF OwnInv, AttemptIsAwaited
<1> HIDE DEF rows, frames, owner
<1>9. Matches(rows, pending, pendingAttempts)
  BY <1>2, <1>5, <1>7, QueueTypes, OutsideQueue DEF RowInv
<1>10. ASSUME NEW j \in Keys
       PROVE  Move(j)
  <2>1. \/ job'[j] = rows[j] /\ exec'[j] = frames[j]
        \/ /\ rows[j].state = "queued"
           /\ FirstIn(j, pending)
           /\ job'[j] = [rows[j] EXCEPT !.state = "preparing"]
           /\ exec'[j] = Fresh([rows[j] EXCEPT !.state = "preparing"])
    BY <1>3, <1>4, <1>9, QueueTypes, PumpEach
  <2>2. CASE j = k
    <3>1. job'[k] = rows[k] /\ exec'[k] = frames[k]
      BY <2>1, <2>2, <1>7
    <3>2. Finished(k)
      BY <1>1, <1>5, <1>6, <3>1 DEF Finished, SameCaptions
    <3> QED BY <2>2, <3>2 DEF Move
  <2>3. CASE j # k /\ job'[j] = rows[j] /\ exec'[j] = frames[j]
    BY <2>3, <1>5 DEF Move, Kept, SameCaptions, SameFrame
  <2>4. CASE /\ j # k
             /\ rows[j].state = "queued"
             /\ FirstIn(j, pending)
             /\ job'[j] = [rows[j] EXCEPT !.state = "preparing"]
             /\ exec'[j] = Fresh([rows[j] EXCEPT !.state = "preparing"])
    <3>1. rows[j] = job[j] /\ artifact'[j] = artifact[j]
      BY <1>5, <2>4
    <3>2. exec[j].pc = "none"
      BY <1>1, <2>4, <3>1, IdleFiles
    <3>3. exec'[j].pc = "opening" /\ exec'[j].job = job'[j]
      BY <2>4, FreshFields
    <3>4. Started(j)
      BY <2>4, <3>1, <3>2, <3>3 DEF Started, SameCaptions
    <3> QED BY <3>4 DEF Move
  <2> QED BY <2>1, <2>2, <2>3, <2>4
<1>11. Matches(job', pending', pendingAttempts')
  BY <1>3, <1>4, <1>9, QueueTypes, PumpMatches
<1>12. WakeInv'
  <2>1. \A j \in Keys : rows[j].state = "queued" => rows[j].ts # 0
    BY <1>5, <1>7 DEF OwnInv, QueuedHaveTime
  <2> QED BY <1>2, <1>3, <1>4, <1>8, <1>9, <2>1, QueueTypes, PumpWakes
<1> QED BY <1>10, <1>11, <1>12

\* A removal deletes rows of a torrent that nobody works on.
LEMMA RemoveDeleteMoves ==
    ASSUME TypeInv, RowInv, WakeInv, NEW c \in Clients, RemoveDelete(c),
           \A k \in FilesOf(slot[c].torrent) :
               ~Active(job[k]) /\ exec[k].pc = "none"
    PROVE  /\ \A k \in Keys : Move(k)
           /\ Matches(job', pending', pendingAttempts')
           /\ WakeInv'
<1> DEFINE t == slot[c].torrent
<1>1. mode # "down" /\ mode' = mode
  BY DEF RemoveDelete, TypeInv, TransitionHeld, NoSlot, Slots
<1>2. /\ \A k \in Keys : /\ job'[k] = IF k[1] = t THEN NoRow ELSE job[k]
                         /\ artifact'[k] = IF k[1] = t THEN NoArtifact
                                           ELSE artifact[k]
      /\ UNCHANGED <<queue, exec, activePromise, suspensions>>
  BY DEF RemoveDelete
<1>3. \A k \in Keys : k[1] = t => ~Active(job[k]) /\ exec[k].pc = "none"
  BY DEF FilesOf
<1> HIDE DEF t
<1>4. \A k \in Keys : Move(k)
  <2>1. ASSUME NEW k \in Keys, k[1] = t
        PROVE  Dropped(k)
    BY <1>2, <1>3, <2>1 DEF Dropped
  <2>2. ASSUME NEW k \in Keys, k[1] # t
        PROVE  Kept(k)
    BY <1>2, <2>2 DEF Kept, SameCaptions, SameFrame
  <2> QED BY <2>1, <2>2 DEF Move
<1>5. \A k \in Keys : \/ job'[k] = job[k]
                      \/ job[k].state # "queued" /\ job'[k].state # "queued"
  BY <1>2, <1>3 DEF Active, ACTIVE_STATES, NoRow
<1>6. Matches(job', pending', pendingAttempts')
  <2>1. Matches(job', pending, pendingAttempts)
    BY <1>1, <1>5, QueueTypes, OutsideQueue DEF RowInv
  <2> QED BY <1>2, <2>1 DEF queue
<1>7. WakeInv'
  BY <1>1, <1>2 DEF WakeInv, Due, Promised, queue
<1> QED BY <1>4, <1>6, <1>7

\* Recovery queues nothing: a row that is queued after it was so before.
LEMMA RecoveredQueued ==
    ASSUME NEW row \in Row, RecoveredRow(row).state = "queued"
    PROVE  RecoveredRow(row) = row
BY DEF RecoveredRow, Row

\* Boot recovers each row or drops it, and the pump may start the first.
LEMMA BootMoves ==
    ASSUME TypeInv, RowInv, NEW m \in Models, Boot(m)
    PROVE  /\ \A k \in Keys : Move(k)
           /\ Matches(job', pending', pendingAttempts')
           /\ WakeInv'
<1> DEFINE again == {k \in Keys : RecoveredRow(job[k]).state = "queued"}
           item(k) == [key |-> k, attempt |-> job[k].attempt,
                       place |-> RecoveredPlace(k)]
<1>1. /\ mode = "down"
      /\ exec = Each(NoFrame) /\ activePromise = 0
      /\ UNCHANGED <<artifact, exec, activePromise>>
  BY DEF Boot, RowInv, DownIdle
<1>2. /\ \A k \in Keys : job'[k] = RecoveredRow(job[k])
      /\ pending' = {item(k) : k \in again}
      /\ pendingAttempts' = [k \in Keys |-> IF k \in again
                                            THEN job[k].attempt ELSE 0]
      /\ pumpScheduled' = (again # {})
  BY DEF Boot
<1>3. \A k \in again : job'[k] = job[k] /\ job'[k].state = "queued"
  BY <1>2, QueueTypes, RecoveredQueued
<1>4. \A k \in Keys : job'[k].state = "queued" => k \in again
  BY <1>2
<1>5. \A k \in Keys : Move(k)
  <2>1. \A k \in Keys : exec[k].pc = "none" /\ exec'[k].pc = "none"
    BY <1>1 DEF Each, NoFrame
  <2> QED BY <1>1, <1>2, <2>1 DEF Move, Recovered, SameCaptions
<1>6. \A k \in again : item(k).key = k /\ item(k).attempt = job[k].attempt
  OBVIOUS
<1>7. again \subseteq Keys
  OBVIOUS
<1> HIDE DEF again, item
<1>8. Matches(job', pending', pendingAttempts')
  <2>1. \A k \in Keys : IF job'[k].state = "queued"
                        THEN /\ pendingAttempts'[k] = job'[k].attempt
                             /\ \E e \in pending' : e.key = k
                        ELSE pendingAttempts'[k] = 0
    BY <1>2, <1>3, <1>4, <1>6
  <2>2. \A e \in pending' : /\ job'[e.key].state = "queued"
                            /\ e.attempt = job'[e.key].attempt
    BY <1>2, <1>3, <1>6
  <2>3. \A e, f \in pending' : e.key = f.key => e = f
    BY <1>2, <1>6
  <2> QED BY <2>1, <2>2, <2>3 DEF Matches
<1>9. WakeInv'
  BY <1>1, <1>2 DEF WakeInv, Due, Promised
<1> QED BY <1>5, <1>8, <1>9

\* Shutdown aborts what runs and leaves rows, entries and frames as they are.
LEMMA CloseMoves ==
    ASSUME TypeInv, RowInv, WakeInv, Close
    PROVE  /\ \A k \in Keys : Move(k)
           /\ Matches(job', pending', pendingAttempts')
           /\ WakeInv'
<1>1. UNCHANGED <<job, artifact, queue, activePromise, suspensions>>
      /\ mode = "serving" /\ mode' = "closing"
  BY DEF Close, database
<1>2. ASSUME NEW k \in Keys
      PROVE  Kept(k)
  <2> DEFINE stopped == [exec[k] EXCEPT !.cancelled = TRUE,
                            !.abort = IF @ = "none" THEN "cancelled" ELSE @]
  <2>1. exec[k] \in Frame
    BY QueueTypes
  <2>2. stopped.pc = exec[k].pc /\ stopped.job = exec[k].job
    BY <2>1 DEF Frame
  <2>3. exec'[k] = exec[k] \/ exec'[k] = stopped
    BY DEF Close
  <2> HIDE DEF stopped
  <2> QED BY <1>1, <2>2, <2>3 DEF Kept, SameCaptions, SameFrame
<1> QED BY <1>1, <1>2, QueueUntouched

\* When the process ends every file keeps its row and loses the rest.
LEMMA HaltMoves ==
    ASSUME Halt
    PROVE  /\ \A k \in Keys : Move(k)
           /\ mode' = "down"
           /\ WakeInv'
<1>1. /\ mode' = "down" /\ exec' = Each(NoFrame) /\ activePromise' = 0
      /\ pending' = {} /\ UNCHANGED <<job, artifact>>
  BY DEF Halt, database
<1>2. \A k \in Keys : exec'[k].pc = "none"
  BY <1>1 DEF Each, NoFrame
<1>3. \A k \in Keys : Move(k)
  BY <1>1, <1>2 DEF Move, Lost, SameCaptions
<1>4. WakeInv'
  BY <1>1 DEF WakeInv, Due, Promised
<1> QED BY <1>1, <1>3, <1>4

\* While the process is down nothing happens but a start.
LEMMA DownOnlyBoots ==
    ASSUME TypeInv, DownIdle, mode = "down", [Next]_vars
    PROVE  UNCHANGED vars \/ \E m \in Models : Boot(m)
<1>1. /\ \A s \in Slots : slot[s].op = "none"
      /\ \A c \in Clients : slot[c].op = "none"
      /\ ~scanning
  BY DEF TypeInv, TransitionHeld, NoSlot, Slots
<1>2. \A k \in Keys : /\ exec[k].pc = "none" /\ exec[k].abort = "none"
                      /\ exec[k].timer = "none" /\ lease[k] = "none"
                      /\ worker[k] = "none" /\ provider[k] = "idle"
  BY DEF DownIdle, Each, NoFrame
<1>3. calls = {} /\ \A t \in Torrents : deferred[t] = 0
  BY DEF DownIdle
<1>4. ~Microtask
  <2>1. ~PumpMicrotask
    BY DEF PumpMicrotask
  <2>2. \A s \in Slots : ~Confirm(s)
    BY <1>1 DEF Confirm, Waiting
  <2>3. \A c \in Clients : ~RemoveCancel(c)
    BY <1>1 DEF RemoveCancel
  <2>4. \A t \in Torrents : ~ReleaseCancelling(t) /\ ~ScanNext(t)
    BY <1>1, <1>3 DEF ReleaseCancelling, ReleaseDue, ScanNext
  <2>5. ~ApplyEnabled /\ ~ApplyDisabled /\ ~ScanEnds
    BY <1>1 DEF ApplyEnabled, ApplyDisabled, InTurn, ScanEnds
  <2>6. \A k \in Keys : ~Interrupted(k) /\ ~WindowInterrupted(k) /\ ~FinishJob(k)
    BY <1>2 DEF Interrupted, WindowInterrupted, FinishJob, CleanupSettled
  <2> QED BY <2>1, <2>2, <2>3, <2>4, <2>5, <2>6 DEF Microtask
<1>5. ~\E c \in calls : RunCall(c)
  BY <1>3
<1>6. ~Request
  BY DEF Request, QueueTorrent, QueueFile, ManualCall, Register, CancelFile,
         CancelTorrent, RemoveStart, SetAutomatic, Accepts
<1>7. ~Timer
  BY <1>1, <1>2 DEF Timer, ConfirmTimesOut, Waiting, WatchdogExpires,
                    RequestTimesOut
<1>8. ~Pipeline
  BY <1>2 DEF Pipeline, OpenSucceeds, OpenFails, WindowStarts, ProviderAnswers,
              ProviderFails, TranscodeSucceeds, TranscodeFails
<1>9. ~Release
  BY <1>2 DEF Release, LeaseReleased, WorkerStopped, OrphanSettles
<1>10. Environment => \E m \in Models : Boot(m)
  BY <1>1, <1>3 DEF Environment, AbandonCall, RemoveDelete, CacheCompleted, Evict,
                    Close
<1>11. ~Halt
  BY DEF Halt
<1> QED BY <1>4, <1>5, <1>6, <1>7, <1>8, <1>9, <1>10, <1>11 DEF Next

-----------------------------------------------------------------------------
(***************************************************************************)
(* Removals.                                                               *)
(***************************************************************************)

\* A removal reserves its torrent from the first step to the last, and no other
\* does at the same time.
RemovalOps == {"reserved", "removal", "deleting"}
Reserved ==
    \A s \in Slots : slot[s].op \in RemovalOps =>
        /\ slot[s].torrent \in removing
        /\ \A r \in Slots : slot[r].op \in RemovalOps
                            /\ slot[r].torrent = slot[s].torrent => r = s
\* Once it has cancelled, no row of the torrent is active and the only attempt left
\* is the one whose cleanup it waits for.
Exclusive ==
    \A s \in Slots : slot[s].op \in {"removal", "deleting"} =>
        \A k \in FilesOf(slot[s].torrent) :
            /\ ~Active(job[k])
            /\ exec[k].pc # "none" => /\ slot[s].op = "removal"
                                      /\ slot[s].on = exec[k].job.ts
\* A request waits for an attempt.
WaitsOn == \A s \in Slots : Waiting(s) => slot[s].on # 0
SlotInv == Reserved /\ Exclusive /\ WaitsOn

\* Everything a step does to rows, captions and attempts is one of the moves, and
\* whatever it does rows and queue agree after it and no wakeup is lost.
LEMMA MoveStep ==
    ASSUME TypeInv, OwnInv, RowInv, WakeInv, SlotInv, [Next]_vars
    PROVE  /\ \A k \in Keys : Move(k)
           /\ mode' # "down" => Matches(job', pending', pendingAttempts')
           /\ WakeInv'
<1>0. ASSUME mode # "down", UNCHANGED <<job, artifact, exec>>,
             UNCHANGED <<queue, activePromise, suspensions>>,
             mode' \in {"starting", "serving"} => mode \in {"starting", "serving"}
      PROVE  /\ \A k \in Keys : Move(k)
             /\ Matches(job', pending', pendingAttempts')
             /\ WakeInv'
  <2>1. \A k \in Keys : Kept(k)
    BY <1>0 DEF Kept, SameCaptions, SameFrame
  <2> QED BY <1>0, <2>1, QueueUntouched
<1>1. CASE mode = "down"
  <2>1. CASE UNCHANGED vars
    <3>1. mode' = "down" /\ \A k \in Keys : Kept(k)
      BY <1>1, <2>1 DEF vars, database, Kept, SameCaptions, SameFrame
    <3>2. WakeInv'
      BY <2>1 DEF vars, WakeInv, Due, Promised, queue, database
    <3> QED BY <3>1, <3>2 DEF Move
  <2>2. CASE \E m \in Models : Boot(m)
    BY <2>2, BootMoves
  <2> QED BY <1>1, <2>1, <2>2, DownOnlyBoots DEF RowInv
<1>2. CASE mode # "down" /\ Microtask
  <2>1. CASE PumpMicrotask
    BY <1>2, <2>1, PumpHere DEF PumpMicrotask
  <2>2. CASE \E s \in Slots : Confirm(s)
    BY <1>2, <2>2, PumpHere DEF Confirm
  <2>3. ASSUME NEW c \in Clients, RemoveCancel(c)
        PROVE  /\ \A k \in Keys : Move(k)
               /\ Matches(job', pending', pendingAttempts')
               /\ WakeInv'
    <3> DEFINE t == slot[c].torrent
    <3>1. CASE t \in cancelling
      BY <1>0, <1>2, <2>3, <3>1 DEF RemoveCancel
    <3>2. CASE t \notin cancelling
      <4>1. /\ CancelJobs(RowsOf(t), FALSE, "cancelled", c, Wait("removal", t),
                          [slot[c] EXCEPT !.op = "deleting"])
            /\ mode' = mode
        BY <2>3, <3>2, Zenon DEF RemoveCancel
      <4>2. RowsOf(t) \in SUBSET Keys /\ "cancelled" \in Codes /\ FALSE \in BOOLEAN
        BY DEF RowsOf, FilesOf, Codes
      <4> HIDE DEF t
      <4> QED BY <1>2, <4>1, <4>2, CancelMoves, Zenon
    <3> QED BY <3>1, <3>2
  <2>4. CASE ApplyDisabled
    <3>1. /\ CancelJobs(AutomaticJobs, FALSE, "automatic_disabled", Setting,
                        Wait("disable", NoTorrent), NoSlot)
          /\ mode' = mode
      BY <2>4, Zenon DEF ApplyDisabled
    <3>2. /\ AutomaticJobs \in SUBSET Keys /\ "automatic_disabled" \in Codes
          /\ FALSE \in BOOLEAN
      BY DEF AutomaticJobs, Codes
    <3> QED BY <1>2, <3>1, <3>2, CancelMoves, Zenon
  <2>5. CASE \/ \E t \in Torrents : ReleaseCancelling(t) \/ ScanNext(t)
             \/ ApplyEnabled \/ ScanEnds
    BY <1>0, <1>2, <2>5
       DEF ReleaseCancelling, ScanNext, ApplyEnabled, ScanEnds, database
  <2>6. CASE \E k \in Keys : Interrupted(k) \/ WindowInterrupted(k)
    <3>1. UNCHANGED <<queue, activePromise, suspensions, mode>>
      BY <2>6 DEF Interrupted, WindowInterrupted, LeaveWindow, ExecUnchanged
    <3> QED BY <1>2, <2>6, <3>1, PipelineMoves, QueueUntouched
  <2>7. CASE \E k \in Keys : FinishJob(k)
    BY <2>7, FinishJobMoves
  <2> QED BY <1>2, <2>1, <2>2, <2>3, <2>4, <2>5, <2>6, <2>7 DEF Microtask
<1>3. CASE \E c \in calls : RunCall(c)
  BY <1>3, RunCallMoves
<1>4. CASE mode # "down" /\ Request
  <2>1. CASE \/ \E t \in Torrents : QueueTorrent(t) \/ Register(t)
             \/ \E k \in Keys : QueueFile(k)
             \/ \E enabled \in BOOLEAN : SetAutomatic(enabled)
             \/ \E c \in Clients, t \in Torrents : RemoveStart(c, t)
    BY <1>0, <1>4, <2>1
       DEF QueueTorrent, QueueFile, ManualCall, Register, SetAutomatic,
           RemoveStart, database
  <2>2. ASSUME NEW c \in Clients, NEW k \in Keys, CancelFile(c, k)
        PROVE  /\ \A j \in Keys : Move(j)
               /\ Matches(job', pending', pendingAttempts')
               /\ WakeInv'
    <3>1. /\ CancelJobs({k}, FALSE, "cancelled", c, Wait("file", k[1]), NoSlot)
          /\ mode' = mode
      BY <2>2, Zenon DEF CancelFile
    <3>2. {k} \in SUBSET Keys /\ "cancelled" \in Codes /\ FALSE \in BOOLEAN
      BY DEF Codes
    <3> QED BY <1>4, <3>1, <3>2, CancelMoves, Zenon
  <2>3. ASSUME NEW c \in Clients, NEW t \in Torrents, CancelTorrent(c, t)
        PROVE  /\ \A j \in Keys : Move(j)
               /\ Matches(job', pending', pendingAttempts')
               /\ WakeInv'
    <3>1. /\ CancelJobs(RowsOf(t), TRUE, "cancelled", c, Wait("torrent", t), NoSlot)
          /\ mode' = mode
      BY <2>3, Zenon DEF CancelTorrent
    <3>2. RowsOf(t) \in SUBSET Keys /\ "cancelled" \in Codes /\ TRUE \in BOOLEAN
      BY DEF Codes, RowsOf, FilesOf
    <3> QED BY <1>4, <3>1, <3>2, CancelMoves, Zenon
  <2> QED BY <1>4, <2>1, <2>2, <2>3 DEF Request
<1>5. CASE mode # "down" /\ Timer
  <2>1. CASE \E s \in Slots : ConfirmTimesOut(s)
    BY <1>5, <2>1, PumpHere DEF ConfirmTimesOut
  <2>2. CASE \E k \in Keys : WatchdogExpires(k) \/ RequestTimesOut(k)
    <3>1. UNCHANGED <<queue, activePromise, suspensions, mode>>
      BY <2>2 DEF WatchdogExpires, RequestTimesOut, LeaveWindow, ExecUnchanged
    <3> QED BY <1>5, <2>2, <3>1, PipelineMoves, QueueUntouched
  <2> QED BY <1>5, <2>1, <2>2 DEF Timer
<1>6. CASE mode # "down" /\ (Pipeline \/ Release)
  <2>1. UNCHANGED <<queue, activePromise, suspensions, mode>>
    BY <1>6 DEF Pipeline, Release, OpenSucceeds, OpenFails, WindowStarts,
                ProviderAnswers, ProviderFails, TranscodeSucceeds, TranscodeFails,
                LeaseReleased, WorkerStopped, OrphanSettles, ExecUnchanged
  <2> QED BY <1>6, <2>1, PipelineMoves, QueueUntouched DEF Pipeline, Release
<1>7. CASE mode # "down" /\ Environment
  <2>1. CASE \/ \E c \in calls : AbandonCall(c)
             \/ \E t \in Torrents : CacheCompleted(t) \/ Evict(t)
    BY <1>0, <1>7, <2>1 DEF AbandonCall, CacheCompleted, Evict, database
  <2>2. ASSUME NEW c \in Clients, RemoveDelete(c)
        PROVE  /\ \A k \in Keys : Move(k)
               /\ Matches(job', pending', pendingAttempts')
               /\ WakeInv'
    <3>1. slot[c].op = "deleting" /\ c \in Slots
      BY <2>2 DEF RemoveDelete, Slots
    <3>2. \A k \in FilesOf(slot[c].torrent) : ~Active(job[k]) /\ exec[k].pc = "none"
      BY <3>1 DEF SlotInv, Exclusive
    <3> QED BY <2>2, <3>2, RemoveDeleteMoves
  <2>3. CASE Close
    BY <2>3, CloseMoves
  <2> QED BY <1>7, <2>1, <2>2, <2>3 DEF Environment, Boot
<1>8. CASE Halt
  BY <1>8, HaltMoves
<1>9. CASE mode # "down" /\ UNCHANGED vars
  BY <1>0, <1>9 DEF vars, database
<1> QED BY <1>1, <1>2, <1>3, <1>4, <1>5, <1>6, <1>7, <1>8, <1>9 DEF Next

-----------------------------------------------------------------------------
(***************************************************************************)
(* Rows, attempts and calls.                                               *)
(***************************************************************************)

\* The moves keep every attempt at its row, and every row timed.
LEMMA MovesKeepRows ==
    ASSUME TypeInv, HasRow, RowsTimed, \A k \in Keys : Move(k)
    PROVE  HasRow' /\ RowsTimed'
<1>1. ASSUME NEW k \in Keys
      PROVE  RowOf(job'[k], exec'[k]) /\ Timed(job'[k])
  <2>1. /\ job[k] \in Row /\ exec[k] \in Frame /\ exec[k].job \in Row
        /\ lastTs \in Nat
    BY QueueTypes
  <2>2. RowOf(job[k], exec[k]) /\ Timed(job[k])
    BY DEF HasRow, RowsTimed
  <2>3. CASE Kept(k)
    BY <2>2, <2>3 DEF Kept, SameFrame, RowOf
  <2>4. CASE Requeued(k)
    BY <2>1, <2>4 DEF Requeued, SameFrame, RowOf, Timed
  <2>5. CASE Started(k)
    <3>1. /\ job'[k].state = "preparing" /\ job'[k].attempt = job[k].attempt
          /\ job'[k].ts = job[k].ts
      BY <2>1, <2>5 DEF Started, Row
    <3> QED BY <2>2, <2>5, <3>1 DEF Started, RowOf, Timed
  <2>6. CASE Opened(k)
    <3>1. /\ job'[k].state = "transcribing"
          /\ job'[k].attempt = exec[k].job.attempt /\ job'[k].ts = exec[k].job.ts
      BY <2>1, <2>6 DEF Opened, Row
    <3> QED BY <2>2, <2>6, <3>1 DEF Opened, RowOf, Timed
  <2>7. CASE Left(k)
    <3>1. CASE job'[k] = job[k] /\ ~Owned(k)
      BY <2>2, <2>7, <3>1 DEF Left, RowOf, Owned
    <3>2. CASE Owned(k)
      <4>1. /\ job'[k].attempt = exec[k].job.attempt
            /\ job'[k].ts = exec[k].job.ts
            /\ job'[k].state \in {"failed", "cancelled", "completed"}
        BY <2>1, <2>7, <3>2 DEF Left, Row
      <4> QED BY <2>2, <2>7, <4>1 DEF Left, RowOf, Timed, Active, ACTIVE_STATES
    <3> QED BY <2>7, <3>1, <3>2 DEF Left
  <2>8. CASE Stopped(k)
    <3>1. /\ job'[k].state = "cancelled" /\ job'[k].attempt = job[k].attempt
          /\ job'[k].ts = job[k].ts
      BY <2>1, <2>8 DEF Stopped, Row
    <3> QED BY <2>2, <2>8, <3>1
            DEF Stopped, SameFrame, RowOf, Timed, Active, ACTIVE_STATES
  <2>9. CASE Dropped(k)
    BY <2>9 DEF Dropped, RowOf, Timed, NoRow
  <2>10. CASE Finished(k)
    BY <2>2, <2>10 DEF Finished, RowOf, Timed, NoRow
  <2>11. CASE Recovered(k)
    <3>1. /\ job'[k].attempt = job[k].attempt /\ job'[k].ts = job[k].ts
          /\ job'[k] = job[k] \/ job'[k].state \in {"cancelled", "failed"}
          /\ job[k].state = "none" => job'[k] = job[k]
      BY <2>1, <2>11 DEF Recovered, RecoveredRow, Row
    <3> QED BY <2>2, <2>11, <3>1 DEF Recovered, RowOf, Timed
  <2>12. CASE Lost(k)
    BY <2>2, <2>12 DEF Lost, RowOf
  <2> QED BY <2>3, <2>4, <2>5, <2>6, <2>7, <2>8, <2>9, <2>10, <2>11, <2>12 DEF Move
<1> QED BY <1>1 DEF HasRow, RowsTimed

\* A running process ends by Halt only.
LEMMA OnlyHaltEnds ==
    ASSUME mode # "down", mode' = "down", [Next]_vars
    PROVE  Halt
<1>1. ~Microtask
  BY DEF Microtask, PumpMicrotask, Confirm, RemoveCancel, ReleaseCancelling,
         ScanNext, ApplyEnabled, ApplyDisabled, ScanEnds, Interrupted,
         WindowInterrupted, LeaveWindow, FinishJob, ExecUnchanged
<1>2. ~\E c \in calls : RunCall(c)
  BY DEF RunCall
<1>3. ~Request
  BY DEF Request, QueueTorrent, QueueFile, ManualCall, Register, CancelFile,
         CancelTorrent, RemoveStart, SetAutomatic
<1>4. ~Timer
  BY DEF Timer, ConfirmTimesOut, WatchdogExpires, RequestTimesOut, LeaveWindow,
         ExecUnchanged
<1>5. ~Pipeline
  BY DEF Pipeline, OpenSucceeds, OpenFails, WindowStarts, ProviderAnswers,
         ProviderFails, TranscodeSucceeds, TranscodeFails, ExecUnchanged
<1>6. ~Release
  BY DEF Release, LeaseReleased, WorkerStopped, OrphanSettles, ExecUnchanged
<1>7. ~Environment
  BY DEF Environment, AbandonCall, RemoveDelete, CacheCompleted, Evict, Boot, Close
<1>8. ~UNCHANGED vars
  BY DEF vars
<1> QED BY <1>1, <1>2, <1>3, <1>4, <1>5, <1>6, <1>7, <1>8 DEF Next

\* Nothing runs while the process is down.
LEMMA DownIdleStep ==
    ASSUME TypeInv, DownIdle, [Next]_vars
    PROVE  DownIdle'
<1>1. CASE mode' # "down"
  BY <1>1 DEF DownIdle
<1>2. CASE mode' = "down" /\ mode # "down"
  <2>1. Halt
    BY <1>2, OnlyHaltEnds
  <2> QED BY <2>1 DEF Halt, DownIdle, Each
<1>3. CASE mode' = "down" /\ mode = "down"
  <2>1. UNCHANGED vars
    BY <1>3, DownOnlyBoots DEF Boot
  <2> QED BY <2>1 DEF vars, DownIdle, Each, queue, setting, resources, database
<1> QED BY <1>1, <1>2, <1>3

\* Only these steps make calls.
LEMMA CallsStep ==
    ASSUME TypeInv, CallsSane, [Next]_vars
    PROVE  CallsSane'
<1>1. CASE calls' \subseteq calls
  BY <1>1 DEF CallsSane, FilesOf
<1>2. ASSUME NEW t \in Torrents, NEW call, call.torrent = t,
             call.files \subseteq FilesOf(t), calls' \subseteq calls \cup {call}
      PROVE  CallsSane'
  BY <1>2 DEF CallsSane, FilesOf
<1>3. ASSUME NEW t \in Torrents, NEW origin,
             calls' \subseteq calls \cup {AutomaticCall(t, origin)}
      PROVE  CallsSane'
  BY <1>2, <1>3 DEF AutomaticCall
<1>4. ASSUME NEW t \in Torrents, NEW files, files \subseteq FilesOf(t),
             ManualCall(t, files)
      PROVE  CallsSane'
  <2> DEFINE call == [torrent |-> t, files |-> files, trigger |-> "manual",
                      origin |-> "request"]
  <2>1. calls' = calls \cup {call} /\ call.torrent = t /\ call.files = files
    BY <1>4 DEF ManualCall
  <2> HIDE DEF call
  <2> QED BY <1>2, <1>4, <2>1
<1>5. CASE Microtask
  <2>1. CASE \E t \in Torrents : ScanNext(t)
    BY <1>1, <1>3, <2>1 DEF ScanNext
  <2>2. ASSUME NEW k \in Keys, FinishJob(k)
        PROVE  CallsSane'
    <3>1. calls' \subseteq calls \cup {AutomaticCall(k[1], "rescan")}
      BY <2>2 DEF FinishJob
    <3> QED BY <1>3, <3>1, KeyTorrent
  <2>3. CASE ~((\E t \in Torrents : ScanNext(t)) \/ \E k \in Keys : FinishJob(k))
    <3>1. calls' = calls
      BY <1>5, <2>3
         DEF Microtask, PumpMicrotask, Confirm, RemoveCancel, ReleaseCancelling,
             ApplyEnabled, ApplyDisabled, ScanEnds, Interrupted,
             WindowInterrupted, LeaveWindow, ExecUnchanged
    <3> QED BY <1>1, <3>1
  <2> QED BY <2>1, <2>2, <2>3
<1>6. CASE \E c \in calls : RunCall(c)
  BY <1>1, <1>6 DEF RunCall
<1>7. CASE Request
  <2>1. ASSUME NEW t \in Torrents, QueueTorrent(t)
        PROVE  CallsSane'
    BY <1>4, <2>1 DEF QueueTorrent
  <2>2. ASSUME NEW k \in Keys, QueueFile(k)
        PROVE  CallsSane'
    BY <1>4, <2>2, KeyTorrent DEF QueueFile, FilesOf
  <2>3. CASE ~((\E t \in Torrents : QueueTorrent(t)) \/ \E k \in Keys : QueueFile(k))
    <3>1. calls' = calls
      BY <1>7, <2>3
         DEF Request, Register, CancelFile, CancelTorrent, RemoveStart, SetAutomatic
    <3> QED BY <1>1, <3>1
  <2> QED BY <2>1, <2>2, <2>3
<1>8. CASE Timer \/ Pipeline \/ Release
  <2>1. calls' = calls
    BY <1>8
       DEF Timer, ConfirmTimesOut, WatchdogExpires, RequestTimesOut, LeaveWindow,
           Pipeline, OpenSucceeds, OpenFails, WindowStarts, ProviderAnswers,
           ProviderFails, TranscodeSucceeds, TranscodeFails, Release,
           LeaseReleased, WorkerStopped, OrphanSettles, ExecUnchanged
  <2> QED BY <1>1, <2>1
<1>9. CASE Environment
  <2>1. CASE \E t \in Torrents : CacheCompleted(t)
    BY <1>1, <1>3, <2>1 DEF CacheCompleted
  <2>2. CASE ~\E t \in Torrents : CacheCompleted(t)
    <3>1. calls' \subseteq calls
      BY <1>9, <2>2
         DEF Environment, AbandonCall, RemoveDelete, Evict, Boot, Close
    <3> QED BY <1>1, <3>1
  <2> QED BY <2>1, <2>2
<1>10. CASE Halt \/ UNCHANGED vars
  BY <1>1, <1>10 DEF Halt, vars
<1> QED BY <1>5, <1>6, <1>7, <1>8, <1>9, <1>10 DEF Next

-----------------------------------------------------------------------------
(***************************************************************************)
(* Removals and waits, step by step.                                       *)
(***************************************************************************)

\* Nothing begins on a file of a torrent that is being removed.
LEMMA QuietMove ==
    ASSUME TypeInv, NEW k \in Keys, k[1] \in removing, ~Active(job[k]), Move(k)
    PROVE  /\ ~Active(job'[k])
           /\ exec'[k].pc # "none" =>
                  exec[k].pc # "none" /\ exec'[k].job = exec[k].job
<1>1. job[k] \in Row
  BY QueueTypes
<1>2. CASE Kept(k)
  BY <1>2 DEF Kept, SameFrame
<1>3. CASE Requeued(k)
  BY <1>3 DEF Requeued
<1>4. CASE Started(k)
  BY <1>4 DEF Started, Active, ACTIVE_STATES
<1>5. CASE Opened(k) \/ Stopped(k)
  BY <1>5 DEF Opened, Stopped, Owned
<1>6. CASE Left(k)
  BY <1>6 DEF Left, Owned
<1>7. CASE Dropped(k) \/ Finished(k)
  BY <1>7 DEF Dropped, Finished, NoRow, Active, ACTIVE_STATES
<1>8. CASE Recovered(k) \/ Lost(k)
  BY <1>8 DEF Recovered, RecoveredRow, Lost, Active, ACTIVE_STATES
<1> QED BY <1>2, <1>3, <1>4, <1>5, <1>6, <1>7, <1>8 DEF Move

\* A step that changes one slot, and no removal begins in it.
LEMMA SlotChange ==
    ASSUME TypeInv, SlotInv, \A k \in Keys : Move(k),
           NEW s \in Slots, NEW w, slot' = [slot EXCEPT ![s] = w],
           \/ /\ w.op \notin RemovalOps
              /\ \/ removing' = removing
                 \/ /\ slot[s].op \in RemovalOps
                    /\ removing' = removing \ {slot[s].torrent}
           \/ /\ w.op \in RemovalOps /\ slot[s].op \in RemovalOps
              /\ w.torrent = slot[s].torrent
              /\ removing' = removing,
           w.op \in WaitingOps => w.on # 0,
           w.op \in {"removal", "deleting"} =>
               \A k \in FilesOf(w.torrent) :
                   /\ ~Active(job'[k])
                   /\ exec'[k].pc # "none" => /\ w.op = "removal"
                                              /\ w.on = exec'[k].job.ts
    PROVE  SlotInv'
<1>1. slot \in [Slots -> Slot]
  BY DEF TypeInv, TypeOK, RequestType
<1>2. slot'[s] = w /\ \A r \in Slots : r # s => slot'[r] = slot[r]
  BY <1>1
<1>3. Reserved'
  <2>1. ASSUME NEW r \in Slots, slot'[r].op \in RemovalOps
        PROVE  /\ slot'[r].torrent \in removing'
               /\ \A q \in Slots : slot'[q].op \in RemovalOps
                      /\ slot'[q].torrent = slot'[r].torrent => q = r
    BY <1>2, <2>1 DEF SlotInv, Reserved
  <2> QED BY <2>1 DEF Reserved
<1>4. Exclusive'
  <2>1. ASSUME NEW r \in Slots, r # s, slot[r].op \in {"removal", "deleting"},
               NEW k \in FilesOf(slot[r].torrent)
        PROVE  /\ ~Active(job'[k])
               /\ exec'[k].pc # "none" => /\ slot[r].op = "removal"
                                          /\ slot[r].on = exec'[k].job.ts
    <3>1. slot[r].torrent \in removing
      BY <2>1 DEF SlotInv, Reserved, RemovalOps
    <3>2. k \in Keys /\ k[1] \in removing
      BY <3>1 DEF FilesOf
    <3>3. /\ ~Active(job[k])
          /\ exec[k].pc # "none" => /\ slot[r].op = "removal"
                                    /\ slot[r].on = exec[k].job.ts
      BY <2>1 DEF SlotInv, Exclusive
    <3> QED BY <3>2, <3>3, QuietMove
  <2>2. ASSUME NEW r \in Slots, slot'[r].op \in {"removal", "deleting"},
               NEW k \in FilesOf(slot'[r].torrent)
        PROVE  /\ ~Active(job'[k])
               /\ exec'[k].pc # "none" => /\ slot'[r].op = "removal"
                                          /\ slot'[r].on = exec'[k].job.ts
    <3>1. CASE r = s
      BY <1>2, <2>2, <3>1
    <3>2. CASE r # s
      BY <1>2, <2>1, <2>2, <3>2
    <3> QED BY <3>1, <3>2
  <2>3. \A r \in Slots : FilesOf(slot'[r].torrent) = FilesOf(slot[r].torrent)'
    BY DEF FilesOf
  <2> QED BY <2>2, <2>3 DEF Exclusive, FilesOf, Active
<1>5. WaitsOn'
  BY <1>2 DEF SlotInv, WaitsOn, Waiting, WaitingOps
<1> QED BY <1>3, <1>4, <1>5 DEF SlotInv

\* A step that leaves the slots alone.
LEMMA SlotsKept ==
    ASSUME TypeInv, SlotInv, \A k \in Keys : Move(k), UNCHANGED <<slot, removing>>
    PROVE  SlotInv'
<1>1. Reserved' /\ WaitsOn'
  BY DEF SlotInv, Reserved, WaitsOn, Waiting
<1>2. ASSUME NEW r \in Slots, slot[r].op \in {"removal", "deleting"},
             NEW k \in FilesOf(slot[r].torrent)
      PROVE  /\ ~Active(job'[k])
             /\ exec'[k].pc # "none" => /\ slot[r].op = "removal"
                                        /\ slot[r].on = exec'[k].job.ts
  <2>1. slot[r].torrent \in removing
    BY <1>2 DEF SlotInv, Reserved, RemovalOps
  <2>2. k \in Keys /\ k[1] \in removing
    BY <2>1 DEF FilesOf
  <2>3. /\ ~Active(job[k])
        /\ exec[k].pc # "none" => /\ slot[r].op = "removal"
                                  /\ slot[r].on = exec[k].job.ts
    BY <1>2 DEF SlotInv, Exclusive
  <2> QED BY <2>2, <2>3, QuietMove
<1>3. Exclusive'
  BY <1>2 DEF Exclusive, FilesOf, Active
<1> QED BY <1>1, <1>3 DEF SlotInv

\* What cancelJobs has done to a file when it returns: nothing but a file that was
\* queued, and is not one of its own, may have been started after it.
LEMMA CancelOutcome ==
    ASSUME TypeInv, OwnInv, RowInv, mode # "down",
           NEW S \in SUBSET Keys, NEW purging \in BOOLEAN, NEW code \in Codes,
           NEW s, NEW waits, NEW done,
           CancelJobs(S, purging, code, s, waits, done),
           NEW k \in Keys, k \in S \/ job[k].state # "queued"
    PROVE  /\ job'[k] = RowsAfterCancel(S, purging, code)[k]
           /\ exec'[k].pc = exec[k].pc /\ exec'[k].job = exec[k].job
           /\ k \in S \/ ~Active(job[k]) => ~Active(job'[k])
<1> DEFINE rows == RowsAfterCancel(S, purging, code)
           attempts == AttemptsAfterCancel(S)
           frames == FramesAfterCancel(S)
           entries == Compacted(attempts)
<1>1. HasRow /\ job[k] \in Row
  BY QueueTypes DEF RowInv
<1>2. Matches(rows, entries, attempts)
  BY CancelMatches
<1>3. /\ rows \in [Keys -> Row] /\ frames \in [Keys -> Frame]
      /\ entries \in SUBSET Entry /\ attempts \in [Keys -> Nat]
  BY <1>1, CancelEach, QueueTypes
     DEF RowsAfterCancel, FramesAfterCancel, AttemptsAfterCancel, Compacted
<1>4. frames[k].pc = exec[k].pc /\ frames[k].job = exec[k].job
  BY <1>1, CancelEach
<1>5. CancelledRow(k, code).state = "cancelled" /\ NoRow.state = "none"
  BY <1>1 DEF CancelledRow, Row, NoRow
<1>6. k \in S \/ ~Active(job[k]) => ~Active(rows[k])
  BY <1>5 DEF RowsAfterCancel, Active, ACTIVE_STATES
<1>7. rows[k].state # "queued"
  <2>1. CASE k \in S
    BY <1>6, <2>1 DEF Active, ACTIVE_STATES
  <2>2. CASE k \notin S
    BY <2>2 DEF RowsAfterCancel
  <2> QED BY <2>1, <2>2
<1>8. job'[k] = rows[k] /\ (exec'[k] = frames[k] \/ exec'[k] = exec[k])
  <2>1. CASE \E j \in S : Running(j)
    BY <2>1 DEF CancelJobs
  <2>2. CASE (~\E j \in S : Running(j)) /\ S = {}
    <3>1. rows[k] = job[k]
      BY <2>2 DEF RowsAfterCancel
    <3> QED BY <2>2, <3>1 DEF CancelJobs
  <2>3. CASE (~\E j \in S : Running(j)) /\ S # {}
    <3>1. Pump(rows, entries, attempts, frames, activePromise, suspensions,
               pumpScheduled)
      BY <2>3 DEF CancelJobs
    <3> HIDE DEF rows, entries, attempts, frames
    <3>2. \/ job'[k] = rows[k] /\ exec'[k] = frames[k]
          \/ /\ rows[k].state = "queued"
             /\ job'[k] = [rows[k] EXCEPT !.state = "preparing"]
             /\ exec'[k] = Fresh([rows[k] EXCEPT !.state = "preparing"])
      BY <1>2, <1>3, <3>1, PumpEach
    <3> QED BY <1>7, <3>2
  <2> QED BY <2>1, <2>2, <2>3
<1> QED BY <1>4, <1>6, <1>8

\* The slot a cancelling request is left with.
LEMMA CancelSlot ==
    ASSUME TypeInv, OwnInv, NEW S \in SUBSET Keys, NEW purging, NEW code,
           NEW s, NEW op, NEW t, NEW done,
           CancelJobs(S, purging, code, s, Wait(op, t), done)
    PROVE  \/ /\ \E k \in S : Running(k)
              /\ slot' = [slot EXCEPT ![s] = Wait(op, t)]
              /\ Wait(op, t).on # 0
           \/ /\ ~\E k \in S : Running(k)
              /\ slot' = [slot EXCEPT ![s] = done]
<1>1. (\E k \in S : Running(k)) => activePromise # 0
  BY DEF OwnInv, AttemptIsAwaited, Running
<1> QED BY <1>1 DEF CancelJobs, Wait

\* DELETE of a torrent: its cancellation leaves it without active rows, and with no
\* attempt but the one the removal waits for.
LEMMA RemoveCancelSlots ==
    ASSUME TypeInv, OwnInv, RowInv, SlotInv, \A k \in Keys : Move(k),
           NEW c \in Clients, RemoveCancel(c)
    PROVE  SlotInv'
<1> DEFINE t == slot[c].torrent
<1>1. /\ c \in Slots /\ slot[c].op = "reserved" /\ slot \in [Slots -> Slot]
      /\ slot[c] \in Slot
  BY DEF RemoveCancel, Slots, TypeInv, TypeOK, RequestType
<1>2. CASE t \in cancelling
  <2>1. removing' = removing \ {t} /\ slot' = [slot EXCEPT ![c] = NoSlot]
    BY <1>2 DEF RemoveCancel
  <2>2. NoSlot.op = "none"
    BY DEF NoSlot
  <2> QED BY <1>1, <2>1, <2>2, SlotChange DEF RemovalOps, WaitingOps
<1>3. CASE t \notin cancelling
  <2> DEFINE waits == Wait("removal", t)
             done == [slot[c] EXCEPT !.op = "deleting"]
  <2>1. /\ CancelJobs(RowsOf(t), FALSE, "cancelled", c, waits, done)
        /\ removing' = removing
    BY <1>3, Zenon DEF RemoveCancel
  <2>2. mode # "down"
    BY <1>1 DEF TypeInv, TransitionHeld, NoSlot
  <2>3. RowsOf(t) \in SUBSET Keys /\ "cancelled" \in Codes /\ FALSE \in BOOLEAN
    BY DEF RowsOf, FilesOf, Codes
  <2>4. /\ waits.op = "removal" /\ waits.torrent = t /\ waits.on = activePromise
        /\ done.op = "deleting" /\ done.torrent = t
    BY <1>1 DEF Wait, Slot
  <2>5. ASSUME NEW k \in FilesOf(t)
        PROVE  /\ k \in Keys
               /\ ~Active(job'[k])
               /\ exec'[k].pc = exec[k].pc /\ exec'[k].job = exec[k].job
               /\ exec[k].pc # "none" => k \in RowsOf(t) /\ Running(k)
    <3>1. k \in Keys
      BY DEF FilesOf
    <3>2. k \in RowsOf(t) \/ job[k].state = "none"
      BY DEF RowsOf
    <3>3. /\ k \in RowsOf(t) \/ job[k].state # "queued"
          /\ k \in RowsOf(t) \/ ~Active(job[k])
      BY <3>2 DEF Active, ACTIVE_STATES
    <3>4. /\ exec'[k].pc = exec[k].pc /\ exec'[k].job = exec[k].job
          /\ k \in RowsOf(t) \/ ~Active(job[k]) => ~Active(job'[k])
      <4> HIDE DEF t, waits, done
      <4> QED BY <2>1, <2>2, <2>3, <3>1, <3>3, CancelOutcome, Zenon
    <3>5. exec[k].pc # "none" => job[k].state # "none" /\ Running(k)
      BY <3>1, IdleFiles DEF RowInv
    <3> QED BY <3>1, <3>2, <3>3, <3>4, <3>5
  <2>6. \/ /\ \E k \in RowsOf(t) : Running(k)
           /\ slot' = [slot EXCEPT ![c] = waits]
           /\ waits.on # 0
        \/ /\ ~\E k \in RowsOf(t) : Running(k)
           /\ slot' = [slot EXCEPT ![c] = done]
    <3>1. (\E k \in RowsOf(t) : Running(k)) => activePromise # 0
      BY <2>3 DEF OwnInv, AttemptIsAwaited, Running
    <3> HIDE DEF t, done, waits
    <3> QED BY <2>1, <2>4, <3>1 DEF CancelJobs
  <2>7. \A k \in Keys : exec[k].pc # "none" => exec[k].job.ts = activePromise
    BY DEF OwnInv, AttemptIsAwaited
  <2> HIDE DEF waits, done
  <2>8. CASE slot' = [slot EXCEPT ![c] = waits] /\ waits.on # 0
    <3>1. \A k \in FilesOf(waits.torrent) :
              /\ ~Active(job'[k])
              /\ exec'[k].pc # "none" => /\ waits.op = "removal"
                                         /\ waits.on = exec'[k].job.ts
      BY <2>4, <2>5, <2>7
    <3> QED BY <1>1, <2>1, <2>4, <2>8, <3>1, SlotChange DEF RemovalOps
  <2>9. CASE (~\E k \in RowsOf(t) : Running(k)) /\ slot' = [slot EXCEPT ![c] = done]
    <3>1. \A k \in FilesOf(done.torrent) :
              ~Active(job'[k]) /\ exec'[k].pc = "none"
      BY <2>4, <2>5, <2>9
    <3> QED BY <1>1, <2>1, <2>4, <2>9, <3>1, SlotChange DEF RemovalOps, WaitingOps
  <2> QED BY <2>6, <2>8, <2>9
<1> QED BY <1>2, <1>3

\* A cancelling request that is no removal.
LEMMA CancelSlots ==
    ASSUME TypeInv, OwnInv, SlotInv, \A k \in Keys : Move(k),
           NEW S \in SUBSET Keys, NEW purging, NEW code,
           NEW s \in Slots, NEW op \in {"file", "torrent", "disable"}, NEW t,
           CancelJobs(S, purging, code, s, Wait(op, t), NoSlot),
           removing' = removing
    PROVE  SlotInv'
<1>1. Wait(op, t).op = op /\ NoSlot.op = "none"
  BY DEF Wait, NoSlot
<1>2. \/ /\ \E k \in S : Running(k)
         /\ slot' = [slot EXCEPT ![s] = Wait(op, t)]
         /\ Wait(op, t).on # 0
      \/ /\ ~\E k \in S : Running(k)
         /\ slot' = [slot EXCEPT ![s] = NoSlot]
  BY CancelSlot
<1> DEFINE w == Wait(op, t)
<1>3. CASE slot' = [slot EXCEPT ![s] = w] /\ w.on # 0
  <2> HIDE DEF w
  <2>1. w.op \notin RemovalOps
    BY <1>1 DEF w, RemovalOps
  <2> QED BY <1>3, <2>1, SlotChange DEF RemovalOps
<1>4. CASE slot' = [slot EXCEPT ![s] = NoSlot]
  BY <1>1, <1>4, SlotChange DEF RemovalOps, WaitingOps
<1> QED BY <1>2, <1>3, <1>4

\* A removal whose cleanup is confirmed has no attempt left; others are answered.
LEMMA ConfirmSlots ==
    ASSUME TypeInv, OwnInv, SlotInv, \A k \in Keys : Move(k),
           NEW s \in Slots, Confirm(s)
    PROVE  SlotInv'
<1> DEFINE done == [NoSlot EXCEPT !.op = "deleting", !.torrent = slot[s].torrent]
<1>1. /\ slot' = [slot EXCEPT ![s] = IF slot[s].op = "removal" THEN done ELSE NoSlot]
      /\ removing' = removing /\ activePromise # slot[s].on
  BY DEF Confirm, Settled
<1>2. NoSlot.op = "none" /\ done.op = "deleting" /\ done.torrent = slot[s].torrent
  BY DEF NoSlot
<1> HIDE DEF done
<1>3. CASE slot[s].op # "removal"
  <2>1. slot' = [slot EXCEPT ![s] = NoSlot]
    BY <1>1, <1>3
  <2> QED BY <1>1, <1>2, <2>1, SlotChange DEF RemovalOps, WaitingOps
<1>4. CASE slot[s].op = "removal"
  <2>1. slot' = [slot EXCEPT ![s] = done]
    BY <1>1, <1>4
  <2>2. ASSUME NEW k \in FilesOf(slot[s].torrent)
        PROVE  ~Active(job'[k]) /\ exec'[k].pc = "none"
    <3>1. k \in Keys /\ k[1] \in removing
      BY <1>4 DEF FilesOf, SlotInv, Reserved, RemovalOps
    <3>2. ~Active(job[k]) /\ (exec[k].pc # "none" => exec[k].job.ts = slot[s].on)
      BY <1>4 DEF SlotInv, Exclusive
    <3>3. exec[k].pc = "none"
      BY <1>1, <3>1, <3>2 DEF OwnInv, AttemptIsAwaited
    <3> QED BY <3>1, <3>2, <3>3, QuietMove
  <2> QED BY <1>1, <1>2, <1>4, <2>1, <2>2, SlotChange DEF RemovalOps, WaitingOps
<1> QED BY <1>3, <1>4

\* The removal is reserved.
LEMMA RemoveStartSlots ==
    ASSUME TypeInv, SlotInv, NEW c \in Clients, NEW t \in Torrents,
           RemoveStart(c, t)
    PROVE  SlotInv'
<1> DEFINE w == [NoSlot EXCEPT !.op = "reserved", !.torrent = t]
<1>1. /\ slot' = [slot EXCEPT ![c] = w] /\ removing' = removing \cup {t}
      /\ t \notin removing /\ UNCHANGED <<job, exec>> /\ c \in Slots
      /\ slot \in [Slots -> Slot]
  BY DEF RemoveStart, database, Slots, TypeInv, TypeOK, RequestType
<1>2. w.op = "reserved" /\ w.torrent = t
  BY DEF NoSlot
<1> HIDE DEF w
<1>3. slot'[c] = w /\ \A r \in Slots : r # c => slot'[r] = slot[r]
  BY <1>1
<1>4. \A r \in Slots : slot[r].op \in RemovalOps => slot[r].torrent # t
  BY <1>1 DEF SlotInv, Reserved
<1>5. ASSUME NEW r \in Slots, slot'[r].op \in RemovalOps
      PROVE  /\ slot'[r].torrent \in removing'
             /\ \A q \in Slots : slot'[q].op \in RemovalOps
                    /\ slot'[q].torrent = slot'[r].torrent => q = r
  BY <1>1, <1>2, <1>3, <1>4, <1>5 DEF SlotInv, Reserved
<1>6. \A r \in Slots : slot'[r].op \in {"removal", "deleting"} => slot'[r] = slot[r]
  BY <1>2, <1>3
<1>7. Exclusive'
  BY <1>1, <1>6 DEF SlotInv, Exclusive, FilesOf, Active
<1>8. WaitsOn'
  BY <1>2, <1>3 DEF SlotInv, WaitsOn, Waiting
<1> QED BY <1>5, <1>7, <1>8 DEF SlotInv, Reserved

\* Every step keeps what is known of the removals and of those who wait.
LEMMA SlotStep ==
    ASSUME TypeInv, OwnInv, RowInv, SlotInv, \A k \in Keys : Move(k), [Next]_vars
    PROVE  SlotInv'
<1>0. NoSlot.op = "none"
  BY DEF NoSlot
<1>1. CASE Microtask
  <2>1. CASE \E s \in Slots : Confirm(s)
    BY <2>1, ConfirmSlots
  <2>2. CASE \E c \in Clients : RemoveCancel(c)
    BY <2>2, RemoveCancelSlots
  <2>3. CASE ApplyDisabled
    <3>1. /\ CancelJobs(AutomaticJobs, FALSE, "automatic_disabled", Setting,
                        Wait("disable", NoTorrent), NoSlot)
          /\ removing' = removing
      BY <2>3, Zenon DEF ApplyDisabled
    <3>2. AutomaticJobs \in SUBSET Keys /\ Setting \in Slots
      BY DEF AutomaticJobs, Slots
    <3> QED BY <3>1, <3>2, CancelSlots, Zenon
  <2>4. CASE ~(\/ \E s \in Slots : Confirm(s)
               \/ \E c \in Clients : RemoveCancel(c)
               \/ ApplyDisabled)
    <3>1. UNCHANGED <<slot, removing>>
      BY <1>1, <2>4
         DEF Microtask, PumpMicrotask, ReleaseCancelling, ScanNext, ApplyEnabled,
             ScanEnds, Interrupted, WindowInterrupted, LeaveWindow, FinishJob,
             ExecUnchanged
    <3> QED BY <3>1, SlotsKept
  <2> QED BY <2>1, <2>2, <2>3, <2>4
<1>2. CASE \E c \in calls : RunCall(c)
  BY <1>2, SlotsKept DEF RunCall
<1>3. CASE Request
  <2>1. CASE \E c \in Clients, t \in Torrents : RemoveStart(c, t)
    BY <2>1, RemoveStartSlots
  <2>2. ASSUME NEW c \in Clients, NEW k \in Keys, CancelFile(c, k)
        PROVE  SlotInv'
    <3>1. /\ CancelJobs({k}, FALSE, "cancelled", c, Wait("file", k[1]), NoSlot)
          /\ removing' = removing
      BY <2>2, Zenon DEF CancelFile
    <3>2. {k} \in SUBSET Keys /\ c \in Slots
      BY DEF Slots
    <3> QED BY <3>1, <3>2, CancelSlots, Zenon
  <2>3. ASSUME NEW c \in Clients, NEW t \in Torrents, CancelTorrent(c, t)
        PROVE  SlotInv'
    <3>1. /\ CancelJobs(RowsOf(t), TRUE, "cancelled", c, Wait("torrent", t), NoSlot)
          /\ removing' = removing
      BY <2>3, Zenon DEF CancelTorrent
    <3>2. RowsOf(t) \in SUBSET Keys /\ c \in Slots
      BY DEF RowsOf, FilesOf, Slots
    <3> QED BY <3>1, <3>2, CancelSlots, Zenon
  <2>4. CASE ~(\/ \E c \in Clients, t \in Torrents : RemoveStart(c, t)
               \/ \E c \in Clients, k \in Keys : CancelFile(c, k)
               \/ \E c \in Clients, t \in Torrents : CancelTorrent(c, t))
    <3>1. UNCHANGED <<slot, removing>>
      BY <1>3, <2>4 DEF Request, QueueTorrent, QueueFile, ManualCall, Register,
                        SetAutomatic
    <3> QED BY <3>1, SlotsKept
  <2> QED BY <2>1, <2>2, <2>3, <2>4
<1>4. CASE Timer
  <2>1. ASSUME NEW s \in Slots, ConfirmTimesOut(s)
        PROVE  SlotInv'
    <3>1. /\ slot' = [slot EXCEPT ![s] = NoSlot]
          /\ removing' = IF slot[s].op = "removal"
                         THEN removing \ {slot[s].torrent} ELSE removing
      BY <2>1 DEF ConfirmTimesOut
    <3> QED BY <1>0, <3>1, SlotChange DEF RemovalOps, WaitingOps
  <2>2. CASE \E k \in Keys : WatchdogExpires(k) \/ RequestTimesOut(k)
    BY <2>2, SlotsKept
       DEF WatchdogExpires, RequestTimesOut, LeaveWindow, ExecUnchanged
  <2> QED BY <1>4, <2>1, <2>2 DEF Timer
<1>5. CASE Pipeline \/ Release
  <2>1. UNCHANGED <<slot, removing>>
    BY <1>5 DEF Pipeline, Release, OpenSucceeds, OpenFails, WindowStarts,
                ProviderAnswers, ProviderFails, TranscodeSucceeds, TranscodeFails,
                LeaseReleased, WorkerStopped, OrphanSettles, ExecUnchanged
  <2> QED BY <2>1, SlotsKept
<1>6. CASE Environment
  <2>1. ASSUME NEW c \in Clients, RemoveDelete(c)
        PROVE  SlotInv'
    <3>1. /\ slot' = [slot EXCEPT ![c] = NoSlot]
          /\ removing' = removing \ {slot[c].torrent}
          /\ slot[c].op = "deleting" /\ c \in Slots
      BY <2>1 DEF RemoveDelete, Slots
    <3> QED BY <1>0, <3>1, SlotChange DEF RemovalOps, WaitingOps
  <2>2. CASE ~\E c \in Clients : RemoveDelete(c)
    <3>1. UNCHANGED <<slot, removing>>
      BY <1>6, <2>2 DEF Environment, AbandonCall, CacheCompleted, Evict, Boot, Close
    <3> QED BY <3>1, SlotsKept
  <2> QED BY <2>1, <2>2
<1>7. CASE Halt
  <2>1. \A s \in Slots : slot'[s].op = "none"
    BY <1>7 DEF Halt, NoSlot
  <2> QED BY <2>1 DEF SlotInv, Reserved, Exclusive, WaitsOn, Waiting, RemovalOps
<1>8. CASE UNCHANGED vars
  BY <1>8, SlotsKept DEF vars
<1> QED BY <1>1, <1>2, <1>3, <1>4, <1>5, <1>6, <1>7, <1>8 DEF Next

-----------------------------------------------------------------------------
(***************************************************************************)
(* The invariant, and what it says.                                        *)
(***************************************************************************)

QueueInv == RowInv /\ WakeInv /\ SlotInv

\* The three invariants hold before the first boot.
LEMMA QueueInit ==
    ASSUME Init
    PROVE  QueueInv
<1>1. HasRow /\ RowsTimed
  BY DEF Init, HasRow, RowOf, RowsTimed, Timed, Each, NoFrame, NoRow
<1>2. DownIdle /\ CallsSane /\ mode = "down"
  BY DEF Init, DownIdle, CallsSane
<1>3. WakeInv
  BY DEF Init, WakeInv, Due, Promised
<1>4. SlotInv
  BY DEF Init, SlotInv, Reserved, Exclusive, WaitsOn, Waiting, NoSlot, RemovalOps
<1> QED BY <1>1, <1>2, <1>3, <1>4 DEF QueueInv, RowInv

\* Every step keeps the three invariants together.
LEMMA QueueStep ==
    ASSUME TypeInv, OwnInv, QueueInv, [Next]_vars
    PROVE  QueueInv'
<1>1. /\ \A k \in Keys : Move(k)
      /\ mode' # "down" => Matches(job', pending', pendingAttempts')
      /\ WakeInv'
  BY MoveStep DEF QueueInv
<1>2. HasRow' /\ RowsTimed'
  BY <1>1, MovesKeepRows DEF QueueInv, RowInv
<1>3. DownIdle' /\ CallsSane'
  BY DownIdleStep, CallsStep DEF QueueInv, RowInv
<1>4. SlotInv'
  BY <1>1, SlotStep DEF QueueInv
<1>5. (mode # "down" => Matches(job, pending, pendingAttempts))'
  BY <1>1 DEF Matches
<1> QED BY <1>1, <1>2, <1>3, <1>4, <1>5 DEF QueueInv, RowInv

\* They hold in every reachable state.
LEMMA QueueInvariant == Spec => []QueueInv
<1>1. Init => QueueInv
  BY QueueInit
<1>2. TypeInv /\ OwnInv /\ QueueInv /\ [Next]_vars => QueueInv'
  BY QueueStep
<1> QED BY <1>1, <1>2, TypeInvariant, OwnInvariant, PTL DEF Spec

\* Somebody waits while the pump is suspended.
LEMMA SuspendedByWaiting ==
    ASSUME SuspensionsBalanced, suspensions # 0
    PROVE  \E s \in Slots : Waiting(s)
<1>1. CASE {s \in Slots : Waiting(s)} = {}
  BY <1>1, FS_EmptySet DEF SuspensionsBalanced
<1> QED BY <1>1

\* What a run checks of the queue follows from the invariants, without another
\* look at the steps.
LEMMA QueueSoundHolds ==
    ASSUME TypeInv, OwnInv, QueueInv
    PROVE  QueueSound
<1>1. QueueMatchesRows
  <2>1. ASSUME mode # "down"
        PROVE  /\ {e.key : e \in pending} = {k \in Keys : job[k].state = "queued"}
               /\ \A e \in pending : Live(e, job, pendingAttempts)
               /\ \A e, f \in pending : e.key = f.key => e = f
               /\ \A k \in Keys : pendingAttempts[k] # 0 => job[k].state = "queued"
    <3>1. Matches(job, pending, pendingAttempts)
      BY <2>1 DEF QueueInv, RowInv
    <3>2. \A e \in pending : e.key \in Keys
      BY QueueTypes DEF Entry
    <3> QED BY <3>1, <3>2 DEF Matches, Live
  <2> QED BY <2>1 DEF QueueMatchesRows
<1>2. QueueNeverStuck
  <2>1. ASSUME mode \in {"starting", "serving"}, pending # {}, ~pumpScheduled
        PROVE  \/ \E s \in Slots : Waiting(s) /\ Settled(s)
               \/ \E k \in Keys : job[k].state \in {"preparing", "transcribing"}
               \/ CleanupOwner
    <3>1. activePromise # 0 \/ suspensions # 0
      BY <2>1 DEF QueueInv, WakeInv, Due
    <3>2. CASE activePromise # 0
      <4>1. PICK k \in Keys : exec[k].pc # "none"
        BY <3>2 DEF QueueInv, WakeInv, Promised
      <4>2. job[k].state # "queued"
        BY <4>1 DEF QueueInv, RowInv, HasRow, RowOf
      <4> QED BY <4>1, <4>2 DEF CleanupOwner, Owned, Active, ACTIVE_STATES
    <3>3. CASE activePromise = 0 /\ suspensions # 0
      <4>1. PICK s \in Slots : Waiting(s)
        BY <3>3, SuspendedByWaiting DEF TypeInv
      <4>2. slot[s].on # 0
        BY <4>1 DEF QueueInv, SlotInv, WaitsOn
      <4> QED BY <3>3, <4>1, <4>2 DEF Settled
    <3> QED BY <3>1, <3>2, <3>3
  <2> QED BY <2>1 DEF QueueNeverStuck
<1>3. OwnerIsGenuine
  BY DEF OwnerIsGenuine, QueueInv, RowInv, HasRow, RowOf
<1> QED BY <1>1, <1>2, <1>3 DEF QueueSound, TypeInv

\* Rows and queue agree after any mix of cancels, purges, removals, requeues and
\* restarts, no wakeup is lost, and the attempt that may write a row is the one the
\* row is about.
THEOREM QueueIsSound == Spec => []QueueSound
<1>1. TypeInv /\ OwnInv /\ QueueInv => QueueSound
  BY QueueSoundHolds
<1> QED BY <1>1, TypeInvariant, OwnInvariant, QueueInvariant, PTL

\* A removal that deletes files has the torrent to itself: no attempt, no resource
\* and no active row, whoever queues, cancels or restarts meanwhile.
THEOREM RemovalHasTorrent == Spec => []RemovalIsExclusive
<1>1. OwnInv /\ QueueInv => RemovalIsExclusive
  <2> SUFFICES ASSUME OwnInv, QueueInv, NEW c \in Clients, slot[c].op = "deleting",
                      NEW k \in FilesOf(slot[c].torrent)
               PROVE  exec[k].pc = "none" /\ ~Busy(k) /\ ~Active(job[k])
    BY DEF RemovalIsExclusive
  <2>1. c \in Slots /\ k \in Keys
    BY DEF Slots, FilesOf
  <2>2. ~Active(job[k]) /\ exec[k].pc = "none"
    BY <2>1 DEF QueueInv, SlotInv, Exclusive
  <2> QED BY <2>1, <2>2 DEF OwnInv, OnlyAttemptsAreBusy
<1> QED BY <1>1, OwnInvariant, QueueInvariant, PTL
=============================================================================
