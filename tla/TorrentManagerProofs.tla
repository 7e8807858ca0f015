------------------------- MODULE TorrentManagerProofs -------------------------
(***************************************************************************)
(* Theorems about TorrentManager, for any torrents, requests, readers and  *)
(* bounds: sessions and their torrents agree, a removed torrent stays      *)
(* removed, readers keep their files, nothing writes after close(), and a  *)
(* preload that is said to run does.                                       *)
(***************************************************************************)
EXTENDS TorrentManager, TLAPS, FiniteSetTheorems, SequenceTheorems, WellFoundedInduction

-----------------------------------------------------------------------------
(***************************************************************************)
(* The inductive invariant.                                                *)
(***************************************************************************)

OpsOf(s) == {o \in Ops : op[o].s = s}
TasksOf(s) == {p \in Preloads : task[p].s = s}

(* The map has what is alive in the client, an object that is or was of a torrent *)
(* keeps it, and its bytes are those that are there.                              *)
SessionMap ==
    /\ \A t \in Torrents : session[t] # NoSession =>
          obj[session[t]].live /\ obj[session[t]].torrent = t
    /\ \A s \in Sessions : obj[s].live =>
          obj[s].torrent \in Torrents /\ session[obj[s].torrent] = s
    /\ \A s \in Sessions : obj[s].torrent \in Torrents \/ obj[s] = NoObject
    /\ \A s \in Sessions : obj[s].live /\ obj[s].stage \in {"ready", "done"} =>
          disk[obj[s].torrent] <= obj[s].has

(* Whoever refers to a session object refers to one of its torrent. *)
Holders ==
    /\ \A o \in Ops : op[o].pc = "none" <=> op[o].s = NoSession
    /\ \A p \in Preloads :
          \/ task[p] = NoTask
          \/ /\ task[p].pc # "none" /\ task[p].s \in Sessions /\ task[p].torrent \in Torrents
             /\ obj[task[p].s].torrent = task[p].torrent
    /\ \A s \in Sessions : /\ IsFiniteSet(OpsOf(s))
                           /\ obj[s].ops = Cardinality(OpsOf(s)) + Cardinality(TasksOf(s))
    /\ \A t \in Torrents : current[t] # NoPreload => task[current[t]].torrent = t
    /\ \A t \in Torrents : drop[t].pc = "saving" =>
          drop[t].s \in Sessions /\ obj[drop[t].s].torrent = t
    /\ \A s \in closeSessions : obj[s].torrent \in Torrents

Distinct(rows) ==
    \A i, j \in DOMAIN rows : rows[i].torrent = rows[j].torrent => i = j
OneRow == Distinct(cache)

(* A process that does not run holds nothing. *)
Down ==
    phase = "down" =>
        /\ \A t \in Torrents : /\ session[t] = NoSession /\ evict[t] = "none"
                               /\ drop[t] = NoDrop /\ current[t] = NoPreload
                               /\ job[t] = NoJob /\ removal[t] = "none"
        /\ \A s \in Sessions : obj[s] = NoObject
        /\ \A o \in Ops : op[o] = NoOp
        /\ \A r \in Readers : reader[r] = NoReader
        /\ \A p \in Preloads : task[p] = NoTask
        /\ saving = {} /\ closeWait = {} /\ closeSessions = {}

SInv == TypeOK /\ SessionMap /\ Holders /\ OneRow /\ Down

ReaderInv ==
    /\ \A r \in Readers : reader[r].pc # "none" <=> reader[r].torrent \in Torrents
    /\ ReadersKeepFiles

(* Once the session of a torrent is closed for its removal there is no other, and *)
(* nothing downloads.                                                             *)
RemovalInv ==
    /\ \A t \in Torrents : /\ removal[t] \in {"readers", "rm", "row"} => session[t] = NoSession
                           /\ removal[t] = "row" => disk[t] = 0
    /\ RemovedMeansGone

(* Once close() has begun nothing that it has awaited begins again, and an eviction is *)
(* awaited by whoever started it or by close().                                        *)
Closing == phase \notin {"down", "up"}
Awaited(t) == t \in closeWait \/ \E p \in Preloads : t \in task[p].wait
Waits == \A p \in Preloads : task[p].wait # {} => task[p].pc = "pruning"
CloseInv ==
    /\ Waits
    /\ Closing /\ phase # "removals" => \A t \in Torrents : removal[t] = "none"
    /\ Closing /\ phase \notin {"removals", "drops"} =>
          \A t \in Torrents : drop[t].pc = "none" /\ (evict[t] # "none" => Awaited(t))
    /\ phase \in {"states", "preloads", "record"} => closeWait = {}
    /\ phase \in {"preloads", "record", "prune"} =>
          saving = {} /\ \A t \in Torrents : session[t] = NoSession
    /\ phase \in {"record", "prune"} => \A t \in Torrents : current[t] = NoPreload

(* A status that says running is that of a frame of its torrent, or of one that gave *)
(* up for a removal or a shutdown that is still under way.  It gives up for no other *)
(* reason, and unless a removal fails early it forgets the status.                   *)
NoneFailsEarly == Incidents \cap {"before", "modtimes"} = {}
JobInv ==
    /\ \A t \in Torrents : job[t].by # NoPreload => task[job[t].by].torrent = t
    /\ \A p \in Preloads : task[p].aborted =>
          \/ phase # "up"
          \/ removal[task[p].torrent] = "preload" /\ current[task[p].torrent] = p
    /\ NoneFailsEarly => \A t \in Torrents :
          job[t].state = "running" => job[t].by # NoPreload \/ Quieted(t)

-----------------------------------------------------------------------------
(***************************************************************************)
(* The rows of torrent_cache.                                              *)
(***************************************************************************)

(* Without one of its elements a sequence of rows has the others, in their order. *)
LEMMA RemovalFacts ==
    ASSUME NEW rows \in Seq(Row), NEW k \in 1 .. Len(rows)
    PROVE  /\ RemoveAt(rows, k) \in Seq(Row)
           /\ Len(RemoveAt(rows, k)) = Len(rows) - 1
           /\ \A i \in 1 .. Len(rows) - 1 :
                 RemoveAt(rows, k)[i] = rows[IF i < k THEN i ELSE i + 1]
<1> DEFINE a == SubSeq(rows, 1, k - 1)
           b == SubSeq(rows, k + 1, Len(rows))
<1>1. Len(rows) \in Nat /\ \A i \in 1 .. Len(rows) : rows[i] \in Row
  BY LenProperties
<1>2. /\ a \in Seq(Row) /\ Len(a) = k - 1
      /\ \A i \in 1 .. k - 1 : a[i] = rows[i]
  <2>1. \A i \in 1 .. k - 1 : rows[i] \in Row
    BY <1>1
  <2>2. /\ a \in Seq(Row) /\ Len(a) = IF 1 <= k - 1 THEN (k - 1) - 1 + 1 ELSE 0
        /\ \A i \in 1 .. (k - 1) - 1 + 1 : a[i] = rows[1 + i - 1]
    BY <1>1, <2>1, SubSeqProperties
  <2> HIDE DEF a
  <2> QED BY <1>1, <2>2
<1>3. /\ b \in Seq(Row) /\ Len(b) = Len(rows) - k
      /\ \A i \in 1 .. Len(rows) - k : b[i] = rows[k + i]
  <2>1. \A i \in k + 1 .. Len(rows) : rows[i] \in Row
    BY <1>1
  <2>2. /\ b \in Seq(Row)
        /\ Len(b) = IF k + 1 <= Len(rows) THEN Len(rows) - (k + 1) + 1 ELSE 0
        /\ \A i \in 1 .. Len(rows) - (k + 1) + 1 : b[i] = rows[(k + 1) + i - 1]
    BY <1>1, <2>1, SubSeqProperties
  <2> HIDE DEF b
  <2> QED BY <1>1, <2>2
<1>4. RemoveAt(rows, k) = a \o b
  BY DEF RemoveAt
<1> HIDE DEF a, b
<1>5. /\ a \o b \in Seq(Row)
      /\ Len(a \o b) = Len(rows) - 1
      /\ \A i \in 1 .. Len(rows) - 1 :
            (a \o b)[i] = IF i <= k - 1 THEN a[i] ELSE b[i - (k - 1)]
  BY <1>1, <1>2, <1>3, ConcatProperties
<1>6. ASSUME NEW i \in 1 .. Len(rows) - 1
      PROVE  (a \o b)[i] = rows[IF i < k THEN i ELSE i + 1]
  <2>1. CASE i < k
    BY <1>1, <1>2, <1>5, <2>1
  <2>2. CASE ~(i < k)
    BY <1>1, <1>3, <1>5, <2>2
  <2> QED BY <2>1, <2>2
<1> QED BY <1>4, <1>5, <1>6

(* Deleting the row of a torrent deletes it, and no other. *)
LEMMA WithoutFacts ==
    ASSUME NEW rows \in Seq(Row), Distinct(rows), NEW t
    PROVE  /\ Without(rows, t) \in Seq(Row)
           /\ Distinct(Without(rows, t))
           /\ ~Has(Without(rows, t), t)
           /\ \A u : Has(Without(rows, t), u) => Has(rows, u)
<1>1. Len(rows) \in Nat /\ DOMAIN rows = 1 .. Len(rows)
  BY LenProperties
<1>2. CASE ~Has(rows, t)
  BY <1>2 DEF Without
<1>3. CASE Has(rows, t)
  <2> DEFINE k == At(rows, t)
             left == Without(rows, t)
  <2>1. k \in 1 .. Len(rows) /\ rows[k].torrent = t
    BY <1>1, <1>3 DEF At, Has
  <2> HIDE DEF k
  <2>2. left = RemoveAt(rows, k)
    BY <1>3 DEF Without, k
  <2> HIDE DEF left
  <2>3. /\ left \in Seq(Row) /\ Len(left) = Len(rows) - 1
        /\ \A i \in 1 .. Len(rows) - 1 : left[i] = rows[IF i < k THEN i ELSE i + 1]
    BY <2>1, <2>2, RemovalFacts
  <2>4. DOMAIN left = 1 .. Len(rows) - 1
    BY <2>3, LenProperties
  <2> DEFINE Old(i) == IF i < k THEN i ELSE i + 1
  <2>5. \A i \in DOMAIN left : Old(i) \in DOMAIN rows /\ Old(i) # k /\ left[i] = rows[Old(i)]
    BY <1>1, <2>1, <2>3, <2>4
  <2>6. \A i, j \in DOMAIN left : Old(i) = Old(j) => i = j
    BY <1>1, <2>1, <2>4
  <2> HIDE DEF Old
  <2>7. Distinct(left)
    BY <2>5, <2>6 DEF Distinct
  <2>8. ~Has(left, t)
    BY <1>1, <2>1, <2>5 DEF Distinct, Has
  <2>9. \A u : Has(left, u) => Has(rows, u)
    BY <2>5 DEF Has
  <2> QED BY <2>3, <2>7, <2>8, <2>9 DEF left
<1> QED BY <1>2, <1>3

(* A row at the end of rows that have none of its torrent. *)
LEMMA AppendFacts ==
    ASSUME NEW rows \in Seq(Row), Distinct(rows), NEW row \in Row, ~Has(rows, row.torrent)
    PROVE  /\ Append(rows, row) \in Seq(Row)
           /\ Distinct(Append(rows, row))
           /\ \A u : Has(Append(rows, row), u) => u = row.torrent \/ Has(rows, u)
<1> DEFINE more == Append(rows, row)
<1>1. Len(rows) \in Nat /\ DOMAIN rows = 1 .. Len(rows)
  BY LenProperties
<1>2. /\ more \in Seq(Row) /\ Len(more) = Len(rows) + 1
      /\ \A i \in 1 .. Len(rows) : more[i] = rows[i]
      /\ more[Len(rows) + 1] = row
  BY <1>1, AppendProperties
<1> HIDE DEF more
<1>3. DOMAIN more = 1 .. Len(rows) + 1
  BY <1>1, <1>2, LenProperties
<1>4. \A i \in DOMAIN more : \/ i \in DOMAIN rows /\ more[i] = rows[i]
                             \/ i = Len(rows) + 1 /\ more[i] = row
  BY <1>1, <1>2, <1>3
<1>5. Distinct(more)
  BY <1>4 DEF Distinct, Has
<1>6. \A u : Has(more, u) => u = row.torrent \/ Has(rows, u)
  BY <1>4 DEF Has
<1> QED BY <1>2, <1>5, <1>6 DEF more

(* Recording a torrent leaves one row of it and adds no other. *)
LEMMA RecordFacts ==
    ASSUME NEW rows \in Seq(Row), Distinct(rows), NEW t \in Torrents,
           NEW bytes \in 0 .. Pieces, NEW completed \in BOOLEAN
    PROVE  /\ RecordCache(rows, t, bytes, completed) \in Seq(Row)
           /\ Distinct(RecordCache(rows, t, bytes, completed))
           /\ \A u : Has(RecordCache(rows, t, bytes, completed), u) => u = t \/ Has(rows, u)
<1> DEFINE row == [torrent |-> t, bytes |-> bytes, completed |-> completed]
<1>1. row \in Row /\ row.torrent = t
  BY DEF Row
<1> HIDE DEF row
<1>2. RecordCache(rows, t, bytes, completed) = Append(Without(rows, t), row)
  BY DEF RecordCache, row
<1> QED BY <1>1, <1>2, WithoutFacts, AppendFacts

(* Touching a torrent moves its row to the end, if there is one. *)
LEMMA TouchFacts ==
    ASSUME NEW rows \in Seq(Row), Distinct(rows), NEW t
    PROVE  /\ Touch(rows, t) \in Seq(Row)
           /\ Distinct(Touch(rows, t))
           /\ \A u : Has(Touch(rows, t), u) => Has(rows, u)
<1>1. CASE ~Has(rows, t)
  BY <1>1 DEF Touch
<1>2. CASE Has(rows, t)
  <2> DEFINE row == rows[At(rows, t)]
  <2>1. At(rows, t) \in DOMAIN rows /\ row.torrent = t
    BY <1>2 DEF At, Has
  <2>2. row \in Row
    BY <2>1, LenProperties
  <2> HIDE DEF row
  <2>3. Touch(rows, t) = Append(Without(rows, t), row)
    BY <1>2 DEF Touch, row
  <2> QED BY <1>2, <2>1, <2>2, <2>3, WithoutFacts, AppendFacts
<1> QED BY <1>1, <1>2

-----------------------------------------------------------------------------
(***************************************************************************)
(* Types of the records, and of what the actions make of them.             *)
(***************************************************************************)

LEMMA Slots == NoSession \notin Sessions /\ NoPreload \notin Preloads
BY SlotsAssumption DEF Sessions, NoSession, Preloads, NoPreload

(* The empty records, and those that begin something. *)
LEMMA EmptyTypes ==
    /\ NoObject \in Object /\ NoDrop \in Drop /\ NoTask \in Task /\ NoJob \in Job
    /\ NoOp \in Op /\ NoReader \in Reader
    /\ \A t \in Torrents : NewObject(t) \in Object
    /\ \A c \in BOOLEAN, t \in Torrents : Disconnected(t, c) \in Drop
<1>1. 0 \in 0 .. Pieces /\ 0 \in Nat
  BY PiecesAssumption
<1>2. NoObject \in Object
  BY <1>1 DEF NoObject, Object
<1>3. NoDrop \in Drop
  BY DEF NoDrop, Drop
<1>4. NoTask \in Task
  BY DEF NoTask, Task
<1>5. NoJob \in Job /\ NoOp \in Op /\ NoReader \in Reader
  BY DEF NoJob, Job, NoOp, Op, NoReader, Reader
<1>6. ASSUME NEW t \in Torrents PROVE NewObject(t) \in Object
  BY <1>1 DEF NewObject, NoObject, Object
<1>7. ASSUME NEW c \in BOOLEAN, NEW t \in Torrents PROVE Disconnected(t, c) \in Drop
  BY DEF Disconnected, NoDrop, Drop
<1> QED BY <1>2, <1>3, <1>4, <1>5, <1>6, <1>7

(* Single fields of a session object. *)
LEMMA ObjectFields ==
    ASSUME NEW o \in Object
    PROVE  /\ o.torrent \in Torrents \cup {NoTorrent} /\ o.live \in BOOLEAN
           /\ o.ops \in Nat /\ o.has \in 0 .. Pieces /\ o.timer \in BOOLEAN
           /\ o.stage \in {"opening", "checking", "ready", "done"}
           /\ o.rec \in {"none", "saving", "measuring"}
           /\ \A b \in BOOLEAN : [o EXCEPT !.timer = b] \in Object
           /\ \A x \in {"opening", "checking", "ready", "done"} : [o EXCEPT !.stage = x] \in Object
           /\ \A x \in {"none", "saving", "measuring"} : [o EXCEPT !.rec = x] \in Object
           /\ \A n \in 0 .. Pieces : [o EXCEPT !.has = n] \in Object
<1>1. o.torrent \in Torrents \cup {NoTorrent} /\ o.live \in BOOLEAN
      /\ o.ops \in Nat /\ o.has \in 0 .. Pieces /\ o.timer \in BOOLEAN
      /\ o.stage \in {"opening", "checking", "ready", "done"}
      /\ o.rec \in {"none", "saving", "measuring"}
  BY DEF Object
<1>2. \A b \in BOOLEAN : [o EXCEPT !.timer = b] \in Object
  BY DEF Object
<1>3. \A x \in {"opening", "checking", "ready", "done"} : [o EXCEPT !.stage = x] \in Object
  BY DEF Object
<1>4. \A x \in {"none", "saving", "measuring"} : [o EXCEPT !.rec = x] \in Object
  BY DEF Object
<1>5. \A n \in 0 .. Pieces : [o EXCEPT !.has = n] \in Object
  BY DEF Object
<1> QED BY <1>1, <1>2, <1>3, <1>4, <1>5

(* The torrent of an object is destroyed: the object stays that of its torrent and *)
(* of those who use it.                                                            *)
LEMMA ClosedFacts ==
    ASSUME NEW o \in Object
    PROVE  /\ ClosedObject(o) \in Object /\ ~ClosedObject(o).live
           /\ ClosedObject(o).torrent = o.torrent /\ ClosedObject(o).ops = o.ops
<1>1. 0 \in 0 .. Pieces
  BY PiecesAssumption
<1> QED BY <1>1 DEF ClosedObject, Object

(* Whoever awaits the save of a torrent goes on. *)
LEMMA ResumedFacts ==
    ASSUME NEW o \in Object, NEW t
    PROVE  /\ SaveResumed(o, t) \in Object
           /\ SaveResumed(o, t).live = o.live /\ SaveResumed(o, t).torrent = o.torrent
           /\ SaveResumed(o, t).ops = o.ops /\ SaveResumed(o, t).stage = o.stage
           /\ SaveResumed(o, t).has = o.has
           /\ o = NoObject => SaveResumed(o, t) = NoObject
<1>1. NoObject.rec = "none"
  BY DEF NoObject
<1> QED BY <1>1 DEF SaveResumed, Object

(* A holder releases its session. *)
LEMMA ReleasedFacts ==
    ASSUME NEW s, obj[s] \in Object
    PROVE  /\ Released(s) \in Object
           /\ Released(s).live = obj[s].live /\ Released(s).torrent = obj[s].torrent
           /\ Released(s).stage = obj[s].stage /\ Released(s).has = obj[s].has
           /\ Released(s).rec = obj[s].rec
           /\ Released(s).ops = IF obj[s].ops > 0 THEN obj[s].ops - 1 ELSE 0
<1> DEFINE o == obj[s]
           left == IF o.ops > 0 THEN o.ops - 1 ELSE 0
           timer == o.timer \/ /\ left = 0
                               /\ ~Quieted(o.torrent)
                               /\ session[o.torrent] = s
<1>1. left \in Nat
  BY DEF Object
<1>2. timer \in BOOLEAN
  OBVIOUS
<1>3. Released(s) = [o EXCEPT !.ops = left, !.timer = timer]
  BY DEF Released, Object
<1> HIDE DEF left, timer
<1>4. /\ Released(s) \in Object
      /\ Released(s).live = obj[s].live /\ Released(s).torrent = obj[s].torrent
      /\ Released(s).stage = obj[s].stage /\ Released(s).has = obj[s].has
      /\ Released(s).rec = obj[s].rec
      /\ Released(s).ops = left
  BY <1>1, <1>2, <1>3 DEF Object
<1> QED BY <1>4 DEF left

(* The frames of a preload and of an idle drop. *)
LEMMA FrameFields ==
    /\ \A k \in Task :
          /\ k.torrent \in Torrents \cup {NoTorrent} /\ k.s \in Sessions \cup {NoSession}
          /\ k.wait \subseteq Torrents /\ k.aborted \in BOOLEAN
          /\ \A pc \in {"ready", "consuming", "saving", "measuring", "pruning", "failed"} :
                [k EXCEPT !.pc = pc] \in Task
          /\ [k EXCEPT !.aborted = TRUE] \in Task
          /\ \A t : [k EXCEPT !.wait = @ \ {t}] \in Task
          /\ \A w \in SUBSET Torrents : [k EXCEPT !.pc = "pruning", !.wait = w] \in Task
    /\ \A d \in Drop :
          /\ d.s \in Sessions \cup {NoSession} /\ d.completed \in BOOLEAN
          /\ d.wait \subseteq Torrents
          /\ [d EXCEPT !.pc = "wiping"] \in Drop
          /\ \A t : [d EXCEPT !.wait = @ \ {t}] \in Drop
          /\ \A w \in SUBSET Torrents : [d EXCEPT !.pc = "pruning", !.wait = w] \in Drop
<1>1. ASSUME NEW k \in Task
      PROVE  /\ k.torrent \in Torrents \cup {NoTorrent} /\ k.s \in Sessions \cup {NoSession}
             /\ k.wait \subseteq Torrents /\ k.aborted \in BOOLEAN
             /\ \A pc \in {"ready", "consuming", "saving", "measuring", "pruning", "failed"} :
                   [k EXCEPT !.pc = pc] \in Task
             /\ [k EXCEPT !.aborted = TRUE] \in Task
             /\ \A t : [k EXCEPT !.wait = @ \ {t}] \in Task
             /\ \A w \in SUBSET Torrents : [k EXCEPT !.pc = "pruning", !.wait = w] \in Task
  <2>1. k.torrent \in Torrents \cup {NoTorrent} /\ k.s \in Sessions \cup {NoSession}
        /\ k.wait \subseteq Torrents /\ k.aborted \in BOOLEAN
    BY DEF Task
  <2>2. \A pc \in {"ready", "consuming", "saving", "measuring", "pruning", "failed"} :
            [k EXCEPT !.pc = pc] \in Task
    BY DEF Task
  <2>3. [k EXCEPT !.aborted = TRUE] \in Task
    BY DEF Task
  <2>4. ASSUME NEW t PROVE [k EXCEPT !.wait = @ \ {t}] \in Task
    <3>1. k.wait \ {t} \in SUBSET Torrents
      BY <2>1
    <3> QED BY <3>1 DEF Task
  <2>5. \A w \in SUBSET Torrents : [k EXCEPT !.pc = "pruning", !.wait = w] \in Task
    BY DEF Task
  <2> QED BY <2>1, <2>2, <2>3, <2>4, <2>5
<1>2. ASSUME NEW d \in Drop
      PROVE  /\ d.s \in Sessions \cup {NoSession} /\ d.completed \in BOOLEAN
             /\ d.wait \subseteq Torrents
             /\ [d EXCEPT !.pc = "wiping"] \in Drop
             /\ \A t : [d EXCEPT !.wait = @ \ {t}] \in Drop
             /\ \A w \in SUBSET Torrents : [d EXCEPT !.pc = "pruning", !.wait = w] \in Drop
  <2>1. d.s \in Sessions \cup {NoSession} /\ d.completed \in BOOLEAN /\ d.wait \subseteq Torrents
    BY DEF Drop
  <2>2. [d EXCEPT !.pc = "wiping"] \in Drop
    BY DEF Drop
  <2>3. ASSUME NEW t PROVE [d EXCEPT !.wait = @ \ {t}] \in Drop
    <3>1. d.wait \ {t} \in SUBSET Torrents
      BY <2>1
    <3> QED BY <3>1 DEF Drop
  <2>4. \A w \in SUBSET Torrents : [d EXCEPT !.pc = "pruning", !.wait = w] \in Drop
    BY DEF Drop
  <2> QED BY <2>1, <2>2, <2>3, <2>4
<1> QED BY <1>1, <1>2

(* What a prune chooses are torrents of rows that it does not spare. *)
LEMMA VictimsFacts ==
    ASSUME NEW rows \in Seq(Row), NEW reading
    PROVE  /\ Victims(rows, reading) \subseteq Torrents
           /\ \A t \in Victims(rows, reading) : t \notin Spared(reading)
<1>1. \A i \in DOMAIN rows : rows[i].torrent \in Torrents
  <2>1. \A i \in DOMAIN rows : rows[i] \in Row
    BY LenProperties
  <2> QED BY <2>1 DEF Row
<1> DEFINE idle == {i \in DOMAIN rows : rows[i].torrent \notin Spared(reading)}
           Excess(i) == TotalBytes(rows) > Capacity + Bytes(rows, {j \in idle : j < i})
<1>2. Victims(rows, reading) = {rows[i].torrent : i \in {i \in idle : Excess(i)}}
  BY DEF Victims
<1> HIDE DEF Excess
<1> QED BY <1>1, <1>2

-----------------------------------------------------------------------------
(***************************************************************************)
(* Steps that open no session.                                             *)
(***************************************************************************)

(* The frames keep their sessions, and the object map its holders and torrents. *)
FramesKept ==
    /\ current' = current
    /\ \A p \in Preloads :
        /\ task'[p].s = task[p].s /\ task'[p].torrent = task[p].torrent
        /\ task[p].pc # "none" => task'[p].pc # "none"
        /\ task[p] = NoTask => task'[p] = NoTask
ObjectsKept ==
    \A s \in Sessions :
        /\ obj'[s].torrent = obj[s].torrent
        /\ obj[s] = NoObject => obj'[s] = NoObject
        /\ obj'[s].live => obj[s].live
BytesKept ==
    \A s \in Sessions : obj'[s].live /\ obj'[s].stage \in {"ready", "done"} =>
        disk'[obj[s].torrent] <= obj'[s].has
MapFollows ==
    \A t \in Torrents :
        session'[t] = IF session[t] # NoSession /\ ~obj'[session[t]].live
                      THEN NoSession ELSE session[t]
DropsKept ==
    \A t \in Torrents : drop'[t].pc = "saving" =>
        drop'[t].s \in Sessions /\ obj[drop'[t].s].torrent = t
CopyKept == \A s \in closeSessions' : obj[s].torrent \in Torrents

(* A step whose objects only lose life, and that unmaps those that do, keeps the
   session map. *)
LEMMA MapKept ==
    ASSUME SInv, TypeOK', ObjectsKept, BytesKept, MapFollows
    PROVE  SessionMap'
<1>1. \A t \in Torrents : session'[t] # NoSession =>
          obj'[session'[t]].live /\ obj'[session'[t]].torrent = t
  <2> SUFFICES ASSUME NEW t \in Torrents, session'[t] # NoSession
               PROVE  obj'[session'[t]].live /\ obj'[session'[t]].torrent = t
    OBVIOUS
  <2>1. session[t] # NoSession /\ session'[t] = session[t] /\ obj'[session[t]].live
    BY DEF MapFollows
  <2>2. session[t] \in Sessions /\ obj[session[t]].torrent = t
    BY <2>1 DEF SInv, TypeOK, SessionMap
  <2> QED BY <2>1, <2>2 DEF ObjectsKept
<1>2. \A s \in Sessions : obj'[s].live =>
          obj'[s].torrent \in Torrents /\ session'[obj'[s].torrent] = s
  <2> SUFFICES ASSUME NEW s \in Sessions, obj'[s].live
               PROVE  obj'[s].torrent \in Torrents /\ session'[obj'[s].torrent] = s
    OBVIOUS
  <2>1. obj[s].live /\ obj'[s].torrent = obj[s].torrent
    BY DEF ObjectsKept
  <2>2. obj[s].torrent \in Torrents /\ session[obj[s].torrent] = s
    BY <2>1 DEF SInv, SessionMap
  <2> QED BY <2>1, <2>2 DEF MapFollows
<1>3. \A s \in Sessions : obj'[s].torrent \in Torrents \/ obj'[s] = NoObject
  BY DEF SInv, SessionMap, ObjectsKept
<1>4. \A s \in Sessions : obj'[s].live /\ obj'[s].stage \in {"ready", "done"} =>
          disk'[obj'[s].torrent] <= obj'[s].has
  BY DEF BytesKept, ObjectsKept
<1> QED BY <1>1, <1>2, <1>3, <1>4 DEF SessionMap

(* Nobody begins to hold a session, or stops. *)
LEMMA HoldersKept ==
    ASSUME SInv, TypeOK', ObjectsKept, FramesKept, DropsKept, CopyKept, op' = op,
           \A s \in Sessions : obj'[s].ops = obj[s].ops
    PROVE  Holders'
<1>1. \A o \in Ops : op'[o].pc = "none" <=> op'[o].s = NoSession
  BY DEF SInv, Holders
<1>2. ASSUME NEW p \in Preloads
      PROVE  \/ task'[p] = NoTask
             \/ /\ task'[p].pc # "none" /\ task'[p].s \in Sessions /\ task'[p].torrent \in Torrents
                /\ obj'[task'[p].s].torrent = task'[p].torrent
  <2>1. CASE task[p] = NoTask
    BY <2>1 DEF FramesKept
  <2>2. CASE task[p] # NoTask
    <3>1. /\ task[p].pc # "none" /\ task[p].s \in Sessions /\ task[p].torrent \in Torrents
          /\ obj[task[p].s].torrent = task[p].torrent
      BY <2>2 DEF SInv, Holders
    <3> QED BY <3>1 DEF FramesKept, ObjectsKept
  <2> QED BY <2>1, <2>2
<1>3. ASSUME NEW s \in Sessions
      PROVE  /\ IsFiniteSet(OpsOf(s)')
             /\ obj'[s].ops = Cardinality(OpsOf(s)') + Cardinality(TasksOf(s)')
  <2>1. OpsOf(s)' = OpsOf(s)
    BY DEF OpsOf
  <2>2. TasksOf(s)' = TasksOf(s)
    BY DEF TasksOf, FramesKept
  <2> QED BY <2>1, <2>2 DEF SInv, Holders
<1>4. \A t \in Torrents : drop'[t].pc = "saving" =>
          drop'[t].s \in Sessions /\ obj'[drop'[t].s].torrent = t
  BY DEF DropsKept, ObjectsKept
<1>5. \A s \in closeSessions' : obj'[s].torrent \in Torrents
  BY DEF CopyKept, ObjectsKept, TypeOK
<1>6. \A t \in Torrents : current'[t] # NoPreload => task'[current'[t]].torrent = t
  <2> SUFFICES ASSUME NEW t \in Torrents, current[t] # NoPreload
               PROVE  task'[current[t]].torrent = t
    BY DEF FramesKept
  <2>1. current[t] \in Preloads /\ task[current[t]].torrent = t
    BY DEF SInv, TypeOK, Holders
  <2> QED BY <2>1 DEF FramesKept
<1> QED BY <1>1, <1>2, <1>3, <1>4, <1>5, <1>6 DEF Holders

(* Sessions, frames and requests as they were, and no more bytes than there were. *)
LEMMA NothingHeld ==
    ASSUME SInv, TypeOK', session' = session, obj' = obj, op' = op, FramesKept, DropsKept, CopyKept,
           \A t \in Torrents : disk'[t] \in 0 .. disk[t]
    PROVE  SessionMap' /\ Holders'
<1>1. ObjectsKept /\ MapFollows
  BY DEF ObjectsKept, MapFollows, SInv, SessionMap
<1>2. BytesKept
  <2> SUFFICES ASSUME NEW s \in Sessions, obj[s].live, obj[s].stage \in {"ready", "done"}
               PROVE  disk'[obj[s].torrent] <= obj[s].has
    BY DEF BytesKept
  <2> DEFINE t == obj[s].torrent
  <2>1. t \in Torrents /\ disk[t] <= obj[s].has
    BY DEF SInv, SessionMap
  <2>2. disk[t] \in Nat /\ disk'[t] \in 0 .. disk[t]
    BY <2>1, PiecesAssumption DEF SInv, TypeOK
  <2>3. obj[s] \in Object
    BY DEF SInv, TypeOK
  <2>4. obj[s].has \in Nat
    BY <2>3, PiecesAssumption DEF Object
  <2> QED BY <2>1, <2>2, <2>4
<1> QED BY <1>1, <1>2, MapKept, HoldersKept

(* What of the frames and copies does not change is kept. *)
LEMMA Unmoved ==
    ASSUME SInv
    PROVE  /\ task' = task /\ current' = current => FramesKept
           /\ drop' = drop => DropsKept
           /\ closeSessions' = closeSessions => CopyKept
           /\ disk' = disk => \A t \in Torrents : disk'[t] \in 0 .. disk[t]
<1>1. task' = task /\ current' = current => FramesKept
  BY DEF FramesKept
<1>2. drop' = drop => DropsKept
  BY DEF DropsKept, SInv, Holders
<1>3. closeSessions' = closeSessions => CopyKept
  BY DEF CopyKept, SInv, Holders
<1>4. \A t \in Torrents : disk[t] \in 0 .. disk[t]
  BY PiecesAssumption DEF SInv, TypeOK
<1> QED BY <1>1, <1>2, <1>3, <1>4

(* A running process is not down after a step that does not end it. *)
LEMMA StillUp ==
    ASSUME phase' # "down"
    PROVE  Down'
BY DEF Down

(* The parts of SInv after a step, but for the types. *)
LEMMA StepKept ==
    ASSUME TypeOK', SessionMap' /\ Holders', Distinct(cache'), phase' # "down"
    PROVE  SInv'
BY StillUp DEF SInv, OneRow

(* Evictions. *)
LEMMA EvictDeleteKept ==
    ASSUME SInv, NEW t \in Torrents, EvictDelete(t)
    PROVE  SInv'
<1> USE DEF EvictDelete, database, preloading, shutdown
<1>1. TypeOK'
  BY PiecesAssumption DEF SInv, TypeOK
<1>2. \A u \in Torrents : disk'[u] \in 0 .. disk[u]
  BY PiecesAssumption DEF SInv, TypeOK
<1>3. SessionMap' /\ Holders'
  BY <1>1, <1>2, Unmoved, NothingHeld
<1>4. phase' # "down"
  BY DEF SInv, Down
<1> QED BY <1>1, <1>3, <1>4, StepKept DEF SInv, OneRow

(* An eviction deletes the row, after the files. *)
LEMMA EvictRecordKept ==
    ASSUME SInv, NEW t \in Torrents, EvictRecord(t)
    PROVE  SInv'
<1> USE DEF EvictRecord, RowsAfterEviction
<1>1. cache' \in Seq(Row) /\ Distinct(cache')
  BY WithoutFacts DEF SInv, TypeOK, OneRow
<1>2. drop' \in [Torrents -> Drop] /\ task' \in [Preloads -> Task]
  BY FrameFields DEF SInv, TypeOK
<1>3. TypeOK'
  BY <1>1, <1>2, EmptyTypes DEF SInv, TypeOK
<1>4. FramesKept
  <2> SUFFICES ASSUME NEW p \in Preloads
               PROVE  /\ task'[p].s = task[p].s /\ task'[p].torrent = task[p].torrent
                      /\ task[p].pc # "none" => task'[p].pc # "none"
                      /\ task[p] = NoTask => task'[p] = NoTask
    BY DEF FramesKept
  <2>1. task[p] \in Task /\ task'[p] = [task[p] EXCEPT !.wait = @ \ {t}]
    BY DEF SInv, TypeOK
  <2>2. task'[p].s = task[p].s /\ task'[p].torrent = task[p].torrent /\ task'[p].pc = task[p].pc
    BY <2>1 DEF Task
  <2>3. [NoTask EXCEPT !.wait = @ \ {t}] = NoTask
    <3>1. NoTask \in Task /\ NoTask.wait = {} /\ NoTask.wait \ {t} = {}
      BY EmptyTypes DEF NoTask
    <3>2. \A k \in Task : k.wait = {} => [k EXCEPT !.wait = {}] = k
      BY DEF Task
    <3> QED BY <3>1, <3>2
  <2> QED BY <2>1, <2>2, <2>3
<1>5. DropsKept
  <2> SUFFICES ASSUME NEW u \in Torrents, drop'[u].pc = "saving"
               PROVE  drop'[u].s \in Sessions /\ obj[drop'[u].s].torrent = u
    BY DEF DropsKept
  <2>1. drop[u] \in Drop /\ drop'[u] = [drop[u] EXCEPT !.wait = @ \ {t}]
    BY DEF SInv, TypeOK
  <2>2. drop'[u].pc = drop[u].pc /\ drop'[u].s = drop[u].s
    BY <2>1 DEF Drop
  <2> QED BY <2>2 DEF SInv, Holders
<1>6. SessionMap' /\ Holders'
  BY <1>3, <1>4, <1>5, Unmoved, NothingHeld
<1>7. phase' # "down"
  BY DEF SInv, Down
<1> QED BY <1>1, <1>3, <1>6, <1>7, StepKept

(* A prune begins evictions of torrents. *)
LEMMA PruneTypes ==
    ASSUME SInv, NEW victims \in SUBSET Torrents, Prune(victims)
    PROVE  evict' \in [Torrents -> {"none", "rm", "row"}]
BY DEF Prune, SInv, TypeOK

(* Preloads that neither begin nor end. *)
LEMMA OneFrame ==
    ASSUME SInv, NEW p \in Preloads, task[p].pc # "none", NEW k \in Task,
           k.s = task[p].s, k.torrent = task[p].torrent, k.pc # "none",
           task' = [task EXCEPT ![p] = k], current' = current
    PROVE  FramesKept /\ task' \in [Preloads -> Task]
<1>1. task \in [Preloads -> Task] /\ NoTask.pc = "none"
  BY DEF SInv, TypeOK, NoTask
<1> QED BY <1>1 DEF FramesKept

(* A preload goes on when its session is ready. *)
LEMMA PreloadReadyKept ==
    ASSUME SInv, NEW p \in Preloads, PreloadReady(p)
    PROVE  SInv'
<1> USE DEF PreloadReady, database, shutdown
<1> DEFINE k == [task[p] EXCEPT !.pc = "consuming"]
<1>1. task[p] \in Task /\ task' = [task EXCEPT ![p] = k]
  BY DEF SInv, TypeOK
<1>2. k \in Task /\ k.s = task[p].s /\ k.torrent = task[p].torrent /\ k.pc # "none"
  BY <1>1 DEF Task
<1> HIDE DEF k
<1>3. FramesKept /\ task' \in [Preloads -> Task]
  BY <1>1, <1>2, OneFrame
<1>4. TypeOK'
  BY <1>3 DEF SInv, TypeOK
<1>5. SessionMap' /\ Holders'
  BY <1>3, <1>4, Unmoved, NothingHeld
<1>6. phase' # "down"
  BY DEF SInv, Down, NoTask
<1> QED BY <1>4, <1>5, <1>6, StepKept DEF SInv, OneRow

(* A preload has read the file. *)
LEMMA PreloadConsumedKept ==
    ASSUME SInv, NEW p \in Preloads, PreloadConsumed(p)
    PROVE  SInv'
<1> USE DEF PreloadConsumed, database, shutdown
<1> DEFINE k == [task[p] EXCEPT !.pc = "saving"]
<1>1. task[p] \in Task /\ task' = [task EXCEPT ![p] = k]
  BY DEF SInv, TypeOK
<1>2. k \in Task /\ k.s = task[p].s /\ k.torrent = task[p].torrent /\ k.pc # "none"
  BY <1>1 DEF Task
<1> HIDE DEF k
<1>3. FramesKept /\ task' \in [Preloads -> Task]
  BY <1>1, <1>2, OneFrame
<1>4. task[p].torrent \in Torrents
  BY DEF SInv, Holders, NoTask
<1>5. TypeOK'
  BY <1>3, <1>4 DEF SInv, TypeOK
<1>6. SessionMap' /\ Holders'
  BY <1>3, <1>5, Unmoved, NothingHeld
<1>7. phase' # "down"
  BY DEF SInv, Down, NoTask
<1> QED BY <1>5, <1>6, <1>7, StepKept DEF SInv, OneRow

(* A preload records what it measured, and prunes the cache. *)
LEMMA PreloadMeasuredKept ==
    ASSUME SInv, NEW p \in Preloads, PreloadMeasured(p)
    PROVE  SInv'
<1> USE DEF PreloadMeasured, shutdown
<1> DEFINE t == task[p].torrent
           victims == Victims(RecordCache(cache, t, disk[t], TRUE), Reading)
           k == [task[p] EXCEPT !.pc = "pruning", !.wait = victims]
<1>1. task[p] \in Task /\ t \in Torrents
  BY DEF SInv, TypeOK, Holders, NoTask
<1>2. cache' \in Seq(Row) /\ Distinct(cache')
  BY <1>1, RecordFacts DEF SInv, TypeOK, OneRow
<1>3. victims \subseteq Torrents
  BY <1>2, VictimsFacts
<1>4. Prune(victims) /\ task' = [task EXCEPT ![p] = k]
  BY DEF SInv, TypeOK
<1> HIDE DEF victims
<1>5. k \in Task /\ k.s = task[p].s /\ k.torrent = task[p].torrent /\ k.pc # "none"
  BY <1>1, <1>3 DEF Task
<1> HIDE DEF k
<1>6. FramesKept /\ task' \in [Preloads -> Task]
  BY <1>4, <1>5, OneFrame
<1>7. evict' \in [Torrents -> {"none", "rm", "row"}]
  BY <1>3, <1>4, PruneTypes
<1>8. TypeOK'
  BY <1>2, <1>6, <1>7 DEF SInv, TypeOK
<1>9. SessionMap' /\ Holders'
  BY <1>6, <1>8, Unmoved, NothingHeld
<1>10. phase' # "down"
  BY DEF SInv, Down, NoTask
<1> QED BY <1>2, <1>8, <1>9, <1>10, StepKept

(* Readers: only their own frames, the order of the rows, and evictions. *)
LEMMA ReaderFields ==
    \A r \in Reader :
        /\ r.torrent \in Torrents \cup {NoTorrent}
        /\ [r EXCEPT !.pc = "open"] \in Reader
        /\ \A t \in Torrents : [pc |-> "validating", torrent |-> t] \in Reader
BY DEF Reader

(* What direct readers do does not touch sessions. *)
LEMMA ReaderKept ==
    ASSUME SInv, TypeOK', Distinct(cache'), phase' # "down",
           UNCHANGED <<disk, session, obj, op, drop, task, current, closeSessions>>
    PROVE  SInv'
<1>1. SessionMap' /\ Holders'
  BY Unmoved, NothingHeld
<1> QED BY <1>1, StepKept

(* A reader is opened. *)
LEMMA OpenReaderKept ==
    ASSUME SInv, NEW r \in Readers, NEW t \in Torrents, OpenReader(r, t)
    PROVE  SInv'
<1> USE DEF OpenReader, database, preloading, shutdown
<1>1. reader' \in [Readers -> Reader]
  BY ReaderFields, EmptyTypes DEF SInv, TypeOK
<1>2. TypeOK'
  BY <1>1 DEF SInv, TypeOK
<1>3. phase' # "down"
  BY DEF CanRead, Accepts
<1> QED BY <1>2, <1>3, ReaderKept DEF SInv, OneRow

(* A reader finds its file, or does not. *)
LEMMA ValidateKept ==
    ASSUME SInv, NEW r \in Readers, Validate(r)
    PROVE  SInv'
<1> USE DEF Validate, preloading, shutdown
<1>1. reader' \in [Readers -> Reader]
  BY ReaderFields DEF SInv, TypeOK
<1>2. cache' \in Seq(Row) /\ Distinct(cache')
  BY TouchFacts DEF SInv, TypeOK, OneRow
<1>3. TypeOK'
  BY <1>1, <1>2 DEF SInv, TypeOK
<1>4. phase' # "down"
  BY DEF SInv, Down, NoReader
<1> QED BY <1>2, <1>3, <1>4, ReaderKept

(* A reader is closed. *)
LEMMA CloseReaderKept ==
    ASSUME SInv, NEW r \in Readers, CloseReader(r)
    PROVE  SInv'
<1> USE DEF CloseReader, database, preloading, shutdown
<1> DEFINE victims == Victims(cache, {reader[q].torrent : q \in Readers \ {r}})
           chosen == IF Quieted(reader[r].torrent) \/ ReadersOf(reader[r].torrent) # {r}
                     THEN {} ELSE victims
<1>1. chosen \subseteq Torrents
  BY VictimsFacts DEF SInv, TypeOK
<1>2. Prune(chosen)
  OBVIOUS
<1> HIDE DEF chosen
<1>3. evict' \in [Torrents -> {"none", "rm", "row"}]
  BY <1>1, <1>2, PruneTypes
<1>4. reader' \in [Readers -> Reader]
  BY EmptyTypes DEF SInv, TypeOK
<1>5. TypeOK'
  BY <1>3, <1>4 DEF SInv, TypeOK
<1>6. phase' # "down"
  BY DEF SInv, Down, NoReader
<1> QED BY <1>5, <1>6, ReaderKept DEF SInv, OneRow

(* Idle drops after they have left the client. *)
LEMMA DropKept ==
    ASSUME SInv, TypeOK', Distinct(cache'), phase' # "down",
           NEW t \in Torrents, NEW d, d.pc # "saving", drop' = [drop EXCEPT ![t] = d],
           UNCHANGED <<session, obj, op, task, current, closeSessions>>,
           \A u \in Torrents : disk'[u] \in 0 .. disk[u]
    PROVE  SInv'
<1>1. DropsKept
  BY DEF DropsKept, SInv, TypeOK, Holders
<1>2. SessionMap' /\ Holders'
  BY <1>1, Unmoved, NothingHeld
<1> QED BY <1>2, StepKept

(* An idle drop has measured the files. *)
LEMMA DropMeasuredKept ==
    ASSUME SInv, NEW t \in Torrents, DropMeasured(t)
    PROVE  SInv'
<1> DEFINE rows == RecordCache(cache, t, disk[t], drop[t].completed)
           victims == Victims(rows, Reading)
<1>1. drop[t] \in Drop /\ drop[t].completed \in BOOLEAN
  BY FrameFields DEF SInv, TypeOK
<1>2. rows \in Seq(Row) /\ Distinct(rows)
  BY <1>1, RecordFacts DEF SInv, TypeOK, OneRow
<1>3. victims \subseteq Torrents
  BY <1>2, VictimsFacts
<1>4. phase # "down"
  BY DEF DropMeasured, SInv, Down, NoDrop
<1>5. CASE metadata[t] # "none"
  <2> DEFINE d == [drop[t] EXCEPT !.pc = "pruning", !.wait = victims]
  <2>1. /\ cache' = rows /\ Prune(victims) /\ drop' = [drop EXCEPT ![t] = d]
        /\ UNCHANGED <<history, registration, metadata, disk, session, obj, op,
                       reader, saving, preloading, removal, shutdown, gone>>
    BY <1>5 DEF DropMeasured, SInv, TypeOK
  <2> HIDE DEF rows, victims
  <2>2. d \in Drop /\ d.pc # "saving"
    BY <1>1, <1>3, FrameFields DEF Drop
  <2> HIDE DEF d
  <2>3. evict' \in [Torrents -> {"none", "rm", "row"}]
    BY <1>3, <2>1, PruneTypes
  <2>4. TypeOK'
    BY <1>2, <2>1, <2>2, <2>3 DEF SInv, TypeOK, preloading, shutdown
  <2>5. disk' = disk /\ phase' = phase /\ UNCHANGED <<session, obj, op, task, current, closeSessions>>
    BY <2>1 DEF preloading, shutdown
  <2> QED BY <1>2, <1>4, <2>1, <2>2, <2>4, <2>5, DropKept, Unmoved
<1>6. CASE metadata[t] = "none"
  <2> DEFINE d == [drop[t] EXCEPT !.pc = "wiping"]
  <2>1. /\ cache' = cache /\ evict' = evict /\ drop' = [drop EXCEPT ![t] = d]
        /\ UNCHANGED <<history, registration, metadata, disk, session, obj, op,
                       reader, saving, preloading, removal, shutdown, gone>>
    BY <1>6 DEF DropMeasured, SInv, TypeOK
  <2>2. d \in Drop /\ d.pc # "saving"
    BY <1>1, FrameFields DEF Drop
  <2> HIDE DEF d
  <2>3. TypeOK'
    BY <2>1, <2>2 DEF SInv, TypeOK, preloading, shutdown
  <2>4. disk' = disk /\ phase' = phase /\ UNCHANGED <<session, obj, op, task, current, closeSessions>>
    BY <2>1 DEF preloading, shutdown
  <2>5. Distinct(cache')
    BY <2>1 DEF SInv, OneRow
  <2> QED BY <1>4, <2>1, <2>2, <2>3, <2>4, <2>5, DropKept, Unmoved
<1> QED BY <1>5, <1>6

(* An idle drop has deleted the files of a torrent without metadata. *)
LEMMA DropWipedKept ==
    ASSUME SInv, NEW t \in Torrents, DropWiped(t)
    PROVE  SInv'
<1> DEFINE victims == Victims(cache, Reading)
           d == [drop[t] EXCEPT !.pc = "pruning", !.wait = victims]
<1>1. drop[t] \in Drop
  BY DEF SInv, TypeOK
<1>2. victims \subseteq Torrents
  BY VictimsFacts DEF SInv, TypeOK
<1>3. phase # "down"
  BY DEF DropWiped, SInv, Down, NoDrop
<1>4. /\ disk' = [disk EXCEPT ![t] = 0] /\ Prune(victims) /\ drop' = [drop EXCEPT ![t] = d]
      /\ UNCHANGED <<database, session, obj, op, reader, saving, preloading,
                     removal, shutdown, gone>>
  BY DEF DropWiped, SInv, TypeOK
<1> HIDE DEF victims
<1>5. d \in Drop /\ d.pc # "saving"
  BY <1>1, <1>2, FrameFields DEF Drop
<1> HIDE DEF d
<1>6. evict' \in [Torrents -> {"none", "rm", "row"}]
  BY <1>2, <1>4, PruneTypes
<1>7. \A u \in Torrents : disk'[u] \in 0 .. disk[u]
  BY <1>4, PiecesAssumption DEF SInv, TypeOK
<1>8. disk' \in [Torrents -> 0 .. Pieces]
  BY <1>4, PiecesAssumption DEF SInv, TypeOK
<1>9. TypeOK'
  BY <1>4, <1>5, <1>6, <1>8 DEF SInv, TypeOK, database, preloading, shutdown
<1>10. phase' = phase /\ UNCHANGED <<cache, session, obj, op, task, current, closeSessions>>
  BY <1>4 DEF database, preloading, shutdown
<1>11. Distinct(cache')
  BY <1>10 DEF SInv, OneRow
<1> QED BY <1>3, <1>4, <1>5, <1>7, <1>9, <1>10, <1>11, DropKept

(* An idle drop is over when its evictions are. *)
LEMMA DropDoneKept ==
    ASSUME SInv, NEW t \in Torrents, DropDone(t)
    PROVE  SInv'
<1> USE DEF DropDone, database, preloading, shutdown
<1>1. NoDrop.pc # "saving" /\ phase # "down"
  BY DEF NoDrop, SInv, Down
<1>2. TypeOK'
  BY EmptyTypes DEF SInv, TypeOK
<1>3. Distinct(cache')
  BY DEF SInv, OneRow
<1> QED BY <1>1, <1>2, <1>3, DropKept, Unmoved

(* Removals and a shutdown, as far as they touch no session. *)
LEMMA AsideKept ==
    ASSUME SInv, TypeOK', Distinct(cache'), phase' # "down", FramesKept, CopyKept,
           UNCHANGED <<session, obj, op, drop>>,
           \A u \in Torrents : disk'[u] \in 0 .. disk[u]
    PROVE  SInv'
<1>1. SessionMap' /\ Holders'
  BY Unmoved, NothingHeld
<1> QED BY <1>1, StepKept

(* Each stage of a removal awaits something that ends. *)
LEMMA NextAwaits ==
    /\ DOMAIN NextAwait = {"evict", "drop", "readers"}
    /\ NextAwait["evict"] = "drop" /\ NextAwait["drop"] = "state" /\ NextAwait["readers"] = "rm"
    /\ \A pc \in DOMAIN NextAwait : NextAwait[pc] \in RemovalPcs
BY DEF NextAwait, RemovalPcs

(* A removal is asked for. *)
LEMMA RemovalStartsKept ==
    ASSUME SInv, NEW t \in Torrents,
           RemoveTorrent(t) \/ RemovalPrepared(t) \/ RemovalAwaits(t)
    PROVE  SInv'
<1>1. UNCHANGED <<database, disk, session, obj, op, reader, saving, evict,
                  drop, preloading, shutdown, gone>>
  BY DEF RemoveTorrent, RemovalPrepared, RemovalAwaits
<1>2. removal' \in [Torrents -> RemovalPcs]
  <2>1. removal' = removal \/ \E pc \in RemovalPcs : removal' = [removal EXCEPT ![t] = pc]
    BY NextAwaits DEF RemoveTorrent, RemovalPrepared, RemovalAwaits, RemovalPcs
  <2> QED BY <2>1 DEF SInv, TypeOK
<1>3. phase # "down"
  BY NextAwaits DEF RemoveTorrent, RemovalPrepared, RemovalAwaits, Accepts, SInv, Down
<1>4. TypeOK'
  BY <1>1, <1>2 DEF SInv, TypeOK, database, preloading, shutdown
<1>5. UNCHANGED <<cache, disk, phase, session, obj, op, drop, task, current, closeSessions>>
  BY <1>1 DEF database, preloading, shutdown
<1>6. Distinct(cache')
  BY <1>5 DEF SInv, OneRow
<1> QED BY <1>3, <1>4, <1>5, <1>6, AsideKept, Unmoved

(* Frames of the preloads that are known are aborted. *)
LEMMA AbortedFrames ==
    ASSUME SInv, current' = current, NEW A \in SUBSET Preloads,
           \A p \in A : \E t \in Torrents : current[t] = p,
           task' = [p \in Preloads |-> IF p \in A THEN [task[p] EXCEPT !.aborted = TRUE]
                                                  ELSE task[p]]
    PROVE  FramesKept /\ task' \in [Preloads -> Task]
<1>1. task' \in [Preloads -> Task]
  BY FrameFields DEF SInv, TypeOK
<1>2. ASSUME NEW p \in Preloads
      PROVE  /\ task'[p].s = task[p].s /\ task'[p].torrent = task[p].torrent
             /\ task[p].pc # "none" => task'[p].pc # "none"
             /\ task[p] = NoTask => task'[p] = NoTask
  <2>1. CASE p \in A
    <3>1. PICK t \in Torrents : current[t] = p
      BY <2>1
    <3>2. task[p].torrent = t
      BY <3>1, Slots DEF SInv, Holders, NoPreload
    <3>3. task[p] # NoTask
      BY <3>2, NoTorrentAssumption DEF NoTask
    <3>4. task[p] \in Task /\ task'[p] = [task[p] EXCEPT !.aborted = TRUE]
      BY <2>1 DEF SInv, TypeOK
    <3> QED BY <3>3, <3>4 DEF Task
  <2>2. CASE p \notin A
    BY <2>2
  <2> QED BY <2>1, <2>2
<1> QED BY <1>1, <1>2 DEF FramesKept

(* A removal aborts the preload of its torrent. *)
LEMMA RemovalAbortsKept ==
    ASSUME SInv, NEW t \in Torrents, RemovalAborts(t)
    PROVE  SInv'
<1> USE DEF RemovalAborts, database, shutdown
<1> DEFINE A == {p \in Preloads : current[t] = p}
<1>1. task' = [p \in Preloads |-> IF p \in A THEN [task[p] EXCEPT !.aborted = TRUE] ELSE task[p]]
  OBVIOUS
<1>2. FramesKept /\ task' \in [Preloads -> Task]
  BY <1>1, AbortedFrames
<1>3. removal' \in [Torrents -> RemovalPcs]
  BY DEF RemovalPcs, SInv, TypeOK
<1>4. TypeOK'
  BY <1>2, <1>3 DEF SInv, TypeOK
<1>5. phase' # "down" /\ Distinct(cache')
  BY DEF SInv, Down, OneRow
<1> QED BY <1>2, <1>4, <1>5, AsideKept, Unmoved

(* A removal deletes the files. *)
LEMMA RemovalDeletesKept ==
    ASSUME SInv, NEW t \in Torrents, RemovalDeletes(t)
    PROVE  SInv'
<1> USE DEF RemovalDeletes, database, preloading, shutdown
<1>1. removal' \in [Torrents -> RemovalPcs]
  BY DEF RemovalPcs, SInv, TypeOK
<1>2. disk' \in [Torrents -> 0 .. Pieces]
  BY PiecesAssumption DEF SInv, TypeOK
<1>3. TypeOK'
  BY <1>1, <1>2 DEF SInv, TypeOK
<1>4. \A u \in Torrents : disk'[u] \in 0 .. disk[u]
  BY PiecesAssumption DEF SInv, TypeOK
<1>5. phase' # "down" /\ Distinct(cache')
  BY DEF SInv, Down, OneRow
<1> QED BY <1>3, <1>4, <1>5, AsideKept, Unmoved

(* A removal deletes the rows. *)
LEMMA RemovalForgetsKept ==
    ASSUME SInv, NEW t \in Torrents, RemovalForgets(t)
    PROVE  SInv'
<1> USE DEF RemovalForgets, shutdown
<1>1. removal' \in [Torrents -> RemovalPcs] /\ job' \in [Torrents -> Job]
  BY EmptyTypes DEF RemovalPcs, SInv, TypeOK
<1>2. cache' \in Seq(Row) /\ Distinct(cache')
  BY WithoutFacts DEF SInv, TypeOK, OneRow
<1>3. /\ history' \subseteq Torrents /\ gone' \subseteq Torrents
      /\ registration' \in [Torrents -> {"none", "plain", "background"}]
      /\ metadata' \in [Torrents -> {"none", "partial", "completed"}]
  BY DEF SInv, TypeOK
<1>4. TypeOK'
  BY <1>1, <1>2, <1>3 DEF SInv, TypeOK
<1>5. phase' # "down"
  BY DEF SInv, Down
<1> QED BY <1>2, <1>4, <1>5, AsideKept, Unmoved

(* Shutdown waits for preloads and removals. *)
LEMMA CloseAwaitsKept ==
    ASSUME SInv, CloseAwaits \/ ClosePreloads
    PROVE  SInv'
<1>1. /\ UNCHANGED <<database, disk, session, obj, op, reader, saving, evict,
                     drop, preloading, removal, closeSessions, gone>>
      /\ phase' \in {"drops", "evictions", "record"} /\ closeWait' \subseteq Torrents
  BY DEF CloseAwaits, ClosePreloads, SInv, TypeOK
<1>2. TypeOK'
  BY <1>1 DEF SInv, TypeOK, Phases, database, preloading
<1>3. UNCHANGED <<cache, disk, session, obj, op, drop, task, current, closeSessions>>
  BY <1>1 DEF database, preloading
<1>4. phase' # "down" /\ Distinct(cache')
  BY <1>1, <1>3 DEF SInv, OneRow
<1> QED BY <1>2, <1>3, <1>4, AsideKept, Unmoved

(* Shutdown saves the states of its copy of the sessions. *)
LEMMA CloseSavesKept ==
    ASSUME SInv, CloseSaves
    PROVE  SInv'
<1> USE DEF CloseSaves, database, preloading
<1>1. closeSessions' \subseteq Sessions
  BY DEF SInv, TypeOK
<1>2. TypeOK'
  BY <1>1 DEF SInv, TypeOK, Phases
<1>3. CopyKept
  BY DEF CopyKept, SInv, SessionMap
<1>4. phase' # "down" /\ Distinct(cache')
  BY DEF SInv, OneRow
<1> QED BY <1>2, <1>3, <1>4, AsideKept, Unmoved

(* Shutdown records one cache row. *)
LEMMA CloseRecordsKept ==
    ASSUME SInv, NEW s \in Sessions, CloseRecords(s)
    PROVE  SInv'
<1> USE DEF CloseRecords, preloading
<1>1. obj[s].torrent \in Torrents
  BY DEF SInv, Holders
<1>2. cache' \in Seq(Row) /\ Distinct(cache')
  <2>1. \A b \in BOOLEAN :
            LET rows == RecordCache(cache, obj[s].torrent, disk[obj[s].torrent], b)
            IN  rows \in Seq(Row) /\ Distinct(rows)
    BY <1>1, RecordFacts DEF SInv, TypeOK, OneRow
  <2>2. (obj[s].stage = "done") \in BOOLEAN
    OBVIOUS
  <2> QED BY <2>1, <2>2 DEF SInv, TypeOK, OneRow
<1>3. TypeOK'
  BY <1>2 DEF SInv, TypeOK
<1>4. CopyKept
  BY DEF CopyKept, SInv, Holders
<1> QED BY <1>2, <1>3, <1>4, AsideKept, Unmoved

(* Shutdown prunes the cache. *)
LEMMA ClosePrunesKept ==
    ASSUME SInv, ClosePrunes
    PROVE  SInv'
<1> USE DEF ClosePrunes, database, preloading
<1> DEFINE victims == Victims(cache, Reading)
<1>1. victims \subseteq Torrents
  BY VictimsFacts DEF SInv, TypeOK
<1>2. Prune(victims) /\ closeWait' = victims
  OBVIOUS
<1> HIDE DEF victims
<1>3. evict' \in [Torrents -> {"none", "rm", "row"}]
  BY <1>1, <1>2, PruneTypes
<1>4. TypeOK'
  BY <1>1, <1>2, <1>3 DEF SInv, TypeOK, Phases
<1>5. phase' # "down" /\ Distinct(cache')
  BY DEF SInv, OneRow
<1> QED BY <1>4, <1>5, AsideKept, Unmoved

-----------------------------------------------------------------------------
(***************************************************************************)
(* Events of a torrent, saves and idle timers.                             *)
(***************************************************************************)

OperationsKept == \A s \in Sessions : obj'[s].ops = obj[s].ops

(* An event of a torrent keeps the invariant if it only takes life from objects and
   holds nothing new. *)
LEMMA EventKept ==
    ASSUME SInv, TypeOK', Distinct(cache'), phase' # "down", ObjectsKept, OperationsKept, BytesKept,
           MapFollows, FramesKept, DropsKept, CopyKept, op' = op
    PROVE  SInv'
<1>1. SessionMap'
  BY MapKept
<1>2. Holders'
  BY HoldersKept DEF OperationsKept
<1> QED BY <1>1, <1>2, StepKept

(* An object that is in use differs from the empty one. *)
LEMMA InUse ==
    ASSUME SInv, NEW s \in Sessions
    PROVE  /\ obj[s].live => obj[s].torrent \in Torrents /\ session[obj[s].torrent] = s
           /\ obj[s].live \/ obj[s].timer \/ obj[s].rec # "none" =>
                 obj[s] # NoObject /\ obj[s].torrent \in Torrents /\ phase # "down"
<1>1. ~NoObject.live /\ ~NoObject.timer /\ NoObject.rec = "none"
  BY DEF NoObject
<1> QED BY <1>1 DEF SInv, SessionMap, Down

(* The map follows when no session closes. *)
LEMMA MapStays ==
    ASSUME SInv, session' = session, \A s \in Sessions : obj'[s].live = obj[s].live
    PROVE  MapFollows
<1> SUFFICES ASSUME NEW t \in Torrents, session[t] # NoSession
             PROVE  obj'[session[t]].live
  BY DEF MapFollows
<1>1. session[t] \in Sessions /\ obj[session[t]].live
  BY DEF SInv, TypeOK, SessionMap
<1> QED BY <1>1

(* A session object changes and neither its torrent nor who holds it does. *)
LEMMA OneObject ==
    ASSUME SInv, NEW s \in Sessions, obj[s] # NoObject, NEW o \in Object,
           o.torrent = obj[s].torrent, o.ops = obj[s].ops, o.live = obj[s].live,
           o.live /\ o.stage \in {"ready", "done"} => disk[o.torrent] <= o.has,
           obj' = [obj EXCEPT ![s] = o], session' = session, disk' = disk
    PROVE  /\ obj' \in [Sessions -> Object]
           /\ ObjectsKept /\ OperationsKept /\ BytesKept /\ MapFollows
<1>1. obj \in [Sessions -> Object] /\ obj' \in [Sessions -> Object]
  BY DEF SInv, TypeOK
<1>2. ObjectsKept /\ OperationsKept
  BY <1>1 DEF ObjectsKept, OperationsKept
<1>3. BytesKept
  BY <1>1 DEF BytesKept, SInv, SessionMap
<1>4. MapFollows
  <2> SUFFICES ASSUME NEW t \in Torrents, session[t] # NoSession
               PROVE  obj'[session[t]].live
    BY DEF MapFollows
  <2>1. session[t] \in Sessions /\ obj[session[t]].live
    BY DEF SInv, TypeOK, SessionMap
  <2> QED BY <1>1, <2>1
<1> QED BY <1>1, <1>2, <1>3, <1>4

(* Torrents are destroyed, and the map follows. *)
LEMMA ClosedObjects ==
    ASSUME SInv, NEW C \in SUBSET Sessions, \A s \in C : obj[s].live,
           obj' = [s \in Sessions |-> IF s \in C THEN ClosedObject(obj[s]) ELSE obj[s]],
           session' = [t \in Torrents |-> IF session[t] \in C THEN NoSession ELSE session[t]],
           disk' = disk
    PROVE  /\ obj' \in [Sessions -> Object] /\ session' \in [Torrents -> Sessions \cup {NoSession}]
           /\ ObjectsKept /\ OperationsKept /\ BytesKept /\ MapFollows
<1>1. \A s \in Sessions : obj[s] \in Object
  BY DEF SInv, TypeOK
<1>2. \A s \in Sessions :
         /\ s \in C => /\ obj'[s] \in Object /\ ~obj'[s].live
                       /\ obj'[s].torrent = obj[s].torrent /\ obj'[s].ops = obj[s].ops
         /\ s \notin C => obj'[s] = obj[s]
  BY <1>1, ClosedFacts
<1>3. obj' \in [Sessions -> Object]
  BY <1>1, <1>2
<1>4. session' \in [Torrents -> Sessions \cup {NoSession}]
  BY DEF SInv, TypeOK
<1>5. ~NoObject.live
  BY DEF NoObject
<1>6. ObjectsKept /\ OperationsKept
  BY <1>2, <1>5 DEF ObjectsKept, OperationsKept
<1>7. BytesKept
  BY <1>2 DEF BytesKept, SInv, SessionMap
<1>8. MapFollows
  <2> SUFFICES ASSUME NEW t \in Torrents
               PROVE  session'[t] = IF session[t] # NoSession /\ ~obj'[session[t]].live
                                    THEN NoSession ELSE session[t]
    BY DEF MapFollows
  <2>1. CASE session[t] = NoSession
    BY <2>1
  <2>2. CASE session[t] # NoSession
    <3>1. session[t] \in Sessions /\ obj[session[t]].live
      BY <2>2 DEF SInv, TypeOK, SessionMap
    <3> QED BY <1>2, <2>2, <3>1
  <2> QED BY <2>1, <2>2
<1> QED BY <1>3, <1>4, <1>6, <1>7, <1>8

(* The metadata of a torrent arrive. *)
LEMMA MetadataEventKept ==
    ASSUME SInv, NEW s \in Sessions, MetadataEvent(s)
    PROVE  SInv'
<1> USE DEF preloading, shutdown
<1> DEFINE o == [obj[s] EXCEPT !.stage = "checking"]
           t == obj[s].torrent
<1>1. obj[s] \in Object /\ obj' = [obj EXCEPT ![s] = o] /\ obj[s].live
  BY DEF MetadataEvent, Live, SInv, TypeOK
<1>2. o \in Object /\ o.torrent = t /\ o.ops = obj[s].ops /\ o.live = obj[s].live
      /\ o.stage = "checking"
  BY <1>1 DEF Object
<1>3. t \in Torrents /\ obj[s] # NoObject /\ phase # "down"
  BY <1>1, InUse
<1>4. UNCHANGED <<registration, cache, disk, session, op, reader, saving,
                  evict, drop, preloading, removal, shutdown, gone>>
  BY DEF MetadataEvent
<1>5. history' \subseteq Torrents /\ metadata' \in [Torrents -> {"none", "partial", "completed"}]
  <2>1. CASE Quieted(t)
    BY <2>1 DEF MetadataEvent, SInv, TypeOK
  <2>2. CASE ~Quieted(t)
    <3>1. UpsertTorrent(t)
      BY <2>2 DEF MetadataEvent
    <3> QED BY <1>3, <3>1 DEF UpsertTorrent, SInv, TypeOK
  <2> QED BY <2>1, <2>2
<1> HIDE DEF o
<1>6. obj' \in [Sessions -> Object] /\ ObjectsKept /\ OperationsKept /\ BytesKept /\ MapFollows
  BY <1>1, <1>2, <1>3, <1>4, OneObject
<1>7. TypeOK'
  BY <1>4, <1>5, <1>6 DEF SInv, TypeOK
<1>8. phase' # "down" /\ Distinct(cache')
  BY <1>3, <1>4 DEF SInv, OneRow
<1> QED BY <1>4, <1>6, <1>7, <1>8, EventKept, Unmoved

(* A torrent is ready. *)
LEMMA ReadyEventKept ==
    ASSUME SInv, NEW s \in Sessions, ReadyEvent(s)
    PROVE  SInv'
<1> USE DEF database, preloading, shutdown
<1> DEFINE t == obj[s].torrent
           o == [obj[s] EXCEPT !.stage = "ready", !.has = disk[t]]
<1>1. obj[s] \in Object /\ obj' = [obj EXCEPT ![s] = o] /\ obj[s].live
  BY DEF ReadyEvent, Live, SInv, TypeOK
<1>2. t \in Torrents /\ obj[s] # NoObject /\ phase # "down"
  BY <1>1, InUse
<1>3. disk[t] \in 0 .. Pieces
  BY <1>2 DEF SInv, TypeOK
<1>4. o \in Object /\ o.torrent = t /\ o.ops = obj[s].ops /\ o.live = obj[s].live
      /\ o.has = disk[t]
  BY <1>1, <1>3 DEF Object
<1>5. disk[t] <= o.has
  BY <1>3, <1>4, PiecesAssumption
<1>6. UNCHANGED <<database, disk, session, op, reader, saving, evict, drop,
                  preloading, removal, shutdown, gone>>
  BY DEF ReadyEvent
<1> HIDE DEF o
<1>7. obj' \in [Sessions -> Object] /\ ObjectsKept /\ OperationsKept /\ BytesKept /\ MapFollows
  BY <1>1, <1>2, <1>4, <1>5, <1>6, OneObject
<1>8. TypeOK'
  BY <1>6, <1>7 DEF SInv, TypeOK
<1>9. phase' # "down" /\ Distinct(cache')
  BY <1>2, <1>6 DEF SInv, OneRow
<1> QED BY <1>6, <1>7, <1>8, <1>9, EventKept, Unmoved

(* The bytes that arrive are those of this torrent, and no other session has it. *)
LEMMA DownloadKept ==
    ASSUME SInv, NEW s \in Sessions, Download(s)
    PROVE  SInv'
<1> USE DEF database, preloading, shutdown
<1> DEFINE t == obj[s].torrent
           o == [obj[s] EXCEPT !.has = @ + 1]
<1>1. /\ obj[s] \in Object /\ obj' = [obj EXCEPT ![s] = o] /\ obj[s].live
      /\ obj[s].stage = "ready" /\ obj[s].has < Pieces
  BY DEF Download, Live, SInv, TypeOK
<1>2. t \in Torrents /\ session[t] = s /\ obj[s] # NoObject /\ phase # "down"
  BY <1>1, InUse
<1>3. disk[t] <= obj[s].has /\ disk[t] \in Nat /\ obj[s].has \in Nat
  <2>1. disk[t] <= obj[s].has
    BY <1>1 DEF SInv, SessionMap
  <2>2. disk[t] \in 0 .. Pieces /\ obj[s].has \in 0 .. Pieces
    BY <1>1, <1>2 DEF SInv, TypeOK, Object
  <2> QED BY <2>1, <2>2, PiecesAssumption
<1>4. obj[s].has + 1 \in 0 .. Pieces /\ disk[t] + 1 \in 0 .. Pieces
  BY <1>1, <1>3, PiecesAssumption
<1>5. o \in Object /\ o.torrent = t /\ o.ops = obj[s].ops /\ o.live /\ o.has = obj[s].has + 1
  BY <1>1, <1>4 DEF Object
<1> HIDE DEF o
<1>6. UNCHANGED <<database, session, op, reader, saving, evict, drop,
                  preloading, removal, shutdown, gone>>
  BY DEF Download
<1>7. disk' = [disk EXCEPT ![t] = @ + 1] /\ disk' \in [Torrents -> 0 .. Pieces]
  BY <1>2, <1>4 DEF Download, SInv, TypeOK
<1>8. obj \in [Sessions -> Object] /\ obj' \in [Sessions -> Object]
  BY <1>1, <1>5 DEF SInv, TypeOK
<1>9. ObjectsKept /\ OperationsKept
  BY <1>1, <1>2, <1>5, <1>8 DEF ObjectsKept, OperationsKept
<1>10. BytesKept
  <2> SUFFICES ASSUME NEW q \in Sessions, obj'[q].live, obj'[q].stage \in {"ready", "done"}
               PROVE  disk'[obj[q].torrent] <= obj'[q].has
    BY DEF BytesKept
  <2>1. CASE q = s
    <3>1. disk'[t] = disk[t] + 1 /\ obj'[s].has = obj[s].has + 1
      BY <1>1, <1>2, <1>5, <1>7, <1>8 DEF SInv, TypeOK
    <3> QED BY <1>3, <2>1, <3>1
  <2>2. CASE q # s
    <3>1. obj'[q] = obj[q]
      BY <1>1, <1>8, <2>2
    <3>2. obj[q].torrent \in Torrents /\ session[obj[q].torrent] = q
      BY <3>1, InUse
    <3>3. disk'[obj[q].torrent] = disk[obj[q].torrent]
      BY <1>2, <1>7, <2>2, <3>2 DEF SInv, TypeOK
    <3> QED BY <3>1, <3>3 DEF SInv, SessionMap
  <2> QED BY <2>1, <2>2
<1>11. MapFollows
  <2> SUFFICES ASSUME NEW u \in Torrents, session[u] # NoSession
               PROVE  obj'[session[u]].live
    BY <1>6 DEF MapFollows
  <2>1. session[u] \in Sessions /\ obj[session[u]].live
    BY DEF SInv, TypeOK, SessionMap
  <2> QED BY <1>1, <1>5, <1>8, <2>1
<1>12. TypeOK'
  BY <1>6, <1>7, <1>8 DEF SInv, TypeOK
<1>13. phase' # "down" /\ Distinct(cache')
  BY <1>2, <1>6 DEF SInv, OneRow
<1> QED BY <1>6, <1>9, <1>10, <1>11, <1>12, <1>13, EventKept, Unmoved

(* A torrent is complete. *)
LEMMA DoneEventKept ==
    ASSUME SInv, NEW s \in Sessions, DoneEvent(s)
    PROVE  SInv'
<1> USE DEF database, preloading, shutdown
<1> DEFINE t == obj[s].torrent
<1>1. obj[s] \in Object /\ obj[s].live /\ obj[s].stage = "ready"
  BY DEF DoneEvent, Live, SInv, TypeOK
<1>2. t \in Torrents /\ obj[s] # NoObject /\ phase # "down"
  BY <1>1, InUse
<1>3. disk[t] <= obj[s].has
  BY <1>1 DEF SInv, SessionMap
<1>4. PICK o \in {[obj[s] EXCEPT !.stage = "done"],
                  [obj[s] EXCEPT !.stage = "done", !.rec = "saving"]} :
           obj' = [obj EXCEPT ![s] = o]
  BY <1>1 DEF DoneEvent, SInv, TypeOK
<1>5. o \in Object /\ o.torrent = t /\ o.ops = obj[s].ops /\ o.live = obj[s].live
      /\ o.has = obj[s].has
  <2>1. CASE o = [obj[s] EXCEPT !.stage = "done"]
    BY <1>1, <2>1 DEF Object
  <2>2. CASE o = [obj[s] EXCEPT !.stage = "done", !.rec = "saving"]
    BY <1>1, <2>2 DEF Object
  <2> QED BY <1>4, <2>1, <2>2
<1>6. UNCHANGED <<database, disk, session, op, reader, evict, drop,
                  preloading, removal, shutdown, gone>>
  BY DEF DoneEvent
<1>7. saving' \subseteq Torrents
  BY <1>2 DEF DoneEvent, SInv, TypeOK
<1>8. obj' \in [Sessions -> Object] /\ ObjectsKept /\ OperationsKept /\ BytesKept /\ MapFollows
  BY <1>2, <1>3, <1>4, <1>5, <1>6, OneObject
<1>9. TypeOK'
  BY <1>6, <1>7, <1>8 DEF SInv, TypeOK
<1>10. phase' # "down" /\ Distinct(cache')
  BY <1>2, <1>6 DEF SInv, OneRow
<1> QED BY <1>6, <1>8, <1>9, <1>10, EventKept, Unmoved

(* A torrent fails and takes its session with it. *)
LEMMA TorrentFailsKept ==
    ASSUME SInv, NEW s \in Sessions, TorrentFails(s)
    PROVE  SInv'
<1> USE DEF TorrentFails, database, preloading, shutdown
<1>1. phase # "down"
  BY InUse
<1>2. /\ obj' = [q \in Sessions |-> IF q \in {s} THEN ClosedObject(obj[q]) ELSE obj[q]]
      /\ session' = [t \in Torrents |-> IF session[t] \in {s} THEN NoSession ELSE session[t]]
  BY DEF AfterClose, SInv, TypeOK
<1>3. /\ obj' \in [Sessions -> Object] /\ session' \in [Torrents -> Sessions \cup {NoSession}]
      /\ ObjectsKept /\ OperationsKept /\ BytesKept /\ MapFollows
  BY <1>2, ClosedObjects
<1>4. TypeOK'
  BY <1>3 DEF SInv, TypeOK
<1>5. phase' # "down" /\ Distinct(cache')
  BY <1>1 DEF SInv, OneRow
<1> QED BY <1>3, <1>4, <1>5, EventKept, Unmoved

(* Shutdown destroys the client and all of its torrents. *)
LEMMA CloseDestroysKept ==
    ASSUME SInv, CloseDestroys
    PROVE  SInv'
<1> USE DEF CloseDestroys, database, preloading
<1> DEFINE C == {s \in Sessions : obj[s].live}
<1>1. obj' = [q \in Sessions |-> IF q \in C THEN ClosedObject(obj[q]) ELSE obj[q]]
  OBVIOUS
<1>2. session' = [t \in Torrents |-> IF session[t] \in C THEN NoSession ELSE session[t]]
  <2>1. \A t \in Torrents : session[t] \in C \/ session[t] = NoSession
    BY DEF SInv, TypeOK, SessionMap
  <2> QED BY <2>1
<1>3. /\ obj' \in [Sessions -> Object] /\ session' \in [Torrents -> Sessions \cup {NoSession}]
      /\ ObjectsKept /\ OperationsKept /\ BytesKept /\ MapFollows
  BY <1>1, <1>2, ClosedObjects
<1>4. TypeOK'
  BY <1>3 DEF SInv, TypeOK, Phases
<1>5. phase' # "down" /\ Distinct(cache')
  BY DEF SInv, OneRow
<1> QED BY <1>3, <1>4, <1>5, EventKept, Unmoved

(* A completion is recorded. *)
LEMMA CompletionMeasuredKept ==
    ASSUME SInv, NEW s \in Sessions, CompletionMeasured(s)
    PROVE  SInv'
<1> USE DEF database, preloading, shutdown
<1> DEFINE t == obj[s].torrent
           o == [obj[s] EXCEPT !.rec = "none"]
<1>1. obj[s] \in Object /\ obj[s].rec = "measuring" /\ obj' = [obj EXCEPT ![s] = o]
  BY DEF CompletionMeasured, SInv, TypeOK
<1>2. t \in Torrents /\ obj[s] # NoObject /\ phase # "down"
  BY <1>1, InUse
<1>3. o \in Object /\ o.torrent = t /\ o.ops = obj[s].ops /\ o.live = obj[s].live
      /\ o.has = obj[s].has /\ o.stage = obj[s].stage
  BY <1>1 DEF Object
<1> HIDE DEF o
<1>4. o.live /\ o.stage \in {"ready", "done"} => disk[o.torrent] <= o.has
  BY <1>3 DEF SInv, SessionMap
<1>5. UNCHANGED <<history, registration, metadata, disk, session, op,
                  reader, saving, evict, drop, preloading, removal,
                  shutdown, gone>>
  BY DEF CompletionMeasured
<1>6. cache' \in Seq(Row) /\ Distinct(cache')
  BY <1>2, RecordFacts DEF CompletionMeasured, SInv, TypeOK, OneRow
<1>7. obj' \in [Sessions -> Object] /\ ObjectsKept /\ OperationsKept /\ BytesKept /\ MapFollows
  BY <1>1, <1>2, <1>3, <1>4, <1>5, OneObject
<1>8. TypeOK'
  BY <1>5, <1>6, <1>7 DEF SInv, TypeOK
<1>9. phase' # "down"
  BY <1>2, <1>5
<1> QED BY <1>5, <1>6, <1>7, <1>8, <1>9, EventKept, Unmoved

(* Frames that await the save of a torrent go on. *)
LEMMA ResumedFrames ==
    ASSUME SInv, NEW t, NEW pc \in {"measuring", "failed"},
           task' = TasksResumed(t, pc), current' = current
    PROVE  FramesKept /\ task' \in [Preloads -> Task]
<1>1. task' \in [Preloads -> Task]
  BY FrameFields DEF TasksResumed, SInv, TypeOK
<1>2. NoTask.pc = "none"
  BY DEF NoTask
<1>3. ASSUME NEW p \in Preloads
      PROVE  /\ task'[p].s = task[p].s /\ task'[p].torrent = task[p].torrent
             /\ task[p].pc # "none" => task'[p].pc # "none"
             /\ task[p] = NoTask => task'[p] = NoTask
  <2>1. task[p] \in Task
    BY DEF SInv, TypeOK
  <2> QED BY <1>2, <2>1 DEF TasksResumed, Task
<1> QED BY <1>1, <1>3 DEF FramesKept

(* What an idle drop was when a save ends. *)
LEMMA OtherDrop ==
    ASSUME SInv, NEW t \in Torrents, NEW d \in Drop, d.pc # "saving",
           drop' = drop \/ drop' = [drop EXCEPT ![t] = d]
    PROVE  DropsKept /\ drop' \in [Torrents -> Drop]
<1>1. CASE drop' = drop
  BY <1>1, Unmoved DEF SInv, TypeOK
<1>2. CASE drop' = [drop EXCEPT ![t] = d]
  <2>1. drop \in [Torrents -> Drop] /\ drop' \in [Torrents -> Drop]
    BY <1>2 DEF SInv, TypeOK
  <2> QED BY <1>2, <2>1 DEF DropsKept, SInv, Holders
<1> QED BY <1>1, <1>2

(* The state of a session is saved. *)
LEMMA StateSavedKept ==
    ASSUME SInv, NEW t \in Torrents, StateSaved(t)
    PROVE  SInv'
<1> USE DEF shutdown
<1>1. /\ UNCHANGED <<history, registration, cache, disk, op, reader, evict,
                     current, job, removal, shutdown, gone>>
      /\ task' = TasksResumed(t, "measuring") /\ saving' = saving \ {t} /\ t \in saving
  BY DEF StateSaved
<1>2. metadata' \in [Torrents -> {"none", "partial", "completed"}]
  BY DEF StateSaved, SaveFileModtimes, SInv, TypeOK
<1>3. FramesKept /\ task' \in [Preloads -> Task]
  BY <1>1, ResumedFrames
<1>4. phase' # "down" /\ Distinct(cache')
  BY <1>1 DEF SInv, OneRow, Down
<1> DEFINE s == drop[t].s
           Q(r) == SaveResumed(obj[r], t)
<1>5. \A r \in Sessions :
          /\ obj[r] \in Object /\ Q(r) \in Object
          /\ Q(r).live = obj[r].live /\ Q(r).torrent = obj[r].torrent /\ Q(r).ops = obj[r].ops
          /\ Q(r).stage = obj[r].stage /\ Q(r).has = obj[r].has
          /\ obj[r] = NoObject => Q(r) = NoObject
  BY ResumedFacts DEF SInv, TypeOK
<1> HIDE DEF Q
<1>6. CASE /\ drop[t].pc = "saving" /\ obj[s].live
           /\ drop' = [drop EXCEPT ![t] = Disconnected(t, drop[t].completed)]
           /\ session' = [session EXCEPT ![t] = NoSession]
           /\ obj' = [r \in Sessions |-> IF r = s THEN ClosedObject(Q(r)) ELSE Q(r)]
  <2>1. s \in Sessions /\ obj[s].torrent = t /\ session[t] = s
    BY <1>6 DEF SInv, Holders, SessionMap
  <2>2. \A r \in Sessions :
           /\ r = s => /\ obj'[r] \in Object /\ ~obj'[r].live
                       /\ obj'[r].torrent = obj[r].torrent /\ obj'[r].ops = obj[r].ops
           /\ r # s => obj'[r] = Q(r)
    BY <1>5, <1>6, ClosedFacts
  <2>3. ~NoObject.live
    BY DEF NoObject
  <2>4. obj' \in [Sessions -> Object]
    BY <1>5, <1>6, <2>2
  <2>5. ObjectsKept /\ OperationsKept
    BY <1>5, <1>6, <2>2, <2>3 DEF ObjectsKept, OperationsKept
  <2>6. BytesKept
    BY <1>1, <1>5, <2>2 DEF BytesKept, SInv, SessionMap
  <2>7. MapFollows
    <3> SUFFICES ASSUME NEW u \in Torrents
                 PROVE  session'[u] = IF session[u] # NoSession /\ ~obj'[session[u]].live
                                      THEN NoSession ELSE session[u]
      BY DEF MapFollows
    <3>1. CASE u = t
      BY <1>6, <2>1, <2>2, <3>1, Slots DEF SInv, TypeOK
    <3>2. CASE u # t
      <4>1. session'[u] = session[u]
        BY <1>6, <3>2 DEF SInv, TypeOK
      <4>2. session[u] # NoSession =>
               session[u] \in Sessions /\ session[u] # s /\ obj[session[u]].live
        BY <2>1, <3>2 DEF SInv, TypeOK, SessionMap
      <4> QED BY <1>5, <2>2, <4>1, <4>2
    <3> QED BY <3>1, <3>2
  <2>8. Disconnected(t, drop[t].completed) \in Drop
        /\ Disconnected(t, drop[t].completed).pc # "saving"
    <3>1. drop[t].completed \in BOOLEAN
      BY FrameFields DEF SInv, TypeOK
    <3> QED BY <3>1, EmptyTypes DEF Disconnected, NoDrop
  <2>9. DropsKept /\ drop' \in [Torrents -> Drop]
    BY <1>6, <2>8, OtherDrop
  <2>10. session' \in [Torrents -> Sessions \cup {NoSession}]
    BY <1>6 DEF SInv, TypeOK
  <2>11. TypeOK'
    BY <1>1, <1>2, <1>3, <2>4, <2>9, <2>10 DEF SInv, TypeOK
  <2> QED BY <1>1, <1>3, <1>4, <2>5, <2>6, <2>7, <2>9, <2>11, EventKept, Unmoved
<1>7. CASE /\ drop' = (IF drop[t].pc = "saving" THEN [drop EXCEPT ![t] = NoDrop] ELSE drop)
           /\ session' = session
           /\ obj' = [r \in Sessions |-> Q(r)]
  <2>1. obj' \in [Sessions -> Object] /\ ObjectsKept /\ OperationsKept
    BY <1>5, <1>7 DEF ObjectsKept, OperationsKept
  <2>2. BytesKept
    BY <1>1, <1>5, <1>7 DEF BytesKept, SInv, SessionMap
  <2>3. MapFollows
    BY <1>5, <1>7, MapStays
  <2>4. NoDrop.pc # "saving"
    BY DEF NoDrop
  <2>5. DropsKept /\ drop' \in [Torrents -> Drop]
    BY <1>7, <2>4, EmptyTypes, OtherDrop
  <2>6. TypeOK'
    BY <1>1, <1>2, <1>3, <1>7, <2>1, <2>5 DEF SInv, TypeOK
  <2> QED BY <1>1, <1>3, <1>4, <2>1, <2>2, <2>3, <2>5, <2>6, EventKept, Unmoved
<1> QED BY <1>6, <1>7 DEF StateSaved, Q

(* The state of a session could not be saved. *)
LEMMA StateNotSavedKept ==
    ASSUME SInv, NEW t \in Torrents, StateNotSaved(t)
    PROVE  SInv'
<1> USE DEF database, shutdown
<1>1. /\ UNCHANGED <<database, disk, session, op, reader, evict, current, job,
                     shutdown, gone>>
      /\ task' = TasksResumed(t, "failed") /\ saving' = saving \ {t} /\ t \in saving
  BY DEF StateNotSaved
<1>2. FramesKept /\ task' \in [Preloads -> Task]
  BY <1>1, ResumedFrames
<1>3. phase' # "down" /\ Distinct(cache')
  BY <1>1 DEF SInv, OneRow, Down
<1>4. NoDrop.pc # "saving"
  BY DEF NoDrop
<1>5. DropsKept /\ drop' \in [Torrents -> Drop]
  BY <1>4, EmptyTypes, OtherDrop DEF StateNotSaved
<1>6. removal' \in [Torrents -> RemovalPcs]
  BY DEF StateNotSaved, RemovalPcs, SInv, TypeOK
<1>7. \A r \in Sessions :
          /\ obj[r] \in Object /\ obj'[r] \in Object
          /\ obj'[r].live = obj[r].live /\ obj'[r].torrent = obj[r].torrent
          /\ obj'[r].ops = obj[r].ops
          /\ obj'[r].stage = obj[r].stage /\ obj'[r].has = obj[r].has
          /\ obj[r] = NoObject => obj'[r] = NoObject
  <2> SUFFICES ASSUME NEW r \in Sessions
               PROVE  /\ obj[r] \in Object /\ obj'[r] \in Object
                      /\ obj'[r].live = obj[r].live /\ obj'[r].torrent = obj[r].torrent
                      /\ obj'[r].ops = obj[r].ops
                      /\ obj'[r].stage = obj[r].stage /\ obj'[r].has = obj[r].has
                      /\ obj[r] = NoObject => obj'[r] = NoObject
    OBVIOUS
  <2>1. obj[r] \in Object /\ NoObject.rec = "none"
    BY DEF SInv, TypeOK, NoObject
  <2>2. obj'[r] = IF obj[r].torrent = t /\ obj[r].rec = "saving"
                  THEN [obj[r] EXCEPT !.rec = "none"] ELSE obj[r]
    BY DEF StateNotSaved
  <2> QED BY <2>1, <2>2 DEF Object
<1>8. obj' \in [Sessions -> Object]
  BY <1>7 DEF StateNotSaved
<1>9. ObjectsKept /\ OperationsKept
  BY <1>7 DEF ObjectsKept, OperationsKept
<1>10. BytesKept
  BY <1>1, <1>7 DEF BytesKept, SInv, SessionMap
<1>11. MapFollows
  BY <1>1, <1>7, MapStays
<1>12. TypeOK'
  BY <1>1, <1>2, <1>5, <1>6, <1>8 DEF SInv, TypeOK
<1> QED BY <1>1, <1>2, <1>3, <1>5, <1>9, <1>10, <1>11, <1>12, EventKept, Unmoved

(* A timer that fired, or was cleared. *)
LEMMA TimerCleared ==
    ASSUME SInv, NEW s \in Sessions, obj[s] # NoObject,
           obj' = [obj EXCEPT ![s].timer = FALSE], session' = session, disk' = disk
    PROVE  /\ obj' \in [Sessions -> Object]
           /\ ObjectsKept /\ OperationsKept /\ BytesKept /\ MapFollows
<1> DEFINE o == [obj[s] EXCEPT !.timer = FALSE]
<1>1. obj[s] \in Object /\ obj' = [obj EXCEPT ![s] = o]
  BY DEF SInv, TypeOK
<1>2. o \in Object /\ o.torrent = obj[s].torrent /\ o.ops = obj[s].ops /\ o.live = obj[s].live
      /\ o.has = obj[s].has /\ o.stage = obj[s].stage
  BY <1>1 DEF Object
<1> HIDE DEF o
<1>3. o.live /\ o.stage \in {"ready", "done"} => disk[o.torrent] <= o.has
  BY <1>2 DEF SInv, SessionMap
<1> QED BY <1>1, <1>2, <1>3, OneObject

(* The idle timer drops a session nobody uses. *)
LEMMA IdleTimerKept ==
    ASSUME SInv, NEW s \in Sessions, IdleTimer(s)
    PROVE  SInv'
<1> USE DEF database, preloading, shutdown
<1> DEFINE t == obj[s].torrent
<1>1. t \in Torrents /\ obj[s] # NoObject /\ phase # "down" /\ obj[s].timer
  BY InUse DEF IdleTimer
<1>2. UNCHANGED <<database, disk, op, reader, evict, preloading, removal, shutdown, gone>>
  BY DEF IdleTimer
<1>3. phase' # "down" /\ Distinct(cache')
  BY <1>1, <1>2 DEF SInv, OneRow
<1>4. CASE /\ obj' = [obj EXCEPT ![s].timer = FALSE]
           /\ UNCHANGED <<session, saving, drop>>
  <2>1. obj' \in [Sessions -> Object] /\ ObjectsKept /\ OperationsKept /\ BytesKept /\ MapFollows
    BY <1>1, <1>2, <1>4, TimerCleared
  <2>2. TypeOK'
    BY <1>2, <1>4, <2>1 DEF SInv, TypeOK
  <2> QED BY <1>2, <1>3, <1>4, <2>1, <2>2, EventKept, Unmoved
<1>5. CASE /\ obj' = [obj EXCEPT ![s].timer = FALSE]
           /\ saving' = saving \cup {t}
           /\ drop' = [drop EXCEPT ![t] = [NoDrop EXCEPT !.pc = "saving",
                                              !.s = s, !.completed = TRUE]]
           /\ UNCHANGED session
  <2>1. obj' \in [Sessions -> Object] /\ ObjectsKept /\ OperationsKept /\ BytesKept /\ MapFollows
    BY <1>1, <1>2, <1>5, TimerCleared
  <2> DEFINE d == [NoDrop EXCEPT !.pc = "saving", !.s = s, !.completed = TRUE]
  <2>2. d \in Drop /\ d.pc = "saving" /\ d.s = s
    BY DEF NoDrop, Drop
  <2>3. drop' = [drop EXCEPT ![t] = d]
    BY <1>5
  <2> HIDE DEF d
  <2>4. drop' \in [Torrents -> Drop]
    BY <1>1, <2>2, <2>3 DEF SInv, TypeOK
  <2>5. DropsKept
    <3>1. drop \in [Torrents -> Drop]
      BY DEF SInv, TypeOK
    <3> QED BY <1>1, <2>2, <2>3, <3>1 DEF DropsKept, SInv, Holders
  <2>6. TypeOK'
    BY <1>1, <1>2, <1>5, <2>1, <2>4 DEF SInv, TypeOK
  <2> QED BY <1>2, <1>3, <2>1, <2>5, <2>6, EventKept, Unmoved
<1>6. CASE /\ Idle(s)
           /\ obj' = [obj EXCEPT ![s] = ClosedObject(@)]
           /\ session' = [session EXCEPT ![t] = NoSession]
           /\ drop' = [drop EXCEPT ![t] = Disconnected(t, FALSE)]
           /\ UNCHANGED saving
  <2>1. session[t] = s /\ obj[s].live
    BY <1>1, <1>6, Slots DEF Idle, SInv, SessionMap
  <2>2. obj' = [q \in Sessions |-> IF q \in {s} THEN ClosedObject(obj[q]) ELSE obj[q]]
    BY <1>6 DEF SInv, TypeOK
  <2>3. session' = [u \in Torrents |-> IF session[u] \in {s} THEN NoSession ELSE session[u]]
    <3>1. \A u \in Torrents : session[u] = s => u = t
      BY <2>1 DEF SInv, SessionMap, Sessions, NoSession
    <3> QED BY <1>6, <2>1, <3>1 DEF SInv, TypeOK
  <2>4. /\ obj' \in [Sessions -> Object] /\ session' \in [Torrents -> Sessions \cup {NoSession}]
        /\ ObjectsKept /\ OperationsKept /\ BytesKept /\ MapFollows
    <3> DEFINE C == {s}
    <3>1. C \subseteq Sessions /\ \A q \in C : obj[q].live
      BY <2>1
    <3>2. /\ obj' = [q \in Sessions |-> IF q \in C THEN ClosedObject(obj[q]) ELSE obj[q]]
          /\ session' = [u \in Torrents |-> IF session[u] \in C THEN NoSession ELSE session[u]]
      BY <2>2, <2>3
    <3> HIDE DEF C
    <3> QED BY <1>2, <3>1, <3>2, ClosedObjects
  <2>5. Disconnected(t, FALSE) \in Drop /\ Disconnected(t, FALSE).pc # "saving"
    BY <1>1, EmptyTypes DEF Disconnected, NoDrop
  <2>6. DropsKept /\ drop' \in [Torrents -> Drop]
    BY <1>1, <1>6, <2>5, OtherDrop
  <2>7. TypeOK'
    BY <1>2, <1>6, <2>4, <2>6 DEF SInv, TypeOK
  <2> QED BY <1>2, <1>3, <2>4, <2>6, <2>7, EventKept, Unmoved
<1> QED BY <1>4, <1>5, <1>6 DEF IdleTimer

(* A removal takes the session of its torrent. *)
LEMMA RemovalDisconnectsKept ==
    ASSUME SInv, NEW t \in Torrents, RemovalDisconnects(t)
    PROVE  SInv'
<1> USE DEF database, shutdown
<1> DEFINE s == session[t]
<1>1. UNCHANGED <<database, disk, op, reader, saving, evict, drop, task,
                  current, shutdown, gone>>
  BY DEF RemovalDisconnects
<1>2. phase' # "down" /\ Distinct(cache')
  BY <1>1 DEF RemovalDisconnects, SInv, OneRow, Down
<1>3. CASE /\ removal' = [removal EXCEPT ![t] = "readers"]
           /\ session' = [session EXCEPT ![t] = NoSession]
           /\ obj' = [r \in Sessions |-> IF r = s THEN ClosedObject(obj[r]) ELSE obj[r]]
           /\ UNCHANGED job
  <2> DEFINE C == {s} \cap Sessions
  <2>1. \A r \in C : obj[r].live /\ obj[r].torrent = t
    BY Slots DEF SInv, SessionMap
  <2>2. obj' = [r \in Sessions |-> IF r \in C THEN ClosedObject(obj[r]) ELSE obj[r]]
    BY <1>3
  <2>3. session' = [u \in Torrents |-> IF session[u] \in C THEN NoSession ELSE session[u]]
    <3>1. \A u \in Torrents : session[u] \in C => u = t
      BY <2>1, Slots DEF SInv, SessionMap
    <3>2. session[t] \in C \/ session[t] = NoSession
      BY DEF SInv, TypeOK
    <3> QED BY <1>3, <3>1, <3>2 DEF SInv, TypeOK
  <2> HIDE DEF C
  <2>4. C \subseteq Sessions
    BY DEF C
  <2>5. /\ obj' \in [Sessions -> Object] /\ session' \in [Torrents -> Sessions \cup {NoSession}]
        /\ ObjectsKept /\ OperationsKept /\ BytesKept /\ MapFollows
    BY <1>1, <2>1, <2>2, <2>3, <2>4, ClosedObjects
  <2>6. TypeOK'
    BY <1>1, <1>3, <2>5 DEF SInv, TypeOK, RemovalPcs
  <2> QED BY <1>1, <1>2, <2>5, <2>6, EventKept, Unmoved
<1>4. CASE /\ s # NoSession
           /\ removal' = [removal EXCEPT ![t] = "none"]
           /\ obj' = [obj EXCEPT ![s].timer = FALSE]
           /\ job' = [job EXCEPT ![t] = NoJob]
           /\ UNCHANGED session
  <2>1. s \in Sessions /\ obj[s] # NoObject
    BY <1>4, InUse DEF SInv, TypeOK, SessionMap
  <2>2. obj' \in [Sessions -> Object] /\ ObjectsKept /\ OperationsKept /\ BytesKept /\ MapFollows
    BY <1>1, <1>4, <2>1, TimerCleared
  <2>3. TypeOK'
    BY <1>1, <1>4, <2>2, EmptyTypes DEF SInv, TypeOK, RemovalPcs
  <2> QED BY <1>1, <1>2, <2>2, <2>3, EventKept, Unmoved
<1> QED BY <1>3, <1>4 DEF RemovalDisconnects

(* Shutdown begins. *)
LEMMA CloseKept ==
    ASSUME SInv, Close
    PROVE  SInv'
<1> USE DEF Close, database
<1> DEFINE A == {p \in Preloads : \E t \in Torrents : current[t] = p}
<1>1. task' = [p \in Preloads |-> IF p \in A THEN [task[p] EXCEPT !.aborted = TRUE] ELSE task[p]]
  OBVIOUS
<1>2. FramesKept /\ task' \in [Preloads -> Task]
  BY <1>1, AbortedFrames
<1>3. \A r \in Sessions :
          /\ obj[r] \in Object /\ obj'[r] \in Object
          /\ obj'[r].live = obj[r].live /\ obj'[r].torrent = obj[r].torrent
          /\ obj'[r].ops = obj[r].ops
          /\ obj'[r].stage = obj[r].stage /\ obj'[r].has = obj[r].has
          /\ obj[r] = NoObject => obj'[r] = NoObject
  <2> SUFFICES ASSUME NEW r \in Sessions
               PROVE  /\ obj[r] \in Object /\ obj'[r] \in Object
                      /\ obj'[r].live = obj[r].live /\ obj'[r].torrent = obj[r].torrent
                      /\ obj'[r].ops = obj[r].ops
                      /\ obj'[r].stage = obj[r].stage /\ obj'[r].has = obj[r].has
                      /\ obj[r] = NoObject => obj'[r] = NoObject
    OBVIOUS
  <2>1. obj[r] \in Object /\ ~NoObject.live
    BY DEF SInv, TypeOK, NoObject
  <2>2. obj'[r] = IF obj[r].live THEN [obj[r] EXCEPT !.timer = FALSE] ELSE obj[r]
    OBVIOUS
  <2> QED BY <2>1, <2>2 DEF Object
<1>4. obj' \in [Sessions -> Object]
  BY <1>3
<1>5. ObjectsKept /\ OperationsKept
  BY <1>3 DEF ObjectsKept, OperationsKept
<1>6. BytesKept
  BY <1>3 DEF BytesKept, SInv, SessionMap
<1>7. MapFollows
  BY <1>3, MapStays
<1>8. TypeOK'
  BY <1>2, <1>4 DEF SInv, TypeOK, Phases
<1>9. phase' # "down" /\ Distinct(cache')
  BY DEF SInv, OneRow
<1> QED BY <1>2, <1>5, <1>6, <1>7, <1>8, <1>9, EventKept, Unmoved

-----------------------------------------------------------------------------
(***************************************************************************)
(* Steps that open a session or join one.                                  *)
(***************************************************************************)

(* A free object is held by nobody. *)
LEMMA FreeFacts ==
    ASSUME SInv, NEW s \in Sessions, Free(s)
    PROVE  /\ obj[s].ops = 0 /\ ~obj[s].live
           /\ \A o \in Ops : op[o].s # s
           /\ \A p \in Preloads : task[p].s # s
           /\ \A t \in Torrents : session[t] # s /\ drop[t].s # s
           /\ s \notin closeSessions
<1>1. /\ obj[s].ops = 0 /\ ~obj[s].live /\ s \notin closeSessions
      /\ \A t \in Torrents : drop[t].s # s
  BY DEF Free
<1>2. IsFiniteSet(OpsOf(s)) /\ IsFiniteSet(TasksOf(s))
  <2>1. IsFiniteSet(Preloads)
    BY SlotsAssumption, FS_Interval DEF Preloads
  <2>2. TasksOf(s) \subseteq Preloads
    BY DEF TasksOf
  <2> QED BY <2>1, <2>2, FS_Subset DEF SInv, Holders
<1>3. Cardinality(OpsOf(s)) + Cardinality(TasksOf(s)) = 0
  BY <1>1 DEF SInv, Holders
<1>4. OpsOf(s) = {} /\ TasksOf(s) = {}
  <2>1. Cardinality(OpsOf(s)) \in Nat /\ Cardinality(TasksOf(s)) \in Nat
    BY <1>2, FS_CardinalityType
  <2>2. Cardinality(OpsOf(s)) = 0 /\ Cardinality(TasksOf(s)) = 0
    BY <1>3, <2>1
  <2> QED BY <1>2, <2>2, FS_EmptySet
<1>5. \A t \in Torrents : session[t] # s
  BY <1>1, Slots DEF SInv, SessionMap
<1> QED BY <1>1, <1>4, <1>5 DEF OpsOf, TasksOf

(* The session of a torrent is the one of the map, or a free object. *)
LEMMA SessionOfFacts ==
    ASSUME SInv, NEW t \in Torrents, CanOpen(t)
    PROVE  LET s == SessionOf(t)
               o == ObjectOf(t)
           IN  /\ s \in Sessions /\ o \in Object /\ o.torrent = t /\ o.live
               /\ o.ops = obj[s].ops
               /\ \/ session[t] = s /\ o = obj[s]
                  \/ session[t] = NoSession /\ Free(s) /\ o = NewObject(t)
<1> DEFINE s == SessionOf(t)
           o == ObjectOf(t)
<1>1. CASE session[t] # NoSession
  <2>1. s = session[t] /\ o = obj[s]
    BY <1>1 DEF SessionOf, ObjectOf
  <2>2. s \in Sessions /\ obj[s].live /\ obj[s].torrent = t /\ obj[s] \in Object
    BY <1>1, <2>1 DEF SInv, TypeOK, SessionMap
  <2> QED BY <2>1, <2>2
<1>2. CASE session[t] = NoSession
  <2>1. s \in Sessions /\ Free(s)
    BY <1>2 DEF CanOpen, SessionOf, FreeSession
  <2>2. s # session[t]
    BY <1>2, <2>1, Slots
  <2>3. o = NewObject(t)
    BY <2>2 DEF ObjectOf
  <2>4. o \in Object /\ o.torrent = t /\ o.live /\ o.ops = 0
    BY <2>3, EmptyTypes DEF NewObject, NoObject
  <2> QED BY <1>2, <2>1, <2>3, <2>4, FreeFacts
<1> QED BY <1>1, <1>2

(* A session is opened for a torrent, or the one it has is kept. *)
LEMMA OpenedMap ==
    ASSUME SInv, NEW t \in Torrents, NEW s \in Sessions, NEW o \in Object,
           o.torrent = t, o.live,
           \/ session[t] = s /\ o.stage = obj[s].stage /\ o.has = obj[s].has
           \/ session[t] = NoSession /\ Free(s) /\ o.stage = "opening",
           session' = [session EXCEPT ![t] = s], obj' = [obj EXCEPT ![s] = o], disk' = disk
    PROVE  /\ session' \in [Torrents -> Sessions \cup {NoSession}]
           /\ obj' \in [Sessions -> Object]
           /\ SessionMap'
<1>1. /\ session \in [Torrents -> Sessions \cup {NoSession}]
      /\ session' \in [Torrents -> Sessions \cup {NoSession}]
      /\ obj \in [Sessions -> Object] /\ obj' \in [Sessions -> Object]
  BY DEF SInv, TypeOK
<1>2. s # NoSession
  BY Slots
<1>3. \A u \in Torrents : session[u] = s => u = t
  <2>1. CASE session[t] = s
    BY <1>2, <2>1 DEF SInv, SessionMap
  <2>2. CASE Free(s)
    BY <2>2, FreeFacts
  <2> QED BY <2>1, <2>2
<1>4. \A u \in Torrents : session'[u] # NoSession =>
          obj'[session'[u]].live /\ obj'[session'[u]].torrent = u
  <2> SUFFICES ASSUME NEW u \in Torrents, session'[u] # NoSession
               PROVE  obj'[session'[u]].live /\ obj'[session'[u]].torrent = u
    OBVIOUS
  <2>1. CASE u = t
    BY <1>1, <2>1
  <2>2. CASE u # t
    <3>1. session'[u] = session[u] /\ session[u] \in Sessions /\ session[u] # s
      BY <1>1, <1>3, <2>2
    <3> QED BY <1>1, <3>1 DEF SInv, SessionMap
  <2> QED BY <2>1, <2>2
<1>5. \A q \in Sessions : obj'[q].live =>
          obj'[q].torrent \in Torrents /\ session'[obj'[q].torrent] = q
  <2> SUFFICES ASSUME NEW q \in Sessions, obj'[q].live
               PROVE  obj'[q].torrent \in Torrents /\ session'[obj'[q].torrent] = q
    OBVIOUS
  <2>1. CASE q = s
    BY <1>1, <2>1
  <2>2. CASE q # s
    <3>1. obj'[q] = obj[q] /\ obj[q].torrent \in Torrents /\ session[obj[q].torrent] = q
      BY <1>1, <2>2, InUse
    <3>2. obj[q].torrent # t
      BY <2>2, <3>1, Slots
    <3> QED BY <1>1, <3>1, <3>2
  <2> QED BY <2>1, <2>2
<1>6. \A q \in Sessions : obj'[q].torrent \in Torrents \/ obj'[q] = NoObject
  BY <1>1 DEF SInv, SessionMap
<1>7. \A q \in Sessions : obj'[q].live /\ obj'[q].stage \in {"ready", "done"} =>
          disk'[obj'[q].torrent] <= obj'[q].has
  <2> SUFFICES ASSUME NEW q \in Sessions, obj'[q].live, obj'[q].stage \in {"ready", "done"}
               PROVE  disk'[obj'[q].torrent] <= obj'[q].has
    OBVIOUS
  <2>1. CASE q = s
    <3>1. obj'[q] = o /\ session[t] = s /\ o.stage = obj[s].stage /\ o.has = obj[s].has
      BY <1>1, <2>1
    <3>2. obj[s].live /\ obj[s].torrent = t
      BY <1>2, <3>1 DEF SInv, SessionMap
    <3> QED BY <2>1, <3>1, <3>2 DEF SInv, SessionMap
  <2>2. CASE q # s
    <3>1. obj'[q] = obj[q]
      BY <1>1, <2>2
    <3> QED BY <3>1 DEF SInv, SessionMap
  <2> QED BY <2>1, <2>2
<1> QED BY <1>1, <1>4, <1>5, <1>6, <1>7 DEF SessionMap

(* Nobody who held an object before finds another torrent in it. *)
LEMMA OpenedHolders ==
    ASSUME SInv, NEW t \in Torrents, NEW s \in Sessions, NEW o,
           o.torrent = t, session[t] = s \/ Free(s),
           obj' = [obj EXCEPT ![s] = o]
    PROVE  /\ \A p \in Preloads : task[p] # NoTask => obj'[task[p].s].torrent = task[p].torrent
           /\ \A u \in Torrents : drop[u].pc = "saving" => obj'[drop[u].s].torrent = u
           /\ \A q \in closeSessions : obj'[q].torrent \in Torrents
<1>1. obj \in [Sessions -> Object]
  BY DEF SInv, TypeOK
<1>2. session[t] = s => obj[s].torrent = t
  BY Slots DEF SInv, SessionMap
<1>3. ASSUME NEW q \in Sessions
      PROVE  obj'[q].torrent = obj[q].torrent \/ (q = s /\ Free(s))
  BY <1>1, <1>2
<1>4. Free(s) => /\ \A p \in Preloads : task[p].s # s
                 /\ \A u \in Torrents : drop[u].s # s
                 /\ s \notin closeSessions
  BY FreeFacts
<1>5. \A p \in Preloads : task[p] # NoTask => obj'[task[p].s].torrent = task[p].torrent
  BY <1>3, <1>4 DEF SInv, Holders
<1>6. \A u \in Torrents : drop[u].pc = "saving" => obj'[drop[u].s].torrent = u
  BY <1>3, <1>4 DEF SInv, Holders
<1>7. \A q \in closeSessions : obj'[q].torrent \in Torrents
  BY <1>3, <1>4 DEF SInv, TypeOK, Holders
<1> QED BY <1>5, <1>6, <1>7

(* The preloads of a session are finitely many. *)
LEMMA TasksFinite ==
    ASSUME NEW S \in SUBSET Preloads
    PROVE  IsFiniteSet(S)
<1>1. IsFiniteSet(Preloads)
  BY SlotsAssumption, FS_Interval DEF Preloads
<1> QED BY <1>1, FS_Subset

(* One more in a finite set of holders, or one less. *)
LEMMA OneMore ==
    ASSUME NEW A, NEW x, IsFiniteSet(A)
    PROVE  /\ x \notin A => /\ IsFiniteSet(A \cup {x})
                            /\ Cardinality(A \cup {x}) = Cardinality(A) + 1
           /\ x \in A => /\ IsFiniteSet(A \ {x})
                         /\ Cardinality(A) \in Nat /\ Cardinality(A) > 0
                         /\ Cardinality(A \ {x}) = Cardinality(A) - 1
<1>1. x \notin A => /\ IsFiniteSet(A \cup {x})
                    /\ Cardinality(A \cup {x}) = Cardinality(A) + 1
  BY FS_AddElement
<1>2. ASSUME x \in A
      PROVE  /\ IsFiniteSet(A \ {x})
             /\ Cardinality(A) \in Nat /\ Cardinality(A) > 0
             /\ Cardinality(A \ {x}) = Cardinality(A) - 1
  <2>1. IsFiniteSet(A \ {x}) /\ Cardinality(A \ {x}) = Cardinality(A) - 1
    BY <1>2, FS_RemoveElement
  <2>2. Cardinality(A) \in Nat /\ Cardinality(A) # 0
    BY <1>2, FS_CardinalityType, FS_EmptySet
  <2> QED BY <2>1, <2>2
<1> QED BY <1>1, <1>2

(* The counts of operations are right again when a request or a preload has *)
(* acquired a session.                                                      *)
LEMMA AcquiredObject ==
    ASSUME SInv, NEW t \in Torrents, CanOpen(t), Acquire(t), disk' = disk
    PROVE  LET s == SessionOf(t)
           IN  /\ s \in Sessions
               /\ session' \in [Torrents -> Sessions \cup {NoSession}]
               /\ obj' \in [Sessions -> Object]
               /\ SessionMap'
               /\ \A q \in Sessions : obj'[q].ops = obj[q].ops + IF q = s THEN 1 ELSE 0
               /\ obj'[s].torrent = t
               /\ \A p \in Preloads : task[p] # NoTask => obj'[task[p].s].torrent = task[p].torrent
               /\ \A u \in Torrents : drop[u].pc = "saving" => obj'[drop[u].s].torrent = u
               /\ \A q \in closeSessions : obj'[q].torrent \in Torrents
<1> DEFINE s == SessionOf(t)
           before == ObjectOf(t)
           o == [before EXCEPT !.ops = @ + 1, !.timer = FALSE]
<1>1. /\ s \in Sessions /\ before \in Object /\ before.torrent = t /\ before.live
      /\ before.ops = obj[s].ops
      /\ \/ session[t] = s /\ before = obj[s]
         \/ session[t] = NoSession /\ Free(s) /\ before = NewObject(t)
  BY SessionOfFacts
<1>2. session' = [session EXCEPT ![t] = s] /\ obj' = [obj EXCEPT ![s] = o]
  BY DEF Acquire
<1> HIDE DEF s, before
<1>3. /\ o \in Object /\ o.torrent = t /\ o.live /\ o.ops = obj[s].ops + 1
      /\ o.stage = before.stage /\ o.has = before.has
  <2>1. before.ops + 1 \in Nat
    BY <1>1 DEF Object
  <2> QED BY <1>1, <2>1 DEF Object
<1> HIDE DEF o
<1>4. \/ session[t] = s /\ o.stage = obj[s].stage /\ o.has = obj[s].has
      \/ session[t] = NoSession /\ Free(s) /\ o.stage = "opening"
  BY <1>1, <1>3 DEF NewObject, NoObject
<1>5. /\ session' \in [Torrents -> Sessions \cup {NoSession}]
      /\ obj' \in [Sessions -> Object] /\ SessionMap'
  BY <1>1, <1>2, <1>3, <1>4, OpenedMap
<1>6. \A q \in Sessions : obj'[q].ops = obj[q].ops + IF q = s THEN 1 ELSE 0
  <2>1. \A q \in Sessions : obj[q].ops \in Nat
    BY DEF SInv, TypeOK, Object
  <2>2. obj \in [Sessions -> Object]
    BY DEF SInv, TypeOK
  <2> QED BY <1>1, <1>2, <1>3, <2>1, <2>2
<1>7. obj'[s].torrent = t
  BY <1>1, <1>2, <1>3 DEF SInv, TypeOK
<1>8. /\ \A p \in Preloads : task[p] # NoTask => obj'[task[p].s].torrent = task[p].torrent
      /\ \A u \in Torrents : drop[u].pc = "saving" => obj'[drop[u].s].torrent = u
      /\ \A q \in closeSessions : obj'[q].torrent \in Torrents
  BY <1>1, <1>2, <1>3, OpenedHolders
<1> QED BY <1>1, <1>5, <1>6, <1>7, <1>8 DEF s

(* A request acquires a session, or opens one. *)
LEMMA RequestKept ==
    ASSUME SInv, NEW r \in Ops, NEW t \in Torrents, NEW awaits \in {"metadata", "ready"},
           Request(r, t, awaits)
    PROVE  SInv'
<1> USE DEF database, preloading, shutdown
<1> DEFINE s == SessionOf(t)
           x == [pc |-> awaits, s |-> s]
<1>1. /\ CanOpen(t) /\ Acquire(t) /\ op[r].pc = "none" /\ phase = "up"
      /\ op' = [op EXCEPT ![r] = x] /\ gone' = gone \ {t}
      /\ UNCHANGED <<database, disk, reader, saving, evict, drop, preloading,
                     removal, shutdown>>
  BY DEF Request, Accepts
<1>2. /\ s \in Sessions
      /\ session' \in [Torrents -> Sessions \cup {NoSession}]
      /\ obj' \in [Sessions -> Object]
      /\ SessionMap'
      /\ \A q \in Sessions : obj'[q].ops = obj[q].ops + IF q = s THEN 1 ELSE 0
      /\ \A p \in Preloads : task[p] # NoTask => obj'[task[p].s].torrent = task[p].torrent
      /\ \A u \in Torrents : drop[u].pc = "saving" => obj'[drop[u].s].torrent = u
      /\ \A q \in closeSessions : obj'[q].torrent \in Torrents
  BY <1>1, AcquiredObject
<1> HIDE DEF s
<1>3. x \in Op /\ x.pc = awaits /\ x.s = s
  BY <1>2 DEF Op
<1> HIDE DEF x
<1>4. op \in [Ops -> Op] /\ op' \in [Ops -> Op]
  BY <1>1, <1>3 DEF SInv, TypeOK
<1>5. TypeOK'
  BY <1>1, <1>2, <1>4 DEF SInv, TypeOK
<1>6. \A o \in Ops : op'[o].pc = "none" <=> op'[o].s = NoSession
  BY <1>1, <1>2, <1>3, <1>4, Slots DEF SInv, Holders
<1>7. ASSUME NEW q \in Sessions
      PROVE  /\ IsFiniteSet(OpsOf(q)')
             /\ obj'[q].ops = Cardinality(OpsOf(q)') + Cardinality(TasksOf(q)')
  <2>1. TasksOf(q)' = TasksOf(q)
    BY <1>1 DEF TasksOf
  <2>2. /\ IsFiniteSet(OpsOf(q)) /\ Cardinality(OpsOf(q)) \in Nat
        /\ Cardinality(TasksOf(q)) \in Nat
        /\ obj[q].ops = Cardinality(OpsOf(q)) + Cardinality(TasksOf(q))
    <3>1. IsFiniteSet(TasksOf(q))
      BY TasksFinite DEF TasksOf
    <3> QED BY <3>1, FS_CardinalityType DEF SInv, Holders
  <2>3. op[r].s = NoSession
    BY <1>1 DEF SInv, Holders
  <2>4. CASE q = s
    <3>1. OpsOf(q)' = OpsOf(q) \cup {r} /\ r \notin OpsOf(q)
      BY <1>1, <1>2, <1>3, <1>4, <2>3, <2>4, Slots DEF OpsOf
    <3>2. IsFiniteSet(OpsOf(q)') /\ Cardinality(OpsOf(q)') = Cardinality(OpsOf(q)) + 1
      BY <2>2, <3>1, OneMore
    <3>3. obj'[q].ops = obj[q].ops + 1
      BY <1>2, <2>4
    <3> QED BY <2>1, <2>2, <3>2, <3>3
  <2>5. CASE q # s
    <3>1. OpsOf(q)' = OpsOf(q)
      BY <1>1, <1>3, <1>4, <2>3, <2>5, Slots DEF OpsOf
    <3>2. obj'[q].ops = obj[q].ops
      BY <1>2, <2>2, <2>5
    <3> QED BY <2>1, <2>2, <3>1, <3>2
  <2> QED BY <2>4, <2>5
<1>8. Holders'
  BY <1>1, <1>2, <1>6, <1>7 DEF SInv, Holders
<1>9. phase' # "down" /\ Distinct(cache')
  BY <1>1 DEF SInv, OneRow
<1> QED BY <1>2, <1>5, <1>8, <1>9, StepKept

(* A preload begins: its frame is a free one, and holds the session it acquired. *)
LEMMA BegunHolders ==
    ASSUME SInv, NEW t \in Torrents, BeginPreload(t), op' = op, UNCHANGED <<disk, drop, closeSessions>>
    PROVE  /\ session' \in [Torrents -> Sessions \cup {NoSession}]
           /\ obj' \in [Sessions -> Object] /\ task' \in [Preloads -> Task]
           /\ current' \in [Torrents -> Preloads \cup {NoPreload}]
           /\ job' \in [Torrents -> Job]
           /\ SessionMap' /\ Holders'
<1> DEFINE s == SessionOf(t)
           k == [NoTask EXCEPT !.pc = "ready", !.torrent = t, !.s = s]
<1>1. /\ s \in Sessions
      /\ session' \in [Torrents -> Sessions \cup {NoSession}]
      /\ obj' \in [Sessions -> Object]
      /\ SessionMap'
      /\ \A q \in Sessions : obj'[q].ops = obj[q].ops + IF q = s THEN 1 ELSE 0
      /\ obj'[s].torrent = t
      /\ \A p \in Preloads : task[p] # NoTask => obj'[task[p].s].torrent = task[p].torrent
      /\ \A u \in Torrents : drop[u].pc = "saving" => obj'[drop[u].s].torrent = u
      /\ \A q \in closeSessions : obj'[q].torrent \in Torrents
  BY AcquiredObject DEF BeginPreload
<1>2. PICK p \in Preloads :
          /\ task[p].pc = "none" /\ task' = [task EXCEPT ![p] = k]
          /\ current' = [current EXCEPT ![t] = p]
          /\ job' = [job EXCEPT ![t] = [state |-> "running", by |-> p]]
  BY DEF BeginPreload
<1> HIDE DEF s
<1>3. k \in Task /\ k.pc = "ready" /\ k.torrent = t /\ k.s = s
  BY <1>1 DEF NoTask, Task
<1> HIDE DEF k
<1>4. task[p] = NoTask
  BY <1>2 DEF SInv, Holders
<1>5. NoTask.s = NoSession /\ NoTask.torrent = NoTorrent
  BY DEF NoTask
<1>6. task \in [Preloads -> Task] /\ task' \in [Preloads -> Task]
  BY <1>2, <1>3 DEF SInv, TypeOK
<1>7. current' \in [Torrents -> Preloads \cup {NoPreload}]
  BY <1>2 DEF SInv, TypeOK
<1>8. job' \in [Torrents -> Job]
  BY <1>2 DEF SInv, TypeOK, Job
<1>9. ASSUME NEW r \in Preloads
      PROVE  \/ task'[r] = NoTask
             \/ /\ task'[r].pc # "none" /\ task'[r].s \in Sessions /\ task'[r].torrent \in Torrents
                /\ obj'[task'[r].s].torrent = task'[r].torrent
  <2>1. CASE r = p
    BY <1>1, <1>2, <1>3, <1>6, <2>1
  <2>2. CASE r # p
    BY <1>1, <1>2, <1>6, <2>2 DEF SInv, Holders
  <2> QED BY <2>1, <2>2
<1>10. ASSUME NEW q \in Sessions
       PROVE  /\ IsFiniteSet(OpsOf(q)')
              /\ obj'[q].ops = Cardinality(OpsOf(q)') + Cardinality(TasksOf(q)')
  <2>1. OpsOf(q)' = OpsOf(q)
    BY DEF OpsOf
  <2>2. /\ IsFiniteSet(TasksOf(q)) /\ Cardinality(OpsOf(q)) \in Nat
        /\ Cardinality(TasksOf(q)) \in Nat /\ IsFiniteSet(OpsOf(q))
        /\ obj[q].ops = Cardinality(OpsOf(q)) + Cardinality(TasksOf(q))
    <3>1. IsFiniteSet(TasksOf(q))
      BY TasksFinite DEF TasksOf
    <3> QED BY <3>1, FS_CardinalityType DEF SInv, Holders
  <2>3. CASE q = s
    <3>1. TasksOf(q)' = TasksOf(q) \cup {p} /\ p \notin TasksOf(q)
      BY <1>1, <1>2, <1>3, <1>4, <1>5, <1>6, <2>3, Slots DEF TasksOf
    <3>2. Cardinality(TasksOf(q)') = Cardinality(TasksOf(q)) + 1
      BY <2>2, <3>1, OneMore
    <3>3. obj'[q].ops = obj[q].ops + 1
      BY <1>1, <2>3
    <3> QED BY <2>1, <2>2, <3>2, <3>3
  <2>4. CASE q # s
    <3>1. TasksOf(q)' = TasksOf(q)
      BY <1>2, <1>3, <1>4, <1>5, <1>6, <2>4, Slots DEF TasksOf
    <3>2. obj'[q].ops = obj[q].ops
      BY <1>1, <2>2, <2>4
    <3> QED BY <2>1, <2>2, <3>1, <3>2
  <2> QED BY <2>3, <2>4
<1>11. \A u \in Torrents : current'[u] # NoPreload => task'[current'[u]].torrent = u
  <2> SUFFICES ASSUME NEW u \in Torrents, current'[u] # NoPreload
               PROVE  task'[current'[u]].torrent = u
    OBVIOUS
  <2>1. CASE u = t
    BY <1>2, <1>3, <1>6, <2>1 DEF SInv, TypeOK
  <2>2. CASE u # t
    <3>1. current'[u] = current[u] /\ current[u] \in Preloads /\ task[current[u]].torrent = u
      BY <1>2, <2>2 DEF SInv, TypeOK, Holders
    <3>2. current[u] # p
      BY <1>4, <1>5, <3>1, NoTorrentAssumption
    <3> QED BY <1>2, <1>6, <3>1, <3>2
  <2> QED BY <2>1, <2>2
<1>12. Holders'
  BY <1>1, <1>9, <1>10, <1>11 DEF SInv, Holders
<1> QED BY <1>1, <1>6, <1>7, <1>8, <1>12

(* A preload is started. *)
LEMMA StartPreloadKept ==
    ASSUME SInv, NEW t \in Torrents, StartPreload(t)
    PROVE  SInv'
<1>1. /\ phase = "up" /\ BeginPreload(t) /\ gone' = gone \ {t}
      /\ UNCHANGED <<database, disk, op, reader, saving, evict, drop, removal, shutdown>>
  BY DEF StartPreload, Accepts
<1>2. /\ session' \in [Torrents -> Sessions \cup {NoSession}]
      /\ obj' \in [Sessions -> Object] /\ task' \in [Preloads -> Task]
      /\ current' \in [Torrents -> Preloads \cup {NoPreload}]
      /\ job' \in [Torrents -> Job] /\ SessionMap' /\ Holders'
  BY <1>1, BegunHolders DEF shutdown
<1>3. TypeOK'
  BY <1>1, <1>2 DEF SInv, TypeOK, database, shutdown
<1>4. phase' # "down" /\ Distinct(cache')
  BY <1>1 DEF SInv, OneRow, database, shutdown
<1> QED BY <1>2, <1>3, <1>4, StepKept

(* A torrent is registered, and a preload of it started where one is wanted. *)
LEMMA RegisterKept ==
    ASSUME SInv, NEW t \in Torrents, NEW background \in BOOLEAN, Register(t, background)
    PROVE  SInv'
<1>1. /\ phase = "up" /\ gone' = gone \ {t} /\ RecordRegistration(t, background)
      /\ UNCHANGED <<metadata, cache, disk, op, reader, saving, evict, drop, removal, shutdown>>
  BY DEF Register, Accepts
<1>2. /\ history' \subseteq Torrents
      /\ registration' \in [Torrents -> {"none", "plain", "background"}]
  BY <1>1 DEF RecordRegistration, SInv, TypeOK
<1>3. phase' # "down" /\ Distinct(cache')
  BY <1>1 DEF SInv, OneRow, shutdown
<1>4. CASE BeginPreload(t)
  <2>1. /\ session' \in [Torrents -> Sessions \cup {NoSession}]
        /\ obj' \in [Sessions -> Object] /\ task' \in [Preloads -> Task]
        /\ current' \in [Torrents -> Preloads \cup {NoPreload}]
        /\ job' \in [Torrents -> Job] /\ SessionMap' /\ Holders'
    BY <1>1, <1>4, BegunHolders DEF shutdown
  <2>2. TypeOK'
    BY <1>1, <1>2, <2>1 DEF SInv, TypeOK, shutdown
  <2> QED BY <1>3, <2>1, <2>2, StepKept
<1>5. CASE session[t] = NoSession /\ CanOpen(t) /\ CreateSession(t) /\ UNCHANGED preloading
  <2> DEFINE s == FreeSession
             o == NewObject(t)
  <2>1. s \in Sessions /\ Free(s)
    BY <1>5 DEF CanOpen, FreeSession
  <2>2. session' = [session EXCEPT ![t] = s] /\ obj' = [obj EXCEPT ![s] = o]
    BY <1>5 DEF CreateSession
  <2>3. o \in Object /\ o.torrent = t /\ o.live /\ o.ops = 0 /\ o.stage = "opening"
    BY EmptyTypes DEF NewObject, NoObject
  <2> HIDE DEF s, o
  <2>4. /\ session' \in [Torrents -> Sessions \cup {NoSession}]
        /\ obj' \in [Sessions -> Object] /\ SessionMap'
    BY <1>1, <1>5, <2>1, <2>2, <2>3, OpenedMap
  <2>5. TypeOK'
    BY <1>1, <1>2, <1>5, <2>4 DEF SInv, TypeOK, preloading, shutdown
  <2>6. /\ \A p \in Preloads : task[p] # NoTask => obj'[task[p].s].torrent = task[p].torrent
        /\ \A u \in Torrents : drop[u].pc = "saving" => obj'[drop[u].s].torrent = u
        /\ \A q \in closeSessions : obj'[q].torrent \in Torrents
    BY <2>1, <2>2, <2>3, OpenedHolders
  <2>7. \A q \in Sessions : obj'[q].ops = obj[q].ops
    BY <2>1, <2>2, <2>3, FreeFacts DEF SInv, TypeOK
  <2>8. UNCHANGED <<op, task, current, drop, closeSessions>>
    BY <1>1, <1>5 DEF preloading, shutdown
  <2>9. \A q \in Sessions : OpsOf(q)' = OpsOf(q) /\ TasksOf(q)' = TasksOf(q)
    BY <2>8 DEF OpsOf, TasksOf
  <2>10. Holders'
    BY <2>6, <2>7, <2>8, <2>9 DEF SInv, Holders
  <2> QED BY <1>3, <2>4, <2>5, <2>10, StepKept
<1>6. CASE UNCHANGED <<session, obj, preloading>>
  <2>1. UNCHANGED <<session, obj, op, disk, task, current, drop, closeSessions>>
    BY <1>1, <1>6 DEF preloading, shutdown
  <2>2. TypeOK'
    BY <1>1, <1>2, <1>6 DEF SInv, TypeOK, preloading, shutdown
  <2> QED BY <1>3, <2>1, <2>2, AsideKept, Unmoved
<1> QED BY <1>4, <1>5, <1>6 DEF Register

-----------------------------------------------------------------------------
(***************************************************************************)
(* Steps that release a session.                                           *)
(***************************************************************************)

LEMMA ReleasedObject ==
    ASSUME SInv, NEW s \in Sessions, obj[s].torrent \in Torrents, obj[s].ops > 0,
           obj' = [obj EXCEPT ![s] = Released(s)], session' = session, disk' = disk
    PROVE  /\ obj' \in [Sessions -> Object] /\ SessionMap'
           /\ \A q \in Sessions : /\ obj'[q].torrent = obj[q].torrent
                                  /\ obj'[q].ops = obj[q].ops - IF q = s THEN 1 ELSE 0
<1>1. \A q \in Sessions : obj[q] \in Object /\ obj[q].ops \in Nat
  BY DEF SInv, TypeOK, Object
<1>2. /\ Released(s) \in Object
      /\ Released(s).live = obj[s].live /\ Released(s).torrent = obj[s].torrent
      /\ Released(s).stage = obj[s].stage /\ Released(s).has = obj[s].has
      /\ Released(s).ops = obj[s].ops - 1
  BY <1>1, ReleasedFacts
<1> DEFINE o == Released(s)
<1> HIDE DEF o
<1>3. obj' = [obj EXCEPT ![s] = o] /\ obj \in [Sessions -> Object]
  BY DEF SInv, TypeOK, o
<1>4. o \in Object /\ o.live = obj[s].live /\ o.torrent = obj[s].torrent
      /\ o.stage = obj[s].stage /\ o.has = obj[s].has /\ o.ops = obj[s].ops - 1
  BY <1>2 DEF o
<1>5. obj' \in [Sessions -> Object]
  BY <1>3, <1>4
<1>6. \A q \in Sessions :
         /\ obj'[q].torrent = obj[q].torrent /\ obj'[q].live = obj[q].live
         /\ obj'[q].stage = obj[q].stage /\ obj'[q].has = obj[q].has
         /\ q # s => obj'[q] = obj[q]
  BY <1>3, <1>4
<1>7. \A q \in Sessions : obj'[q].ops = obj[q].ops - IF q = s THEN 1 ELSE 0
  BY <1>1, <1>3, <1>4
<1>8. SessionMap'
  <2>1. \A t \in Torrents : session'[t] # NoSession =>
            obj'[session'[t]].live /\ obj'[session'[t]].torrent = t
    BY <1>6 DEF SInv, TypeOK, SessionMap
  <2>2. \A q \in Sessions : obj'[q].live =>
            obj'[q].torrent \in Torrents /\ session'[obj'[q].torrent] = q
    BY <1>6 DEF SInv, SessionMap
  <2>3. \A q \in Sessions : obj'[q].torrent \in Torrents \/ obj'[q] = NoObject
    BY <1>6 DEF SInv, SessionMap
  <2>4. \A q \in Sessions : obj'[q].live /\ obj'[q].stage \in {"ready", "done"} =>
            disk'[obj'[q].torrent] <= obj'[q].has
    BY <1>6 DEF SInv, SessionMap
  <2> QED BY <2>1, <2>2, <2>3, <2>4 DEF SessionMap
<1> QED BY <1>5, <1>6, <1>7, <1>8

(* The frame of a preload that ends. *)
LEMMA EndedPreload ==
    ASSUME SInv, NEW p \in Preloads, task[p].pc # "none",
           NEW state \in {"running", "failed", "completed"}, EndPreload(p, state),
           UNCHANGED <<session, op, disk, drop, closeSessions>>
    PROVE  /\ obj' \in [Sessions -> Object] /\ task' \in [Preloads -> Task]
           /\ current' \in [Torrents -> Preloads \cup {NoPreload}]
           /\ job' \in [Torrents -> Job]
           /\ SessionMap' /\ Holders'
<1> DEFINE t == task[p].torrent
           s == task[p].s
<1>1. NoTask.pc = "none" /\ NoTask.s = NoSession
  BY DEF NoTask
<1>2. s \in Sessions /\ t \in Torrents /\ obj[s].torrent = t
  BY <1>1 DEF SInv, Holders
<1>3. /\ task' = [task EXCEPT ![p] = NoTask]
      /\ current' = [current EXCEPT ![t] = IF @ = p THEN NoPreload ELSE @]
      /\ job' = [job EXCEPT ![t] = IF @.by = p THEN [state |-> state, by |-> NoPreload] ELSE @]
      /\ obj' = [obj EXCEPT ![s] = Released(s)]
  BY DEF EndPreload
<1> HIDE DEF s, t
<1>4. \A q \in Sessions : /\ IsFiniteSet(TasksOf(q)) /\ Cardinality(OpsOf(q)) \in Nat
                          /\ Cardinality(TasksOf(q)) \in Nat /\ IsFiniteSet(OpsOf(q))
                          /\ obj[q].ops = Cardinality(OpsOf(q)) + Cardinality(TasksOf(q))
  <2> SUFFICES ASSUME NEW q \in Sessions
               PROVE  /\ IsFiniteSet(TasksOf(q)) /\ Cardinality(OpsOf(q)) \in Nat
                      /\ Cardinality(TasksOf(q)) \in Nat /\ IsFiniteSet(OpsOf(q))
                      /\ obj[q].ops = Cardinality(OpsOf(q)) + Cardinality(TasksOf(q))
    OBVIOUS
  <2>1. IsFiniteSet(TasksOf(q))
    BY TasksFinite DEF TasksOf
  <2> QED BY <2>1, FS_CardinalityType DEF SInv, Holders
<1>5. p \in TasksOf(s)
  BY DEF TasksOf, s
<1>6. obj[s].ops > 0
  <2>1. Cardinality(TasksOf(s)) > 0
    BY <1>2, <1>4, <1>5, OneMore
  <2> QED BY <1>2, <1>4, <2>1
<1>7. /\ obj' \in [Sessions -> Object] /\ SessionMap'
      /\ \A q \in Sessions : /\ obj'[q].torrent = obj[q].torrent
                             /\ obj'[q].ops = obj[q].ops - IF q = s THEN 1 ELSE 0
  BY <1>2, <1>3, <1>6, ReleasedObject
<1>8. task \in [Preloads -> Task] /\ task' \in [Preloads -> Task]
  BY <1>3, EmptyTypes DEF SInv, TypeOK
<1>9. current' \in [Torrents -> Preloads \cup {NoPreload}]
  BY <1>3 DEF SInv, TypeOK
<1>10. job' \in [Torrents -> Job]
  <2>1. [state |-> state, by |-> NoPreload] \in Job
    BY DEF Job
  <2> QED BY <1>3, <2>1 DEF SInv, TypeOK
<1>11. ASSUME NEW r \in Preloads
       PROVE  \/ task'[r] = NoTask
              \/ /\ task'[r].pc # "none" /\ task'[r].s \in Sessions /\ task'[r].torrent \in Torrents
                 /\ obj'[task'[r].s].torrent = task'[r].torrent
  <2>1. CASE r = p
    BY <1>3, <1>8, <2>1
  <2>2. CASE r # p
    BY <1>3, <1>7, <1>8, <2>2 DEF SInv, Holders
  <2> QED BY <2>1, <2>2
<1>12. ASSUME NEW q \in Sessions
       PROVE  /\ IsFiniteSet(OpsOf(q)')
              /\ obj'[q].ops = Cardinality(OpsOf(q)') + Cardinality(TasksOf(q)')
  <2>1. OpsOf(q)' = OpsOf(q)
    BY DEF OpsOf
  <2>2. CASE q = s
    <3>1. TasksOf(q)' = TasksOf(q) \ {p}
      BY <1>1, <1>2, <1>3, <1>8, <2>2, Slots DEF TasksOf
    <3>2. Cardinality(TasksOf(q)') = Cardinality(TasksOf(q)) - 1
      BY <1>4, <1>5, <2>2, <3>1, OneMore
    <3>3. obj'[q].ops = obj[q].ops - 1
      BY <1>7, <2>2
    <3> QED BY <1>4, <2>1, <3>2, <3>3
  <2>3. CASE q # s
    <3>1. TasksOf(q)' = TasksOf(q)
      BY <1>1, <1>3, <1>8, <2>3, Slots DEF TasksOf, s
    <3>2. obj'[q].ops = obj[q].ops
      BY <1>4, <1>7, <2>3
    <3> QED BY <1>4, <2>1, <3>1, <3>2
  <2> QED BY <2>2, <2>3
<1>13. \A u \in Torrents : current'[u] # NoPreload => task'[current'[u]].torrent = u
  <2> SUFFICES ASSUME NEW u \in Torrents, current'[u] # NoPreload
               PROVE  task'[current'[u]].torrent = u
    OBVIOUS
  <2>1. current'[u] = current[u] /\ current[u] \in Preloads /\ task[current[u]].torrent = u
    BY <1>3 DEF SInv, TypeOK, Holders
  <2>2. current[u] # p
    <3>1. CASE u = t
      BY <1>3, <2>1, <3>1 DEF SInv, TypeOK
    <3>2. CASE u # t
      BY <2>1, <3>2 DEF t
    <3> QED BY <3>1, <3>2
  <2> QED BY <1>3, <1>8, <2>1, <2>2
<1>14. Holders'
  BY <1>7, <1>11, <1>12, <1>13 DEF SInv, TypeOK, Holders
<1> QED BY <1>7, <1>8, <1>9, <1>10, <1>14

(* A preload ends and releases its session. *)
LEMMA PreloadEndsKept ==
    ASSUME SInv, NEW p \in Preloads,
           PreloadGivesUp(p) \/ PreloadFails(p) \/ PreloadUnrecorded(p) \/ PreloadCompletes(p)
    PROVE  SInv'
<1>1. /\ UNCHANGED <<database, disk, session, op, reader, saving, evict, drop,
                     removal, shutdown, gone>>
      /\ task[p].pc # "none"
      /\ \E state \in {"running", "failed", "completed"} : EndPreload(p, state)
  BY DEF PreloadGivesUp, PreloadFails, PreloadUnrecorded, PreloadCompletes
<1>2. PICK state \in {"running", "failed", "completed"} : EndPreload(p, state)
  BY <1>1
<1>3. UNCHANGED <<session, op, disk, drop, closeSessions, phase, cache>>
  BY <1>1 DEF shutdown, database
<1>4. /\ obj' \in [Sessions -> Object] /\ task' \in [Preloads -> Task]
      /\ current' \in [Torrents -> Preloads \cup {NoPreload}]
      /\ job' \in [Torrents -> Job] /\ SessionMap' /\ Holders'
  BY <1>1, <1>2, <1>3, EndedPreload
<1>5. TypeOK'
  BY <1>1, <1>4 DEF SInv, TypeOK, database, shutdown
<1>6. phase' # "down" /\ Distinct(cache')
  BY <1>1, <1>3 DEF SInv, OneRow, Down, NoTask
<1> QED BY <1>4, <1>5, <1>6, StepKept

(* A request that ends. *)
LEMMA EndedRequest ==
    ASSUME SInv, NEW r \in Ops, op[r].pc # "none",
           op' = [op EXCEPT ![r] = NoOp],
           obj' = [obj EXCEPT ![op[r].s] = Released(op[r].s)],
           UNCHANGED <<session, task, current, disk, drop, closeSessions>>
    PROVE  /\ obj' \in [Sessions -> Object] /\ op' \in [Ops -> Op]
           /\ SessionMap' /\ Holders'
<1> DEFINE s == op[r].s
<1>1. NoOp.pc = "none" /\ NoOp.s = NoSession
  BY DEF NoOp
<1>2. s \in Sessions /\ s # NoSession
  <2>1. op[r] \in Op /\ s # NoSession
    BY DEF SInv, TypeOK, Holders
  <2> QED BY <2>1 DEF Op
<1>3. obj' = [obj EXCEPT ![s] = Released(s)]
  OBVIOUS
<1> HIDE DEF s
<1>4. \A q \in Sessions : /\ IsFiniteSet(OpsOf(q)) /\ Cardinality(OpsOf(q)) \in Nat
                          /\ Cardinality(TasksOf(q)) \in Nat
                          /\ obj[q].ops = Cardinality(OpsOf(q)) + Cardinality(TasksOf(q))
  <2> SUFFICES ASSUME NEW q \in Sessions
               PROVE  /\ IsFiniteSet(OpsOf(q)) /\ Cardinality(OpsOf(q)) \in Nat
                      /\ Cardinality(TasksOf(q)) \in Nat
                      /\ obj[q].ops = Cardinality(OpsOf(q)) + Cardinality(TasksOf(q))
    OBVIOUS
  <2>1. IsFiniteSet(TasksOf(q))
    BY TasksFinite DEF TasksOf
  <2> QED BY <2>1, FS_CardinalityType DEF SInv, Holders
<1>5. r \in OpsOf(s)
  BY DEF OpsOf, s
<1>6. obj[s].ops > 0
  <2>1. Cardinality(OpsOf(s)) > 0
    BY <1>2, <1>4, <1>5, OneMore
  <2> QED BY <1>2, <1>4, <2>1
<1>7. obj[s].torrent \in Torrents
  <2>1. NoObject.ops = 0
    BY DEF NoObject
  <2> QED BY <1>2, <1>6, <2>1 DEF SInv, SessionMap
<1>8. /\ obj' \in [Sessions -> Object] /\ SessionMap'
      /\ \A q \in Sessions : /\ obj'[q].torrent = obj[q].torrent
                             /\ obj'[q].ops = obj[q].ops - IF q = s THEN 1 ELSE 0
  BY <1>2, <1>3, <1>6, <1>7, ReleasedObject
<1>9. op \in [Ops -> Op] /\ op' \in [Ops -> Op]
  BY EmptyTypes DEF SInv, TypeOK
<1>10. \A o \in Ops : op'[o].pc = "none" <=> op'[o].s = NoSession
  BY <1>1, <1>9 DEF SInv, Holders
<1>11. ASSUME NEW q \in Sessions
       PROVE  /\ IsFiniteSet(OpsOf(q)')
              /\ obj'[q].ops = Cardinality(OpsOf(q)') + Cardinality(TasksOf(q)')
  <2>1. TasksOf(q)' = TasksOf(q)
    BY DEF TasksOf
  <2>2. CASE q = s
    <3>1. OpsOf(q)' = OpsOf(q) \ {r}
      BY <1>1, <1>2, <1>9, <2>2 DEF OpsOf
    <3>2. IsFiniteSet(OpsOf(q)') /\ Cardinality(OpsOf(q)') = Cardinality(OpsOf(q)) - 1
      BY <1>4, <1>5, <2>2, <3>1, OneMore
    <3>3. obj'[q].ops = obj[q].ops - 1
      BY <1>8, <2>2
    <3> QED BY <1>4, <2>1, <3>2, <3>3
  <2>3. CASE q # s
    <3>1. OpsOf(q)' = OpsOf(q)
      BY <1>1, <1>9, <2>3, Slots DEF OpsOf, s
    <3>2. obj'[q].ops = obj[q].ops
      BY <1>4, <1>8, <2>3
    <3> QED BY <1>4, <2>1, <3>1, <3>2
  <2> QED BY <2>2, <2>3
<1>12. \A p \in Preloads :
           \/ task'[p] = NoTask
           \/ /\ task'[p].pc # "none" /\ task'[p].s \in Sessions /\ task'[p].torrent \in Torrents
              /\ obj'[task'[p].s].torrent = task'[p].torrent
  BY <1>8 DEF SInv, Holders
<1>13. Holders'
  BY <1>8, <1>10, <1>11, <1>12 DEF SInv, TypeOK, Holders
<1> QED BY <1>8, <1>9, <1>13

(* A request ends and releases its session. *)
LEMMA EndRequestKept ==
    ASSUME SInv, NEW r \in Ops, EndRequest(r)
    PROVE  SInv'
<1> USE DEF EndRequest, database, preloading, shutdown
<1>1. /\ obj' \in [Sessions -> Object] /\ op' \in [Ops -> Op] /\ SessionMap' /\ Holders'
  BY EndedRequest
<1>2. TypeOK'
  BY <1>1 DEF SInv, TypeOK
<1>3. phase' # "down" /\ Distinct(cache')
  BY DEF SInv, OneRow, Down, NoOp
<1> QED BY <1>1, <1>2, <1>3, StepKept

(* A request is answered when its session is ready or gone. *)
LEMMA AnswerKept ==
    ASSUME SInv, NEW r \in Ops, Answer(r)
    PROVE  SInv'
<1> USE DEF preloading, shutdown
<1>1. /\ op[r].pc \in {"metadata", "ready"}
      /\ UNCHANGED <<history, registration, metadata, disk, session, reader,
                     saving, evict, drop, preloading, removal, shutdown, gone>>
      /\ cache' = Touch(cache, obj[op[r].s].torrent)
  BY DEF Answer
<1>2. cache' \in Seq(Row) /\ Distinct(cache')
  BY <1>1, TouchFacts DEF SInv, TypeOK, OneRow
<1>3. phase' # "down"
  BY <1>1 DEF SInv, Down, NoOp
<1>4. CASE op' = [op EXCEPT ![r].pc = "stream"] /\ UNCHANGED obj
  <2> DEFINE x == [op[r] EXCEPT !.pc = "stream"]
  <2>1. op[r] \in Op /\ op \in [Ops -> Op] /\ op' = [op EXCEPT ![r] = x]
    BY <1>4 DEF SInv, TypeOK
  <2>2. x \in Op /\ x.pc = "stream" /\ x.s = op[r].s
    BY <2>1 DEF Op
  <2> HIDE DEF x
  <2>3. op' \in [Ops -> Op] /\ \A o \in Ops : op'[o].s = op[o].s
    BY <2>1, <2>2
  <2>4. TypeOK'
    BY <1>1, <1>2, <1>4, <2>3 DEF SInv, TypeOK
  <2>5. \A o \in Ops : op'[o].pc = "none" <=> op'[o].s = NoSession
    BY <1>1, <2>1, <2>2 DEF SInv, Holders
  <2>6. \A q \in Sessions : OpsOf(q)' = OpsOf(q) /\ TasksOf(q)' = TasksOf(q)
    BY <1>1, <2>3 DEF OpsOf, TasksOf
  <2>7. Holders'
    BY <1>1, <1>4, <2>5, <2>6 DEF SInv, Holders
  <2>8. SessionMap'
    BY <1>1, <1>4 DEF SInv, SessionMap
  <2> QED BY <1>2, <1>3, <2>4, <2>7, <2>8, StepKept
<1>5. CASE op' = [op EXCEPT ![r] = NoOp] /\ obj' = [obj EXCEPT ![op[r].s] = Released(op[r].s)]
  <2>1. /\ obj' \in [Sessions -> Object] /\ op' \in [Ops -> Op] /\ SessionMap' /\ Holders'
    BY <1>1, <1>5, EndedRequest
  <2>2. TypeOK'
    BY <1>1, <1>2, <2>1 DEF SInv, TypeOK
  <2> QED BY <1>2, <1>3, <2>1, <2>2, StepKept
<1> QED BY <1>4, <1>5 DEF Answer

-----------------------------------------------------------------------------
(***************************************************************************)
(* Boot, shutdown and crash; the initial state.                            *)
(***************************************************************************)

(* What is restored at boot: an object and a frame for each. *)
LEMMA RestoredFacts ==
    ASSUME NEW t \in Torrents, NEW s \in Sessions
    PROVE  LET o == [NewObject(t) EXCEPT !.ops = 1, !.timer = FALSE]
               k == [NoTask EXCEPT !.pc = "ready", !.s = s, !.torrent = t]
           IN  /\ o \in Object /\ o.torrent = t /\ o.live /\ o.stage = "opening" /\ o.ops = 1
               /\ k \in Task /\ k.pc = "ready" /\ k.s = s /\ k.torrent = t
<1>1. /\ NewObject(t) \in Object /\ NewObject(t).torrent = t /\ NewObject(t).live
      /\ NewObject(t).stage = "opening"
  BY EmptyTypes DEF NewObject, NoObject
<1>2. NoTask \in Task
  BY EmptyTypes
<1> QED BY <1>1, <1>2 DEF Object, Task

(* The process boots, with the preloads the tables ask for. *)
LEMMA BootKept ==
    ASSUME SInv, Boot
    PROVE  SInv'
<1>1. /\ phase = "down" /\ phase' = "up"
      /\ UNCHANGED <<database, disk, op, reader, saving, evict, drop, removal,
                     closeWait, closeSessions, gone>>
  BY DEF Boot
<1>2. PICK place \in [Restored -> Sessions \cap Preloads] :
        /\ \A t, u \in Restored : place[t] = place[u] => t = u
        /\ session' = [t \in Torrents |-> IF t \in Restored THEN place[t] ELSE NoSession]
        /\ obj' = [s \in Sessions |->
              IF \E t \in Restored : place[t] = s
              THEN [NewObject(CHOOSE t \in Restored : place[t] = s)
                        EXCEPT !.ops = 1, !.timer = FALSE]
              ELSE NoObject]
        /\ task' = [p \in Preloads |->
              IF \E t \in Restored : place[t] = p
              THEN [NoTask EXCEPT !.pc = "ready", !.s = p,
                        !.torrent = CHOOSE t \in Restored : place[t] = p]
              ELSE NoTask]
        /\ current' = [t \in Torrents |-> IF t \in Restored THEN place[t] ELSE NoPreload]
        /\ job' = [t \in Torrents |->
              IF t \in Restored THEN [state |-> "running", by |-> place[t]] ELSE NoJob]
  BY DEF Boot
<1>3. Restored \subseteq Torrents
  BY DEF Restored
<1>4. \A t \in Restored :
         /\ place[t] \in Sessions /\ place[t] \in Preloads /\ place[t] # NoSession
         /\ (CHOOSE u \in Restored : place[u] = place[t]) = t
  BY <1>2, Slots
<1>5. \A t \in Restored :
         LET o == obj'[place[t]]
             k == task'[place[t]]
         IN  /\ o \in Object /\ o.torrent = t /\ o.live /\ o.stage = "opening" /\ o.ops = 1
             /\ k \in Task /\ k.pc = "ready" /\ k.s = place[t] /\ k.torrent = t
  <2> SUFFICES ASSUME NEW t \in Restored
               PROVE  LET o == obj'[place[t]]
                          k == task'[place[t]]
                      IN  /\ o \in Object /\ o.torrent = t /\ o.live /\ o.stage = "opening" /\ o.ops = 1
                          /\ k \in Task /\ k.pc = "ready" /\ k.s = place[t] /\ k.torrent = t
    OBVIOUS
  <2>1. /\ obj'[place[t]] = [NewObject(t) EXCEPT !.ops = 1, !.timer = FALSE]
        /\ task'[place[t]] = [NoTask EXCEPT !.pc = "ready", !.s = place[t], !.torrent = t]
    BY <1>2, <1>4
  <2> DEFINE s == place[t]
             o == [NewObject(t) EXCEPT !.ops = 1, !.timer = FALSE]
             k == [NoTask EXCEPT !.pc = "ready", !.s = s, !.torrent = t]
  <2>2. s \in Sessions /\ t \in Torrents
    BY <1>3, <1>4
  <2>3. obj'[s] = o /\ task'[s] = k
    BY <2>1
  <2> HIDE DEF s
  <2>4. /\ o \in Object /\ o.torrent = t /\ o.live /\ o.stage = "opening" /\ o.ops = 1
        /\ k \in Task /\ k.pc = "ready" /\ k.s = s /\ k.torrent = t
    BY <2>2, RestoredFacts
  <2> HIDE DEF o, k
  <2> QED BY <2>3, <2>4 DEF s
<1>6. /\ \A s \in Sessions : (\E t \in Restored : place[t] = s) \/ obj'[s] = NoObject
      /\ \A p \in Preloads : (\E t \in Restored : place[t] = p) \/ task'[p] = NoTask
  BY <1>2
<1>7. \A t \in Torrents :
         /\ t \in Restored => session'[t] = place[t] /\ current'[t] = place[t]
         /\ t \notin Restored => session'[t] = NoSession /\ current'[t] = NoPreload
  BY <1>2
<1>8. /\ obj' \in [Sessions -> Object] /\ task' \in [Preloads -> Task]
  BY <1>2, <1>5, <1>6, EmptyTypes
<1>9. /\ session' \in [Torrents -> Sessions \cup {NoSession}]
      /\ current' \in [Torrents -> Preloads \cup {NoPreload}]
  BY <1>2, <1>4
<1>10. job' \in [Torrents -> Job]
  <2>1. \A t \in Restored : [state |-> "running", by |-> place[t]] \in Job
    BY <1>4 DEF Job
  <2> QED BY <1>2, <2>1, EmptyTypes
<1>11. TypeOK'
  BY <1>1, <1>8, <1>9, <1>10 DEF SInv, TypeOK, Phases, database
<1>12. ~NoObject.live /\ NoObject.ops = 0 /\ NoTask.s = NoSession /\ NoTask.torrent = NoTorrent
  BY DEF NoObject, NoTask
<1>13. SessionMap'
  <2>1. \A t \in Torrents : session'[t] # NoSession =>
            obj'[session'[t]].live /\ obj'[session'[t]].torrent = t
    BY <1>5, <1>7
  <2>2. \A s \in Sessions : obj'[s].live =>
            obj'[s].torrent \in Torrents /\ session'[obj'[s].torrent] = s
    BY <1>3, <1>5, <1>6, <1>7, <1>12
  <2>3. \A s \in Sessions : obj'[s].torrent \in Torrents \/ obj'[s] = NoObject
    BY <1>3, <1>5, <1>6
  <2>4. \A s \in Sessions : obj'[s].live /\ obj'[s].stage \in {"ready", "done"} =>
            disk'[obj'[s].torrent] <= obj'[s].has
    BY <1>5, <1>6, <1>12
  <2> QED BY <2>1, <2>2, <2>3, <2>4 DEF SessionMap
<1>14. Holders'
  <2>1. \A o \in Ops : op'[o] = op[o] /\ op[o] = NoOp /\ op[o].pc = "none" /\ op[o].s = NoSession
    BY <1>1 DEF SInv, Down, NoOp
  <2>2. \A o \in Ops : op'[o].pc = "none" <=> op'[o].s = NoSession
    BY <2>1
  <2>3. \A p \in Preloads :
            \/ task'[p] = NoTask
            \/ /\ task'[p].pc # "none" /\ task'[p].s \in Sessions /\ task'[p].torrent \in Torrents
               /\ obj'[task'[p].s].torrent = task'[p].torrent
    BY <1>3, <1>4, <1>5, <1>6
  <2>4. ASSUME NEW s \in Sessions
        PROVE  /\ IsFiniteSet(OpsOf(s)')
               /\ obj'[s].ops = Cardinality(OpsOf(s)') + Cardinality(TasksOf(s)')
    <3>1. OpsOf(s)' = {}
      BY <2>1, Slots DEF OpsOf
    <3>2. CASE \E t \in Restored : place[t] = s
      <4>1. PICK t \in Restored : place[t] = s
        BY <3>2
      <4>2. \A p \in Preloads : task'[p].s = s => p = s
        BY <1>4, <1>5, <1>6, <1>12, Slots
      <4>3. TasksOf(s)' = {s}
        BY <1>4, <1>5, <4>1, <4>2 DEF TasksOf
      <4>4. obj'[s].ops = 1
        BY <1>5, <4>1
      <4>5. Cardinality({s}) = 1 /\ IsFiniteSet({}) /\ Cardinality({}) = 0
        BY FS_EmptySet, FS_Singleton
      <4> QED BY <3>1, <4>3, <4>4, <4>5
    <3>3. CASE ~\E t \in Restored : place[t] = s
      <4>1. TasksOf(s)' = {}
        BY <1>4, <1>5, <1>6, <1>12, <3>3, Slots DEF TasksOf
      <4>2. obj'[s].ops = 0
        BY <1>6, <1>12, <3>3
      <4> QED BY <3>1, <4>1, <4>2, FS_EmptySet
    <3> QED BY <3>2, <3>3
  <2>5. \A t \in Torrents : current'[t] # NoPreload => task'[current'[t]].torrent = t
    BY <1>5, <1>7
  <2>6. \A t \in Torrents : drop'[t].pc # "saving"
    BY <1>1 DEF SInv, Down, NoDrop
  <2>7. closeSessions' = {}
    BY <1>1 DEF SInv, Down
  <2> QED BY <2>2, <2>3, <2>4, <2>5, <2>6, <2>7 DEF Holders
<1>15. Distinct(cache')
  BY <1>1 DEF SInv, OneRow, database
<1> QED BY <1>1, <1>11, <1>13, <1>14, <1>15, StepKept

(* A process without memory holds nothing. *)
Empty ==
    /\ phase = "down"
    /\ session = [t \in Torrents |-> NoSession]
    /\ obj = [s \in Sessions |-> NoObject]
    /\ op = [o \in Ops |-> NoOp]
    /\ reader = [r \in Readers |-> NoReader]
    /\ saving = {}
    /\ evict = [t \in Torrents |-> "none"]
    /\ drop = [t \in Torrents |-> NoDrop]
    /\ task = [p \in Preloads |-> NoTask]
    /\ current = [t \in Torrents |-> NoPreload]
    /\ job = [t \in Torrents |-> NoJob]
    /\ removal = [t \in Torrents |-> "none"]
    /\ closeWait = {}
    /\ closeSessions = {}
Catalogue ==
    /\ history \subseteq Torrents
    /\ registration \in [Torrents -> {"none", "plain", "background"}]
    /\ metadata \in [Torrents -> {"none", "partial", "completed"}]
    /\ cache \in Seq(Row)
    /\ disk \in [Torrents -> 0..Pieces]
    /\ gone \subseteq Torrents

(* With empty memory the invariant asks only for sound tables. *)
LEMMA EmptySound ==
    ASSUME Empty, Catalogue, OneRow
    PROVE  SInv
<1> USE DEF Empty
<1>1. TypeOK
  BY EmptyTypes DEF TypeOK, Catalogue, Phases, RemovalPcs
<1>2. /\ ~NoObject.live /\ NoObject.ops = 0 /\ NoTask.s = NoSession /\ NoDrop.pc = "none"
      /\ NoOp.pc = "none" /\ NoOp.s = NoSession
  BY DEF NoObject, NoTask, NoDrop, NoOp
<1>3. SessionMap
  BY <1>2 DEF SessionMap
<1>4. \A s \in Sessions : OpsOf(s) = {} /\ TasksOf(s) = {}
  BY <1>2, Slots DEF OpsOf, TasksOf
<1>5. \A s \in Sessions : /\ IsFiniteSet(OpsOf(s))
                          /\ obj[s].ops = Cardinality(OpsOf(s)) + Cardinality(TasksOf(s))
  BY <1>2, <1>4, FS_EmptySet
<1>6. Holders
  BY <1>2, <1>5 DEF Holders
<1>7. Down
  BY DEF Down
<1> QED BY <1>1, <1>3, <1>6, <1>7 DEF SInv

(* The same of the next state. *)
LEMMA EmptyNext == Empty' /\ Catalogue' /\ OneRow' => SInv'
BY EmptySound, PTL

(* The process ends. *)
LEMMA MemoryLostKept ==
    ASSUME SInv, MemoryLost
    PROVE  SInv'
<1>1. Empty'
  BY DEF MemoryLost, Empty
<1>2. Catalogue' /\ OneRow'
  BY DEF MemoryLost, database, Catalogue, OneRow, SInv, TypeOK
<1> QED BY <1>1, <1>2, EmptyNext

(* The rows of what is stored before the first boot. *)
LEMMA InitKept == Init => SInv
<1> SUFFICES ASSUME Init PROVE SInv
  OBVIOUS
<1> DEFINE n == Cardinality(Stored)
           e == SetToSeq(Stored)
<1>1. IsFiniteSet(Stored) /\ Stored \subseteq Torrents
  BY StoredAssumption, FS_Subset
<1>2. n \in Nat /\ \E f \in [1 .. n -> Stored] : IsInjective(f)
  <2>1. n \in Nat /\ ExistsBijection(1 .. n, Stored)
    BY <1>1, FS_CardinalityType
  <2> QED BY <2>1 DEF ExistsBijection, Bijection, Injection
<1>3. e \in [1 .. n -> Stored] /\ IsInjective(e)
  BY <1>2 DEF SetToSeq
<1> HIDE DEF e, n
<1>4. cache = [i \in 1 .. n |-> [torrent |-> e[i], bytes |-> Pieces, completed |-> TRUE]]
  BY DEF Init, e, n
<1>5. Pieces \in 0 .. Pieces /\ 0 \in 0 .. Pieces
  BY PiecesAssumption
<1>6. \A i \in 1 .. n : [torrent |-> e[i], bytes |-> Pieces, completed |-> TRUE] \in Row
  BY <1>1, <1>3, <1>5 DEF Row
<1>7. cache \in [1 .. n -> Row]
  BY <1>4, <1>6
<1>8. cache \in Seq(Row)
  BY <1>2, <1>7
<1>9. OneRow
  <2>1. DOMAIN cache = 1 .. n /\ \A i \in 1 .. n : cache[i].torrent = e[i]
    BY <1>4
  <2> QED BY <1>3, <2>1 DEF OneRow, Distinct, IsInjective
<1>10. Catalogue
  BY <1>1, <1>5, <1>8 DEF Catalogue, Init
<1>11. Empty
  BY DEF Empty, Init
<1> QED BY <1>9, <1>10, <1>11, EmptySound

(* Every step keeps the invariant. *)
LEMMA NextKept == SInv /\ [Next]_vars => SInv'
<1> SUFFICES ASSUME SInv, [Next]_vars PROVE SInv'
  OBVIOUS
<1>1. CASE Boot
  BY <1>1, BootKept
<1>2. CASE Api
  BY <1>2, RegisterKept, StartPreloadKept, RemovalStartsKept, RequestKept, OpenReaderKept DEF Api
<1>3. CASE Environment
  BY <1>3, MetadataEventKept, ReadyEventKept, DownloadKept, TorrentFailsKept, AnswerKept,
     ValidateKept, CloseKept, MemoryLostKept DEF Environment, Crash
<1>4. CASE Internal
  <2>1. ASSUME NEW t \in Torrents, EvictSteps(t) \/ SaveSteps(t) PROVE SInv'
    BY <2>1, EvictDeleteKept, EvictRecordKept, StateSavedKept, StateNotSavedKept
       DEF EvictSteps, SaveSteps
  <2>2. ASSUME NEW t \in Torrents, DropSteps(t) PROVE SInv'
    BY <2>2, DropMeasuredKept, DropWipedKept, DropDoneKept DEF DropSteps
  <2>3. ASSUME NEW t \in Torrents, RemovalSteps(t) PROVE SInv'
    BY <2>3, RemovalStartsKept, RemovalAbortsKept, RemovalDisconnectsKept, RemovalDeletesKept,
       RemovalForgetsKept DEF RemovalSteps
  <2>4. ASSUME NEW p \in Preloads, PreloadSteps(p) PROVE SInv'
    BY <2>4, PreloadReadyKept, PreloadConsumedKept, PreloadMeasuredKept, PreloadEndsKept
       DEF PreloadSteps
  <2>5. ASSUME NEW s \in Sessions, SessionSteps(s) PROVE SInv'
    BY <2>5, DoneEventKept, CompletionMeasuredKept DEF SessionSteps
  <2>6. CASE CloseSteps
    BY <2>6, CloseAwaitsKept, CloseSavesKept, CloseDestroysKept, CloseRecordsKept,
       ClosePrunesKept, MemoryLostKept DEF CloseSteps, Exit
  <2> QED BY <1>4, <2>1, <2>2, <2>3, <2>4, <2>5, <2>6 DEF Internal
<1>5. CASE Timers
  BY <1>5, IdleTimerKept DEF Timers
<1>6. CASE Clients
  BY <1>6, EndRequestKept, CloseReaderKept DEF Clients
<1>7. CASE UNCHANGED vars
  <2>1. UNCHANGED <<history, registration, metadata, cache, disk, session, obj, op, reader, saving,
                    evict, drop, task, current, job, removal, phase, closeWait, closeSessions, gone>>
    BY <1>7 DEF vars, database, preloading, shutdown
  <2>2. TypeOK'
    BY <2>1 DEF SInv, TypeOK
  <2>3. SessionMap' /\ Holders'
    <3>1. \A s \in Sessions : OpsOf(s)' = OpsOf(s) /\ TasksOf(s)' = TasksOf(s)
      BY <2>1 DEF OpsOf, TasksOf
    <3> QED BY <2>1, <3>1 DEF SInv, SessionMap, Holders
  <2>4. OneRow' /\ Down'
    BY <2>1 DEF SInv, OneRow, Down
  <2> QED BY <2>2, <2>3, <2>4 DEF SInv
<1> QED BY <1>1, <1>2, <1>3, <1>4, <1>5, <1>6, <1>7 DEF Next

(* The inductive invariant of sessions holds in every reachable state. *)
THEOREM SessionInvariance == Spec => []SInv
<1>1. Init => SInv
  BY InitKept
<1>2. SInv /\ [Next]_vars => SInv'
  BY NextKept
<1> QED BY <1>1, <1>2, PTL DEF Spec

(* The session map, the torrents of the client and the counts of operations agree, *)
(* whatever fails or is closed under the requests and preloads that hold a session *)
(* (createSession, acquireByInfoHash, release and the close event of a torrent).   *)
THEOREM SessionsAreSound == Spec => []SessionsSound
<1>1. SInv => SessionsSound
  <2> SUFFICES ASSUME SInv PROVE SessionsMatchTorrents /\ OperationsCounted
    BY DEF SInv, SessionsSound
  <2>1. SessionsMatchTorrents
    <3>1. ASSUME NEW s \in Sessions, obj[s].live
          PROVE  \E t \in Torrents : session[t] = s /\ obj[s].torrent = t
      BY <3>1 DEF SInv, SessionMap
    <3>2. ASSUME NEW s \in Sessions, NEW t \in Torrents, session[t] = s
          PROVE  obj[s].live
      BY <3>2, Slots DEF SInv, SessionMap
    <3> QED BY <3>1, <3>2 DEF SessionsMatchTorrents
  <2>2. OperationsCounted
    BY DEF OperationsCounted, SInv, Holders, OpsOf, TasksOf
  <2> QED BY <2>1, <2>2
<1> QED BY <1>1, SessionInvariance, PTL

-----------------------------------------------------------------------------
(***************************************************************************)
(* Direct readers keep their files.                                        *)
(***************************************************************************)

LEMMA ReadersUnmoved ==
    ASSUME ReaderInv, UNCHANGED <<reader, evict, removal>>
    PROVE  ReaderInv'
BY DEF ReaderInv, ReadersKeepFiles

(* Nobody reads what a prune chooses. *)
LEMMA PruneSpares ==
    ASSUME SInv, ReaderInv, NEW rows \in Seq(Row), Prune(Victims(rows, Reading)),
           UNCHANGED <<reader, removal>>
    PROVE  ReaderInv'
<1> SUFFICES ASSUME NEW r \in Readers, reader[r].pc # "none"
             PROVE  evict'[reader[r].torrent] = "none"
  BY DEF ReaderInv, ReadersKeepFiles
<1>1. reader[r].torrent \in Torrents /\ evict[reader[r].torrent] = "none"
  BY DEF ReaderInv, ReadersKeepFiles
<1>2. reader[r].torrent \in Reading
  BY <1>1, NoTorrentAssumption DEF Reading
<1>3. reader[r].torrent \in Spared(Reading)
  BY <1>1, <1>2 DEF Spared
<1>4. reader[r].torrent \notin Victims(rows, Reading)
  BY <1>3, VictimsFacts
<1> QED BY <1>1, <1>4 DEF Prune

(* A removal goes on; files are deleted only where nobody reads. *)
LEMMA RemovalSpares ==
    ASSUME SInv, ReaderInv, NEW t \in Torrents, NEW pc,
           pc \in {"rm", "row"} => removal[t] \in {"rm", "row"} \/ ReadersOf(t) = {},
           removal' = [removal EXCEPT ![t] = pc], UNCHANGED <<reader, evict>>
    PROVE  ReaderInv'
<1> SUFFICES ASSUME NEW r \in Readers, reader[r].pc # "none"
             PROVE  removal'[reader[r].torrent] \notin {"rm", "row"}
  BY DEF ReaderInv, ReadersKeepFiles
<1>1. /\ reader[r].torrent \in Torrents
      /\ removal[reader[r].torrent] \notin {"rm", "row"}
  BY DEF ReaderInv, ReadersKeepFiles
<1>2. r \in ReadersOf(reader[r].torrent)
  BY DEF ReadersOf
<1>3. removal \in [Torrents -> RemovalPcs]
  BY DEF SInv, TypeOK
<1> QED BY <1>1, <1>2, <1>3

(* A process that ends takes its readers along. *)
LEMMA MemoryLostReaders ==
    ASSUME MemoryLost
    PROVE  ReaderInv'
BY NoTorrentAssumption DEF MemoryLost, ReaderInv, ReadersKeepFiles, NoReader

(* Every step keeps readers and deletions apart. *)
LEMMA ReadersKept == SInv /\ ReaderInv /\ [Next]_vars => ReaderInv'
<1> SUFFICES ASSUME SInv, ReaderInv, [Next]_vars PROVE ReaderInv'
  OBVIOUS
<1>1. CASE Boot
  BY <1>1, ReadersUnmoved DEF Boot
<1>2. CASE Api
  <2>1. ASSUME NEW t \in Torrents, NEW b \in BOOLEAN, Register(t, b) PROVE ReaderInv'
    BY <2>1, ReadersUnmoved DEF Register
  <2>2. ASSUME NEW t \in Torrents, StartPreload(t) PROVE ReaderInv'
    BY <2>2, ReadersUnmoved DEF StartPreload
  <2>3. ASSUME NEW t \in Torrents, RemoveTorrent(t) PROVE ReaderInv'
    BY <2>3, RemovalSpares DEF RemoveTorrent
  <2>4. ASSUME NEW o \in Ops, NEW t \in Torrents, NEW x, Request(o, t, x) PROVE ReaderInv'
    BY <2>4, ReadersUnmoved DEF Request
  <2>5. ASSUME NEW r \in Readers, NEW t \in Torrents, OpenReader(r, t) PROVE ReaderInv'
    <3>1. /\ evict[t] = "none" /\ removal[t] = "none" /\ UNCHANGED <<evict, removal>>
          /\ reader' = [reader EXCEPT ![r] = [pc |-> "validating", torrent |-> t]]
          /\ reader \in [Readers -> Reader]
      BY <2>5 DEF OpenReader, CanRead, Accepts, SInv, TypeOK
    <3> QED BY <3>1 DEF ReaderInv, ReadersKeepFiles
  <2> QED BY <1>2, <2>1, <2>2, <2>3, <2>4, <2>5 DEF Api
<1>3. CASE Environment
  <2>1. ASSUME NEW s \in Sessions, MetadataEvent(s) \/ ReadyEvent(s) \/ Download(s) \/ TorrentFails(s)
        PROVE  ReaderInv'
    BY <2>1, ReadersUnmoved DEF MetadataEvent, ReadyEvent, Download, TorrentFails
  <2>2. ASSUME NEW o \in Ops, Answer(o) PROVE ReaderInv'
    BY <2>2, ReadersUnmoved DEF Answer
  <2>3. ASSUME NEW r \in Readers, Validate(r) PROVE ReaderInv'
    <3> DEFINE x == [reader[r] EXCEPT !.pc = "open"]
    <3>1. /\ reader[r].pc = "validating" /\ UNCHANGED <<evict, removal>>
          /\ reader \in [Readers -> Reader] /\ reader[r] \in Reader
          /\ reader' = [reader EXCEPT ![r] = x]
      BY <2>3 DEF Validate, SInv, TypeOK
    <3>2. x.torrent = reader[r].torrent /\ x.pc = "open"
      BY <3>1 DEF Reader
    <3> HIDE DEF x
    <3>3. \A q \in Readers : /\ reader'[q].torrent = reader[q].torrent
                             /\ reader'[q].pc # "none" <=> reader[q].pc # "none"
      BY <3>1, <3>2
    <3> QED BY <3>1, <3>3 DEF ReaderInv, ReadersKeepFiles
  <2>4. CASE Close
    BY <2>4, ReadersUnmoved DEF Close
  <2>5. CASE Crash
    BY <2>5, MemoryLostReaders DEF Crash
  <2> QED BY <1>3, <2>1, <2>2, <2>3, <2>4, <2>5 DEF Environment
<1>4. CASE Internal
  <2>1. ASSUME NEW t \in Torrents, EvictSteps(t) PROVE ReaderInv'
    <3>1. /\ evict' = [evict EXCEPT ![t] = "row"] /\ evict[t] = "rm"
          \/ evict' = [evict EXCEPT ![t] = "none"]
      BY <2>1 DEF EvictSteps, EvictDelete, EvictRecord
    <3>2. UNCHANGED <<reader, removal>>
      BY <2>1 DEF EvictSteps, EvictDelete, EvictRecord
    <3> QED BY <3>1, <3>2 DEF ReaderInv, ReadersKeepFiles, SInv, TypeOK
  <2>2. ASSUME NEW t \in Torrents, SaveSteps(t) PROVE ReaderInv'
    <3>1. CASE StateSaved(t)
      BY <3>1, ReadersUnmoved DEF StateSaved
    <3>2. CASE StateNotSaved(t)
      <4>1. PICK pc : removal' = [removal EXCEPT ![t] = pc] /\ (pc = "none" \/ pc = removal[t])
        BY <3>2 DEF StateNotSaved
      <4> QED BY <3>2, <4>1, RemovalSpares DEF StateNotSaved
    <3> QED BY <2>2, <3>1, <3>2 DEF SaveSteps
  <2>3. ASSUME NEW t \in Torrents, DropSteps(t) PROVE ReaderInv'
    <3>1. CASE DropMeasured(t)
      <4>1. RecordCache(cache, t, disk[t], drop[t].completed) \in Seq(Row)
        BY RecordFacts, FrameFields DEF SInv, TypeOK, OneRow
      <4>2. UNCHANGED <<reader, removal>>
        BY <3>1 DEF DropMeasured
      <4>3. \/ Prune(Victims(RecordCache(cache, t, disk[t], drop[t].completed), Reading))
            \/ UNCHANGED evict
        BY <3>1 DEF DropMeasured
      <4> QED BY <4>1, <4>2, <4>3, PruneSpares, ReadersUnmoved
    <3>2. CASE DropWiped(t)
      BY <3>2, PruneSpares DEF DropWiped, SInv, TypeOK
    <3>3. CASE DropDone(t)
      BY <3>3, ReadersUnmoved DEF DropDone
    <3> QED BY <2>3, <3>1, <3>2, <3>3 DEF DropSteps
  <2>4. ASSUME NEW t \in Torrents, RemovalSteps(t) PROVE ReaderInv'
    <3>1. UNCHANGED <<reader, evict>>
      BY <2>4 DEF RemovalSteps, RemovalPrepared, RemovalAwaits, RemovalAborts, RemovalDisconnects,
                  RemovalDeletes, RemovalForgets
    <3>2. CASE RemovalAwaits(t)
      <4>1. removal' = [removal EXCEPT ![t] = NextAwait[removal[t]]]
        BY <3>2 DEF RemovalAwaits
      <4>2. NextAwait[removal[t]] \in {"rm", "row"} => ReadersOf(t) = {}
        BY <3>2, NextAwaits DEF RemovalAwaits, Settled
      <4> QED BY <3>1, <4>1, <4>2, RemovalSpares
    <3>3. CASE RemovalDeletes(t)
      BY <3>1, <3>3, RemovalSpares DEF RemovalDeletes
    <3>4. CASE RemovalPrepared(t) \/ RemovalAborts(t) \/ RemovalDisconnects(t) \/ RemovalForgets(t)
      <4>1. PICK pc \in {"evict", "none", "preload", "readers"} : removal' = [removal EXCEPT ![t] = pc]
        BY <3>4 DEF RemovalPrepared, RemovalAborts, RemovalDisconnects, RemovalForgets
      <4> QED BY <3>1, <4>1, RemovalSpares
    <3> QED BY <2>4, <3>2, <3>3, <3>4 DEF RemovalSteps
  <2>5. ASSUME NEW p \in Preloads, PreloadSteps(p) PROVE ReaderInv'
    <3>1. CASE PreloadMeasured(p)
      <4> DEFINE t == task[p].torrent
      <4>1. t \in Torrents
        BY <3>1 DEF PreloadMeasured, SInv, TypeOK
      <4>2. RecordCache(cache, t, disk[t], TRUE) \in Seq(Row)
        BY <4>1, RecordFacts DEF SInv, TypeOK, OneRow
      <4> QED BY <3>1, <4>2, PruneSpares DEF PreloadMeasured
    <3>2. CASE ~PreloadMeasured(p)
      BY <2>5, <3>2, ReadersUnmoved
         DEF PreloadSteps, PreloadReady, PreloadConsumed, PreloadGivesUp, PreloadFails,
             PreloadUnrecorded, PreloadCompletes
    <3> QED BY <3>1, <3>2
  <2>6. ASSUME NEW s \in Sessions, SessionSteps(s) PROVE ReaderInv'
    BY <2>6, ReadersUnmoved DEF SessionSteps, DoneEvent, CompletionMeasured
  <2>7. CASE CloseSteps
    <3>1. CASE ClosePrunes
      BY <3>1, PruneSpares DEF ClosePrunes, SInv, TypeOK
    <3>2. CASE Exit
      BY <3>2, MemoryLostReaders DEF Exit
    <3>3. CASE CloseAwaits \/ CloseSaves \/ CloseDestroys \/ ClosePreloads
               \/ \E s \in Sessions : CloseRecords(s)
      BY <3>3, ReadersUnmoved
         DEF CloseAwaits, CloseSaves, CloseDestroys, ClosePreloads, CloseRecords
    <3> QED BY <2>7, <3>1, <3>2, <3>3 DEF CloseSteps
  <2> QED BY <1>4, <2>1, <2>2, <2>3, <2>4, <2>5, <2>6, <2>7 DEF Internal
<1>5. CASE Timers
  BY <1>5, ReadersUnmoved DEF Timers, IdleTimer
<1>6. CASE Clients
  <2>1. ASSUME NEW o \in Ops, EndRequest(o) PROVE ReaderInv'
    BY <2>1, ReadersUnmoved DEF EndRequest
  <2>2. ASSUME NEW r \in Readers, CloseReader(r) PROVE ReaderInv'
    <3> DEFINE others == {reader[q].torrent : q \in Readers \ {r}}
               victims == Victims(cache, others)
    <3>1. /\ reader' = [reader EXCEPT ![r] = NoReader] /\ removal' = removal
          /\ Prune({}) \/ Prune(victims)
          /\ reader \in [Readers -> Reader]
      BY <2>2 DEF CloseReader, SInv, TypeOK
    <3>2. NoReader.pc = "none" /\ NoReader.torrent = NoTorrent
      BY DEF NoReader
    <3>3. \A q \in Readers : q # r /\ reader[q].pc # "none" =>
              /\ reader[q].torrent \in Torrents
              /\ reader[q].torrent \notin victims /\ evict[reader[q].torrent] = "none"
              /\ removal[reader[q].torrent] \notin {"rm", "row"}
      <4> SUFFICES ASSUME NEW q \in Readers, q # r, reader[q].pc # "none"
                   PROVE  /\ reader[q].torrent \in Torrents
                          /\ reader[q].torrent \notin victims /\ evict[reader[q].torrent] = "none"
                          /\ removal[reader[q].torrent] \notin {"rm", "row"}
        OBVIOUS
      <4>1. /\ reader[q].torrent \in Torrents /\ evict[reader[q].torrent] = "none"
            /\ removal[reader[q].torrent] \notin {"rm", "row"}
        BY DEF ReaderInv, ReadersKeepFiles
      <4>2. reader[q].torrent \in Spared(others)
        BY <4>1 DEF Spared
      <4>3. cache \in Seq(Row)
        BY DEF SInv, TypeOK
      <4> QED BY <4>1, <4>2, <4>3, VictimsFacts
    <3> HIDE DEF victims
    <3>4. \A t \in Torrents : t \notin victims => evict'[t] = evict[t]
      BY <3>1 DEF Prune
    <3> QED BY <3>1, <3>2, <3>3, <3>4, NoTorrentAssumption DEF ReaderInv, ReadersKeepFiles
  <2> QED BY <1>6, <2>1, <2>2 DEF Clients
<1>7. CASE UNCHANGED vars
  BY <1>7, ReadersUnmoved DEF vars
<1> QED BY <1>1, <1>2, <1>3, <1>4, <1>5, <1>6, <1>7 DEF Next

(* An eviction or a removal never deletes the files a direct reader validates or *)
(* streams (pruneCache, performReservedRemoval, acquireDirectCacheReader).       *)
THEOREM ReadersAreSafe == Spec => []ReadersKeepFiles
<1>1. Init => ReaderInv
  BY NoTorrentAssumption DEF Init, ReaderInv, ReadersKeepFiles, NoReader
<1>2. ReaderInv => ReadersKeepFiles
  BY DEF ReaderInv
<1> QED BY <1>1, <1>2, SessionInvariance, ReadersKept, PTL DEF Spec


-----------------------------------------------------------------------------
(***************************************************************************)
(* A removed torrent stays removed.                                        *)
(***************************************************************************)

LEMMA RemovedUnmoved ==
    ASSUME RemovalInv, gone' \subseteq gone,
           UNCHANGED <<history, registration, metadata, cache, disk, session, job, removal>>
    PROVE  RemovalInv'
BY DEF RemovalInv, RemovedMeansGone

(* Of a removed torrent nothing is there to be changed. *)
LEMMA GoneFacts ==
    ASSUME SInv, RemovalInv, NEW t \in gone
    PROVE  /\ t \in Torrents /\ t \notin history /\ metadata[t] = "none" /\ registration[t] = "none"
           /\ ~Has(cache, t) /\ disk[t] = 0 /\ session[t] = NoSession /\ job[t] = NoJob
           /\ \A s \in Sessions : obj[s].live => obj[s].torrent # t
BY Slots DEF RemovalInv, RemovedMeansGone, SInv, TypeOK, SessionMap

(* The catalogue changes, and has nothing of a removed torrent. *)
LEMMA CatalogueStays ==
    ASSUME SInv, RemovalInv, UNCHANGED <<disk, session, job, removal>>,
           registration' = registration, gone' = gone,
           \A t \in gone : t \notin history' /\ metadata'[t] = "none" /\ ~Has(cache', t)
    PROVE  RemovalInv'
<1>1. \A t \in gone : registration[t] = "none" /\ disk[t] = 0 /\ session[t] = NoSession /\ job[t] = NoJob
  BY GoneFacts
<1> QED BY <1>1 DEF RemovalInv, RemovedMeansGone

(* Sessions close, files are deleted, preloads end. *)
LEMMA ThingsEnd ==
    ASSUME SInv, RemovalInv, UNCHANGED <<database, gone>>,
           \A t \in Torrents : removal'[t] # removal[t] =>
               /\ removal'[t] \in {"readers", "rm", "row"} => session'[t] = NoSession
               /\ removal'[t] = "row" => disk'[t] = 0,
           \A t \in Torrents : session[t] = NoSession => session'[t] = NoSession,
           \A t \in Torrents : disk[t] = 0 /\ session[t] = NoSession => disk'[t] = 0,
           \A t \in Torrents : job[t] = NoJob => job'[t] = NoJob
    PROVE  RemovalInv'
<1>1. \A t \in gone : /\ t \in Torrents /\ t \notin history /\ metadata[t] = "none"
                      /\ registration[t] = "none" /\ ~Has(cache, t)
                      /\ disk'[t] = 0 /\ session'[t] = NoSession /\ job'[t] = NoJob
  BY GoneFacts
<1>2. RemovedMeansGone'
  BY <1>1 DEF RemovedMeansGone, database
<1>3. \A t \in Torrents : /\ removal'[t] \in {"readers", "rm", "row"} => session'[t] = NoSession
                          /\ removal'[t] = "row" => disk'[t] = 0
  BY DEF RemovalInv
<1> QED BY <1>2, <1>3 DEF RemovalInv

(* A session is opened only for a torrent that no removal has reserved, and asked for *)
(* again.                                                                             *)
LEMMA OpenedRemoval ==
    ASSUME SInv, RemovalInv, NEW t \in Torrents, removal[t] = "none", gone' = gone \ {t},
           UNCHANGED <<metadata, cache, disk, removal>>,
           history' = history \/ history' = history \cup {t},
           \A u \in Torrents \ {t} : /\ registration'[u] = registration[u]
                                     /\ session'[u] = session[u] /\ job'[u] = job[u]
    PROVE  RemovalInv'
<1>1. \A u \in gone' :
        /\ u \in Torrents \ {t} /\ u \notin history /\ metadata[u] = "none"
        /\ registration[u] = "none" /\ ~Has(cache, u)
        /\ disk[u] = 0 /\ session[u] = NoSession /\ job[u] = NoJob
  BY GoneFacts
<1>2. RemovedMeansGone'
  BY <1>1 DEF RemovedMeansGone
<1> QED BY <1>2 DEF RemovalInv

(* A preload that begins touches its own torrent only. *)
LEMMA BegunRemoval ==
    ASSUME SInv, NEW t \in Torrents, BeginPreload(t)
    PROVE  \A u \in Torrents \ {t} : session'[u] = session[u] /\ job'[u] = job[u]
<1>1. session' = [session EXCEPT ![t] = SessionOf(t)]
  BY DEF BeginPreload, Acquire
<1>2. PICK p \in Preloads : job' = [job EXCEPT ![t] = [state |-> "running", by |-> p]]
  BY DEF BeginPreload
<1>3. session \in [Torrents -> Sessions \cup {NoSession}] /\ job \in [Torrents -> Job]
  BY DEF SInv, TypeOK
<1> QED BY <1>1, <1>2, <1>3

(* The status of a preload that the job map has dropped does not come back. *)
LEMMA EndedStatus ==
    ASSUME SInv, RemovalInv, NEW p \in Preloads, NEW state, EndPreload(p, state),
           UNCHANGED <<database, disk, session, removal, gone>>
    PROVE  RemovalInv'
<1>1. NoJob.by \notin Preloads
  BY Slots DEF NoJob
<1>2. \A t \in Torrents : job[t] = NoJob => job'[t] = NoJob
  BY <1>1 DEF EndPreload, SInv, TypeOK
<1> QED BY <1>2, ThingsEnd

(* A process that ends brings nothing back. *)
LEMMA MemoryLostRemoval ==
    ASSUME SInv, RemovalInv, MemoryLost
    PROVE  RemovalInv'
<1>1. \A t \in Torrents : session'[t] = NoSession /\ job'[t] = NoJob /\ removal'[t] = "none"
  BY DEF MemoryLost
<1>2. UNCHANGED <<database, disk, gone>>
  BY DEF MemoryLost
<1> QED BY <1>1, <1>2, ThingsEnd

(* Rows are recorded where the catalogue knows the torrent. *)
LEMMA RecordedRemoval ==
    ASSUME SInv, RemovalInv, NEW t \in Torrents, NEW completed \in BOOLEAN,
           t \in history \/ metadata[t] # "none",
           cache' = RecordCache(cache, t, disk[t], completed),
           UNCHANGED <<history, registration, metadata, disk, session, job, removal, gone>>
    PROVE  RemovalInv'
<1>1. \A u : Has(cache', u) => u = t \/ Has(cache, u)
  BY RecordFacts DEF SInv, TypeOK, OneRow
<1> HIDE DEF RecordCache
<1>2. \A u \in gone : u \notin history /\ metadata[u] = "none" /\ ~Has(cache, u) /\ u # t
  BY GoneFacts
<1> QED BY <1>1, <1>2, CatalogueStays

(* Touching a row, or dropping one, brings no row back. *)
LEMMA TouchedRemoval ==
    ASSUME SInv, RemovalInv, NEW t, cache' = Touch(cache, t) \/ cache' = Without(cache, t),
           UNCHANGED <<history, registration, metadata, disk, session, job, removal, gone>>
    PROVE  RemovalInv'
<1>1. \A u : Has(cache', u) => Has(cache, u)
  BY TouchFacts, WithoutFacts DEF SInv, TypeOK, OneRow
<1>2. \A u \in gone : u \notin history /\ metadata[u] = "none" /\ ~Has(cache, u)
  BY GoneFacts
<1> QED BY <1>1, <1>2, CatalogueStays

(* Every step leaves removed torrents gone. *)
LEMMA RemovedKept == SInv /\ RemovalInv /\ [Next]_vars => RemovalInv'
<1> SUFFICES ASSUME SInv, RemovalInv, [Next]_vars PROVE RemovalInv'
  OBVIOUS
<1>1. CASE Boot
  <2>1. \A t \in gone : t \in Torrents /\ t \notin Restored
    BY GoneFacts DEF Restored
  <2>2. /\ \A t \in Torrents : t \notin Restored => session'[t] = NoSession /\ job'[t] = NoJob
        /\ \A t \in Torrents : removal'[t] = "none"
        /\ UNCHANGED <<database, disk, gone>>
    BY <1>1 DEF Boot, SInv, Down
  <2>3. \A t \in gone : /\ t \notin history /\ metadata[t] = "none" /\ registration[t] = "none"
                        /\ ~Has(cache, t) /\ disk[t] = 0
    BY GoneFacts
  <2> QED BY <2>1, <2>2, <2>3 DEF RemovalInv, RemovedMeansGone, database
<1>2. CASE Api
  <2>1. ASSUME NEW t \in Torrents, NEW b \in BOOLEAN, Register(t, b) PROVE RemovalInv'
    <3>1. /\ removal[t] = "none" /\ gone' = gone \ {t} /\ history' = history \cup {t}
          /\ UNCHANGED <<metadata, cache, disk, removal>>
          /\ registration' = [registration EXCEPT ![t] = IF b THEN "background" ELSE "plain"]
      BY <2>1 DEF Register, Accepts, RecordRegistration
    <3>2. \A u \in Torrents \ {t} : registration'[u] = registration[u]
      BY <3>1 DEF SInv, TypeOK
    <3>3. \A u \in Torrents \ {t} : session'[u] = session[u] /\ job'[u] = job[u]
      <4>1. CASE BeginPreload(t)
        BY <4>1, BegunRemoval
      <4>2. CASE CreateSession(t) /\ UNCHANGED preloading
        BY <4>2 DEF CreateSession, preloading, SInv, TypeOK
      <4>3. CASE UNCHANGED <<session, preloading>>
        BY <4>3 DEF preloading
      <4> QED BY <2>1, <4>1, <4>2, <4>3 DEF Register
    <3> QED BY <3>1, <3>2, <3>3, OpenedRemoval
  <2>2. ASSUME NEW t \in Torrents, StartPreload(t) PROVE RemovalInv'
    <3>1. /\ removal[t] = "none" /\ gone' = gone \ {t} /\ BeginPreload(t)
          /\ UNCHANGED <<history, registration, metadata, cache, disk, removal>>
      BY <2>2 DEF StartPreload, Accepts, database
    <3> QED BY <3>1, BegunRemoval, OpenedRemoval
  <2>3. ASSUME NEW t \in Torrents, RemoveTorrent(t) PROVE RemovalInv'
    <3>1. /\ removal' = [removal EXCEPT ![t] = "before"]
          /\ UNCHANGED <<database, disk, session, job, gone>>
      BY <2>3 DEF RemoveTorrent, preloading
    <3> QED BY <3>1, ThingsEnd DEF SInv, TypeOK
  <2>4. ASSUME NEW o \in Ops, NEW t \in Torrents, NEW x, Request(o, t, x) PROVE RemovalInv'
    <3>1. /\ removal[t] = "none" /\ gone' = gone \ {t}
          /\ session' = [session EXCEPT ![t] = SessionOf(t)]
          /\ UNCHANGED <<history, registration, metadata, cache, disk, job, removal>>
      BY <2>4 DEF Request, Accepts, Acquire, database, preloading
    <3>2. \A u \in Torrents \ {t} : session'[u] = session[u]
      BY <3>1 DEF SInv, TypeOK
    <3> QED BY <3>1, <3>2, OpenedRemoval
  <2>5. ASSUME NEW r \in Readers, NEW t \in Torrents, OpenReader(r, t) PROVE RemovalInv'
    BY <2>5, RemovedUnmoved DEF OpenReader, database, preloading
  <2> QED BY <1>2, <2>1, <2>2, <2>3, <2>4, <2>5 DEF Api
<1>3. CASE Environment
  <2>1. ASSUME NEW s \in Sessions, MetadataEvent(s) PROVE RemovalInv'
    <3> DEFINE u == obj[s].torrent
    <3>1. /\ obj[s].live
          /\ UNCHANGED <<registration, cache, disk, session, job, removal, gone>>
          /\ \/ UNCHANGED <<history, metadata>>
             \/ history' = history \cup {u}
                /\ metadata' = [metadata EXCEPT ![u] = IF @ = "none" THEN "partial" ELSE @]
      BY <2>1 DEF MetadataEvent, Live, UpsertTorrent, preloading
    <3>2. \A t \in gone : /\ t # u /\ t \in Torrents
                          /\ t \notin history /\ metadata[t] = "none" /\ ~Has(cache, t)
      BY <3>1, GoneFacts
    <3> HIDE DEF u
    <3>3. \A t \in gone : t \notin history' /\ metadata'[t] = "none" /\ ~Has(cache', t)
      BY <3>1, <3>2 DEF SInv, TypeOK
    <3> QED BY <3>1, <3>3, CatalogueStays
  <2>2. ASSUME NEW s \in Sessions, ReadyEvent(s) PROVE RemovalInv'
    BY <2>2, RemovedUnmoved DEF ReadyEvent, database, preloading
  <2>3. ASSUME NEW s \in Sessions, Download(s) PROVE RemovalInv'
    <3> DEFINE u == obj[s].torrent
    <3>1. /\ obj[s].live /\ disk' = [disk EXCEPT ![u] = @ + 1]
          /\ UNCHANGED <<database, session, job, removal, gone>>
      BY <2>3 DEF Download, Live, preloading
    <3>2. session[u] # NoSession
      BY <3>1, Slots DEF SInv, SessionMap
    <3>3. \A t \in Torrents : session[t] = NoSession => disk'[t] = disk[t]
      BY <3>1, <3>2 DEF SInv, TypeOK
    <3> QED BY <3>1, <3>3, ThingsEnd
  <2>4. ASSUME NEW s \in Sessions, TorrentFails(s) PROVE RemovalInv'
    <3>1. session' = AfterClose(s) /\ UNCHANGED <<database, disk, job, removal, gone>>
      BY <2>4 DEF TorrentFails, preloading
    <3>2. \A t \in Torrents : session[t] = NoSession => session'[t] = NoSession
      BY <3>1 DEF AfterClose
    <3> QED BY <3>1, <3>2, ThingsEnd
  <2>5. ASSUME NEW o \in Ops, Answer(o) PROVE RemovalInv'
    <3>1. /\ cache' = Touch(cache, obj[op[o].s].torrent)
          /\ UNCHANGED <<history, registration, metadata, disk, session, job, removal, gone>>
      BY <2>5 DEF Answer, preloading
    <3> QED BY <3>1, TouchedRemoval
  <2>6. ASSUME NEW r \in Readers, Validate(r) PROVE RemovalInv'
    <3>1. /\ cache' = Touch(cache, reader[r].torrent)
          /\ UNCHANGED <<history, registration, metadata, disk, session, job, removal, gone>>
      BY <2>6 DEF Validate, preloading
    <3> QED BY <3>1, TouchedRemoval
  <2>7. CASE Close
    BY <2>7, RemovedUnmoved DEF Close, database
  <2>8. CASE Crash
    BY <2>8, MemoryLostRemoval DEF Crash
  <2> QED BY <1>3, <2>1, <2>2, <2>3, <2>4, <2>5, <2>6, <2>7, <2>8 DEF Environment
<1>4. CASE Internal
  <2>1. ASSUME NEW t \in Torrents, EvictSteps(t) PROVE RemovalInv'
    <3>1. CASE EvictDelete(t)
      <4>1. disk' = [disk EXCEPT ![t] = 0] /\ UNCHANGED <<database, session, job, removal, gone>>
        BY <3>1 DEF EvictDelete, preloading
      <4> QED BY <4>1, ThingsEnd DEF SInv, TypeOK
    <3>2. CASE EvictRecord(t)
      <4>1. /\ cache' = Without(cache, t) /\ job' = [job EXCEPT ![t] = NoJob]
            /\ UNCHANGED <<history, registration, metadata, disk, session, removal, gone>>
        BY <3>2 DEF EvictRecord, RowsAfterEviction
      <4>2. \A u : Has(cache', u) => Has(cache, u)
        BY <4>1, WithoutFacts DEF SInv, TypeOK, OneRow
      <4>3. \A u \in gone : /\ u \in Torrents /\ u \notin history /\ metadata[u] = "none"
                            /\ registration[u] = "none" /\ ~Has(cache', u) /\ disk[u] = 0
                            /\ session[u] = NoSession /\ job'[u] = NoJob
        BY <4>1, <4>2, GoneFacts DEF SInv, TypeOK
      <4> QED BY <4>1, <4>3 DEF RemovalInv, RemovedMeansGone
    <3> QED BY <2>1, <3>1, <3>2 DEF EvictSteps
  <2>2. ASSUME NEW t \in Torrents, SaveSteps(t) PROVE RemovalInv'
    <3>1. CASE StateSaved(t)
      <4>1. /\ metadata' = [metadata EXCEPT ![t] = IF @ = "none" THEN "none" ELSE "completed"]
            /\ UNCHANGED <<history, registration, cache, disk, job, removal, gone>>
            /\ session' = [session EXCEPT ![t] = NoSession] \/ session' = session
        BY <3>1 DEF StateSaved, SaveFileModtimes
      <4>2. \A u \in Torrents : /\ metadata[u] = "none" => metadata'[u] = "none"
                                /\ session[u] = NoSession => session'[u] = NoSession
        BY <4>1 DEF SInv, TypeOK
      <4> QED BY <4>1, <4>2 DEF RemovalInv, RemovedMeansGone, SInv, TypeOK
    <3>2. CASE StateNotSaved(t)
      <4>1. /\ removal' = [removal EXCEPT ![t] = IF @ = "state" THEN "none" ELSE @]
            /\ UNCHANGED <<database, disk, session, job, gone>>
        BY <3>2 DEF StateNotSaved
      <4> QED BY <4>1, ThingsEnd DEF SInv, TypeOK
    <3> QED BY <2>2, <3>1, <3>2 DEF SaveSteps
  <2>3. ASSUME NEW t \in Torrents, DropSteps(t) PROVE RemovalInv'
    <3>1. CASE DropMeasured(t)
      <4>1. /\ UNCHANGED <<history, registration, metadata, disk, session, job, removal, gone>>
            /\ \/ /\ metadata[t] # "none"
                  /\ cache' = RecordCache(cache, t, disk[t], drop[t].completed)
               \/ cache' = cache
        BY <3>1 DEF DropMeasured, preloading
      <4>2. drop[t].completed \in BOOLEAN
        BY FrameFields DEF SInv, TypeOK
      <4> QED BY <4>1, <4>2, RecordedRemoval, RemovedUnmoved
    <3>2. CASE DropWiped(t)
      <4>1. disk' = [disk EXCEPT ![t] = 0] /\ UNCHANGED <<database, session, job, removal, gone>>
        BY <3>2 DEF DropWiped, preloading
      <4> QED BY <4>1, ThingsEnd DEF SInv, TypeOK
    <3>3. CASE DropDone(t)
      BY <3>3, RemovedUnmoved DEF DropDone, database, preloading
    <3> QED BY <2>3, <3>1, <3>2, <3>3 DEF DropSteps
  <2>4. ASSUME NEW t \in Torrents, RemovalSteps(t) PROVE RemovalInv'
    <3>1. CASE RemovalPrepared(t) \/ RemovalAborts(t)
      <4>1. /\ UNCHANGED <<database, disk, session, job, gone>>
            /\ \A u \in Torrents : removal'[u] = removal[u]
                                   \/ removal'[u] \in {"evict", "none", "preload"}
        BY <3>1 DEF RemovalPrepared, RemovalAborts, preloading, SInv, TypeOK
      <4> QED BY <4>1, ThingsEnd
    <3>2. CASE RemovalAwaits(t)
      <4>1. /\ UNCHANGED <<database, disk, session, job, gone>>
            /\ removal[t] \in DOMAIN NextAwait
            /\ removal' = [removal EXCEPT ![t] = NextAwait[removal[t]]]
        BY <3>2 DEF RemovalAwaits, preloading
      <4>2. \A u \in Torrents : removal'[u] # removal[u] =>
                /\ removal'[u] # "row"
                /\ removal'[u] \in {"readers", "rm"} => session'[u] = NoSession
        BY <4>1, NextAwaits DEF RemovalInv, SInv, TypeOK
      <4> QED BY <4>1, <4>2, ThingsEnd
    <3>3. CASE RemovalDisconnects(t)
      <4>1. /\ UNCHANGED <<database, disk, gone>>
            /\ \/ /\ removal' = [removal EXCEPT ![t] = "readers"]
                  /\ session' = [session EXCEPT ![t] = NoSession] /\ job' = job
               \/ /\ removal' = [removal EXCEPT ![t] = "none"]
                  /\ session' = session /\ job' = [job EXCEPT ![t] = NoJob]
        BY <3>3 DEF RemovalDisconnects
      <4>2. /\ \A u \in Torrents : removal'[u] # removal[u] =>
                  /\ removal'[u] # "row"
                  /\ removal'[u] \in {"readers", "rm"} => session'[u] = NoSession
            /\ \A u \in Torrents : session[u] = NoSession => session'[u] = NoSession
            /\ \A u \in Torrents : job[u] = NoJob => job'[u] = NoJob
        BY <4>1 DEF SInv, TypeOK
      <4> QED BY <4>1, <4>2, ThingsEnd
    <3>4. CASE RemovalDeletes(t)
      <4>1. /\ UNCHANGED <<database, session, job, gone>> /\ removal[t] = "rm"
            /\ removal' = [removal EXCEPT ![t] = "row"] /\ disk' = [disk EXCEPT ![t] = 0]
        BY <3>4 DEF RemovalDeletes, preloading
      <4>2. session[t] = NoSession
        BY <4>1 DEF RemovalInv
      <4> QED BY <4>1, <4>2, ThingsEnd DEF SInv, TypeOK
    <3>5. CASE RemovalForgets(t)
      <4>1. /\ removal[t] = "row" /\ removal' = [removal EXCEPT ![t] = "none"]
            /\ history' = history \ {t} /\ registration' = [registration EXCEPT ![t] = "none"]
            /\ metadata' = [metadata EXCEPT ![t] = "none"] /\ cache' = Without(cache, t)
            /\ job' = [job EXCEPT ![t] = NoJob] /\ gone' = gone \cup {t}
            /\ UNCHANGED <<disk, session>>
        BY <3>5 DEF RemovalForgets
      <4>2. disk[t] = 0 /\ session[t] = NoSession
        BY <4>1 DEF RemovalInv
      <4>3. ~Has(cache', t) /\ \A u : Has(cache', u) => Has(cache, u)
        BY <4>1, WithoutFacts DEF SInv, TypeOK, OneRow
      <4>4. \A u \in gone : /\ u \in Torrents /\ u \notin history' /\ metadata'[u] = "none"
                            /\ registration'[u] = "none" /\ ~Has(cache', u) /\ disk[u] = 0
                            /\ session[u] = NoSession /\ job'[u] = NoJob
        BY <4>1, <4>3, GoneFacts DEF SInv, TypeOK
      <4>5. /\ t \notin history' /\ metadata'[t] = "none" /\ registration'[t] = "none"
            /\ job'[t] = NoJob
        BY <4>1 DEF SInv, TypeOK
      <4>6. RemovedMeansGone'
        BY <4>1, <4>2, <4>3, <4>4, <4>5 DEF RemovedMeansGone
      <4>7. \A u \in Torrents : /\ removal'[u] \in {"readers", "rm", "row"} => session'[u] = NoSession
                                /\ removal'[u] = "row" => disk'[u] = 0
        BY <4>1 DEF RemovalInv, SInv, TypeOK
      <4> QED BY <4>6, <4>7 DEF RemovalInv
    <3> QED BY <2>4, <3>1, <3>2, <3>3, <3>4, <3>5 DEF RemovalSteps
  <2>5. ASSUME NEW p \in Preloads, PreloadSteps(p) PROVE RemovalInv'
    <3>1. CASE PreloadMeasured(p)
      <4> DEFINE t == task[p].torrent
      <4>1. /\ t \in history /\ cache' = RecordCache(cache, t, disk[t], TRUE)
            /\ UNCHANGED <<history, registration, metadata, disk, session, job, removal, gone>>
        BY <3>1 DEF PreloadMeasured
      <4>2. t \in Torrents
        BY <4>1 DEF SInv, TypeOK
      <4> HIDE DEF t
      <4> QED BY <4>1, <4>2, RecordedRemoval
    <3>2. CASE PreloadReady(p) \/ PreloadConsumed(p)
      BY <3>2, RemovedUnmoved DEF PreloadReady, PreloadConsumed, database
    <3>3. CASE PreloadGivesUp(p) \/ PreloadFails(p) \/ PreloadUnrecorded(p) \/ PreloadCompletes(p)
      <4>1. UNCHANGED <<database, disk, session, removal, gone>>
        BY <3>3 DEF PreloadGivesUp, PreloadFails, PreloadUnrecorded, PreloadCompletes
      <4>2. \E state \in {"running", "failed", "completed"} : EndPreload(p, state)
        BY <3>3 DEF PreloadGivesUp, PreloadFails, PreloadUnrecorded, PreloadCompletes
      <4> QED BY <4>1, <4>2, EndedStatus
    <3> QED BY <2>5, <3>1, <3>2, <3>3 DEF PreloadSteps
  <2>6. ASSUME NEW s \in Sessions, SessionSteps(s) PROVE RemovalInv'
    <3>1. CASE DoneEvent(s)
      BY <3>1, RemovedUnmoved DEF DoneEvent, database, preloading
    <3>2. CASE CompletionMeasured(s)
      <4> DEFINE t == obj[s].torrent
      <4>1. /\ UNCHANGED <<history, registration, metadata, disk, session, job, removal, gone>>
            /\ \/ t \in history /\ cache' = RecordCache(cache, t, disk[t], TRUE)
               \/ cache' = cache
        BY <3>2 DEF CompletionMeasured, Records, preloading
      <4>2. history \subseteq Torrents
        BY DEF SInv, TypeOK
      <4> HIDE DEF t
      <4> QED BY <4>1, <4>2, RecordedRemoval, RemovedUnmoved
    <3> QED BY <2>6, <3>1, <3>2 DEF SessionSteps
  <2>7. CASE CloseSteps
    <3>1. ASSUME NEW s \in Sessions, CloseRecords(s) PROVE RemovalInv'
      <4> DEFINE t == obj[s].torrent
                 completed == obj[s].stage = "done"
      <4>1. /\ UNCHANGED <<history, registration, metadata, disk, session, job, removal, gone>>
            /\ \/ metadata[t] # "none" /\ cache' = RecordCache(cache, t, disk[t], completed)
               \/ cache' = cache
        BY <3>1 DEF CloseRecords, preloading
      <4>2. t \in Torrents /\ completed \in BOOLEAN
        BY <3>1 DEF CloseRecords, SInv, Holders
      <4> HIDE DEF t, completed
      <4> QED BY <4>1, <4>2, RecordedRemoval, RemovedUnmoved
    <3>2. CASE CloseAwaits \/ CloseSaves \/ ClosePreloads \/ ClosePrunes
      BY <3>2, RemovedUnmoved
         DEF CloseAwaits, CloseSaves, ClosePreloads, ClosePrunes, database, preloading
    <3>3. CASE CloseDestroys
      <4>1. /\ \A t \in Torrents : session'[t] = NoSession
            /\ UNCHANGED <<database, disk, job, removal, gone>>
        BY <3>3 DEF CloseDestroys, preloading
      <4> QED BY <4>1, ThingsEnd
    <3>4. CASE Exit
      BY <3>4, MemoryLostRemoval DEF Exit
    <3> QED BY <2>7, <3>1, <3>2, <3>3, <3>4 DEF CloseSteps
  <2> QED BY <1>4, <2>1, <2>2, <2>3, <2>4, <2>5, <2>6, <2>7 DEF Internal
<1>5. CASE Timers
  <2>1. ASSUME NEW s \in Sessions, IdleTimer(s) PROVE RemovalInv'
    <3>1. /\ UNCHANGED <<database, disk, job, removal, gone>>
          /\ session' = session \/ session' = [session EXCEPT ![obj[s].torrent] = NoSession]
      BY <2>1 DEF IdleTimer, preloading
    <3>2. \A t \in Torrents : session[t] = NoSession => session'[t] = NoSession
      BY <3>1 DEF SInv, TypeOK
    <3> QED BY <3>1, <3>2, ThingsEnd
  <2> QED BY <1>5, <2>1 DEF Timers
<1>6. CASE Clients
  BY <1>6, RemovedUnmoved DEF Clients, EndRequest, CloseReader, database, preloading
<1>7. CASE UNCHANGED vars
  BY <1>7, RemovedUnmoved DEF vars, database, preloading
<1> QED BY <1>1, <1>2, <1>3, <1>4, <1>5, <1>6, <1>7 DEF Next

(* What was under way when a torrent was removed brings nothing of it back: no row, *)
(* no file, no session and no preload status (performReservedRemoval against every  *)
(* callback, save, record, eviction and preload that outlives it).                  *)
THEOREM RemovedStayGone == Spec => []RemovedMeansGone
<1>1. Init => RemovalInv
  BY DEF Init, RemovalInv, RemovedMeansGone
<1>2. RemovalInv => RemovedMeansGone
  BY DEF RemovalInv
<1> QED BY <1>1, <1>2, SessionInvariance, RemovedKept, PTL DEF Spec

-----------------------------------------------------------------------------
(***************************************************************************)
(* close() leaves nothing behind.                                          *)
(***************************************************************************)

LEMMA OpenPhases ==
    ASSUME Waits', phase' \in {"up", "down"}
    PROVE  CloseInv'
BY DEF CloseInv, Closing

(* What close() has awaited does not begin again, and what it waits for is awaited. *)
LEMMA StillClosing ==
    ASSUME CloseInv, Waits', phase' = phase,
           phase # "up" =>
               /\ closeWait' \subseteq closeWait /\ saving' \subseteq saving
               /\ \A t \in Torrents :
                   /\ removal[t] = "none" => removal'[t] = "none"
                   /\ drop[t].pc = "none" => drop'[t].pc = "none"
                   /\ session[t] = NoSession => session'[t] = NoSession
                   /\ current[t] = NoPreload => current'[t] = NoPreload
               /\ (\A t \in Torrents : drop[t].pc = "none") =>
                   \A t \in Torrents :
                      evict'[t] # "none" => Awaited(t)' \/ (evict[t] # "none" /\ (Awaited(t) => Awaited(t)'))
    PROVE  CloseInv'
<1>1. CASE phase = "up"
  BY <1>1, OpenPhases
<1>2. CASE phase # "up"
  BY <1>2 DEF CloseInv, Closing
<1> QED BY <1>1, <1>2

(* A step that starts no eviction: the frames wait for those they waited for. *)
LEMMA CloseUnmoved ==
    ASSUME CloseInv, UNCHANGED <<phase, closeWait, evict>>,
           \A p \in Preloads : /\ task'[p].wait = task[p].wait
                               /\ task[p].pc = "pruning" => task'[p].pc = "pruning",
           phase # "up" =>
               /\ saving' \subseteq saving
               /\ \A t \in Torrents :
                   /\ removal[t] = "none" => removal'[t] = "none"
                   /\ drop[t].pc = "none" => drop'[t].pc = "none"
                   /\ session[t] = NoSession => session'[t] = NoSession
                   /\ current[t] = NoPreload => current'[t] = NoPreload
    PROVE  CloseInv'
<1>1. Waits'
  BY DEF CloseInv, Waits
<1>2. \A t \in Torrents : Awaited(t)' = Awaited(t) /\ evict'[t] = evict[t]
  BY DEF Awaited
<1> QED BY <1>1, <1>2, StillClosing

(* A preload begins: its frame waits for nothing. *)
LEMMA BegunWaits ==
    ASSUME SInv, CloseInv, NEW t \in Torrents, BeginPreload(t)
    PROVE  Waits'
<1>1. PICK p \in Preloads :
          task' = [task EXCEPT ![p] = [NoTask EXCEPT !.pc = "ready", !.torrent = t, !.s = SessionOf(t)]]
  BY DEF BeginPreload
<1> DEFINE k == [NoTask EXCEPT !.pc = "ready", !.torrent = t, !.s = SessionOf(t)]
<1>2. k.wait = {}
  BY DEF NoTask
<1> HIDE DEF k
<1>3. task' = [task EXCEPT ![p] = k]
  BY <1>1 DEF k
<1> QED BY <1>2, <1>3 DEF CloseInv, Waits, SInv, TypeOK

(* A preload ends when it waits for nothing. *)
LEMMA EndedWaits ==
    ASSUME SInv, CloseInv, NEW p \in Preloads, NEW state, EndPreload(p, state),
           task[p].wait = {},
           UNCHANGED <<phase, closeWait, evict, drop, removal, session, saving>>
    PROVE  CloseInv'
<1>1. task' = [task EXCEPT ![p] = NoTask] /\ task \in [Preloads -> Task]
  BY DEF EndPreload, SInv, TypeOK
<1>2. NoTask.wait = {}
  BY DEF NoTask
<1>3. \A q \in Preloads : task'[q].wait = task[q].wait
  BY <1>1, <1>2
<1>4. Waits'
  BY <1>1, <1>2 DEF CloseInv, Waits
<1>5. \A t \in Torrents : Awaited(t)' = Awaited(t)
  BY <1>3 DEF Awaited
<1>6. \A t \in Torrents : current[t] = NoPreload => current'[t] = NoPreload
  BY DEF EndPreload, SInv, TypeOK
<1> QED BY <1>4, <1>5, <1>6, StillClosing

(* A process that ends closes nothing. *)
LEMMA MemoryLostWaits ==
    ASSUME MemoryLost
    PROVE  CloseInv'
<1>1. Waits' /\ phase' = "down"
  BY DEF MemoryLost, Waits, NoTask
<1> QED BY <1>1, OpenPhases

(* Every step keeps what shutdown has waited for done. *)
LEMMA ClosingKept == SInv /\ CloseInv /\ [Next]_vars => CloseInv'
<1> SUFFICES ASSUME SInv, CloseInv, [Next]_vars PROVE CloseInv'
  OBVIOUS
<1> DEFINE Still == /\ UNCHANGED <<phase, closeWait, evict, task, removal, drop, session, current>>
                    /\ saving' = saving
<1>1. CASE Boot
  <2>1. \E place \in [Restored -> Sessions \cap Preloads] : task' = [p \in Preloads |->
              IF \E t \in Restored : place[t] = p
              THEN [NoTask EXCEPT !.pc = "ready", !.s = p,
                        !.torrent = CHOOSE t \in Restored : place[t] = p]
              ELSE NoTask]
    BY <1>1 DEF Boot
  <2>2. NoTask.wait = {} /\ \A t, q : [NoTask EXCEPT !.pc = "ready", !.s = q, !.torrent = t].wait = {}
    BY DEF NoTask
  <2>3. \A p \in Preloads : task'[p].wait = {}
    BY <2>1, <2>2
  <2> QED BY <1>1, <2>3, OpenPhases DEF Boot, Waits
<1>2. CASE Api
  <2>1. ASSUME NEW t \in Torrents, NEW b \in BOOLEAN, Register(t, b) PROVE CloseInv'
    <3>1. phase' = "up"
      BY <2>1 DEF Register, Accepts, shutdown
    <3>2. BeginPreload(t) \/ task' = task
      BY <2>1 DEF Register, preloading
    <3>3. Waits'
      BY <3>2, BegunWaits DEF CloseInv, Waits
    <3> QED BY <3>1, <3>3, OpenPhases
  <2>2. ASSUME NEW t \in Torrents, StartPreload(t) PROVE CloseInv'
    <3>1. phase' = "up" /\ BeginPreload(t)
      BY <2>2 DEF StartPreload, Accepts, shutdown
    <3> QED BY <3>1, BegunWaits, OpenPhases
  <2>4. ASSUME NEW t \in Torrents, RemoveTorrent(t) PROVE CloseInv'
    <3>1. phase' = "up" /\ task' = task
      BY <2>4 DEF RemoveTorrent, Accepts, shutdown, preloading
    <3> QED BY <3>1, OpenPhases DEF CloseInv, Waits
  <2>5. ASSUME NEW t \in Torrents, NEW o \in Ops, NEW x, Request(o, t, x) PROVE CloseInv'
    <3>1. phase' = "up" /\ task' = task
      BY <2>5 DEF Request, Accepts, shutdown, preloading
    <3> QED BY <3>1, OpenPhases DEF CloseInv, Waits
  <2>6. ASSUME NEW t \in Torrents, NEW r \in Readers, OpenReader(r, t) PROVE CloseInv'
    <3>1. phase' = "up" /\ task' = task
      BY <2>6 DEF OpenReader, CanRead, Accepts, shutdown, preloading
    <3> QED BY <3>1, OpenPhases DEF CloseInv, Waits
  <2> QED BY <1>2, <2>1, <2>2, <2>4, <2>5, <2>6 DEF Api
<1>3. CASE Environment
  <2>1. ASSUME NEW s \in Sessions, MetadataEvent(s) \/ ReadyEvent(s) \/ Download(s) \/ TorrentFails(s)
        PROVE  CloseInv'
    <3>1. UNCHANGED <<phase, closeWait, evict, task, removal, drop, current, saving>>
      BY <2>1 DEF MetadataEvent, ReadyEvent, Download, TorrentFails, shutdown, preloading
    <3>2. session' = session \/ session' = AfterClose(s)
      BY <2>1 DEF MetadataEvent, ReadyEvent, Download, TorrentFails
    <3>3. \A t \in Torrents : session[t] = NoSession => session'[t] = NoSession
      BY <3>2 DEF AfterClose
    <3> QED BY <3>1, <3>3, CloseUnmoved
  <2>2. ASSUME NEW o \in Ops, Answer(o) PROVE CloseInv'
    <3>1. Still
      BY <2>2 DEF Answer, shutdown, preloading
    <3> QED BY <3>1, CloseUnmoved
  <2>3. ASSUME NEW r \in Readers, Validate(r) PROVE CloseInv'
    <3>1. Still
      BY <2>3 DEF Validate, shutdown, preloading
    <3> QED BY <3>1, CloseUnmoved
  <2>4. CASE Close
    <3>1. \A p \in Preloads : task'[p].wait = task[p].wait /\ task'[p].pc = task[p].pc
      BY <2>4 DEF Close, SInv, TypeOK, Task
    <3>2. phase' = "removals"
      BY <2>4 DEF Close
    <3> QED BY <3>1, <3>2 DEF CloseInv, Closing, Waits
  <2>5. CASE Crash
    BY <2>5, MemoryLostWaits DEF Crash
  <2> QED BY <1>3, <2>1, <2>2, <2>3, <2>4, <2>5 DEF Environment
<1>4. CASE Internal
  <2>1. ASSUME NEW t \in Torrents, EvictSteps(t) PROVE CloseInv'
    <3>1. CASE EvictDelete(t)
      <4>1. /\ UNCHANGED <<phase, closeWait, task, removal, drop, session, current, saving>>
            /\ evict[t] = "rm" /\ evict' = [evict EXCEPT ![t] = "row"]
        BY <3>1 DEF EvictDelete, shutdown, preloading
      <4>2. Waits' /\ \A u \in Torrents : /\ Awaited(u)' = Awaited(u)
                                          /\ evict'[u] # "none" => evict[u] # "none"
        BY <4>1 DEF CloseInv, Waits, Awaited, SInv, TypeOK
      <4> QED BY <4>1, <4>2, StillClosing
    <3>2. CASE EvictRecord(t)
      <4>1. /\ UNCHANGED <<phase, removal, session, current, saving>>
            /\ evict' = [evict EXCEPT ![t] = "none"] /\ closeWait' = closeWait \ {t}
        BY <3>2 DEF EvictRecord
      <4>2. \A p \in Preloads : task'[p].wait = task[p].wait \ {t} /\ task'[p].pc = task[p].pc
        BY <3>2 DEF EvictRecord, SInv, TypeOK, Task
      <4>3. \A u \in Torrents : drop'[u].pc = drop[u].pc
        BY <3>2 DEF EvictRecord, SInv, TypeOK, Drop
      <4>4. Waits'
        BY <4>2 DEF CloseInv, Waits
      <4>5. \A u \in Torrents : evict'[u] # "none" =>
                evict[u] # "none" /\ (Awaited(u) => Awaited(u)')
        BY <4>1, <4>2 DEF Awaited, SInv, TypeOK
      <4> QED BY <4>1, <4>3, <4>4, <4>5, StillClosing
    <3> QED BY <2>1, <3>1, <3>2 DEF EvictSteps
  <2>2. ASSUME NEW t \in Torrents, SaveSteps(t) PROVE CloseInv'
    <3>1. /\ UNCHANGED <<phase, closeWait, evict, current>> /\ saving' = saving \ {t}
          /\ task' = TasksResumed(t, "measuring") \/ task' = TasksResumed(t, "failed")
      BY <2>2 DEF SaveSteps, StateSaved, StateNotSaved, shutdown
    <3>2. \A p \in Preloads : task'[p].wait = task[p].wait
                              /\ (task[p].pc = "pruning" => task'[p].pc = "pruning")
      <4> SUFFICES ASSUME NEW p \in Preloads
                   PROVE  task'[p].wait = task[p].wait
                          /\ (task[p].pc = "pruning" => task'[p].pc = "pruning")
        OBVIOUS
      <4>1. task[p] \in Task
        BY DEF SInv, TypeOK
      <4>2. /\ [task[p] EXCEPT !.pc = "measuring"].wait = task[p].wait
            /\ [task[p] EXCEPT !.pc = "failed"].wait = task[p].wait
        BY <4>1 DEF Task
      <4>3. \/ task'[p] = task[p]
            \/ /\ task[p].pc = "saving"
               /\ \/ task'[p] = [task[p] EXCEPT !.pc = "measuring"]
                  \/ task'[p] = [task[p] EXCEPT !.pc = "failed"]
        BY <3>1 DEF TasksResumed
      <4> QED BY <4>2, <4>3
    <3>3. \A u \in Torrents : /\ removal[u] = "none" => removal'[u] = "none"
                              /\ session[u] = NoSession => session'[u] = NoSession
      BY <2>2 DEF SaveSteps, StateSaved, StateNotSaved, SInv, TypeOK
    <3>4. \A u \in Torrents : drop[u].pc = "none" => drop'[u] = drop[u]
      BY <2>2 DEF SaveSteps, StateSaved, StateNotSaved, SInv, TypeOK
    <3> QED BY <3>1, <3>2, <3>3, <3>4, CloseUnmoved
  <2>3. ASSUME NEW t \in Torrents, DropSteps(t) PROVE CloseInv'
    <3>1. /\ UNCHANGED <<phase, closeWait, task, removal, session, current, saving>>
          /\ drop[t].pc # "none"
      BY <2>3 DEF DropSteps, DropMeasured, DropWiped, DropDone, shutdown, preloading
    <3>2. \A u \in Torrents : drop[u].pc = "none" => drop'[u].pc = "none"
      BY <2>3 DEF DropSteps, DropMeasured, DropWiped, DropDone, SInv, TypeOK
    <3>3. Waits'
      BY <3>1 DEF CloseInv, Waits
    <3> QED BY <3>1, <3>2, <3>3, StillClosing
  <2>4. ASSUME NEW t \in Torrents, RemovalSteps(t) PROVE CloseInv'
    <3>1. /\ UNCHANGED <<phase, closeWait, evict, drop, current, saving>>
          /\ removal[t] # "none"
      BY <2>4, NextAwaits
         DEF RemovalSteps, RemovalPrepared, RemovalAwaits, RemovalAborts, RemovalDisconnects,
             RemovalDeletes, RemovalForgets, shutdown, preloading
    <3>2. \A u \in Torrents : /\ removal[u] = "none" => removal'[u] = "none"
                              /\ session[u] = NoSession => session'[u] = NoSession
      <4>1. \E pc : removal' = [removal EXCEPT ![t] = pc]
        BY <2>4 DEF RemovalSteps, RemovalPrepared, RemovalAwaits, RemovalAborts,
                    RemovalDisconnects, RemovalDeletes, RemovalForgets
      <4>2. session' = session \/ session' = [session EXCEPT ![t] = NoSession]
        BY <2>4 DEF RemovalSteps, RemovalPrepared, RemovalAwaits, RemovalAborts,
                    RemovalDisconnects, RemovalDeletes, RemovalForgets
      <4> QED BY <3>1, <4>1, <4>2 DEF SInv, TypeOK
    <3>3. \A p \in Preloads : task'[p].wait = task[p].wait /\ task'[p].pc = task[p].pc
      <4>1. task' = task \/ RemovalAborts(t)
        BY <2>4 DEF RemovalSteps, RemovalPrepared, RemovalAwaits, RemovalDisconnects,
                    RemovalDeletes, RemovalForgets, preloading
      <4> QED BY <4>1 DEF RemovalAborts, SInv, TypeOK, Task
    <3> QED BY <3>1, <3>2, <3>3, CloseUnmoved
  <2>5. ASSUME NEW p \in Preloads, PreloadSteps(p) PROVE CloseInv'
    <3>1. CASE PreloadReady(p)
      <4>1. /\ UNCHANGED <<phase, closeWait, evict, drop, removal, session, current, saving>>
            /\ task' = [task EXCEPT ![p].pc = "consuming"] /\ task[p].pc = "ready"
        BY <3>1 DEF PreloadReady, shutdown
      <4>2. \A q \in Preloads : task'[q].wait = task[q].wait
                                /\ (task[q].pc = "pruning" => task'[q].pc = "pruning")
        BY <4>1 DEF SInv, TypeOK, Task
      <4> QED BY <4>1, <4>2, CloseUnmoved
    <3>2. CASE PreloadConsumed(p)
      <4>1. /\ phase' = "up" /\ task' = [task EXCEPT ![p].pc = "saving"]
            /\ task[p].pc = "consuming"
        BY <3>2 DEF PreloadConsumed, Consumed, Quieted, shutdown
      <4>2. Waits'
        BY <4>1 DEF CloseInv, Waits, SInv, TypeOK, Task
      <4> QED BY <4>1, <4>2, OpenPhases
    <3>3. CASE PreloadGivesUp(p) \/ PreloadFails(p) \/ PreloadUnrecorded(p) \/ PreloadCompletes(p)
      <4>1. UNCHANGED <<phase, closeWait, evict, drop, removal, session, saving>>
        BY <3>3 DEF PreloadGivesUp, PreloadFails, PreloadUnrecorded, PreloadCompletes, shutdown
      <4>2. \E state \in {"running", "failed", "completed"} : EndPreload(p, state)
        BY <3>3 DEF PreloadGivesUp, PreloadFails, PreloadUnrecorded, PreloadCompletes
      <4>3. task[p].wait = {}
        BY <3>3 DEF PreloadGivesUp, PreloadFails, PreloadUnrecorded, PreloadCompletes, CloseInv, Waits
      <4> QED BY <4>1, <4>2, <4>3, EndedWaits
    <3>4. CASE PreloadMeasured(p)
      <4> DEFINE victims == Victims(RecordCache(cache, task[p].torrent, disk[task[p].torrent], TRUE),
                                    Reading)
      <4>1. /\ UNCHANGED <<phase, closeWait, drop, removal, session, current, saving>>
            /\ task' = [task EXCEPT ![p].pc = "pruning", ![p].wait = victims]
            /\ Prune(victims) /\ task[p].pc = "measuring"
        BY <3>4 DEF PreloadMeasured, shutdown
      <4> HIDE DEF victims
      <4>2. task[p].wait = {}
        BY <4>1 DEF CloseInv, Waits
      <4>3. /\ task'[p].wait = victims /\ task'[p].pc = "pruning"
            /\ \A q \in Preloads : q # p => task'[q] = task[q]
        BY <4>1 DEF SInv, TypeOK, Task
      <4>4. Waits'
        BY <4>3 DEF CloseInv, Waits
      <4>5. \A u \in Torrents : Awaited(u) => Awaited(u)'
        BY <4>1, <4>2, <4>3 DEF Awaited
      <4>6. \A u \in Torrents : u \in victims => Awaited(u)'
        BY <4>3 DEF Awaited
      <4>7. \A u \in Torrents : u \in victims \/ evict'[u] = evict[u]
        BY <4>1 DEF Prune
      <4> QED BY <4>1, <4>4, <4>5, <4>6, <4>7, StillClosing
    <3> QED BY <2>5, <3>1, <3>2, <3>3, <3>4 DEF PreloadSteps
  <2>6. ASSUME NEW s \in Sessions, SessionSteps(s) PROVE CloseInv'
    <3>1. /\ UNCHANGED <<phase, closeWait, evict, task, removal, drop, session, current>>
          /\ phase # "up" => saving' = saving
      BY <2>6 DEF SessionSteps, DoneEvent, CompletionMeasured, Quieted, shutdown, preloading
    <3> QED BY <3>1, CloseUnmoved
  <2>7. CASE CloseSteps
    <3>1. CASE CloseAwaits
      <4>1. /\ \/ /\ phase = "removals" /\ phase' = "drops" /\ closeWait' = closeWait
                  /\ \A t \in Torrents : removal[t] = "none"
               \/ /\ phase = "drops" /\ phase' = "evictions"
                  /\ \A t \in Torrents : drop[t].pc = "none"
                  /\ closeWait' = {t \in Torrents : evict[t] # "none"}
            /\ UNCHANGED <<evict, task, removal, drop>>
        BY <3>1 DEF CloseAwaits, preloading
      <4> QED BY <4>1 DEF CloseInv, Closing, Waits, Awaited
    <3>2. CASE CloseSaves
      <4>1. /\ phase = "evictions" /\ phase' = "states" /\ closeWait = {}
            /\ UNCHANGED <<closeWait, evict, task, removal, drop>>
        BY <3>2 DEF CloseSaves, preloading
      <4> QED BY <4>1 DEF CloseInv, Closing, Waits, Awaited
    <3>3. CASE CloseDestroys
      <4>1. /\ phase = "states" /\ phase' = "preloads" /\ saving = {}
            /\ \A t \in Torrents : session'[t] = NoSession
            /\ UNCHANGED <<closeWait, evict, task, removal, drop, saving>>
        BY <3>3 DEF CloseDestroys, preloading
      <4> QED BY <4>1 DEF CloseInv, Closing, Waits, Awaited
    <3>4. CASE ClosePreloads
      <4>1. /\ phase = "preloads" /\ phase' = "record"
            /\ \A t \in Torrents : current[t] = NoPreload
            /\ UNCHANGED <<closeWait, evict, task, removal, drop, saving, session, current>>
        BY <3>4 DEF ClosePreloads, PreloadsSettled, preloading
      <4> QED BY <4>1 DEF CloseInv, Closing, Waits, Awaited
    <3>5. ASSUME NEW s \in Sessions, CloseRecords(s) PROVE CloseInv'
      <4>1. Still
        BY <3>5 DEF CloseRecords, preloading
      <4> QED BY <4>1, CloseUnmoved
    <3>6. CASE ClosePrunes
      <4> DEFINE victims == Victims(cache, Reading)
      <4>1. /\ phase = "record" /\ phase' = "prune" /\ closeWait' = victims /\ Prune(victims)
            /\ UNCHANGED <<task, removal, drop, saving, session, current>>
        BY <3>6 DEF ClosePrunes, preloading
      <4> HIDE DEF victims
      <4>2. closeWait = {} /\ \A u \in Torrents : evict[u] # "none" => Awaited(u)
        BY <4>1 DEF CloseInv, Closing
      <4>3. \A u \in Torrents : evict'[u] # "none" => Awaited(u)'
        BY <4>1, <4>2 DEF Awaited, Prune
      <4> QED BY <4>1, <4>3 DEF CloseInv, Closing, Waits
    <3>7. CASE Exit
      BY <3>7, MemoryLostWaits DEF Exit
    <3> QED BY <2>7, <3>1, <3>2, <3>3, <3>4, <3>5, <3>6, <3>7 DEF CloseSteps
  <2> QED BY <1>4, <2>1, <2>2, <2>3, <2>4, <2>5, <2>6, <2>7 DEF Internal
<1>5. CASE Timers
  <2>1. ASSUME NEW s \in Sessions, IdleTimer(s) PROVE CloseInv'
    <3>1. /\ UNCHANGED <<phase, closeWait, evict, task, removal, current>>
          /\ phase # "up" => UNCHANGED <<session, saving, drop>>
      BY <2>1 DEF IdleTimer, Idle, Quieted, shutdown, preloading
    <3> QED BY <3>1, CloseUnmoved
  <2> QED BY <1>5, <2>1 DEF Timers
<1>6. CASE Clients
  <2>1. ASSUME NEW o \in Ops, EndRequest(o) PROVE CloseInv'
    <3>1. Still
      BY <2>1 DEF EndRequest, shutdown, preloading
    <3> QED BY <3>1, CloseUnmoved
  <2>2. ASSUME NEW r \in Readers, CloseReader(r) PROVE CloseInv'
    <3>1. /\ UNCHANGED <<phase, closeWait, task, removal, drop, session, current, saving>>
          /\ phase # "up" => Prune({})
      BY <2>2 DEF CloseReader, Quieted, shutdown, preloading
    <3>2. Waits' /\ \A u \in Torrents : Awaited(u)' = Awaited(u)
      BY <3>1 DEF CloseInv, Waits, Awaited
    <3>3. phase # "up" => \A u \in Torrents : evict'[u] = evict[u]
      BY <3>1 DEF Prune
    <3> QED BY <3>1, <3>2, <3>3, StillClosing
  <2> QED BY <1>6, <2>1, <2>2 DEF Clients
<1>7. CASE UNCHANGED vars
  <2>1. Still
    BY <1>7 DEF vars, shutdown, preloading
  <2> QED BY <2>1, CloseUnmoved
<1> QED BY <1>1, <1>2, <1>3, <1>4, <1>5, <1>6, <1>7 DEF Next

(* When close() is done no save, eviction, idle drop, removal, session or preload that *)
(* it knew of is left that would write to the database it closes next.                 *)
THEOREM CloseLeavesNothing == Spec => []ClosedIsQuiet
<1>1. Init => CloseInv
  BY DEF Init, CloseInv, Closing, Waits, NoTask
<1>2. SInv /\ CloseInv => ClosedIsQuiet
  <2> SUFFICES ASSUME SInv, CloseInv, Closed, \A p \in Preloads : ~Overlooked(p)
               PROVE  /\ saving = {}
                      /\ \A t \in Torrents : /\ evict[t] = "none" /\ drop[t].pc = "none"
                                             /\ removal[t] = "none" /\ session[t] = NoSession
                      /\ \A p \in Preloads : task[p].pc = "none"
    BY DEF ClosedIsQuiet
  <2>1. phase = "prune" /\ closeWait = {}
    BY DEF Closed
  <2>2. /\ saving = {}
        /\ \A t \in Torrents : /\ drop[t].pc = "none" /\ removal[t] = "none"
                               /\ session[t] = NoSession /\ current[t] = NoPreload
                               /\ evict[t] # "none" => Awaited(t)
    BY <2>1 DEF CloseInv, Closing
  <2>3. \A p \in Preloads : task[p] = NoTask
    BY <2>2, Slots DEF Overlooked, SInv, Holders
  <2>4. NoTask.pc = "none" /\ NoTask.wait = {}
    BY DEF NoTask
  <2>5. \A t \in Torrents : ~Awaited(t)
    BY <2>1, <2>3, <2>4 DEF Awaited
  <2> QED BY <2>2, <2>3, <2>4, <2>5
<1> QED BY <1>1, <1>2, SessionInvariance, ClosingKept, PTL DEF Spec

-----------------------------------------------------------------------------
(***************************************************************************)
(* A preload that is said to run does.                                     *)
(***************************************************************************)

LEMMA StillRunning ==
    ASSUME SInv, JobInv, phase' = phase, current' = current,
           \A p \in Preloads : /\ task'[p].torrent = task[p].torrent
                               /\ task'[p].aborted => task[p].aborted,
           \A t \in Torrents : job'[t] = job[t] \/ job'[t] = NoJob,
           \A t \in Torrents : removal[t] = "preload" /\ current[t] # NoPreload =>
               removal'[t] = "preload",
           NoneFailsEarly => \A t \in Torrents :
               removal[t] # "none" => removal'[t] # "none" \/ job'[t] = NoJob
    PROVE  JobInv'
<1>1. NoJob.by = NoPreload /\ NoJob.state = "none"
  BY DEF NoJob
<1>2. \A t \in Torrents : job'[t].by # NoPreload => task'[job'[t].by].torrent = t
  <2>1. \A t \in Torrents : job[t].by # NoPreload => job[t].by \in Preloads /\ task[job[t].by].torrent = t
    BY DEF SInv, TypeOK, Job, JobInv
  <2> QED BY <1>1, <2>1
<1>3. \A p \in Preloads : task'[p].aborted =>
          \/ phase' # "up"
          \/ removal'[task'[p].torrent] = "preload" /\ current'[task'[p].torrent] = p
  <2> SUFFICES ASSUME NEW p \in Preloads, task[p].aborted, phase = "up"
               PROVE  removal'[task[p].torrent] = "preload" /\ current[task[p].torrent] = p
    OBVIOUS
  <2>1. removal[task[p].torrent] = "preload" /\ current[task[p].torrent] = p
    BY DEF JobInv
  <2>2. task[p].torrent \in Torrents
    BY DEF SInv, Holders, NoTask
  <2> QED BY <2>1, <2>2, Slots
<1>4. NoneFailsEarly => \A t \in Torrents :
          job'[t].state = "running" => job'[t].by # NoPreload \/ Quieted(t)'
  BY <1>1 DEF JobInv, Quieted
<1> QED BY <1>2, <1>3, <1>4 DEF JobInv

(* A preload begins where no removal is under way, in a slot that no status refers to. *)
LEMMA BegunJob ==
    ASSUME SInv, JobInv, NEW t \in Torrents, BeginPreload(t), phase = "up", removal[t] = "none",
           phase' = phase, removal' = removal
    PROVE  JobInv'
<1> DEFINE k == [NoTask EXCEPT !.pc = "ready", !.torrent = t, !.s = SessionOf(t)]
<1>1. PICK p \in Preloads :
        /\ task[p].pc = "none" /\ task' = [task EXCEPT ![p] = k]
        /\ current' = [current EXCEPT ![t] = p]
        /\ job' = [job EXCEPT ![t] = [state |-> "running", by |-> p]]
  BY DEF BeginPreload
<1>2. k.torrent = t /\ ~k.aborted
  BY DEF NoTask
<1> HIDE DEF k
<1>3. /\ task \in [Preloads -> Task] /\ current \in [Torrents -> Preloads \cup {NoPreload}]
      /\ job \in [Torrents -> Job]
  BY DEF SInv, TypeOK
<1>4. task[p].torrent \notin Torrents
  BY <1>1, NoTorrentAssumption DEF SInv, Holders, NoTask
<1>5. \A u \in Torrents : job'[u].by # NoPreload => task'[job'[u].by].torrent = u
  <2> SUFFICES ASSUME NEW u \in Torrents, job'[u].by # NoPreload
               PROVE  task'[job'[u].by].torrent = u
    OBVIOUS
  <2>1. CASE u = t
    BY <1>1, <1>2, <1>3, <2>1
  <2>2. CASE u # t
    <3>1. job'[u] = job[u] /\ job[u].by \in Preloads /\ task[job[u].by].torrent = u
      BY <1>1, <1>3, <2>2 DEF JobInv, Job
    <3> QED BY <1>1, <1>3, <1>4, <3>1
  <2> QED BY <2>1, <2>2
<1>6. \A q \in Preloads : ~task'[q].aborted \/ /\ q # p /\ task[q].aborted /\ task'[q] = task[q]
                                               /\ task[q].torrent # t
                                               /\ task[q].torrent \in Torrents
  <2> SUFFICES ASSUME NEW q \in Preloads, task'[q].aborted
               PROVE  /\ q # p /\ task[q].aborted /\ task'[q] = task[q]
                      /\ task[q].torrent # t /\ task[q].torrent \in Torrents
    OBVIOUS
  <2>1. q # p /\ task'[q] = task[q]
    BY <1>1, <1>2, <1>3
  <2>2. removal[task[q].torrent] = "preload" /\ task[q].torrent \in Torrents
    BY <2>1 DEF JobInv, SInv, Holders, NoTask
  <2> QED BY <2>1, <2>2
<1>7. \A q \in Preloads : task'[q].aborted =>
          removal'[task'[q].torrent] = "preload" /\ current'[task'[q].torrent] = q
  BY <1>1, <1>3, <1>6 DEF JobInv
<1>8. \A u \in Torrents : job'[u].by # NoPreload \/ job'[u] = job[u]
  BY <1>1, <1>3, Slots
<1>9. NoneFailsEarly => \A u \in Torrents :
          job'[u].state = "running" => job'[u].by # NoPreload \/ Quieted(u)'
  BY <1>8 DEF JobInv, Quieted
<1> QED BY <1>5, <1>7, <1>9 DEF JobInv

(* A preload ends, with a status that says running only in a removal or a shutdown. *)
LEMMA EndedJob ==
    ASSUME SInv, JobInv, NEW p \in Preloads, NEW state, EndPreload(p, state),
           state = "running" => task[p].aborted \/ Quieted(task[p].torrent),
           task[p].pc # "none", UNCHANGED <<phase, removal>>
    PROVE  JobInv'
<1> DEFINE t == task[p].torrent
<1>1. t \in Torrents
  BY DEF SInv, Holders, NoTask
<1>2. /\ task' = [task EXCEPT ![p] = NoTask]
      /\ current' = [current EXCEPT ![t] = IF @ = p THEN NoPreload ELSE @]
      /\ job' = [job EXCEPT ![t] = IF @.by = p THEN [state |-> state, by |-> NoPreload] ELSE @]
  BY DEF EndPreload
<1>3. /\ task \in [Preloads -> Task] /\ current \in [Torrents -> Preloads \cup {NoPreload}]
      /\ job \in [Torrents -> Job]
  BY DEF SInv, TypeOK
<1>4. ~NoTask.aborted /\ NoTask.torrent \notin Torrents
  BY NoTorrentAssumption DEF NoTask
<1>5. state = "running" => Quieted(t)
  BY DEF JobInv, Quieted
<1>6. task[p].torrent = t
  OBVIOUS
<1> HIDE DEF t
<1>7. \A u \in Torrents : job'[u].by # NoPreload =>
          job'[u] = job[u] /\ job[u].by # p /\ job[u].by \in Preloads
  <2> SUFFICES ASSUME NEW u \in Torrents, job'[u].by # NoPreload
               PROVE  job'[u] = job[u] /\ job[u].by # p /\ job[u].by \in Preloads
    OBVIOUS
  <2>1. job[u] \in Job
    BY <1>3
  <2>2. CASE u = t
    BY <1>2, <1>3, <2>1, <2>2 DEF Job
  <2>3. CASE u # t
    BY <1>2, <1>3, <1>6, <2>1, <2>3 DEF JobInv, Job
  <2> QED BY <2>2, <2>3
<1>8. \A u \in Torrents : job'[u].by # NoPreload => task'[job'[u].by].torrent = u
  BY <1>2, <1>3, <1>7 DEF JobInv
<1>9. \A q \in Preloads : task'[q].aborted => q # p /\ task'[q] = task[q]
  BY <1>2, <1>3, <1>4
<1>10. \A q \in Preloads : task'[q].aborted =>
          \/ phase' # "up"
          \/ removal'[task'[q].torrent] = "preload" /\ current'[task'[q].torrent] = q
  BY <1>1, <1>2, <1>3, <1>9 DEF JobInv
<1>11. \A u \in Torrents : \/ job'[u] = job[u]
                           \/ u = t /\ job'[u].state = state
  BY <1>2, <1>3
<1>12. NoneFailsEarly => \A u \in Torrents :
          job'[u].state = "running" => job'[u].by # NoPreload \/ Quieted(u)'
  BY <1>5, <1>11 DEF JobInv, Quieted
<1> QED BY <1>8, <1>10, <1>12 DEF JobInv

(* A process that ends forgets the statuses of preloads. *)
LEMMA MemoryLostJob ==
    ASSUME MemoryLost
    PROVE  JobInv'
BY DEF MemoryLost, JobInv, NoJob, NoTask

(* Every step keeps running statuses with a frame that ends them. *)
LEMMA JobKept == SInv /\ JobInv /\ [Next]_vars => JobInv'
<1> SUFFICES ASSUME SInv, JobInv, [Next]_vars PROVE JobInv'
  OBVIOUS
<1> DEFINE Still == UNCHANGED <<phase, current, task, job, removal>>
<1>1. CASE Boot
  <2>1. PICK place \in [Restored -> Sessions \cap Preloads] :
        /\ task' = [p \in Preloads |->
              IF \E t \in Restored : place[t] = p
              THEN [NoTask EXCEPT !.pc = "ready", !.s = p,
                        !.torrent = CHOOSE t \in Restored : place[t] = p]
              ELSE NoTask]
        /\ \A t, u \in Restored : place[t] = place[u] => t = u
        /\ job' = [t \in Torrents |->
              IF t \in Restored THEN [state |-> "running", by |-> place[t]] ELSE NoJob]
    BY <1>1 DEF Boot
  <2>2. ~NoTask.aborted /\ NoJob.by = NoPreload /\ NoJob.state = "none"
        /\ \A t, q : LET k == [NoTask EXCEPT !.pc = "ready", !.s = q, !.torrent = t]
                     IN  ~k.aborted /\ k.torrent = t
    BY DEF NoTask, NoJob
  <2>3. \A p \in Preloads : ~task'[p].aborted
    BY <2>1, <2>2
  <2>4. \A t \in Torrents : job'[t].by # NoPreload => task'[job'[t].by].torrent = t
    <3> SUFFICES ASSUME NEW t \in Torrents, job'[t].by # NoPreload
                 PROVE  task'[job'[t].by].torrent = t
      OBVIOUS
    <3>1. t \in Restored /\ job'[t].by = place[t] /\ place[t] \in Preloads
      BY <2>1, <2>2
    <3>2. (CHOOSE u \in Restored : place[u] = place[t]) = t
      BY <2>1, <3>1
    <3>3. \E u \in Restored : place[u] = place[t]
      BY <3>1
    <3>4. task'[place[t]] = [NoTask EXCEPT !.pc = "ready", !.s = place[t], !.torrent = t]
      BY <2>1, <3>1, <3>2, <3>3
    <3> QED BY <2>2, <3>1, <3>4
  <2>5. \A t \in Torrents : job'[t].state = "running" => job'[t].by # NoPreload
    BY <2>1, <2>2, Slots
  <2> QED BY <2>3, <2>4, <2>5 DEF JobInv
<1>2. CASE Api
  <2>1. ASSUME NEW t \in Torrents, NEW b \in BOOLEAN, Register(t, b) PROVE JobInv'
    <3>1. phase = "up" /\ removal[t] = "none" /\ UNCHANGED <<phase, removal>>
      BY <2>1 DEF Register, Accepts, shutdown
    <3>2. BeginPreload(t) \/ UNCHANGED preloading
      BY <2>1 DEF Register
    <3> QED BY <3>1, <3>2, BegunJob, StillRunning DEF preloading
  <2>2. ASSUME NEW t \in Torrents, StartPreload(t) PROVE JobInv'
    BY <2>2, BegunJob DEF StartPreload, Accepts, shutdown
  <2>3. ASSUME NEW t \in Torrents, RemoveTorrent(t) PROVE JobInv'
    <3>1. /\ UNCHANGED <<phase, current, task, job>> /\ removal[t] = "none"
          /\ removal' = [removal EXCEPT ![t] = "before"]
      BY <2>3 DEF RemoveTorrent, Accepts, shutdown, preloading
    <3>2. \A u \in Torrents : removal[u] # "none" => removal'[u] = removal[u]
      BY <3>1 DEF SInv, TypeOK
    <3> QED BY <3>1, <3>2, StillRunning
  <2>4. ASSUME NEW t \in Torrents, NEW o \in Ops, NEW x, Request(o, t, x) PROVE JobInv'
    <3>1. Still
      BY <2>4 DEF Request, shutdown, preloading
    <3> QED BY <3>1, StillRunning
  <2>5. ASSUME NEW t \in Torrents, NEW r \in Readers, OpenReader(r, t) PROVE JobInv'
    <3>1. Still
      BY <2>5 DEF OpenReader, shutdown, preloading
    <3> QED BY <3>1, StillRunning
  <2> QED BY <1>2, <2>1, <2>2, <2>3, <2>4, <2>5 DEF Api
<1>3. CASE Environment
  <2>1. CASE Close
    <3>1. /\ phase' = "removals" /\ UNCHANGED <<job, removal>>
      BY <2>1 DEF Close
    <3>2. \A p \in Preloads : task'[p].torrent = task[p].torrent
      BY <2>1 DEF Close, SInv, TypeOK, Task
    <3>3. \A t \in Torrents : job[t].by \in Preloads \cup {NoPreload}
      BY DEF SInv, TypeOK, Job
    <3> QED BY <3>1, <3>2, <3>3 DEF JobInv, Quieted
  <2>2. CASE Crash
    BY <2>2, MemoryLostJob DEF Crash
  <2>3. ASSUME NEW s \in Sessions, MetadataEvent(s) \/ ReadyEvent(s) \/ Download(s) \/ TorrentFails(s)
        PROVE  JobInv'
    <3>1. Still
      BY <2>3 DEF MetadataEvent, ReadyEvent, Download, TorrentFails, shutdown, preloading
    <3> QED BY <3>1, StillRunning
  <2>4. ASSUME NEW o \in Ops, Answer(o) PROVE JobInv'
    <3>1. Still
      BY <2>4 DEF Answer, shutdown, preloading
    <3> QED BY <3>1, StillRunning
  <2>5. ASSUME NEW r \in Readers, Validate(r) PROVE JobInv'
    <3>1. Still
      BY <2>5 DEF Validate, shutdown, preloading
    <3> QED BY <3>1, StillRunning
  <2> QED BY <1>3, <2>1, <2>2, <2>3, <2>4, <2>5 DEF Environment
<1>4. CASE Internal
  <2>1. ASSUME NEW t \in Torrents, EvictSteps(t) PROVE JobInv'
    <3>1. CASE EvictDelete(t)
      <4>1. Still
        BY <3>1 DEF EvictDelete, shutdown, preloading
      <4> QED BY <4>1, StillRunning
    <3>2. CASE EvictRecord(t)
      <4>1. UNCHANGED <<phase, current, removal>> /\ job' = [job EXCEPT ![t] = NoJob]
        BY <3>2 DEF EvictRecord
      <4>2. \A p \in Preloads : task'[p].torrent = task[p].torrent
                                /\ task'[p].aborted = task[p].aborted
        BY <3>2 DEF EvictRecord, SInv, TypeOK, Task
      <4>3. \A u \in Torrents : job'[u] = job[u] \/ job'[u] = NoJob
        BY <4>1 DEF SInv, TypeOK
      <4> QED BY <4>1, <4>2, <4>3, StillRunning
    <3> QED BY <2>1, <3>1, <3>2 DEF EvictSteps
  <2>2. ASSUME NEW t \in Torrents, SaveSteps(t) PROVE JobInv'
    <3>1. /\ UNCHANGED <<phase, current, job>>
          /\ task' = TasksResumed(t, "measuring") \/ task' = TasksResumed(t, "failed")
      BY <2>2 DEF SaveSteps, StateSaved, StateNotSaved, shutdown
    <3>2. \A p \in Preloads : task'[p].torrent = task[p].torrent
                              /\ task'[p].aborted = task[p].aborted
      <4> SUFFICES ASSUME NEW p \in Preloads
                   PROVE  task'[p].torrent = task[p].torrent /\ task'[p].aborted = task[p].aborted
        OBVIOUS
      <4>1. task[p] \in Task
        BY DEF SInv, TypeOK
      <4>2. \A pc \in {"measuring", "failed"} :
                /\ [task[p] EXCEPT !.pc = pc].torrent = task[p].torrent
                /\ [task[p] EXCEPT !.pc = pc].aborted = task[p].aborted
        BY <4>1 DEF Task
      <4>3. \/ task'[p] = task[p]
            \/ task'[p] = [task[p] EXCEPT !.pc = "measuring"]
            \/ task'[p] = [task[p] EXCEPT !.pc = "failed"]
        BY <3>1 DEF TasksResumed
      <4> QED BY <4>2, <4>3
    <3>3. \/ removal' = removal
          \/ /\ "modtimes" \in Incidents
             /\ removal' = [removal EXCEPT ![t] = IF @ = "state" THEN "none" ELSE @]
      BY <2>2 DEF SaveSteps, StateSaved, StateNotSaved
    <3>4. /\ \A u \in Torrents : removal[u] = "preload" => removal'[u] = "preload"
          /\ NoneFailsEarly => removal' = removal
      BY <3>3 DEF SInv, TypeOK, NoneFailsEarly
    <3> QED BY <3>1, <3>2, <3>4, StillRunning
  <2>3. ASSUME NEW t \in Torrents, DropSteps(t) PROVE JobInv'
    <3>1. Still
      BY <2>3 DEF DropSteps, DropMeasured, DropWiped, DropDone, shutdown, preloading
    <3> QED BY <3>1, StillRunning
  <2>4. ASSUME NEW t \in Torrents, RemovalSteps(t) PROVE JobInv'
    <3>1. CASE RemovalPrepared(t)
      <4>1. /\ UNCHANGED <<phase, current, task, job>> /\ removal[t] = "before"
            /\ \/ removal' = [removal EXCEPT ![t] = "evict"]
               \/ "before" \in Incidents /\ removal' = [removal EXCEPT ![t] = "none"]
        BY <3>1 DEF RemovalPrepared, shutdown, preloading
      <4>2. /\ \A u \in Torrents : removal[u] = "preload" => removal'[u] = "preload"
            /\ NoneFailsEarly => \A u \in Torrents : removal[u] # "none" => removal'[u] # "none"
        BY <4>1 DEF SInv, TypeOK, NoneFailsEarly
      <4> QED BY <4>1, <4>2, StillRunning
    <3>2. CASE RemovalAwaits(t) \/ RemovalDeletes(t)
      <4>1. /\ UNCHANGED <<phase, current, task, job>>
            /\ removal[t] \in {"evict", "drop", "readers", "rm"}
            /\ \/ removal' = [removal EXCEPT ![t] = NextAwait[removal[t]]]
               \/ removal' = [removal EXCEPT ![t] = "row"]
        BY <3>2, NextAwaits DEF RemovalAwaits, RemovalDeletes, shutdown, preloading
      <4>2. /\ \A u \in Torrents : removal[u] = "preload" => removal'[u] = "preload"
            /\ \A u \in Torrents : removal[u] # "none" => removal'[u] # "none"
        <5>1. removal[t] = "rm" => removal' = [removal EXCEPT ![t] = "row"]
          BY <3>2, NextAwaits DEF RemovalAwaits, RemovalDeletes
        <5>2. removal[t] # "rm" => NextAwait[removal[t]] # "none"
          BY <4>1, NextAwaits
        <5> QED BY <4>1, <5>1, <5>2 DEF SInv, TypeOK
      <4> QED BY <4>1, <4>2, StillRunning
    <3>3. CASE RemovalAborts(t)
      <4>1. /\ UNCHANGED <<phase, current, job>> /\ removal[t] = "state"
            /\ removal' = [removal EXCEPT ![t] = "preload"]
            /\ task' = [p \in Preloads |-> IF current[t] = p
                                           THEN [task[p] EXCEPT !.aborted = TRUE] ELSE task[p]]
        BY <3>3 DEF RemovalAborts, shutdown
      <4>2. \A p \in Preloads : /\ task'[p].torrent = task[p].torrent
                                /\ current[t] # p => task'[p].aborted = task[p].aborted
        BY <4>1 DEF SInv, TypeOK, Task
      <4>3. \A u \in Torrents : /\ removal[u] = "preload" => removal'[u] = "preload"
                                /\ removal[u] # "none" => removal'[u] # "none"
        BY <4>1 DEF SInv, TypeOK
      <4>4. \A p \in Preloads : current[t] = p => task[p].torrent = t
        BY Slots DEF SInv, Holders
      <4>5. \A p \in Preloads : task'[p].aborted =>
                \/ phase' # "up"
                \/ removal'[task'[p].torrent] = "preload" /\ current'[task'[p].torrent] = p
        <5> SUFFICES ASSUME NEW p \in Preloads, task'[p].aborted, phase = "up"
                     PROVE  removal'[task[p].torrent] = "preload" /\ current[task[p].torrent] = p
          BY <4>1, <4>2
        <5>1. CASE current[t] = p
          <6>1. task[p].torrent = t /\ removal \in [Torrents -> RemovalPcs]
            BY <4>4, <5>1 DEF SInv, TypeOK
          <6> QED BY <4>1, <5>1, <6>1
        <5>2. CASE current[t] # p
          <6>1. task[p].aborted
            BY <4>2, <5>2
          <6>2. removal[task[p].torrent] = "preload" /\ current[task[p].torrent] = p
            BY <6>1 DEF JobInv
          <6>3. task[p].torrent \in Torrents
            BY <6>1 DEF SInv, Holders, NoTask
          <6> QED BY <4>3, <6>2, <6>3
        <5> QED BY <5>1, <5>2
      <4>6. \A u \in Torrents : job[u].by # NoPreload => task'[job[u].by].torrent = u
        <5>1. \A u \in Torrents : job[u].by \in Preloads \cup {NoPreload}
          BY DEF SInv, TypeOK, Job
        <5> QED BY <4>2, <5>1 DEF JobInv
      <4> QED BY <4>1, <4>3, <4>5, <4>6 DEF JobInv, Quieted
    <3>4. CASE RemovalDisconnects(t) \/ RemovalForgets(t)
      <4>1. /\ UNCHANGED <<phase, current, task>>
            /\ removal[t] = "row" \/ current[t] = NoPreload
            /\ \/ removal' = [removal EXCEPT ![t] = "readers"] /\ job' = job
               \/ /\ removal' = [removal EXCEPT ![t] = "none"]
                  /\ job' = [job EXCEPT ![t] = NoJob]
        BY <3>4 DEF RemovalDisconnects, RemovalForgets, shutdown
      <4>2. /\ \A u \in Torrents : job'[u] = job[u] \/ job'[u] = NoJob
            /\ \A u \in Torrents : removal[u] = "preload" /\ current[u] # NoPreload =>
                   removal'[u] = "preload"
            /\ \A u \in Torrents : removal[u] # "none" => removal'[u] # "none" \/ job'[u] = NoJob
        BY <4>1 DEF SInv, TypeOK
      <4> QED BY <4>1, <4>2, StillRunning
    <3> QED BY <2>4, <3>1, <3>2, <3>3, <3>4 DEF RemovalSteps
  <2>5. ASSUME NEW p \in Preloads, PreloadSteps(p) PROVE JobInv'
    <3>1. CASE PreloadReady(p) \/ PreloadConsumed(p) \/ PreloadMeasured(p)
      <4>1. UNCHANGED <<phase, current, job, removal>>
        BY <3>1 DEF PreloadReady, PreloadConsumed, PreloadMeasured, shutdown
      <4>2. \A q \in Preloads : task'[q].torrent = task[q].torrent
                                /\ task'[q].aborted = task[q].aborted
        <5>1. CASE PreloadMeasured(p)
          <6>1. PICK w : task' = [task EXCEPT ![p].pc = "pruning", ![p].wait = w]
            BY <5>1 DEF PreloadMeasured
          <6> DEFINE k == [task[p] EXCEPT !.pc = "pruning", !.wait = w]
          <6>2. task \in [Preloads -> Task] /\ task[p] \in Task /\ task' = [task EXCEPT ![p] = k]
            BY <6>1 DEF SInv, TypeOK
          <6>3. k.torrent = task[p].torrent /\ k.aborted = task[p].aborted
            BY <6>2 DEF Task
          <6> HIDE DEF k
          <6> QED BY <6>2, <6>3
        <5>2. CASE PreloadReady(p) \/ PreloadConsumed(p)
          <6>1. task' = [task EXCEPT ![p].pc = "consuming"] \/ task' = [task EXCEPT ![p].pc = "saving"]
            BY <5>2 DEF PreloadReady, PreloadConsumed
          <6>2. task \in [Preloads -> Task] /\ task[p] \in Task
            BY DEF SInv, TypeOK
          <6>3. \A pc \in {"consuming", "saving"} :
                   LET k == [task[p] EXCEPT !.pc = pc]
                   IN  k.torrent = task[p].torrent /\ k.aborted = task[p].aborted
            BY <6>2 DEF Task
          <6>4. \E pc \in {"consuming", "saving"} :
                   task' = [task EXCEPT ![p] = [task[p] EXCEPT !.pc = pc]]
            BY <6>1, <6>2
          <6> QED BY <6>2, <6>3, <6>4
        <5> QED BY <3>1, <5>1, <5>2
      <4> QED BY <4>1, <4>2, StillRunning
    <3>2. CASE PreloadGivesUp(p) \/ PreloadFails(p) \/ PreloadUnrecorded(p) \/ PreloadCompletes(p)
      <4>1. UNCHANGED <<phase, removal>> /\ task[p].pc # "none"
        BY <3>2 DEF PreloadGivesUp, PreloadFails, PreloadUnrecorded, PreloadCompletes, shutdown
      <4>2. \E state \in {"running", "failed", "completed"} :
                /\ EndPreload(p, state)
                /\ state = "running" => task[p].aborted \/ Quieted(task[p].torrent)
        BY <3>2 DEF PreloadGivesUp, PreloadFails, PreloadUnrecorded, PreloadCompletes
      <4> QED BY <4>1, <4>2, EndedJob
    <3> QED BY <2>5, <3>1, <3>2 DEF PreloadSteps
  <2>6. ASSUME NEW s \in Sessions, SessionSteps(s) PROVE JobInv'
    <3>1. Still
      BY <2>6 DEF SessionSteps, DoneEvent, CompletionMeasured, shutdown, preloading
    <3> QED BY <3>1, StillRunning
  <2>7. CASE CloseSteps
    <3>1. CASE Exit
      BY <3>1, MemoryLostJob DEF Exit
    <3>2. CASE CloseAwaits \/ CloseSaves \/ CloseDestroys \/ ClosePreloads \/ ClosePrunes
               \/ \E s \in Sessions : CloseRecords(s)
      <4>1. phase # "up" /\ phase' # "up" /\ UNCHANGED <<task, job>>
        BY <3>2 DEF CloseAwaits, CloseSaves, CloseDestroys, ClosePreloads, ClosePrunes,
                    CloseRecords, preloading
      <4> QED BY <4>1 DEF JobInv, Quieted
    <3> QED BY <2>7, <3>1, <3>2 DEF CloseSteps
  <2> QED BY <1>4, <2>1, <2>2, <2>3, <2>4, <2>5, <2>6, <2>7 DEF Internal
<1>5. CASE Timers
  <2>1. Still
    BY <1>5 DEF Timers, IdleTimer, shutdown, preloading
  <2> QED BY <2>1, StillRunning
<1>6. CASE Clients
  <2>1. Still
    BY <1>6 DEF Clients, EndRequest, CloseReader, shutdown, preloading
  <2> QED BY <2>1, StillRunning
<1>7. CASE UNCHANGED vars
  <2>1. Still
    BY <1>7 DEF vars, shutdown, preloading
  <2> QED BY <2>1, StillRunning
<1> QED BY <1>1, <1>2, <1>3, <1>4, <1>5, <1>6, <1>7 DEF Next

(* Unless a removal can fail before it awaits the preload, a status that says running *)
(* has a frame that will end it (startPreload, executePreload, performReservedRemoval,*)
(* evictCacheEntry), so that a registration never waits for a preload nobody runs.    *)
THEOREM RunningMeansRuns == Spec => [](NoneFailsEarly => RunningPreloadRuns)
<1>1. Init => JobInv
  BY DEF Init, JobInv, NoJob, NoTask
<1>2. SInv /\ JobInv => (NoneFailsEarly => RunningPreloadRuns)
  <2> SUFFICES ASSUME SInv, JobInv, NoneFailsEarly, NEW t \in Torrents,
                      job[t].state = "running", ~Quieted(t)
               PROVE  \E p \in Preloads : job[t].by = p /\ task[p].torrent = t
    BY DEF RunningPreloadRuns
  <2>1. job[t].by # NoPreload /\ job[t].by \in Preloads \cup {NoPreload}
    BY DEF JobInv, SInv, TypeOK, Job
  <2> QED BY <2>1 DEF JobInv
<1> QED BY <1>1, <1>2, SessionInvariance, JobKept, PTL DEF Spec

-----------------------------------------------------------------------------
(***************************************************************************)
(* A prune is enough and starts at the old end.                            *)
(***************************************************************************)

(* The order of the natural numbers, as a relation *)
Less == {p \in Nat \X Nat : p[1] < p[2]}

(* Any numbers have a least one. *)
LEMMA LeastNumber ==
    ASSUME NEW T \in SUBSET Nat, T # {}
    PROVE  \E m \in T : \A k \in T : m <= k
<1>1. IsWellFoundedOn(Less, Nat)
  BY NatLessThanWellFounded DEF OpToRel, Less
<1>2. PICK m \in T : \A k \in T : ~(<<k, m>> \in Less)
  BY <1>1, WFMin
<1>3. ASSUME NEW k \in T PROVE m <= k
  <2>1. k \in Nat /\ m \in Nat /\ ~(<<k, m>> \in Less)
    BY <1>2
  <2>2. ~(k < m)
    BY <2>1 DEF Less
  <2> QED BY <2>1, <2>2
<1> QED BY <1>3

(* Induction over the numbers up to N, with a set in the place of a predicate *)
LEMMA UpTo ==
    ASSUME NEW N \in Nat, NEW T, 0 \in T, \A n \in 1..N : n - 1 \in T => n \in T
    PROVE  0..N \subseteq T
<1> DEFINE Out == (0..N) \ T
<1>1. SUFFICES ASSUME Out # {} PROVE FALSE
  OBVIOUS
<1>2. Out \in SUBSET Nat
  OBVIOUS
<1> HIDE DEF Out
<1>3. PICK m \in Out : \A k \in Out : m <= k
  BY <1>1, <1>2, LeastNumber
<1>4. m \in 1..N /\ m - 1 \in 0..N /\ m \notin T
  BY DEF Out
<1>5. m - 1 \in Out
  BY <1>4 DEF Out
<1> QED BY <1>3, <1>4, <1>5

(* What each row counts for in the sum of some of them, and such sums *)
Weight(rows, indices) ==
    [n \in 1..Len(rows) |-> IF n \in indices THEN rows[n].bytes ELSE 0]
Sums(sum, N, weight) ==
    sum \in [0..N -> Nat] /\ sum[0] = 0 /\ \A n \in 1..N : sum[n] = sum[n - 1] + weight[n]

(* Every weights have their sums. *)
LEMMA SumsExist ==
    ASSUME NEW N \in Nat, NEW weight \in [1..N -> Nat]
    PROVE  \E sum : Sums(sum, N, weight)
<1> DEFINE T == {m \in 0..N : \E f \in [0..N -> Nat] :
                     f[0] = 0 /\ \A n \in 1..m : f[n] = f[n - 1] + weight[n]}
<1>1. 0 \in T
  <2> DEFINE f == [n \in 0..N |-> 0]
  <2>1. f \in [0..N -> Nat] /\ f[0] = 0 /\ 1..0 = {}
    OBVIOUS
  <2> HIDE DEF f
  <2> QED BY <2>1, 0 \in 0..N
<1>2. ASSUME NEW m \in 1..N, m - 1 \in T PROVE m \in T
  <2>1. PICK g \in [0..N -> Nat] :
            g[0] = 0 /\ \A n \in 1..(m - 1) : g[n] = g[n - 1] + weight[n]
    BY <1>2
  <2> DEFINE f == [n \in 0..N |-> IF n = m THEN g[m - 1] + weight[m] ELSE g[n]]
  <2>2. g[m - 1] \in Nat /\ weight[m] \in Nat /\ m \in 0..N /\ m - 1 \in 0..N /\ m - 1 # m
    OBVIOUS
  <2>3. /\ f \in [0..N -> Nat] /\ f[m] = g[m - 1] + weight[m]
        /\ \A n \in 0..(m - 1) : f[n] = g[n]
    <3>1. f \in [0..N -> Nat]
      BY <2>2
    <3>2. f[m] = g[m - 1] + weight[m]
      BY <2>2
    <3>3. \A n \in 0..(m - 1) : f[n] = g[n]
      OBVIOUS
    <3> QED BY <3>1, <3>2, <3>3
  <2> HIDE DEF f
  <2>4. ASSUME NEW n \in 1..m PROVE f[n] = f[n - 1] + weight[n]
    <3>1. CASE n = m
      BY <2>3, <3>1, m - 1 \in 0..(m - 1)
    <3>2. CASE n # m
      <4>1. n \in 1..(m - 1) /\ n \in 0..(m - 1) /\ n - 1 \in 0..(m - 1)
        BY <3>2
      <4>2. f[n] = g[n] /\ f[n - 1] = g[n - 1]
        BY <2>3, <4>1
      <4>3. g[n] = g[n - 1] + weight[n]
        BY <2>1, <4>1
      <4> QED BY <4>2, <4>3
    <3> QED BY <3>1, <3>2
  <2>5. f[0] = 0
    BY <2>1, <2>3, 0 \in 0..(m - 1)
  <2> QED BY <2>2, <2>3, <2>4, <2>5
<1> HIDE DEF T
<1>3. 0..N \subseteq T
  BY <1>1, <1>2, UpTo
<1>4. N \in T
  BY <1>3
<1> QED BY <1>4 DEF T, Sums

(* The bytes of some rows are the last of the sums of their weights. *)
LEMMA BytesSum ==
    ASSUME NEW rows \in Seq(Row), NEW indices
    PROVE  /\ Len(rows) \in Nat
           /\ \A n \in 1..Len(rows) : rows[n].bytes \in Nat
           /\ \E sum : /\ Sums(sum, Len(rows), Weight(rows, indices))
                       /\ Bytes(rows, indices) = sum[Len(rows)]
<1> DEFINE N == Len(rows)
           S == CHOOSE f : f = [n \in 0..N |->
                    IF n = 0 THEN 0
                    ELSE f[n - 1] + IF n \in indices THEN rows[n].bytes ELSE 0]
           w == Weight(rows, indices)
<1>1. N \in Nat
  BY LenProperties
<1>2. ASSUME NEW n \in 1..N PROVE rows[n].bytes \in Nat
  <2>1. rows[n] \in Row
    BY LenProperties
  <2> QED BY <2>1, PiecesAssumption DEF Row
<1>3. Bytes(rows, indices) = S[N]
  BY Zenon DEF Bytes
<1>4. \A n \in 1..N : w[n] = IF n \in indices THEN rows[n].bytes ELSE 0
  BY DEF Weight
<1>5. w \in [1..N -> Nat]
  BY <1>2 DEF Weight
<1> HIDE DEF w, N
<1>6. PICK sum : Sums(sum, N, w)
  BY <1>1, <1>5, SumsExist
<1>7. \A n \in 0..N : n # 0 => n \in 1..N
  BY <1>1
<1>8. \A n \in 0..N : sum[n] = IF n = 0 THEN 0
                               ELSE sum[n - 1] + IF n \in indices THEN rows[n].bytes ELSE 0
  BY <1>4, <1>6, <1>7 DEF Sums
<1>9. sum = [n \in 0..N |-> IF n = 0 THEN 0
                            ELSE sum[n - 1] + IF n \in indices THEN rows[n].bytes ELSE 0]
  BY <1>6, <1>8 DEF Sums
<1>10. S = [n \in 0..N |-> IF n = 0 THEN 0
                           ELSE S[n - 1] + IF n \in indices THEN rows[n].bytes ELSE 0]
  BY <1>9
<1> HIDE DEF S
<1> DEFINE T == {n \in 0..N : S[n] = sum[n]}
<1>11. 0 \in T
  BY <1>1, <1>6, <1>10 DEF Sums
<1>12. ASSUME NEW n \in 1..N, n - 1 \in T PROVE n \in T
  <2>1. n \in 0..N /\ n # 0
    BY <1>1
  <2>2. S[n] = S[n - 1] + IF n \in indices THEN rows[n].bytes ELSE 0
    BY <1>10, <2>1
  <2> QED BY <1>8, <1>12, <2>1, <2>2
<1> HIDE DEF T
<1>13. 0..N \subseteq T
  BY <1>1, <1>11, <1>12, UpTo
<1>14. N \in T
  BY <1>1, <1>13
<1> QED BY <1>1, <1>2, <1>3, <1>6, <1>14 DEF T, w, N

(* Rows of two kinds have no more bytes than rows that include both. *)
LEMMA BytesAdd ==
    ASSUME NEW rows \in Seq(Row), NEW A, NEW B, NEW C, A \cap B = {}, A \cup B \subseteq C
    PROVE  /\ {Bytes(rows, A), Bytes(rows, B), Bytes(rows, C)} \subseteq Nat
           /\ Bytes(rows, A) + Bytes(rows, B) <= Bytes(rows, C)
<1> DEFINE N == Len(rows)
<1>1. N \in Nat /\ \A n \in 1..N : rows[n].bytes \in Nat
  BY BytesSum
<1>2. PICK a : Sums(a, N, Weight(rows, A)) /\ Bytes(rows, A) = a[N]
  BY BytesSum
<1>3. PICK b : Sums(b, N, Weight(rows, B)) /\ Bytes(rows, B) = b[N]
  BY BytesSum
<1>4. PICK c : Sums(c, N, Weight(rows, C)) /\ Bytes(rows, C) = c[N]
  BY BytesSum
<1>5. ASSUME NEW n \in 1..N
      PROVE  /\ {Weight(rows, A)[n], Weight(rows, B)[n], Weight(rows, C)[n]} \subseteq Nat
             /\ Weight(rows, A)[n] + Weight(rows, B)[n] <= Weight(rows, C)[n]
  <2>1. /\ Weight(rows, A)[n] = IF n \in A THEN rows[n].bytes ELSE 0
        /\ Weight(rows, B)[n] = IF n \in B THEN rows[n].bytes ELSE 0
        /\ Weight(rows, C)[n] = IF n \in C THEN rows[n].bytes ELSE 0
    BY DEF Weight
  <2>2. rows[n].bytes \in Nat
    BY <1>1
  <2> QED BY <2>1, <2>2
<1> HIDE DEF N
<1> DEFINE T == {n \in 0..N : a[n] + b[n] <= c[n]}
<1>6. 0 \in T
  BY <1>1, <1>2, <1>3, <1>4 DEF Sums
<1>7. ASSUME NEW n \in 1..N, n - 1 \in T PROVE n \in T
  <2>1. n \in 0..N /\ n - 1 \in 0..N
    BY <1>1
  <2>2. /\ a[n] = a[n - 1] + Weight(rows, A)[n] /\ a[n - 1] \in Nat
        /\ b[n] = b[n - 1] + Weight(rows, B)[n] /\ b[n - 1] \in Nat
        /\ c[n] = c[n - 1] + Weight(rows, C)[n] /\ c[n - 1] \in Nat
    BY <1>2, <1>3, <1>4, <2>1 DEF Sums
  <2>3. a[n - 1] + b[n - 1] <= c[n - 1]
    BY <1>7
  <2> QED BY <1>5, <2>1, <2>2, <2>3
<1> HIDE DEF T
<1>8. 0..N \subseteq T
  BY <1>1, <1>6, <1>7, UpTo
<1>9. N \in T
  BY <1>1, <1>8
<1>10. a[N] \in Nat /\ b[N] \in Nat /\ c[N] \in Nat
  BY <1>1, <1>2, <1>3, <1>4 DEF Sums
<1> QED BY <1>2, <1>3, <1>4, <1>9, <1>10 DEF T

(* Without its victims the rows fit, or all of them are spared; and no row that a    *)
(* prune passes over though it might take it is older than one that it takes.         *)
LEMMA VictimsSuffice ==
    ASSUME NEW rows \in Seq(Row), Distinct(rows), NEW reading,
           NEW kept \in SUBSET DOMAIN rows,
           \A i \in kept : rows[i].torrent \notin Victims(rows, reading)
    PROVE  /\ \/ Bytes(rows, kept) <= Capacity
              \/ \A i \in kept : rows[i].torrent \in Spared(reading)
           /\ \A i \in kept, j \in DOMAIN rows :
                  /\ rows[i].torrent \notin Spared(reading)
                  /\ rows[j].torrent \in Victims(rows, reading)
                  => j < i
<1> DEFINE idle == {i \in DOMAIN rows : rows[i].torrent \notin Spared(reading)}
           Older(i) == {j \in idle : j < i}
           Excess(i) == TotalBytes(rows) > Capacity + Bytes(rows, Older(i))
           victims == Victims(rows, reading)
<1>1. victims = {rows[i].torrent : i \in {i \in idle : Excess(i)}}
  BY DEF Victims
<1>2. DOMAIN rows \subseteq Nat /\ idle \subseteq DOMAIN rows /\ Capacity \in Nat
  BY LenProperties, PiecesAssumption
<1>3. ASSUME NEW i \in idle, rows[i].torrent \notin victims
      PROVE  TotalBytes(rows) <= Capacity + Bytes(rows, Older(i))
  <2>1. ~Excess(i)
    BY <1>1, <1>3
  <2>2. Older(i) \subseteq DOMAIN rows
    BY <1>2
  <2>3. Bytes(rows, Older(i)) \in Nat /\ TotalBytes(rows) \in Nat
    BY <2>2, BytesAdd, Older(i) \cap {} = {}, Older(i) \cup {} \subseteq DOMAIN rows DEF TotalBytes
  <2> HIDE DEF Older
  <2> QED BY <1>2, <2>1, <2>3
<1>4. ASSUME NEW i \in kept, i \in idle PROVE Bytes(rows, kept) <= Capacity
  <2> DEFINE Passed == {k \in idle : rows[k].torrent \notin victims}
  <2>1. i \in Passed /\ Passed \in SUBSET Nat
    BY <1>2, <1>4
  <2>2. PICK k \in Passed : \A l \in Passed : k <= l
    BY <2>1, LeastNumber
  <2>3. k \in idle /\ k \in Nat /\ rows[k].torrent \notin victims
    BY <1>2
  <2>4. \A j \in Older(k) : rows[j].torrent \in victims
    BY <1>2, <2>2, <2>3
  <2>5. kept \cap Older(k) = {} /\ kept \cup Older(k) \subseteq DOMAIN rows
    BY <1>2, <2>4
  <2>6. TotalBytes(rows) <= Capacity + Bytes(rows, Older(k))
    BY <1>3, <2>3
  <2> HIDE DEF Older
  <2>7. /\ {Bytes(rows, kept), Bytes(rows, Older(k)), TotalBytes(rows)} \subseteq Nat
        /\ Bytes(rows, kept) + Bytes(rows, Older(k)) <= TotalBytes(rows)
    BY <2>5, BytesAdd DEF TotalBytes
  <2> QED BY <1>2, <2>6, <2>7
<1>5. ASSUME NEW i \in kept, NEW j \in DOMAIN rows, i \in idle, rows[j].torrent \in victims
      PROVE  j < i
  <2>1. SUFFICES ASSUME ~(j < i) PROVE FALSE
    OBVIOUS
  <2>2. PICK k \in idle : Excess(k) /\ rows[k].torrent = rows[j].torrent
    BY <1>1, <1>5
  <2>3. k = j
    BY <1>2, <2>2 DEF Distinct
  <2>4. TotalBytes(rows) <= Capacity + Bytes(rows, Older(i))
    BY <1>3, <1>5
  <2>5. Older(i) \cap {} = {} /\ Older(i) \cup {} \subseteq Older(j)
    BY <1>2, <2>1
  <2>6. Older(j) \cap {} = {} /\ Older(j) \cup {} \subseteq DOMAIN rows
    BY <1>2
  <2>7. TotalBytes(rows) > Capacity + Bytes(rows, Older(j))
    BY <2>2, <2>3
  <2> HIDE DEF Older
  <2>8. /\ {Bytes(rows, Older(i)), Bytes(rows, {}), Bytes(rows, Older(j))} \subseteq Nat
        /\ Bytes(rows, Older(i)) + Bytes(rows, {}) <= Bytes(rows, Older(j))
    BY <2>5, BytesAdd
  <2>9. TotalBytes(rows) \in Nat
    BY <2>6, BytesAdd DEF TotalBytes
  <2> QED BY <1>2, <2>4, <2>7, <2>8, <2>9
<1>6. \A i \in kept : i \in idle <=> rows[i].torrent \notin Spared(reading)
  OBVIOUS
<1> QED BY <1>4, <1>5, <1>6

(* A prune frees enough, of the rows that it found. *)
LEMMA PruneMeets ==
    ASSUME SInv, cache' \in Seq(Row), Distinct(cache'), NEW reading,
           Prune(Victims(cache', reading)), UNCHANGED <<session, removal>>,
           \A t \in Torrents : t \in reading => \E r \in Readers : reader'[r].torrent = t
    PROVE  PruneStep
<1> DEFINE rows == cache'
           victims == Victims(rows, reading)
           kept == {i \in DOMAIN rows : evict'[rows[i].torrent] = "none"}
           Held(t) == \/ session'[t] # NoSession \/ removal'[t] # "none"
                       \/ \E r \in Readers : reader'[r].torrent = t
<1>1. \A i \in DOMAIN rows : rows[i].torrent \in Torrents
  <2>1. \A i \in DOMAIN rows : rows[i] \in Row
    BY LenProperties
  <2> QED BY <2>1 DEF Row
<1>2. \A t \in Torrents : evict'[t] = IF t \in victims THEN "rm" ELSE evict[t]
  BY DEF Prune
<1>3. kept \in SUBSET DOMAIN rows /\ \A i \in kept : rows[i].torrent \notin victims
  BY <1>1, <1>2
<1>4. \A i \in kept : rows[i].torrent \in Spared(reading) => Held(rows[i].torrent)
  <2> SUFFICES ASSUME NEW i \in kept, rows[i].torrent \in Spared(reading)
               PROVE  Held(rows[i].torrent)
    OBVIOUS
  <2>1. rows[i].torrent \in Torrents /\ evict[rows[i].torrent] = "none"
    BY <1>1, <1>2, <1>3
  <2> QED BY <2>1 DEF Spared
<1>5. /\ \/ Bytes(rows, kept) <= Capacity
         \/ \A i \in kept : rows[i].torrent \in Spared(reading)
      /\ \A i \in kept, j \in DOMAIN rows :
             rows[i].torrent \notin Spared(reading) /\ rows[j].torrent \in victims => j < i
  BY <1>3, VictimsSuffice
<1>6. \A t \in Torrents : evict[t] # "rm" /\ evict'[t] = "rm" => t \in victims
  BY <1>2
<1> HIDE DEF rows, victims, Held
<1>7. Bytes(rows, kept) <= Capacity \/ \A i \in kept : Held(rows[i].torrent)
  BY <1>4, <1>5
<1>8. \A i \in kept, j \in DOMAIN rows :
          /\ rows[j].torrent \in {t \in Torrents : evict[t] # "rm" /\ evict'[t] = "rm"}
          /\ ~Held(rows[i].torrent)
          => j < i
  BY <1>4, <1>5, <1>6
<1> QED BY <1>7, <1>8 DEF PruneStep, rows, Held

(* A step that starts no eviction, and in which nobody begins to wait for some *)
NothingStarts(frames, those) ==
    \A x \in those : frames'[x].pc = "pruning" => frames[x].pc = "pruning"
NoPrune ==
    /\ \A t \in Torrents : evict'[t] = "rm" => evict[t] = "rm"
    /\ NothingStarts(drop, Torrents) /\ NothingStarts(task, Preloads)
    /\ phase' = "prune" => phase = "prune"

(* It has nothing to free. *)
LEMMA NothingPruned ==
    ASSUME NoPrune
    PROVE  PruneStep
BY DEF NoPrune, NothingStarts, PruneStep

(* Nor has one that touches none of them. *)
LEMMA PruneUnmoved ==
    ASSUME UNCHANGED <<evict, drop, task, phase>>
    PROVE  NoPrune
BY DEF NoPrune, NothingStarts

(* Where the frames of preloads and idle drops are when a step has changed them *)
LEMMA FramePcs ==
    /\ NoTask.pc = "none" /\ NoDrop.pc = "none"
    /\ \A t, s : [NoTask EXCEPT !.pc = "ready", !.torrent = t, !.s = s].pc = "ready"
    /\ \A t, s : [NoTask EXCEPT !.pc = "ready", !.s = s, !.torrent = t].pc = "ready"
    /\ \A c : [NoDrop EXCEPT !.pc = "measuring", !.completed = c].pc = "measuring"
    /\ \A s, c : [NoDrop EXCEPT !.pc = "saving", !.s = s, !.completed = c].pc = "saving"
    /\ \A k \in Task : /\ \A pc : [k EXCEPT !.pc = pc].pc = pc
                       /\ \A t : [k EXCEPT !.wait = @ \ {t}].pc = k.pc
                       /\ [k EXCEPT !.aborted = TRUE].pc = k.pc
    /\ \A d \in Drop : /\ \A pc : [d EXCEPT !.pc = pc].pc = pc
                       /\ \A t : [d EXCEPT !.wait = @ \ {t}].pc = d.pc
BY DEF NoTask, NoDrop, Task, Drop

(* One frame that does not begin to wait *)
LEMMA OneStarts ==
    ASSUME SInv, NEW x, NEW k, k.pc # "pruning"
    PROVE  /\ task' = [task EXCEPT ![x] = k] => NothingStarts(task, Preloads)
           /\ drop' = [drop EXCEPT ![x] = k] => NothingStarts(drop, Torrents)
<1>1. task \in [Preloads -> Task] /\ drop \in [Torrents -> Drop]
  BY DEF SInv, TypeOK
<1>2. ASSUME task' = [task EXCEPT ![x] = k], NEW p \in Preloads
      PROVE  task'[p] = task[p] \/ task'[p] = k
  BY <1>1, <1>2
<1>3. ASSUME drop' = [drop EXCEPT ![x] = k], NEW t \in Torrents
      PROVE  drop'[t] = drop[t] \/ drop'[t] = k
  BY <1>1, <1>3
<1> QED BY <1>2, <1>3 DEF NothingStarts

(* A preload that begins or ends *)
LEMMA BegunPrunes ==
    ASSUME SInv, \/ \E t \in Torrents : BeginPreload(t)
                 \/ \E p \in Preloads : \E state : EndPreload(p, state)
    PROVE  NothingStarts(task, Preloads)
<1>1. CASE \E t \in Torrents : BeginPreload(t)
  <2>1. PICK t \in Torrents, p \in Preloads :
            task' = [task EXCEPT ![p] = [NoTask EXCEPT !.pc = "ready", !.torrent = t,
                                                       !.s = SessionOf(t)]]
    BY <1>1 DEF BeginPreload
  <2> DEFINE k == [NoTask EXCEPT !.pc = "ready", !.torrent = t, !.s = SessionOf(t)]
  <2>2. k.pc = "ready"
    BY DEF NoTask
  <2> HIDE DEF k
  <2>3. task' = [task EXCEPT ![p] = k]
    BY <2>1 DEF k
  <2> QED BY <2>2, <2>3, OneStarts
<1>2. CASE \E p \in Preloads : \E state : EndPreload(p, state)
  <2>1. PICK p \in Preloads : task' = [task EXCEPT ![p] = NoTask]
    BY <1>2 DEF EndPreload
  <2> QED BY <2>1, FramePcs, OneStarts
<1> QED BY <1>1, <1>2

(* A process that ends or begins *)
LEMMA MemoryLostPrunes ==
    ASSUME MemoryLost \/ Boot
    PROVE  NoPrune
<1>1. CASE MemoryLost
  BY <1>1, FramePcs DEF MemoryLost, NoPrune, NothingStarts
<1>2. CASE Boot
  <2>1. PICK place \in [Restored -> Sessions \cap Preloads] : task' = [p \in Preloads |->
              IF \E t \in Restored : place[t] = p
              THEN [NoTask EXCEPT !.pc = "ready", !.s = p,
                        !.torrent = CHOOSE t \in Restored : place[t] = p]
              ELSE NoTask]
    BY <1>2 DEF Boot
  <2>2. ASSUME NEW p \in Preloads PROVE task'[p].pc # "pruning"
    BY <2>1 DEF NoTask
  <2>3. UNCHANGED <<evict, drop>> /\ phase' = "up"
    BY <1>2 DEF Boot
  <2> QED BY <2>2, <2>3 DEF NoPrune, NothingStarts
<1> QED BY <1>1, <1>2

(* Every step that is no prune frees nothing, and every prune enough. *)
LEMMA PrunesMeet == SInv /\ SInv' /\ [Next]_vars => PruneStep
<1> SUFFICES ASSUME SInv, SInv', [Next]_vars PROVE PruneStep
  OBVIOUS
<1> USE DEF shutdown, preloading
<1>1. /\ cache' \in Seq(Row) /\ Distinct(cache')
      /\ task \in [Preloads -> Task] /\ drop \in [Torrents -> Drop]
      /\ evict \in [Torrents -> {"none", "rm", "row"}]
  BY DEF SInv, TypeOK, OneRow
<1>2. CASE Boot
  BY <1>2, MemoryLostPrunes, NothingPruned
<1>3. CASE Api
  <2>1. ASSUME NEW t \in Torrents, NEW b \in BOOLEAN, Register(t, b) PROVE NoPrune
    <3>1. UNCHANGED <<evict, drop, phase>> /\ (BeginPreload(t) \/ UNCHANGED task)
      BY <2>1 DEF Register
    <3> QED BY <3>1, BegunPrunes DEF NoPrune, NothingStarts
  <2>2. ASSUME NEW t \in Torrents, StartPreload(t) PROVE NoPrune
    BY <2>2, BegunPrunes DEF StartPreload, NoPrune, NothingStarts
  <2>3. ASSUME NEW t \in Torrents, RemoveTorrent(t) PROVE NoPrune
    BY <2>3, PruneUnmoved DEF RemoveTorrent
  <2>4. ASSUME NEW o \in Ops, NEW t \in Torrents, NEW x, Request(o, t, x) PROVE NoPrune
    BY <2>4, PruneUnmoved DEF Request
  <2>5. ASSUME NEW r \in Readers, NEW t \in Torrents, OpenReader(r, t) PROVE NoPrune
    BY <2>5, PruneUnmoved DEF OpenReader
  <2> QED BY <1>3, <2>1, <2>2, <2>3, <2>4, <2>5, NothingPruned DEF Api
<1>4. CASE Environment
  <2>1. ASSUME NEW s \in Sessions, MetadataEvent(s) \/ ReadyEvent(s) \/ Download(s) \/ TorrentFails(s)
        PROVE  NoPrune
    BY <2>1, PruneUnmoved DEF MetadataEvent, ReadyEvent, Download, TorrentFails
  <2>2. ASSUME NEW o \in Ops, Answer(o) PROVE NoPrune
    BY <2>2, PruneUnmoved DEF Answer
  <2>3. ASSUME NEW r \in Readers, Validate(r) PROVE NoPrune
    BY <2>3, PruneUnmoved DEF Validate
  <2>4. CASE Close
    <3>1. \A p \in Preloads : task'[p].pc = task[p].pc
      BY <1>1, <2>4, FramePcs DEF Close
    <3>2. UNCHANGED <<evict, drop>> /\ phase' = "removals"
      BY <2>4 DEF Close
    <3> QED BY <3>1, <3>2, NothingPruned DEF NoPrune, NothingStarts
  <2>5. CASE Crash
    BY <2>5, MemoryLostPrunes, NothingPruned DEF Crash
  <2> QED BY <1>4, <2>1, <2>2, <2>3, <2>4, <2>5, NothingPruned DEF Environment
<1>5. CASE Internal
  <2>1. ASSUME NEW t \in Torrents, EvictSteps(t) PROVE NoPrune
    <3>1. CASE EvictDelete(t)
      BY <1>1, <3>1 DEF EvictDelete, NoPrune, NothingStarts
    <3>2. CASE EvictRecord(t)
      <4>1. /\ \A p \in Preloads : task'[p].pc = task[p].pc
            /\ \A u \in Torrents : drop'[u].pc = drop[u].pc
        <5>1. /\ drop' = [u \in Torrents |-> [drop[u] EXCEPT !.wait = @ \ {t}]]
              /\ task' = [p \in Preloads |-> [task[p] EXCEPT !.wait = @ \ {t}]]
          BY <3>2 DEF EvictRecord
        <5>2. ASSUME NEW p \in Preloads PROVE task'[p].pc = task[p].pc
          <6>1. task[p] \in Task /\ task'[p] = [task[p] EXCEPT !.wait = @ \ {t}]
            BY <1>1, <5>1
          <6> QED BY <6>1, FramePcs
        <5>3. ASSUME NEW u \in Torrents PROVE drop'[u].pc = drop[u].pc
          <6>1. drop[u] \in Drop /\ drop'[u] = [drop[u] EXCEPT !.wait = @ \ {t}]
            BY <1>1, <5>1
          <6> QED BY <6>1, FramePcs
        <5> QED BY <5>2, <5>3
      <4> QED BY <1>1, <3>2, <4>1 DEF EvictRecord, NoPrune, NothingStarts
    <3> QED BY <2>1, <3>1, <3>2 DEF EvictSteps
  <2>2. ASSUME NEW t \in Torrents, SaveSteps(t) PROVE NoPrune
    <3>1. PICK pc \in {"measuring", "failed"} : task' = TasksResumed(t, pc)
      BY <2>2 DEF SaveSteps, StateSaved, StateNotSaved
    <3>2. NothingStarts(task, Preloads)
      BY <1>1, <3>1, FramePcs DEF TasksResumed, NothingStarts
    <3>3. NothingStarts(drop, Torrents)
      <4>1. \/ drop' = drop
            \/ drop' = [drop EXCEPT ![t] = NoDrop]
            \/ drop' = [drop EXCEPT ![t] = Disconnected(t, drop[t].completed)]
        BY <2>2 DEF SaveSteps, StateSaved, StateNotSaved
      <4>2. Disconnected(t, drop[t].completed).pc = "measuring"
        BY FramePcs DEF Disconnected
      <4> QED BY <4>1, <4>2, FramePcs, OneStarts DEF NothingStarts
    <3>4. UNCHANGED <<evict, phase>>
      BY <2>2 DEF SaveSteps, StateSaved, StateNotSaved
    <3> QED BY <3>2, <3>3, <3>4 DEF NoPrune
  <2>3. ASSUME NEW t \in Torrents, DropSteps(t) PROVE PruneStep
    <3>1. CASE DropMeasured(t) /\ metadata[t] # "none"
      <4>1. /\ cache' = RecordCache(cache, t, disk[t], drop[t].completed)
            /\ Prune(Victims(cache', Reading)) /\ UNCHANGED <<session, removal, reader>>
        BY <3>1 DEF DropMeasured
      <4> QED BY <1>1, <4>1, PruneMeets DEF Reading
    <3>2. CASE DropMeasured(t) /\ metadata[t] = "none"
      <4>1. UNCHANGED <<evict, task, phase>> /\ drop' = [drop EXCEPT ![t].pc = "wiping"]
        BY <3>2 DEF DropMeasured
      <4> DEFINE d == [drop[t] EXCEPT !.pc = "wiping"]
      <4>2. d.pc = "wiping" /\ drop' = [drop EXCEPT ![t] = d]
        BY <1>1, <4>1, FramePcs
      <4> HIDE DEF d
      <4>3. NothingStarts(drop, Torrents)
        BY <4>2, OneStarts
      <4> QED BY <4>1, <4>3, NothingPruned DEF NoPrune, NothingStarts
    <3>3. CASE DropWiped(t)
      <4>1. /\ cache' = cache /\ Prune(Victims(cache', Reading))
            /\ UNCHANGED <<session, removal, reader>>
        BY <3>3 DEF DropWiped, database
      <4> QED BY <1>1, <4>1, PruneMeets DEF Reading
    <3>4. CASE DropDone(t)
      BY <3>4, FramePcs, OneStarts, NothingPruned DEF DropDone, NoPrune, NothingStarts
    <3> QED BY <2>3, <3>1, <3>2, <3>3, <3>4 DEF DropSteps
  <2>4. ASSUME NEW t \in Torrents, RemovalSteps(t) PROVE NoPrune
    <3>1. UNCHANGED <<evict, drop, phase>>
      BY <2>4 DEF RemovalSteps, RemovalPrepared, RemovalAwaits, RemovalAborts, RemovalDisconnects,
                  RemovalDeletes, RemovalForgets
    <3>2. \/ UNCHANGED task
          \/ task' = [p \in Preloads |-> IF current[t] = p THEN [task[p] EXCEPT !.aborted = TRUE]
                                                           ELSE task[p]]
      BY <2>4 DEF RemovalSteps, RemovalPrepared, RemovalAwaits, RemovalAborts, RemovalDisconnects,
                  RemovalDeletes, RemovalForgets
    <3>3. \A p \in Preloads : task'[p].pc = task[p].pc
      <4> SUFFICES ASSUME NEW p \in Preloads PROVE task'[p].pc = task[p].pc
        OBVIOUS
      <4>1. task[p] \in Task
        BY <1>1
      <4>2. task'[p] = task[p] \/ task'[p] = [task[p] EXCEPT !.aborted = TRUE]
        BY <3>2
      <4>3. [task[p] EXCEPT !.aborted = TRUE].pc = task[p].pc
        BY <4>1, FramePcs
      <4> QED BY <4>2, <4>3
    <3> QED BY <3>1, <3>3 DEF NoPrune, NothingStarts
  <2>5. ASSUME NEW p \in Preloads, PreloadSteps(p) PROVE PruneStep
    <3>1. CASE PreloadMeasured(p)
      <4>1. /\ Prune(Victims(cache', Reading)) /\ UNCHANGED <<session, removal, reader>>
        BY <3>1 DEF PreloadMeasured
      <4> QED BY <1>1, <4>1, PruneMeets DEF Reading
    <3>2. CASE PreloadReady(p) \/ PreloadConsumed(p)
      <4>1. PICK pc \in {"consuming", "saving"} : task' = [task EXCEPT ![p].pc = pc]
        BY <3>2 DEF PreloadReady, PreloadConsumed
      <4>2. NothingStarts(task, Preloads)
        BY <1>1, <4>1, FramePcs DEF NothingStarts
      <4>3. UNCHANGED <<evict, drop, phase>>
        BY <3>2 DEF PreloadReady, PreloadConsumed
      <4> QED BY <4>2, <4>3, NothingPruned DEF NoPrune, NothingStarts
    <3>3. CASE PreloadGivesUp(p) \/ PreloadFails(p) \/ PreloadUnrecorded(p) \/ PreloadCompletes(p)
      <4>1. PICK state : EndPreload(p, state)
        BY <3>3 DEF PreloadGivesUp, PreloadFails, PreloadUnrecorded, PreloadCompletes
      <4>2. UNCHANGED <<evict, drop, phase>>
        BY <3>3 DEF PreloadGivesUp, PreloadFails, PreloadUnrecorded, PreloadCompletes
      <4>3. NothingStarts(task, Preloads)
        BY <4>1, BegunPrunes
      <4> QED BY <4>2, <4>3, NothingPruned DEF NoPrune, NothingStarts
    <3> QED BY <2>5, <3>1, <3>2, <3>3 DEF PreloadSteps
  <2>6. ASSUME NEW s \in Sessions, SessionSteps(s) PROVE NoPrune
    BY <2>6, PruneUnmoved DEF SessionSteps, DoneEvent, CompletionMeasured
  <2>7. CASE CloseSteps
    <3>1. CASE ClosePrunes
      <4>1. /\ cache' = cache /\ Prune(Victims(cache', Reading))
            /\ UNCHANGED <<session, removal, reader>>
        BY <3>1 DEF ClosePrunes, database
      <4> QED BY <1>1, <4>1, PruneMeets DEF Reading
    <3>2. CASE Exit
      BY <3>2, MemoryLostPrunes, NothingPruned DEF Exit
    <3>3. CASE CloseAwaits \/ CloseSaves \/ CloseDestroys \/ ClosePreloads
               \/ \E s \in Sessions : CloseRecords(s)
      <4>1. UNCHANGED <<evict, drop, task>> /\ (phase' = "prune" => phase = "prune")
        BY <3>3 DEF CloseAwaits, CloseSaves, CloseDestroys, ClosePreloads, CloseRecords
      <4> QED BY <4>1, NothingPruned DEF NoPrune, NothingStarts
    <3> QED BY <2>7, <3>1, <3>2, <3>3 DEF CloseSteps
  <2> QED BY <1>5, <2>1, <2>2, <2>3, <2>4, <2>5, <2>6, <2>7, NothingPruned DEF Internal
<1>6. CASE Timers
  <2>1. PICK s \in Sessions : IdleTimer(s)
    BY <1>6 DEF Timers
  <2> DEFINE t == obj[s].torrent
  <2>2. UNCHANGED <<evict, task, phase>>
    BY <2>1 DEF IdleTimer
  <2>3. \/ drop' = drop
        \/ drop' = [drop EXCEPT ![t] = [NoDrop EXCEPT !.pc = "saving", !.s = s, !.completed = TRUE]]
        \/ drop' = [drop EXCEPT ![t] = Disconnected(t, FALSE)]
    BY <2>1 DEF IdleTimer
  <2> DEFINE kept == [NoDrop EXCEPT !.pc = "saving", !.s = s, !.completed = TRUE]
             left == Disconnected(t, FALSE)
  <2>4. kept.pc = "saving" /\ left.pc = "measuring"
    BY FramePcs DEF Disconnected
  <2> HIDE DEF kept, left
  <2>5. UNCHANGED drop \/ drop' = [drop EXCEPT ![t] = kept] \/ drop' = [drop EXCEPT ![t] = left]
    BY <2>3 DEF kept, left
  <2>6. NothingStarts(drop, Torrents)
    BY <2>4, <2>5, OneStarts DEF NothingStarts
  <2> QED BY <2>2, <2>6, NothingPruned DEF NoPrune, NothingStarts
<1>7. CASE Clients
  <2>1. ASSUME NEW o \in Ops, EndRequest(o) PROVE NoPrune
    BY <2>1, PruneUnmoved DEF EndRequest
  <2>2. ASSUME NEW r \in Readers, CloseReader(r) PROVE PruneStep
    <3> DEFINE others == {reader[q].torrent : q \in Readers \ {r}}
    <3>1. /\ cache' = cache /\ reader' = [reader EXCEPT ![r] = NoReader]
          /\ Prune({}) \/ Prune(Victims(cache', others))
          /\ UNCHANGED <<session, removal, drop, task, phase>>
      BY <2>2 DEF CloseReader, database
    <3>2. CASE Prune({})
      BY <3>1, <3>2, NothingPruned DEF Prune, NoPrune, NothingStarts
    <3>3. CASE Prune(Victims(cache', others))
      <4>1. reader \in [Readers -> Reader]
        BY DEF SInv, TypeOK
      <4>2. \A t \in Torrents : t \in others => \E q \in Readers : reader'[q].torrent = t
        BY <3>1, <4>1
      <4> HIDE DEF others
      <4> QED BY <1>1, <3>1, <3>3, <4>2, PruneMeets
    <3> QED BY <3>1, <3>2, <3>3
  <2> QED BY <1>7, <2>1, <2>2, NothingPruned DEF Clients
<1>8. CASE UNCHANGED vars
  BY <1>8, PruneUnmoved, NothingPruned DEF vars
<1> QED BY <1>2, <1>3, <1>4, <1>5, <1>6, <1>7, <1>8 DEF Next

(* Every prune frees enough, from the old end, and takes nothing more recent than what   *)
(* it leaves, for any number of torrents, rows and prunes that overlap (pruneCache).      *)
THEOREM PrunesFreeEnough == Spec => PruneFits
<1>1. SInv /\ SInv' /\ [Next]_vars => [PruneStep]_vars
  BY PrunesMeet
<1> QED BY <1>1, SessionInvariance, PTL DEF Spec, PruneFits

=============================================================================
