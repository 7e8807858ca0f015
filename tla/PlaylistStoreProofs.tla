-------------------------- MODULE PlaylistStoreProofs --------------------------
(***************************************************************************)
(* Theorems about PlaylistStore: page and player agree, saved chapters are *)
(* changed over to and the list shows them once all is quiet, only what    *)
(* was asked for is loaded, and nobody is interrupted.                     *)
(*                                                                         *)
(* The handlers are made of operators from tab to tab, and so is the       *)
(* proof: the invariants are stated of a tab t (with what is saved and     *)
(* what was announced), each operator is shown to keep them, and a handler *)
(* puts the lemmas together as it does the operators.                      *)
(***************************************************************************)
EXTENDS PlaylistStore, TLAPS

PageType ==
    [current : Files \union {NoFile}, kind : Kinds, mark : BOOLEAN,
     marked : [Files -> BOOLEAN], listed : BOOLEAN, allowed : BOOLEAN,
     disposed : BOOLEAN]
PlayType ==
    [audio : Sources \union {NoSource}, phase : {"none", "loading", "loaded", "failed"},
     playing : BOOLEAN, ready : BOOLEAN, ending : BOOLEAN,
     time : Times, seek : Times]
OpType ==
    [do : SourceOps \union MetadataOps \union OtherOps,
     file : Files \union {NoFile}, at : Times \union {NoTime},
     auto : BOOLEAN, marked : BOOLEAN, ends : BOOLEAN, fresh : BOOLEAN]
NetType == [saving : SUBSET Files, doomed : SUBSET Files, urls : Nat]
DiskType ==
    [saved : SUBSET Files, kept : BOOLEAN,
     state : [file : Files, time : Times] \union {Nowhere}]
PastType ==
    [wanted : Files \union {NoFile}, opening : Files \union {NoFile},
     missed : BOOLEAN, unread : SUBSET Files]
TabType ==
    [page : PageType, play : PlayType, ops : SUBSET OpType, net : NetType, past : PastType]

(* A request to open a chapter names one that is listed, and while it is the latest *)
(* the one that was set out to be opened last.                                      *)
OpSound(op, t) ==
    /\ op.do \in {"change", "open"} =>
           /\ op.file \in Files /\ op.at \in Times
           /\ op.fresh => op.file = t.past.opening
    /\ op.do \in {"change", "open", "bytes", "resume"} => t.page.listed

(* What was chosen last is what was set out to be opened last, unless the one of them *)
(* is what plays: then that one was chosen after the other, or opened since.           *)
Asked(past1, source) ==
    /\ past1.opening # NoFile => past1.wanted # NoFile
    /\ \/ past1.wanted = past1.opening
       \/ past1.wanted = source.file
       \/ past1.opening = source.file

(* PageSound of a tab, and what it takes: the page has a chapter when it has a kind   *)
(* of source and then a source, until it is left; what is loaded was asked for.       *)
Sound(t) ==
    /\ t \in TabType
    /\ t.play.audio # NoSource =>
           /\ t.play.audio = [file |-> t.page.current, kind |-> t.page.kind]
           /\ t.play.audio.kind = "server" => t.page.allowed
           /\ t.past.wanted # NoFile
           /\ ~t.page.disposed
    /\ Asked(t.past, t.play.audio)
    /\ t.net.urls = Urls(t.play.audio)
    /\ t.play.audio = NoSource <=> t.play.phase = "none"
    /\ t.page.kind # "none" => /\ t.page.current # NoFile
                               /\ t.page.disposed \/ t.play.audio # NoSource
    /\ t.page.current # NoFile => t.page.listed
    /\ \A op \in t.ops : OpSound(op, t)

(* A reading of what is saved of f is due. *)
Covered(f, open, told) ==
    \/ \E op \in open : op.do = "refresh" /\ f \in Scope(op.file)
    \/ \E change \in told : f \in Scope(change.file)

(* A download of f, which will mark it; and one of the file object that plays. *)
Fetched(f, open) == \E op \in open : op.do \in Downloads /\ op.file = f
Own(f, open) == \E op \in open : op.do \in Downloads /\ op.file = f /\ op.fresh

(* The list lags behind what is saved only while a reading is due or a download goes on *)
(* or where one failed, but for some files.                                             *)
ListLag(t, files, saved, told) ==
    ~t.page.disposed /\ t.page.listed =>
        \A f \in Files \ (files \union t.past.unread) :
            \/ t.page.marked[f] <=> f \in saved
            \/ Covered(f, t.ops, told)
            \/ f \in saved /\ Fetched(f, t.ops)

(* What plays is marked as saved and is not only while its mark will be looked at, or *)
(* after a failure.                                                                   *)
MarkLag(t, files, saved, told) ==
    /\ ~t.page.disposed /\ t.page.mark /\ ~t.past.missed
    /\ t.page.current \notin files \union {NoFile}
    => \/ t.page.current \in saved
       \/ Covered(t.page.current, t.ops, told)
       \/ Own(t.page.current, t.ops)

LagBut(t, files, saved, told) == ListLag(t, files, saved, told) /\ MarkLag(t, files, saved, told)
Lag(t, saved, told) == LagBut(t, {}, saved, told)

(* A chapter is loaded from the server, nobody listens, it is marked as saved, and no *)
(* handler has failed: something under way will look again, whoever superseded whom,   *)
(* or will change the mark.                                                            *)
Ripe(t) ==
    /\ t.play.phase = "loaded" /\ ~t.play.ready /\ ~t.play.playing
    /\ t.page.kind = "server" /\ t.page.mark /\ ~t.past.missed
Looks(op, t) ==
    \/ op.do = "pause"
    \/ op.do \in {"end", "next", "change", "open"} /\ op.fresh
    \/ op.do = "toOffline" /\ op.fresh /\ op.file = t.page.current
DueBut(t, files, saved, told) ==
    Ripe(t) /\ t.page.current \notin files =>
        \/ \E op \in t.ops : Looks(op, t)
        \/ Covered(t.page.current, t.ops, told)
        \/ t.page.current \notin saved /\ Own(t.page.current, t.ops)
Due(t, saved, told) == DueBut(t, {}, saved, told)

Good(t, saved, told) == Sound(t) /\ Lag(t, saved, told) /\ Due(t, saved, told)

IInv ==
    /\ Good(Tab, disk.saved, news)
    /\ disk \in DiskType
    /\ news \subseteq Changes
    /\ acts \in 0..MaxActs

-----------------------------------------------------------------------------
(***************************************************************************)
(* Types.                                                                  *)
(***************************************************************************)

(* TypeOK, in the names of this module. *)
LEMMA Types ==
    TypeOK <=> /\ page \in PageType /\ play \in PlayType /\ ops \subseteq OpType
               /\ disk \in DiskType /\ net \in NetType /\ news \subseteq Changes
               /\ past \in PastType /\ rows \subseteq Files /\ acts \in 0..MaxActs
BY DEF TypeOK, PageType, PlayType, OpType, DiskType, NetType, PastType

(* No source is no file, and no file is no chapter. *)
LEMMA Nothing ==
    /\ NoFile \notin Files /\ NoTime \notin Times /\ 0 \in Times /\ Length \in Times
    /\ NoSource \notin Sources /\ NoSource.kind = "none" /\ Urls(NoSource) = 0
    /\ \A source \in Sources : source.kind \in {"server", "offline"} /\ source.file \in Files
    /\ \A source : Urls(source) \in {0, 1}
BY LastAssumption, LengthAssumption DEF NoFile, Files, NoTime, Times, NoSource, Sources, Urls

(* The fields of a tab. *)
LEMMA TabFields ==
    ASSUME NEW t \in TabType
    PROVE  /\ t.page \in PageType /\ t.play \in PlayType /\ t.ops \in SUBSET OpType
           /\ t.net \in NetType /\ t.past \in PastType
           /\ t = [page |-> t.page, play |-> t.play, ops |-> t.ops, net |-> t.net,
                   past |-> t.past]
BY DEF TabType

(* A handler is over when the tab is what its operators say. *)
LEMMA BecomesTab ==
    ASSUME NEW t \in TabType, Becomes(t)
    PROVE  Tab' = t
<1>1. t = [page |-> t.page, play |-> t.play, ops |-> t.ops, net |-> t.net,
           past |-> t.past]
  BY TabFields
<1> QED BY <1>1 DEF Becomes, Tab

(* What is left after a handler is what its operators keep good. *)
LEMMA GoodTab ==
    ASSUME NEW t, Becomes(t), Good(t, disk'.saved, news'), disk' \in DiskType,
           news' \subseteq Changes, acts' \in 0..MaxActs
    PROVE  IInv'
<1>1. t \in TabType
  BY DEF Good, Sound
<1>2. Tab' = t
  BY <1>1, BecomesTab
<1>3. Good(Tab', disk'.saved, news')
  BY <1>2
<1> QED BY <1>3 DEF IInv, Good, Sound, Lag, LagBut, ListLag, MarkLag, Due, DueBut, OpSound, Ripe,
                    Looks, Covered, Fetched, Own, Asked

-----------------------------------------------------------------------------
(***************************************************************************)
(* What the operators keep.                                                *)
(***************************************************************************)

(* What Sound speaks of besides operations. *)
SameSource(u, t) ==
    /\ u \in TabType
    /\ u.page.current = t.page.current /\ u.page.kind = t.page.kind
    /\ u.page.disposed = t.page.disposed
    /\ t.page.listed => u.page.listed
    /\ t.page.allowed => u.page.allowed
    /\ u.play.audio = t.play.audio
    /\ u.play.phase = "none" <=> t.play.phase = "none"
    /\ u.net.urls = t.net.urls
    /\ u.past.wanted = t.past.wanted /\ u.past.opening = t.past.opening

(* What Lag speaks of besides operations; failures may have been added. *)
SameMarks(u, t) ==
    /\ u.page.current = t.page.current /\ u.page.disposed = t.page.disposed
    /\ u.page.listed = t.page.listed
    /\ u.page.mark = t.page.mark /\ u.page.marked = t.page.marked
    /\ t.past.missed => u.past.missed
    /\ t.past.unread \subseteq u.past.unread

(* Readings that are due stay due, and downloads go on. *)
Keeps(open, before) ==
    /\ \A op \in before : op.do = "refresh" => op \in open
    /\ \A op \in before : op.do \in Downloads =>
           \E o \in open : o.do \in Downloads /\ o.file = op.file /\ (op.fresh => o.fresh)

(* A tab with the same source and sound operations is sound. *)
LEMMA SoundKept ==
    ASSUME NEW t, Sound(t), NEW u, SameSource(u, t), \A op \in u.ops : OpSound(op, u)
    PROVE  Sound(u)
BY DEF Sound, SameSource, Asked

(* Operations stay sound while the same is asked for. *)
LEMMA OpKept ==
    ASSUME NEW t, NEW u, SameSource(u, t), NEW op, OpSound(op, t)
    PROVE  OpSound(op, u)
BY DEF OpSound, SameSource

(* What is due stays due. *)
LEMMA CoveredKept ==
    ASSUME NEW f, NEW before, NEW open, NEW told, NEW heard, Keeps(open, before),
           told \subseteq heard
    PROVE  /\ Covered(f, before, told) => Covered(f, open, heard)
           /\ Fetched(f, before) => Fetched(f, open)
           /\ Own(f, before) => Own(f, open)
<1>1. Covered(f, before, told) => Covered(f, open, heard)
  BY DEF Covered, Keeps
<1>2. Fetched(f, before) => Fetched(f, open)
  BY DEF Fetched, Keeps
<1>3. Own(f, before) => Own(f, open)
  BY DEF Own, Keeps
<1> QED BY <1>1, <1>2, <1>3

(* A tab keeps the operations that it does not lose. *)
LEMMA MoreKeeps ==
    ASSUME NEW open, NEW before,
           \A op \in before : op.do \in {"refresh", "save", "settle"} => op \in open
    PROVE  Keeps(open, before)
BY DEF Keeps, Downloads

(* Marks lag no more than before, but for some files. *)
LEMMA LagButKept ==
    ASSUME NEW t, NEW u, NEW files, NEW saved, NEW told, NEW heard,
           LagBut(t, files, saved, told), SameMarks(u, t), Keeps(u.ops, t.ops),
           told \subseteq heard
    PROVE  LagBut(u, files, saved, heard)
<1>1. \A f : /\ Covered(f, t.ops, told) => Covered(f, u.ops, heard)
             /\ Fetched(f, t.ops) => Fetched(f, u.ops)
             /\ Own(f, t.ops) => Own(f, u.ops)
  BY CoveredKept
<1>2. ListLag(u, files, saved, heard)
  BY <1>1 DEF LagBut, ListLag, SameMarks
<1>3. MarkLag(u, files, saved, heard)
  BY <1>1 DEF LagBut, MarkLag, SameMarks
<1> QED BY <1>2, <1>3 DEF LagBut

(* So it is for all files. *)
LEMMA LagKept ==
    ASSUME NEW t, NEW u, NEW saved, NEW told, NEW heard, Lag(t, saved, told),
           SameMarks(u, t), Keeps(u.ops, t.ops), told \subseteq heard
    PROVE  Lag(u, saved, heard)
BY LagButKept DEF Lag

(* An operation is left for later. *)
LEMMA LaterSound ==
    ASSUME NEW t, Sound(t), NEW op \in OpType, OpSound(op, t)
    PROVE  /\ Sound(Later(t, op))
           /\ SameSource(Later(t, op), t) /\ SameMarks(Later(t, op), t)
           /\ Later(t, op).page = t.page /\ Later(t, op).play = t.play
           /\ Later(t, op).net = t.net /\ Later(t, op).past = t.past
           /\ Later(t, op).ops = t.ops \union {op}
           /\ Keeps(Later(t, op).ops, t.ops)
<1> DEFINE u == Later(t, op)
<1>1. t \in TabType
  BY DEF Sound
<1>2. /\ u \in TabType
      /\ u.page = t.page /\ u.play = t.play /\ u.net = t.net /\ u.past = t.past
      /\ u.ops = t.ops \union {op}
  BY <1>1 DEF Later, TabType
<1> HIDE DEF u
<1>3. SameSource(u, t) /\ SameMarks(u, t) /\ Keeps(u.ops, t.ops)
  BY <1>2, MoreKeeps DEF SameSource, SameMarks
<1>4. \A o \in u.ops : OpSound(o, u)
  BY <1>2, <1>3, OpKept DEF Sound
<1>5. Sound(u)
  BY <1>3, <1>4, SoundKept
<1> QED BY <1>2, <1>3, <1>5 DEF u

(* Operations end. *)
LEMMA LessSound ==
    ASSUME NEW t, Sound(t), NEW open, open \subseteq t.ops
    PROVE  /\ Sound([t EXCEPT !.ops = open])
           /\ SameSource([t EXCEPT !.ops = open], t)
           /\ SameMarks([t EXCEPT !.ops = open], t)
           /\ [t EXCEPT !.ops = open].page = t.page
           /\ [t EXCEPT !.ops = open].play = t.play
           /\ [t EXCEPT !.ops = open].net = t.net
           /\ [t EXCEPT !.ops = open].past = t.past
           /\ [t EXCEPT !.ops = open].ops = open
<1> DEFINE u == [t EXCEPT !.ops = open]
<1>1. t \in TabType
  BY DEF Sound
<1>2. /\ u \in TabType
      /\ u.page = t.page /\ u.play = t.play /\ u.net = t.net /\ u.past = t.past
      /\ u.ops = open
  BY <1>1 DEF TabType
<1> HIDE DEF u
<1>3. SameSource(u, t) /\ SameMarks(u, t)
  BY <1>2 DEF SameSource, SameMarks
<1>4. \A o \in u.ops : OpSound(o, u)
  BY <1>2, <1>3, OpKept DEF Sound
<1>5. Sound(u)
  BY <1>3, <1>4, SoundKept
<1> QED BY <1>2, <1>3, <1>5 DEF u

(* An operation is what it was before its request was superseded, or is as it was. *)
LEMMA StaleSound ==
    ASSUME NEW t, Sound(t), NEW kinds
    PROVE  /\ Sound(Stale(t, kinds))
           /\ SameSource(Stale(t, kinds), t) /\ SameMarks(Stale(t, kinds), t)
           /\ Stale(t, kinds).page = t.page /\ Stale(t, kinds).play = t.play
           /\ Stale(t, kinds).net = t.net /\ Stale(t, kinds).past = t.past
           /\ \A op \in t.ops : op.do \notin kinds => op \in Stale(t, kinds).ops
           /\ \A op \in Stale(t, kinds).ops : op.do \in kinds => ~op.fresh
           /\ \A op \in Stale(t, kinds).ops : op \in t.ops \/ op.do \in kinds
<1> DEFINE u == Stale(t, kinds)
           aged(op) == IF op.do \in kinds THEN [op EXCEPT !.fresh = FALSE] ELSE op
<1>1. t \in TabType
  BY DEF Sound
<1>2. ASSUME NEW op \in OpType
      PROVE  /\ aged(op) \in OpType /\ aged(op).do = op.do /\ aged(op).at = op.at
             /\ aged(op).file = op.file /\ (aged(op).fresh => op.fresh)
             /\ (op.do \in kinds => ~aged(op).fresh)
             /\ (op.do \notin kinds => aged(op) = op)
  <2>1. CASE op.do \in kinds
    <3> DEFINE o == [op EXCEPT !.fresh = FALSE]
    <3>1. aged(op) = o
      BY <2>1
    <3> HIDE DEF aged
    <3>2. /\ o \in OpType /\ o.do = op.do /\ o.at = op.at /\ o.file = op.file
          /\ o.fresh = FALSE
      BY DEF OpType
    <3> QED BY <2>1, <3>1, <3>2
  <2>2. CASE op.do \notin kinds
    BY <2>2
  <2> QED BY <2>1, <2>2
<1>3. /\ u.page = t.page /\ u.play = t.play /\ u.net = t.net /\ u.past = t.past
      /\ u.ops = {aged(op) : op \in t.ops}
      /\ u = [t EXCEPT !.ops = {aged(op) : op \in t.ops}]
  BY <1>1 DEF Stale, TabType
<1> HIDE DEF u, aged
<1>4. t.ops \subseteq OpType
  BY <1>1, TabFields
<1>5. u.ops \subseteq OpType
  BY <1>2, <1>3, <1>4
<1>6. u \in TabType
  BY <1>1, <1>3, <1>5 DEF TabType
<1>7. SameSource(u, t) /\ SameMarks(u, t)
  BY <1>3, <1>6 DEF SameSource, SameMarks
<1>8. ASSUME NEW o \in u.ops
      PROVE  OpSound(o, u) /\ (o.do \in kinds => ~o.fresh) /\ (o \in t.ops \/ o.do \in kinds)
  <2>1. PICK op \in t.ops : o = aged(op)
    BY <1>3
  <2>2. OpSound(op, t) /\ op \in OpType
    BY <1>4 DEF Sound
  <2>3. OpSound(o, t)
    BY <1>2, <2>1, <2>2 DEF OpSound
  <2> QED BY <1>2, <1>7, <2>1, <2>2, <2>3, OpKept
<1>9. Sound(u)
  BY <1>7, <1>8, SoundKept
<1>10. \A op \in t.ops : op.do \notin kinds => op \in u.ops
  BY <1>2, <1>3, <1>4
<1> QED BY <1>3, <1>7, <1>8, <1>9, <1>10 DEF u

(* What the tab looks at again it still looks at, and nothing else has ripened. *)
LEMMA DueButKept ==
    ASSUME NEW t, NEW u, NEW files, NEW saved, NEW told, NEW heard,
           DueBut(t, files, saved, told), told \subseteq heard,
           Ripe(u) => Ripe(t), u.page.current = t.page.current,
           Keeps(u.ops, t.ops), \A op \in t.ops : Looks(op, t) => op \in u.ops
    PROVE  DueBut(u, files, saved, heard)
<1>1. \A f : /\ Covered(f, t.ops, told) => Covered(f, u.ops, heard)
             /\ Own(f, t.ops) => Own(f, u.ops)
  BY CoveredKept
<1>2. \A op \in t.ops : Looks(op, t) => op \in u.ops /\ Looks(op, u)
  BY DEF Looks
<1> QED BY <1>1, <1>2 DEF DueBut

(* So it is for all files. *)
LEMMA DueKept ==
    ASSUME NEW t, NEW u, NEW saved, NEW told, NEW heard, Due(t, saved, told),
           told \subseteq heard, Ripe(u) => Ripe(t), u.page.current = t.page.current,
           Keeps(u.ops, t.ops), \A op \in t.ops : Looks(op, t) => op \in u.ops
    PROVE  Due(u, saved, heard)
BY DueButKept DEF Due

(* Leaving an operation for later keeps a tab good. *)
LEMMA LaterGood ==
    ASSUME NEW t, NEW saved, NEW told, Good(t, saved, told), NEW op \in OpType, OpSound(op, t)
    PROVE  Good(Later(t, op), saved, told)
<1> DEFINE u == Later(t, op)
<1>1. /\ Sound(u) /\ SameMarks(u, t) /\ Keeps(u.ops, t.ops)
      /\ u.page = t.page /\ u.play = t.play /\ u.past = t.past
      /\ u.ops = t.ops \union {op}
  BY LaterSound DEF Good
<1> HIDE DEF u
<1>2. Lag(u, saved, told)
  BY <1>1, LagKept DEF Good
<1>3. Ripe(u) => Ripe(t)
  BY <1>1 DEF Ripe
<1>4. Due(u, saved, told)
  BY <1>1, <1>3, DueKept DEF Good
<1> QED BY <1>1, <1>2, <1>4 DEF Good, u

(* cacheOfflineFile() is one download more, and changes nothing the page shows. *)
LEMMA CacheFacts ==
    ASSUME NEW t, Sound(t), NEW f \in Files, NEW own \in BOOLEAN
    PROVE  /\ Sound(CacheOfflineFile(t, f, own))
           /\ CacheOfflineFile(t, f, own).page = t.page
           /\ CacheOfflineFile(t, f, own).play = t.play
           /\ CacheOfflineFile(t, f, own).past = t.past
           /\ t.ops \subseteq CacheOfflineFile(t, f, own).ops
           /\ t.page.allowed /\ own => Own(f, CacheOfflineFile(t, f, own).ops)
<1> DEFINE x == [t EXCEPT !.net.saving = @ \union {f}]
           op == [Op("save", f, NoTime, FALSE) EXCEPT !.fresh = own]
<1>1. t \in TabType
  BY DEF Sound
<1>2. /\ x \in TabType /\ x.page = t.page /\ x.play = t.play /\ x.ops = t.ops
      /\ x.past = t.past /\ x.net.urls = t.net.urls
  BY <1>1 DEF TabType, NetType
<1>3. op \in OpType /\ op.do = "save" /\ op.file = f /\ op.fresh = own
  BY DEF Op, OpType, OtherOps
<1>4. CacheOfflineFile(t, f, own) = IF t.page.allowed THEN Later(x, op) ELSE t
  BY DEF CacheOfflineFile
<1> HIDE DEF x, op
<1>5. SameSource(x, t)
  BY <1>2 DEF SameSource
<1>6. Sound(x) /\ OpSound(op, x)
  BY <1>2, <1>3, <1>5, SoundKept, OpKept DEF Sound, OpSound
<1>7. own => Own(f, x.ops \union {op})
  BY <1>3 DEF Own, Downloads
<1>8. CASE t.page.allowed
  <2> DEFINE u == Later(x, op)
  <2>1. /\ Sound(u) /\ u.page = x.page /\ u.play = x.play /\ u.past = x.past
        /\ u.ops = x.ops \union {op}
    BY <1>3, <1>6, LaterSound
  <2>2. CacheOfflineFile(t, f, own) = u
    BY <1>4, <1>8
  <2> HIDE DEF u
  <2> QED BY <1>2, <1>7, <2>1, <2>2
<1>9. CASE ~t.page.allowed
  BY <1>4, <1>9
<1> QED BY <1>8, <1>9

(* It keeps a tab good. *)
LEMMA CacheGood ==
    ASSUME NEW t, NEW saved, NEW told, Good(t, saved, told), NEW f \in Files,
           NEW own \in BOOLEAN
    PROVE  Good(CacheOfflineFile(t, f, own), saved, told)
<1> DEFINE u == CacheOfflineFile(t, f, own)
<1>1. /\ Sound(u) /\ u.page = t.page /\ u.play = t.play /\ u.past = t.past
      /\ t.ops \subseteq u.ops
  BY CacheFacts DEF Good
<1> HIDE DEF u
<1>2. SameMarks(u, t) /\ Keeps(u.ops, t.ops) /\ (Ripe(u) => Ripe(t))
  BY <1>1, MoreKeeps DEF SameMarks, Ripe
<1>3. Lag(u, saved, told) /\ Due(u, saved, told)
  BY <1>1, <1>2, LagKept, DueKept DEF Good
<1> QED BY <1>1, <1>3 DEF Good, u

(* A change over that is tried looks at a ripe chapter. *)
LEMMA SwitchFacts ==
    ASSUME NEW t, Sound(t), NEW at \in Times \union {NoTime}
    PROVE  /\ Sound(Switch(t, at))
           /\ Switch(t, at).page = t.page /\ Switch(t, at).play = t.play
           /\ Switch(t, at).net = t.net /\ Switch(t, at).past = t.past
           /\ t.ops \subseteq Switch(t, at).ops
           /\ \A saved, told : Due(Switch(t, at), saved, told)
<1> DEFINE op(kind) == [Op(kind, t.page.current, at, FALSE) EXCEPT !.ends = at = 0]
<1>1. t.page.current \in Files \union {NoFile}
  BY DEF Sound, TabType, PageType
<1>2. ASSUME NEW kind \in {"toOffline", "toServer"}
      PROVE  /\ op(kind) \in OpType /\ op(kind).do = kind /\ op(kind).fresh
             /\ op(kind).file = t.page.current /\ OpSound(op(kind), t)
  <2>1. /\ Op(kind, t.page.current, at, FALSE) \in OpType
        /\ Op(kind, t.page.current, at, FALSE).do = kind
        /\ Op(kind, t.page.current, at, FALSE).fresh
        /\ Op(kind, t.page.current, at, FALSE).file = t.page.current
    BY <1>1 DEF Op, OpType, SourceOps
  <2> QED BY <2>1 DEF OpType, OpSound
<1>3. Ripe(t) => SwitchKind(t) = "offline"
  BY DEF Ripe, SwitchKind
<1>4. CASE SwitchKind(t) = "offline"
  <2>1. Switch(t, at) = Later(t, op("toOffline"))
    BY <1>4 DEF Switch
  <2> HIDE DEF op
  <2> DEFINE u == Later(t, op("toOffline"))
  <2>2. /\ Sound(u) /\ u.page = t.page /\ u.play = t.play /\ u.net = t.net
        /\ u.past = t.past /\ u.ops = t.ops \union {op("toOffline")}
    BY <1>2, LaterSound
  <2> HIDE DEF u
  <2>3. \A saved, told : Due(u, saved, told)
    BY <1>2, <2>2 DEF Due, DueBut, Looks
  <2> QED BY <2>1, <2>2, <2>3 DEF u
<1>5. CASE SwitchKind(t) = "server"
  <2>1. Switch(t, at) = Later(t, op("toServer"))
    BY <1>5 DEF Switch
  <2> HIDE DEF op
  <2> DEFINE u == Later(t, op("toServer"))
  <2>2. /\ Sound(u) /\ u.page = t.page /\ u.play = t.play /\ u.net = t.net
        /\ u.past = t.past /\ u.ops = t.ops \union {op("toServer")}
    BY <1>2, LaterSound
  <2> HIDE DEF u
  <2>3. \A saved, told : Due(u, saved, told)
    BY <1>3, <1>5, <2>2 DEF Due, DueBut, Ripe
  <2> QED BY <2>1, <2>2, <2>3 DEF u
<1>6. CASE SwitchKind(t) \notin {"offline", "server"}
  <2>1. Switch(t, at) = t
    BY <1>6 DEF Switch
  <2> QED BY <1>3, <1>6, <2>1 DEF Due, DueBut
<1> QED BY <1>4, <1>5, <1>6

(* It keeps what lags, but for some files. *)
LEMMA SwitchLag ==
    ASSUME NEW t, Sound(t), NEW files, NEW saved, NEW told, LagBut(t, files, saved, told),
           NEW at \in Times \union {NoTime}
    PROVE  LagBut(Switch(t, at), files, saved, told)
<1> DEFINE u == Switch(t, at)
<1>1. u.page = t.page /\ u.past = t.past /\ t.ops \subseteq u.ops
  BY SwitchFacts
<1> HIDE DEF u
<1>2. SameMarks(u, t) /\ Keeps(u.ops, t.ops)
  BY <1>1, MoreKeeps DEF SameMarks
<1> QED BY <1>2, LagButKept DEF u

(* It keeps a tab good. *)
LEMMA SwitchGood ==
    ASSUME NEW t, Sound(t), NEW saved, NEW told, Lag(t, saved, told),
           NEW at \in Times \union {NoTime}
    PROVE  Good(Switch(t, at), saved, told)
BY SwitchFacts, SwitchLag DEF Good, Lag

(* cancelOfflineDownloads() ends downloads and nothing else: those who wait settle. *)
LEMMA CancelFacts ==
    ASSUME NEW t, Sound(t), NEW files
    PROVE  /\ Sound(CancelDownloads(t, files))
           /\ CancelDownloads(t, files).page = t.page
           /\ CancelDownloads(t, files).play = t.play
           /\ CancelDownloads(t, files).past = t.past
           /\ \A op \in t.ops : op.do # "save" => op \in CancelDownloads(t, files).ops
           /\ \A op \in CancelDownloads(t, files).ops : op \in t.ops \/ op.do = "settle"
           /\ Keeps(CancelDownloads(t, files).ops, t.ops)
<1> DEFINE u == CancelDownloads(t, files)
           left(op) == IF op.do = "save" /\ op.file \in files
                       THEN [op EXCEPT !.do = "settle"] ELSE op
<1>1. t \in TabType
  BY DEF Sound
<1>2. \A op \in OpType : /\ left(op) \in OpType /\ (left(op) = op \/ left(op).do = "settle")
                         /\ (op.do # "save" => left(op) = op)
                         /\ left(op).file = op.file /\ left(op).fresh = op.fresh
                         /\ (op.do = "save" => left(op).do \in {"save", "settle"})
  BY DEF OpType, OtherOps
<1> DEFINE x == [t EXCEPT !.net.saving = @ \ files, !.net.doomed = @ \ files]
<1>3. /\ x \in TabType /\ x.page = t.page /\ x.play = t.play /\ x.past = t.past
      /\ x.ops = t.ops /\ x.net.urls = t.net.urls
  BY <1>1 DEF TabType, NetType
<1>4. u = [x EXCEPT !.ops = {left(op) : op \in x.ops}]
  BY <1>1 DEF CancelDownloads, TabType
<1> HIDE DEF u, left, x
<1>5. x.ops \subseteq OpType
  BY <1>3, TabFields
<1> DEFINE open == {left(op) : op \in x.ops}
<1>6. open \subseteq OpType /\ \A op \in open : op \in t.ops \/ op.do = "settle"
  BY <1>2, <1>3, <1>5
<1>7. /\ u \in TabType /\ u.page = t.page /\ u.play = t.play /\ u.past = t.past
      /\ u.ops = open /\ u.net.urls = t.net.urls
  <2> HIDE DEF open
  <2>1. u = [x EXCEPT !.ops = open]
    BY <1>4 DEF open
  <2> QED BY <1>3, <1>6, <2>1 DEF TabType
<1>8. SameSource(u, t)
  BY <1>3, <1>7 DEF SameSource
<1>9. \A op \in u.ops : OpSound(op, u)
  <2> SUFFICES ASSUME NEW op \in u.ops PROVE OpSound(op, u)
    OBVIOUS
  <2>1. CASE op \in t.ops
    BY <1>8, <2>1, OpKept DEF Sound
  <2>2. CASE op.do = "settle"
    BY <2>2 DEF OpSound
  <2> QED BY <1>6, <1>7, <2>1, <2>2
<1>10. Sound(u)
  BY <1>8, <1>9, SoundKept
<1>11. \A op \in t.ops : op.do # "save" => op \in u.ops
  BY <1>2, <1>3, <1>5, <1>7
<1>12. ASSUME NEW op \in t.ops, op.do \in Downloads
       PROVE  \E o \in u.ops : o.do \in Downloads /\ o.file = op.file /\ (op.fresh => o.fresh)
  <2>1. left(op) \in u.ops /\ op \in OpType
    BY <1>3, <1>5, <1>7
  <2>2. left(op).do \in Downloads
    BY <1>2, <1>12, <2>1 DEF Downloads
  <2> QED BY <1>2, <2>1, <2>2
<1>13. Keeps(u.ops, t.ops)
  BY <1>11, <1>12 DEF Keeps
<1> QED BY <1>6, <1>7, <1>10, <1>11, <1>13 DEF u

(* It keeps a tab good. *)
LEMMA CancelGood ==
    ASSUME NEW t, NEW saved, NEW told, Good(t, saved, told), NEW files
    PROVE  Good(CancelDownloads(t, files), saved, told)
<1> DEFINE u == CancelDownloads(t, files)
<1>1. /\ Sound(u) /\ u.page = t.page /\ u.play = t.play /\ u.past = t.past
      /\ \A op \in t.ops : op.do # "save" => op \in u.ops
      /\ Keeps(u.ops, t.ops)
  BY CancelFacts DEF Good
<1> HIDE DEF u
<1>2. SameMarks(u, t)
  BY <1>1 DEF SameMarks
<1>3. (Ripe(u) => Ripe(t)) /\ \A op \in t.ops : Looks(op, t) => op \in u.ops
  BY <1>1 DEF Ripe, Looks
<1>4. Lag(u, saved, told) /\ Due(u, saved, told)
  BY <1>1, <1>2, <1>3, LagKept, DueKept DEF Good
<1> QED BY <1>1, <1>4 DEF Good, u

(* A request that supersedes others of sources supersedes no reading and no download. *)
LEMMA StaleLag ==
    ASSUME NEW t, Sound(t), NEW saved, NEW told, Lag(t, saved, told),
           NEW kinds, kinds \in {SourceOps, MetadataOps}
    PROVE  Lag(Stale(t, kinds), saved, told) /\ Keeps(Stale(t, kinds).ops, t.ops)
<1> DEFINE u == Stale(t, kinds)
<1>1. SameMarks(u, t) /\ \A op \in t.ops : op.do \notin kinds => op \in u.ops
  BY StaleSound
<1> HIDE DEF u
<1>2. Keeps(u.ops, t.ops)
  BY <1>1, MoreKeeps DEF SourceOps, MetadataOps
<1> QED BY <1>1, <1>2, LagKept DEF u

(* Requests for the details of the book leave all others. *)
LEMMA MetadataGood ==
    ASSUME NEW t, NEW saved, NEW told, Good(t, saved, told)
    PROVE  /\ Good(NewMetadataRequest(t), saved, told)
           /\ NewMetadataRequest(t).page = t.page /\ NewMetadataRequest(t).play = t.play
           /\ NewMetadataRequest(t).past = t.past
<1> DEFINE u == Stale(t, MetadataOps)
<1>1. /\ Sound(u) /\ u.page = t.page /\ u.play = t.play /\ u.past = t.past
      /\ \A op \in t.ops : op.do \notin MetadataOps => op \in u.ops
      /\ Lag(u, saved, told) /\ Keeps(u.ops, t.ops)
  BY StaleSound, StaleLag DEF Good
<1> HIDE DEF u
<1>2. (Ripe(u) => Ripe(t)) /\ \A op \in t.ops : Looks(op, t) => op \in u.ops
  BY <1>1 DEF Ripe, Looks, MetadataOps
<1>3. Due(u, saved, told)
  BY <1>1, <1>2, DueKept DEF Good
<1> QED BY <1>1, <1>3 DEF Good, u, NewMetadataRequest

(* The details of the book are asked for. *)
LEMMA LoadGood ==
    ASSUME NEW t, NEW saved, NEW told, Good(t, saved, told),
           NEW stored \in BOOLEAN, NEW resume \in BOOLEAN
    PROVE  Good(Load(t, stored, resume), saved, told)
<1> DEFINE u == NewMetadataRequest(t)
           op == Op(IF stored THEN "stored" ELSE "info", NoFile, NoTime, resume)
<1>1. Good(u, saved, told)
  BY MetadataGood
<1>2. op \in OpType /\ op.do \in {"stored", "info"}
  BY DEF Op, OpType, MetadataOps
<1>3. OpSound(op, u)
  BY <1>2 DEF OpSound
<1>4. Load(t, stored, resume) = Later(u, op)
  BY DEF Load
<1> HIDE DEF u, op
<1> QED BY <1>1, <1>2, <1>3, <1>4, LaterGood

(* A new request of a source. *)
Asking(t, f) == [NewSourceRequest(t) EXCEPT !.past.wanted = f, !.past.opening = f]

(* Those before it are superseded, whatever they ask for. *)
LEMMA AskedSound ==
    ASSUME NEW t, Sound(t), NEW f \in Files
    PROVE  /\ Sound(Asking(t, f))
           /\ Asking(t, f).page = t.page /\ Asking(t, f).play = t.play
           /\ Asking(t, f).past.opening = f /\ Asking(t, f).past.missed = t.past.missed
           /\ Asking(t, f).past.unread = t.past.unread
           /\ \A op \in t.ops : op.do \notin SourceOps => op \in Asking(t, f).ops
<1> DEFINE x == Stale(t, SourceOps)
           u == Asking(t, f)
           asked == [x.past EXCEPT !.wanted = f, !.opening = f]
<1>1. /\ Sound(x) /\ x.page = t.page /\ x.play = t.play /\ x.past = t.past
      /\ \A op \in t.ops : op.do \notin SourceOps => op \in x.ops
      /\ \A op \in x.ops : op.do \in SourceOps => ~op.fresh
  BY StaleSound
<1>2. u = [x EXCEPT !.past = asked]
  BY DEF NewSourceRequest, Asking
<1> HIDE DEF x, u
<1>3. x \in TabType /\ x.past \in PastType
  BY <1>1 DEF Sound, TabType
<1>4. /\ asked \in PastType /\ asked.wanted = f /\ asked.opening = f
      /\ asked.missed = x.past.missed /\ asked.unread = x.past.unread
  BY <1>3 DEF PastType
<1> HIDE DEF asked
<1>5. /\ u \in TabType /\ u.page = x.page /\ u.play = x.play /\ u.net = x.net
      /\ u.ops = x.ops /\ u.past = asked
  BY <1>2, <1>3, <1>4 DEF TabType
<1>6. ASSUME NEW op \in u.ops PROVE OpSound(op, u)
  <2>1. OpSound(op, x) /\ (op.do \in SourceOps => ~op.fresh)
    BY <1>1, <1>5 DEF Sound
  <2> QED BY <1>5, <2>1 DEF OpSound, SourceOps
<1>7. f # NoFile
  BY Nothing
<1>8. Sound(u)
  BY <1>1, <1>4, <1>5, <1>6, <1>7 DEF Sound, Asked
<1> QED BY <1>1, <1>4, <1>5, <1>8 DEF u

(* SeekTo, and Play, move the position or the intent and nothing else. *)
LEMMA PlayGood ==
    ASSUME NEW t, NEW saved, NEW told, Good(t, saved, told), NEW u \in TabType,
           u.page = t.page, u.ops = t.ops, u.net = t.net, u.past = t.past,
           u.play.audio = t.play.audio, u.play.phase = "none" <=> t.play.phase = "none",
           Ripe(u) => Ripe(t)
    PROVE  Good(u, saved, told)
<1>1. SameSource(u, t) /\ SameMarks(u, t) /\ Keeps(u.ops, t.ops)
  BY MoreKeeps DEF SameSource, SameMarks
<1>2. \A op \in u.ops : OpSound(op, u)
  BY <1>1, OpKept DEF Good, Sound
<1>3. Sound(u)
  BY <1>1, <1>2, SoundKept DEF Good
<1>4. Lag(u, saved, told)
  BY <1>1, LagKept DEF Good
<1>5. Due(u, saved, told)
  BY <1>1, DueKept DEF Good
<1> QED BY <1>3, <1>4, <1>5 DEF Good

(* Choosing the chapter that plays asks for nothing else. *)
LEMMA ChosenGood ==
    ASSUME NEW t, NEW saved, NEW told, Good(t, saved, told), NEW f \in Files,
           f = t.page.current, t.play.audio # NoSource
    PROVE  /\ Good([t EXCEPT !.past.wanted = f], saved, told)
           /\ [t EXCEPT !.past.wanted = f].page = t.page
           /\ [t EXCEPT !.past.wanted = f].play = t.play
<1> DEFINE chosen == [t.past EXCEPT !.wanted = f]
           x == [t EXCEPT !.past.wanted = f]
<1>1. t \in TabType /\ t.past \in PastType /\ x = [t EXCEPT !.past = chosen]
  BY DEF Good, Sound, TabType
<1>2. /\ chosen \in PastType /\ chosen.wanted = f /\ chosen.opening = t.past.opening
      /\ chosen.missed = t.past.missed /\ chosen.unread = t.past.unread
  BY <1>1 DEF PastType
<1> HIDE DEF chosen, x
<1>3. /\ x \in TabType /\ x.page = t.page /\ x.play = t.play /\ x.net = t.net
      /\ x.ops = t.ops /\ x.past = chosen
  BY <1>1, <1>2 DEF TabType
<1>4. \A op \in x.ops : OpSound(op, x)
  BY <1>2, <1>3 DEF Good, Sound, OpSound
<1>5. f # NoFile /\ f = t.play.audio.file
  BY Nothing DEF Good, Sound
<1>6. Sound(x)
  BY <1>2, <1>3, <1>4, <1>5 DEF Good, Sound, Asked
<1>7. SameMarks(x, t) /\ Keeps(x.ops, t.ops)
  BY <1>2, <1>3, MoreKeeps DEF SameMarks
<1>8. Ripe(x) => Ripe(t)
  BY <1>2, <1>3 DEF Ripe
<1>9. Lag(x, saved, told) /\ Due(x, saved, told)
  BY <1>3, <1>7, <1>8, LagKept, DueKept DEF Good
<1> QED BY <1>3, <1>6, <1>9 DEF Good, x

(* setCurrentFile() for the chapter that plays keeps a tab good. *)
LEMMA ReuseGood ==
    ASSUME NEW t, NEW saved, NEW told, Good(t, saved, told), NEW f \in Files, Reuses(t, f),
           NEW at \in Times \union {NoTime}, NEW auto \in BOOLEAN, NEW marked \in BOOLEAN
    PROVE  Good(SetCurrentFile(t, f, at, auto, marked), saved, told)
<1> DEFINE t0 == [t EXCEPT !.past.wanted = f]
           t1 == IF at # NoTime THEN SeekTo(t0, at) ELSE t0
           t2 == IF marked THEN t1 ELSE CacheOfflineFile(t1, f, FALSE)
<1>1. SetCurrentFile(t, f, at, auto, marked) =
          IF marked /\ t2.page.kind = "server" THEN Switch(t2, NoTime) ELSE t2
  BY DEF SetCurrentFile
<1>2. Good(t0, saved, told)
  BY ChosenGood DEF Reuses
<1> HIDE DEF t0
<1>3. Good(t1, saved, told)
  <2>1. CASE at = NoTime
    BY <1>2, <2>1
  <2>2. CASE at # NoTime
    <3> DEFINE x == SeekTo(t0, at)
    <3>1. t0 \in TabType /\ at \in Times
      BY <1>2, <2>2 DEF Good, Sound
    <3>2. /\ x \in TabType /\ x.page = t0.page /\ x.ops = t0.ops /\ x.net = t0.net
          /\ x.past = t0.past /\ x.play.audio = t0.play.audio
          /\ x.play.phase = t0.play.phase /\ x.play.ready = t0.play.ready
          /\ x.play.playing = t0.play.playing
      BY <3>1 DEF SeekTo, TabType, PlayType
    <3> HIDE DEF x
    <3>3. Ripe(x) => Ripe(t0)
      BY <3>2 DEF Ripe
    <3>4. Good(x, saved, told)
      BY <1>2, <3>2, <3>3, PlayGood
    <3> QED BY <2>2, <3>4 DEF x
  <2> QED BY <2>1, <2>2
<1> HIDE DEF t1
<1>4. Good(t2, saved, told)
  <2>1. CASE marked
    BY <1>3, <2>1
  <2>2. CASE ~marked
    BY <1>3, <2>2, CacheGood
  <2> QED BY <2>1, <2>2
<1> HIDE DEF t2
<1>5. Good(Switch(t2, NoTime), saved, told)
  BY <1>4, SwitchGood DEF Good
<1> QED BY <1>1, <1>4, <1>5

(* For another chapter it leaves a request, which is the latest then, and looks at what *)
(* plays by replacing it.                                                               *)
LEMMA AskGood ==
    ASSUME NEW t, Sound(t), NEW saved, NEW told, Lag(t, saved, told), t.page.listed,
           NEW f \in Files, ~Reuses(t, f), NEW at \in Times \union {NoTime},
           NEW auto \in BOOLEAN, NEW marked \in BOOLEAN
    PROVE  Good(SetCurrentFile(t, f, at, auto, marked), saved, told)
<1> DEFINE x == Asking(t, f)
           from == IF at = NoTime THEN 0 ELSE at
           plays == auto \/ t.play.playing
           begin == Op("change", f, from, plays)
           op == [begin EXCEPT !.ends = auto, !.marked = marked]
           u == Later(x, op)
<1>1. SetCurrentFile(t, f, at, auto, marked) = u
  BY DEF SetCurrentFile, Asking
<1>2. /\ Sound(x) /\ x.page = t.page /\ x.play = t.play /\ x.past.opening = f
      /\ x.past.missed = t.past.missed /\ x.past.unread = t.past.unread
      /\ \A o \in t.ops : o.do \notin SourceOps => o \in x.ops
  BY AskedSound
<1>3. from \in Times /\ plays \in BOOLEAN
  BY Nothing DEF Sound, TabType, PlayType
<1> HIDE DEF from, plays
<1>4. /\ begin \in OpType /\ begin.do = "change" /\ begin.file = f
      /\ begin.at \in Times /\ begin.fresh
  BY <1>3 DEF Op, OpType, SourceOps
<1> HIDE DEF begin, x
<1>5. op \in OpType /\ op.do = "change" /\ op.file = f /\ op.at \in Times /\ op.fresh
  BY <1>4 DEF OpType
<1> HIDE DEF op
<1>6. OpSound(op, x)
  BY <1>2, <1>5 DEF OpSound
<1>7. /\ Sound(u) /\ u.page = t.page /\ u.play = t.play /\ u.past = x.past
      /\ u.ops = x.ops \union {op}
  BY <1>2, <1>5, <1>6, LaterSound
<1> HIDE DEF u
<1>8. SameMarks(u, t) /\ Keeps(u.ops, t.ops)
  BY <1>2, <1>7, MoreKeeps DEF SameMarks, SourceOps
<1>9. Lag(u, saved, told)
  BY <1>8, LagKept
<1>10. Due(u, saved, told)
  BY <1>5, <1>7 DEF Due, DueBut, Looks
<1> QED BY <1>1, <1>7, <1>9, <1>10 DEF Good

(* Either way it keeps a tab good on a page that lists its chapters. *)
LEMMA SetCurrentGood ==
    ASSUME NEW t, NEW saved, NEW told, Good(t, saved, told), t.page.listed,
           NEW f \in Files, NEW at \in Times \union {NoTime}, NEW auto \in BOOLEAN,
           NEW marked \in BOOLEAN
    PROVE  Good(SetCurrentFile(t, f, at, auto, marked), saved, told)
BY ReuseGood, AskGood DEF Good

(* What is given up is not asked for any more: no request for it is the latest, and no *)
(* download is of what plays.                                                          *)
LEMMA LeftSound ==
    ASSUME NEW t, Sound(t), \A op \in t.ops : op.do \in SourceOps => ~op.fresh
    PROVE  /\ Sound(NoCurrentFile(t))
           /\ NoCurrentFile(t).page.current = NoFile
           /\ NoCurrentFile(t).page.marked = t.page.marked
           /\ NoCurrentFile(t).page.listed = t.page.listed
           /\ NoCurrentFile(t).page.disposed = t.page.disposed
           /\ NoCurrentFile(t).play = Silent
           /\ NoCurrentFile(t).past.unread = t.past.unread
           /\ NoCurrentFile(t).ops = Stale(t, Downloads).ops
<1> DEFINE s == Stale(t, Downloads)
           u == NoCurrentFile(t)
<1>1. /\ Sound(s) /\ s.page = t.page /\ s.play = t.play /\ s.net = t.net /\ s.past = t.past
      /\ \A op \in s.ops : op \in t.ops \/ op.do \in Downloads
  BY StaleSound
<1>2. s \in TabType /\ t \in TabType /\ s.net.urls = Urls(s.play.audio)
  BY <1>1 DEF Sound
<1>3. Silent \in PlayType /\ Silent.audio = NoSource /\ Silent.phase = "none"
  BY Nothing DEF Silent, PlayType
<1>4. /\ s.page \in PageType /\ s.net \in NetType /\ s.past \in PastType
      /\ s.net.urls - Urls(s.play.audio) = 0
  BY <1>2, Nothing DEF TabType, NetType
<1> DEFINE left == [s.net EXCEPT !.urls = @ - Urls(s.play.audio)]
           bare == [s.page EXCEPT !.current = NoFile, !.kind = "none", !.mark = FALSE]
           none == [s.past EXCEPT !.wanted = NoFile, !.opening = NoFile]
<1>5. u = [s EXCEPT !.net = left, !.play = Silent, !.page = bare, !.past = none]
  <2> DEFINE c == ClearSource(t)
             quiet == [t.net EXCEPT !.urls = @ - Urls(t.play.audio)]
             open == s.ops
  <2>1. c = [t EXCEPT !.net = quiet, !.play = Silent]
    BY DEF ClearSource
  <2>2. quiet = left
    BY <1>1
  <2>3. s = [t EXCEPT !.ops = open] /\ Stale(c, Downloads) = [c EXCEPT !.ops = open]
    <3>1. c.ops = t.ops
      BY <1>2, <2>1 DEF TabType
    <3> HIDE DEF c
    <3>2. open = {IF op.do \in Downloads THEN [op EXCEPT !.fresh = FALSE] ELSE op : op \in t.ops}
      BY <1>2 DEF Stale, TabType
    <3> QED BY <3>1, <3>2 DEF Stale
  <2>4. u = [Stale(c, Downloads) EXCEPT !.page.current = NoFile, !.page.kind = "none",
                                        !.page.mark = FALSE, !.past.wanted = NoFile,
                                        !.past.opening = NoFile]
    BY DEF NoCurrentFile
  <2>5. Stale(c, Downloads) = [s EXCEPT !.net = left, !.play = Silent]
    <3> HIDE DEF quiet, left, open, s
    <3> QED BY <1>2, <2>1, <2>2, <2>3 DEF TabType
  <2> HIDE DEF c, left, s
  <2> QED BY <1>2, <2>4, <2>5 DEF TabType
<1> HIDE DEF s
<1>6. left \in NetType /\ left.urls = 0
  BY <1>4 DEF NetType
<1>7. /\ bare \in PageType /\ bare.current = NoFile /\ bare.kind = "none"
      /\ bare.marked = t.page.marked /\ bare.listed = t.page.listed
      /\ bare.disposed = t.page.disposed
  BY <1>1, <1>4 DEF PageType, Kinds
<1>8. /\ none \in PastType /\ none.wanted = NoFile /\ none.opening = NoFile
      /\ none.unread = t.past.unread
  BY <1>1, <1>4 DEF PastType
<1> HIDE DEF u, left, bare, none
<1>9. /\ u.page = bare /\ u.play = Silent /\ u.ops = s.ops /\ u.past = none
      /\ u.net = left /\ u \in TabType
  BY <1>2, <1>3, <1>5, <1>6, <1>7, <1>8 DEF TabType
<1>10. ASSUME NEW op \in u.ops PROVE OpSound(op, u)
  <2>1. OpSound(op, s) /\ (op.do \in SourceOps => ~op.fresh)
    BY <1>1, <1>9 DEF Sound, SourceOps, Downloads
  <2> QED BY <1>1, <1>7, <1>9, <2>1 DEF OpSound, SourceOps
<1>11. Sound(u)
  BY <1>3, <1>6, <1>7, <1>8, <1>9, <1>10, Nothing DEF Sound, Asked
<1> QED BY <1>7, <1>8, <1>9, <1>11 DEF u, s

(* A download remains one of its chapter, if not of what plays. *)
LEMMA StaleDownloads ==
    ASSUME NEW t, Sound(t)
    PROVE  \A f, told : /\ Covered(f, t.ops, told) => Covered(f, Stale(t, Downloads).ops, told)
                        /\ Fetched(f, t.ops) => Fetched(f, Stale(t, Downloads).ops)
<1> DEFINE aged(op) == IF op.do \in Downloads THEN [op EXCEPT !.fresh = FALSE] ELSE op
<1>1. t \in TabType /\ t.ops \subseteq OpType
  BY DEF Sound, TabType
<1>2. Stale(t, Downloads).ops = {aged(op) : op \in t.ops}
  BY <1>1 DEF Stale, TabType
<1>3. \A op \in OpType : aged(op).do = op.do /\ aged(op).file = op.file
  BY DEF OpType
<1> HIDE DEF aged
<1>4. \A op \in t.ops : \E o \in Stale(t, Downloads).ops : o.do = op.do /\ o.file = op.file
  BY <1>1, <1>2, <1>3
<1> QED BY <1>4 DEF Covered, Fetched

(* Giving up keeps a tab good: where nothing is loaded nothing is to be changed over. *)
LEMMA GivenUpGood ==
    ASSUME NEW t, Sound(t), NEW saved, NEW told, Lag(t, saved, told),
           \A op \in t.ops : op.do \in SourceOps => ~op.fresh
    PROVE  Good(NoCurrentFile(t), saved, told)
<1> DEFINE u == NoCurrentFile(t)
<1>1. /\ Sound(u) /\ u.page.current = NoFile /\ u.page.marked = t.page.marked
      /\ u.page.listed = t.page.listed /\ u.page.disposed = t.page.disposed
      /\ u.play = Silent /\ u.past.unread = t.past.unread
      /\ u.ops = Stale(t, Downloads).ops
  BY LeftSound
<1> HIDE DEF u
<1>2. \A f : /\ Covered(f, t.ops, told) => Covered(f, u.ops, told)
             /\ Fetched(f, t.ops) => Fetched(f, u.ops)
  BY <1>1, StaleDownloads
<1>3. Lag(u, saved, told)
  BY <1>1, <1>2 DEF Lag, LagBut, ListLag, MarkLag
<1>4. ~Ripe(u)
  BY <1>1 DEF Ripe, Silent
<1> QED BY <1>1, <1>3, <1>4 DEF Good, Due, DueBut, u

(* A failure is remembered, and excuses what plays. *)
LEMMA MissedGood ==
    ASSUME NEW t, Sound(t), NEW saved, NEW told, Lag(t, saved, told)
    PROVE  Good(GivenUp(t), saved, told)
<1> DEFINE failed == [t.past EXCEPT !.missed = TRUE]
           u == GivenUp(t)
<1>1. t \in TabType /\ t.past \in PastType /\ u = [t EXCEPT !.past = failed]
  BY DEF Sound, TabType, GivenUp
<1>2. /\ failed \in PastType /\ failed.wanted = t.past.wanted
      /\ failed.opening = t.past.opening /\ failed.missed = TRUE
      /\ failed.unread = t.past.unread
  BY <1>1 DEF PastType
<1> HIDE DEF failed, u
<1>3. /\ u \in TabType /\ u.page = t.page /\ u.play = t.play /\ u.net = t.net
      /\ u.ops = t.ops /\ u.past = failed
  BY <1>1, <1>2 DEF TabType
<1>4. SameSource(u, t) /\ SameMarks(u, t) /\ Keeps(u.ops, t.ops)
  BY <1>2, <1>3, MoreKeeps DEF SameSource, SameMarks
<1>5. \A op \in u.ops : OpSound(op, u)
  BY <1>3, <1>4, OpKept DEF Sound
<1>6. Sound(u) /\ Lag(u, saved, told) /\ ~Ripe(u)
  BY <1>2, <1>3, <1>4, <1>5, SoundKept, LagKept DEF Ripe
<1> QED BY <1>6 DEF Good, Due, DueBut, u

(* sourceRequestId += 1 *)
LEMMA SupersededFacts ==
    ASSUME NEW t, Sound(t), NEW saved, NEW told, Lag(t, saved, told)
    PROVE  /\ Sound(NewSourceRequest(t)) /\ Lag(NewSourceRequest(t), saved, told)
           /\ \A op \in NewSourceRequest(t).ops : op.do \in SourceOps => ~op.fresh
BY StaleSound, StaleLag DEF NewSourceRequest

(* An operation that looks again makes a tab good. *)
LEMMA LookerGood ==
    ASSUME NEW t, NEW saved, NEW told, Sound(t), Lag(t, saved, told), NEW op \in OpType,
           OpSound(op, t), Looks(op, t)
    PROVE  Good(Later(t, op), saved, told)
<1> DEFINE u == Later(t, op)
<1>1. /\ Sound(u) /\ SameMarks(u, t) /\ Keeps(u.ops, t.ops)
      /\ u.page = t.page /\ u.ops = t.ops \union {op}
  BY LaterSound
<1> HIDE DEF u
<1>2. Lag(u, saved, told)
  BY <1>1, LagKept
<1>3. Due(u, saved, told)
  BY <1>1 DEF Due, DueBut, Looks
<1> QED BY <1>1, <1>2, <1>3 DEF Good, u

(* A source is loaded: the URL of the one before is revoked, that of the new one is not. *)
LEMMA LoadSourceSound ==
    ASSUME NEW t \in TabType, NEW saved, NEW told,
           ListLag(t, {}, saved, told),
           NEW source \in Sources, NEW at \in Times, NEW auto \in BOOLEAN,
           t.net.urls = Urls(t.play.audio),
           source = [file |-> t.page.current, kind |-> t.page.kind],
           source.kind = "server" => t.page.allowed,
           t.past.wanted # NoFile, Asked(t.past, source),
           ~t.page.disposed, t.page.listed,
           \A op \in t.ops : OpSound(op, t)
    PROVE  /\ Sound(LoadSource(t, source, at, auto))
           /\ ListLag(LoadSource(t, source, at, auto), {}, saved, told)
           /\ ~Ripe(LoadSource(t, source, at, auto))
           /\ LoadSource(t, source, at, auto).page = t.page
           /\ LoadSource(t, source, at, auto).ops = t.ops
<1> DEFINE u == LoadSource(t, source, at, auto)
           plays == auto \/ t.play.playing \/ t.play.ready
           seeking == [Silent EXCEPT !.audio = source, !.phase = "loading", !.seek = at,
                                     !.ready = plays]
           left == [t.net EXCEPT !.urls = @ - Urls(t.play.audio) + Urls(source)]
           anew == [t.past EXCEPT !.missed = FALSE]
<1>1. /\ t.page \in PageType /\ t.net \in NetType /\ t.play \in PlayType
      /\ t.ops \subseteq OpType /\ t.past \in PastType
  BY DEF TabType
<1>2. t.net.urls - Urls(t.play.audio) + Urls(source) = Urls(source) /\ Urls(source) \in Nat
  BY <1>1, Nothing DEF NetType
<1>3. plays \in BOOLEAN
  BY <1>1 DEF PlayType
<1>4. u = [t EXCEPT !.net = left, !.play = seeking, !.past = anew]
  BY DEF LoadSource
<1>5. seeking \in PlayType /\ seeking.audio = source /\ seeking.phase = "loading"
  <2> HIDE DEF plays
  <2>1. Silent \in PlayType
    BY Nothing DEF Silent, PlayType
  <2>2. source \in Sources /\ at \in Times
    OBVIOUS
  <2> QED BY ONLY <1>3, <2>1, <2>2 DEF PlayType
<1>6. left \in NetType /\ left.urls = Urls(source)
  BY <1>1, <1>2 DEF NetType
<1>7. /\ anew \in PastType /\ anew.wanted = t.past.wanted /\ anew.opening = t.past.opening
      /\ anew.unread = t.past.unread
  BY <1>1 DEF PastType
<1> HIDE DEF u, seeking, left, anew
<1>8. /\ u.page = t.page /\ u.play = seeking /\ u.ops = t.ops /\ u.past = anew
      /\ u.net = left /\ u \in TabType
  BY <1>1, <1>4, <1>5, <1>6, <1>7 DEF TabType
<1>9. \A op \in u.ops : OpSound(op, u)
  BY <1>7, <1>8 DEF OpSound
<1>10. source # NoSource /\ source.file \in Files
  BY Nothing
<1>11. source.file = t.page.current
  OBVIOUS
<1>12. Sound(u)
  BY <1>5, <1>6, <1>7, <1>8, <1>9, <1>10, <1>11, Nothing DEF Sound, Asked
<1>13. ListLag(u, {}, saved, told)
  BY <1>7, <1>8 DEF ListLag
<1>14. ~Ripe(u)
  BY <1>5, <1>8 DEF Ripe
<1> QED BY <1>8, <1>12, <1>13, <1>14 DEF u

(* A change of what is saved is read again, and who reads looks again. *)
LEMMA ReconcileGood ==
    ASSUME NEW t, Sound(t), NEW saved, NEW told, NEW change \in Changes,
           LagBut(t, Scope(change.file), saved, told),
           DueBut(t, Scope(change.file), saved, told)
    PROVE  Good(Reconcile(t, change), saved, told)
<1> DEFINE x == IF change.removed THEN CancelDownloads(t, Files) ELSE t
           op == Op("refresh", change.file, NoTime, FALSE)
           u == Later(x, op)
<1>1. Reconcile(t, change) = u
  BY DEF Reconcile
<1>2. /\ Sound(x) /\ x.page = t.page /\ x.play = t.play /\ x.past = t.past
      /\ \A o \in t.ops : o.do # "save" => o \in x.ops
      /\ Keeps(x.ops, t.ops)
  <2>1. Keeps(t.ops, t.ops)
    BY MoreKeeps
  <2> QED BY <2>1, CancelFacts
<1>3. change.file \in Files \union {NoFile}
  BY DEF Changes
<1>4. op \in OpType /\ op.do = "refresh" /\ op.file = change.file
  BY <1>3 DEF Op, OpType, OtherOps
<1> HIDE DEF x, op
<1>5. OpSound(op, x)
  BY <1>4 DEF OpSound
<1>6. /\ Sound(u) /\ u.page = t.page /\ u.play = t.play /\ u.past = t.past
      /\ u.ops = x.ops \union {op}
  BY <1>2, <1>4, <1>5, LaterSound
<1> HIDE DEF u
<1>7. \A f : f \in Scope(change.file) => Covered(f, u.ops, told)
  BY <1>4, <1>6 DEF Covered
<1>8. SameMarks(u, t) /\ Keeps(u.ops, t.ops)
  BY <1>2, <1>6 DEF SameMarks, Keeps
<1>9. LagBut(u, Scope(change.file), saved, told)
  BY <1>8, LagButKept
<1>10. Lag(u, saved, told)
  BY <1>7, <1>9 DEF Lag, LagBut, ListLag, MarkLag
<1>11. (Ripe(u) => Ripe(t)) /\ \A o \in t.ops : Looks(o, t) => o \in u.ops
  BY <1>2, <1>6 DEF Ripe, Looks
<1>12. DueBut(u, Scope(change.file), saved, told)
  BY <1>6, <1>8, <1>11, DueButKept
<1>13. Due(u, saved, told)
  BY <1>7, <1>12 DEF Due, DueBut
<1> QED BY <1>1, <1>6, <1>10, <1>13 DEF Good

-----------------------------------------------------------------------------
(***************************************************************************)
(* Choosing a chapter, and its sources.                                    *)
(***************************************************************************)

(* The tab as it is. *)
LEMMA TabNow ==
    ASSUME IInv
    PROVE  /\ Sound(Tab) /\ Lag(Tab, disk.saved, news) /\ Due(Tab, disk.saved, news)
           /\ Good(Tab, disk.saved, news) /\ Tab \in TabType
           /\ Tab.page = page /\ Tab.play = play /\ Tab.ops = ops /\ Tab.net = net
           /\ Tab.past = past
           /\ page \in PageType /\ play \in PlayType /\ ops \subseteq OpType
           /\ net \in NetType /\ past \in PastType
           /\ disk \in DiskType /\ disk.saved \subseteq Files /\ news \subseteq Changes
           /\ \A op \in ops : OpSound(op, Tab)
BY DEF IInv, Good, Sound, Tab, TabType, DiskType

(* A handler that is over leaves the others. *)
LEMMA WithoutFacts ==
    ASSUME IInv, NEW op \in ops
    PROVE  /\ Sound(Without(op))
           /\ Without(op).page = page /\ Without(op).play = play /\ Without(op).net = net
           /\ Without(op).past = past /\ Without(op).ops = ops \ {op}
           /\ op.do \notin {"refresh", "save", "settle"} =>
                  Lag(Without(op), disk.saved, news) /\ Keeps(ops \ {op}, ops)
<1> DEFINE u == [Tab EXCEPT !.ops = ops \ {op}]
<1>1. /\ Sound(u) /\ SameMarks(u, Tab) /\ u.page = page /\ u.play = play
      /\ u.net = net /\ u.past = past /\ u.ops = ops \ {op}
  BY TabNow, LessSound
<1>2. Without(op) = u
  BY TabNow DEF Without
<1> HIDE DEF u
<1>3. ASSUME op.do \notin {"refresh", "save", "settle"}
      PROVE  Lag(u, disk.saved, news) /\ Keeps(ops \ {op}, ops)
  <2>1. Keeps(ops \ {op}, ops)
    BY <1>3, MoreKeeps
  <2> QED BY <1>1, <2>1, TabNow, LagKept
<1> QED BY <1>1, <1>2, <1>3

(* The end of a chapter is over with it, or not: the tab stays sound either way. *)
LEMMA FinishedFacts ==
    ASSUME IInv, NEW op \in ops, op.do \notin {"refresh", "save", "settle"}
    PROVE  /\ Sound(Finished(op)) /\ Lag(Finished(op), disk.saved, news)
           /\ Finished(op).page = page /\ Finished(op).past = past
           /\ Finished(op).ops = ops \ {op}
           /\ Due(Without(op), disk.saved, news) => Good(Finished(op), disk.saved, news)
<1> DEFINE t == Without(op)
           u == Finished(op)
           still == t.play.ending /\ ~op.ends
<1>1. u = [t EXCEPT !.play.ending = still]
  BY DEF Finished
<1>2. /\ t.page = page /\ t.play = play /\ t.past = past /\ t.ops = ops \ {op}
      /\ Sound(t) /\ Lag(t, disk.saved, news)
  BY WithoutFacts
<1> HIDE DEF t
<1>3. still \in BOOLEAN /\ t \in TabType
  BY <1>2, TabNow DEF OpType, Sound, PlayType
<1> HIDE DEF still
<1>4. /\ u \in TabType /\ u.page = t.page /\ u.ops = t.ops /\ u.net = t.net
      /\ u.past = t.past /\ u.play.audio = t.play.audio
      /\ u.play.phase = t.play.phase /\ u.play.ready = t.play.ready
      /\ u.play.playing = t.play.playing
  BY <1>1, <1>3 DEF TabType, PlayType
<1> HIDE DEF u
<1>5. SameSource(u, t) /\ SameMarks(u, t) /\ Keeps(u.ops, t.ops) /\ (Ripe(u) => Ripe(t))
  BY <1>4, MoreKeeps DEF SameSource, SameMarks, Ripe
<1>6. \A o \in u.ops : OpSound(o, u)
  BY <1>2, <1>4, <1>5, OpKept DEF Sound
<1>7. Sound(u) /\ Lag(u, disk.saved, news)
  BY <1>2, <1>5, <1>6, SoundKept, LagKept
<1>8. Due(t, disk.saved, news) => Due(u, disk.saved, news)
  BY <1>4, <1>5, DueKept
<1> QED BY <1>2, <1>4, <1>7, <1>8 DEF Good, t, u

(* It keeps the tab good if it is not the one that would look again. *)
LEMMA WithoutGood ==
    ASSUME IInv, NEW op \in ops, op.do \notin {"refresh", "save", "settle"},
           Ripe(Tab) /\ Looks(op, Tab) =>
               \/ Covered(page.current, ops, news)
               \/ page.current \notin disk.saved /\ Own(page.current, ops)
    PROVE  Good(Without(op), disk.saved, news) /\ Good(Finished(op), disk.saved, news)
<1> DEFINE t == Without(op)
<1>1. /\ Sound(t) /\ t.page = page /\ t.play = play /\ Keeps(t.ops, ops)
      /\ t.past = past /\ t.ops = ops \ {op} /\ Lag(t, disk.saved, news)
  BY WithoutFacts
<1> HIDE DEF t
<1>2. Ripe(t) <=> Ripe(Tab)
  BY <1>1, TabNow DEF Ripe
<1>3. \A o : Looks(o, t) <=> Looks(o, Tab)
  BY <1>1, TabNow DEF Looks
<1>4. \A f : /\ Covered(f, ops, news) => Covered(f, t.ops, news)
             /\ Own(f, ops) => Own(f, t.ops)
  BY <1>1, CoveredKept
<1>5. Ripe(Tab) => \/ \E o \in ops : Looks(o, Tab)
                   \/ Covered(page.current, ops, news)
                   \/ page.current \notin disk.saved /\ Own(page.current, ops)
  BY TabNow DEF Due, DueBut
<1>6. Due(t, disk.saved, news)
  BY <1>1, <1>2, <1>3, <1>4, <1>5 DEF Due, DueBut
<1> QED BY <1>1, <1>6, FinishedFacts DEF Good, t

(* A write of the position changes nothing of what is saved, done or failed. *)
LEMMA FlushFacts ==
    ASSUME IInv, NEW at \in Times
    PROVE  /\ Persisted(at) \in DiskType /\ Persisted(at).saved = disk.saved
           /\ Flush(at) => disk' \in DiskType /\ disk'.saved = disk.saved
<1>1. disk \in DiskType /\ page \in PageType
  BY TabNow
<1>2. Persisted(at) \in DiskType /\ Persisted(at).saved = disk.saved
  BY <1>1 DEF Persisted, DiskType, PageType, Snapshot
<1> QED BY <1>1, <1>2 DEF Flush

(* The listener picks a chapter. *)
LEMMA PickFileKept ==
    ASSUME IInv, NEW f \in Files, NEW at \in Times \union {NoTime}, PickFile(f, at),
           acts' \in 0..MaxActs
    PROVE  IInv'
<1>1. page.marked[f] \in BOOLEAN /\ play.time \in Times
  BY TabNow DEF PageType, PlayType
<1>2. PICK marked \in {page.marked[f], page.marked[f] \/ (at = NoTime /\ f \in rows)} :
          Becomes(SetCurrentFile(Tab, f, at, FALSE, marked))
  BY DEF PickFile
<1>3. marked \in BOOLEAN
  BY <1>1, <1>2
<1> DEFINE t == SetCurrentFile(Tab, f, at, FALSE, marked)
<1>4. Good(t, disk.saved, news)
  BY <1>3, TabNow, SetCurrentGood DEF PickFile
<1>5. disk' \in DiskType /\ disk'.saved = disk.saved
  BY <1>1, FlushFacts, TabNow DEF PickFile
<1>6. Becomes(t) /\ news' = news
  BY <1>2 DEF PickFile
<1> HIDE DEF t
<1> QED BY <1>4, <1>5, <1>6, GoodTab, TabNow

(* The flush is done. *)
LEMMA ChangeFileKept ==
    ASSUME IInv, NEW op \in ops, ChangeFile(op), acts' \in 0..MaxActs
    PROVE  IInv'
<1>1. op.do = "change" /\ op \in OpType /\ OpSound(op, Tab)
  BY TabNow DEF ChangeFile
<1> DEFINE o == [op EXCEPT !.do = "open"]
<1>2. UNCHANGED <<disk, news>>
      /\ Becomes(IF Current(op) THEN Later(Without(op), o) ELSE Finished(op))
  BY DEF ChangeFile
<1>3. CASE Current(op)
  <2>1. o \in OpType /\ o.do = "open" /\ o.file = op.file /\ o.at = op.at /\ o.fresh = op.fresh
    BY <1>1 DEF OpType, SourceOps
  <2> HIDE DEF o
  <2>2. OpSound(o, Without(op))
    BY <1>1, <2>1, WithoutFacts, TabNow DEF OpSound
  <2>3. Looks(o, Without(op))
    BY <1>3, <2>1 DEF Looks, Current
  <2>4. Good(Later(Without(op), o), disk.saved, news)
    BY <1>1, <2>1, <2>2, <2>3, WithoutFacts, LookerGood
  <2> QED BY <1>2, <1>3, <2>4, GoodTab, TabNow
<1>4. CASE ~Current(op)
  <2>1. ~(Ripe(Tab) /\ Looks(op, Tab))
    BY <1>1, <1>4, TabNow DEF Ripe, Looks, Sound, Current
  <2>2. Good(Finished(op), disk.saved, news)
    BY <1>1, <2>1, WithoutGood
  <2> QED BY <1>2, <1>4, <2>2, GoodTab, TabNow
<1> QED BY <1>3, <1>4

(* A source that was resolved is a source. *)
LEMMA SourceOfFacts ==
    ASSUME NEW f \in Files
    PROVE  SourceOf(f) \in Sources /\ SourceOf(f).file = f
           /\ SourceOf(f).kind \in {"server", "offline"}
BY DEF SourceOf, Sources

(* The chapter is opened: the page shows it, and what it shows of it was marked, in *)
(* the list or in a copy.                                                           *)
LEMMA OpenedGood ==
    ASSUME IInv, NEW op \in ops, op.do = "open", Current(op),
           NEW source, source = SourceOf(op.file), ~Refused(source), NEW mark \in BOOLEAN
    PROVE  Good(Opened(Without(op), op, source, mark), disk.saved, news)
<1> DEFINE t == Without(op)
           s == Stale(t, Downloads)
           x == [s EXCEPT !.page.current = op.file, !.page.kind = source.kind,
                          !.page.mark = mark]
           y == LoadSource(x, source, op.at, op.auto)
           z == CacheOfflineFile(y, op.file, TRUE)
<1>1. /\ op \in OpType /\ op.file \in Files /\ op.at \in Times /\ op.auto \in BOOLEAN
      /\ op.file = past.opening /\ page.listed /\ ~page.disposed
  BY TabNow DEF OpSound, OpType, Current
<1>2. /\ source \in Sources /\ source.file = op.file
      /\ source.kind = "server" => page.allowed
      /\ source.kind = "offline" <=> op.file \in disk.saved
  BY <1>1, SourceOfFacts DEF Refused, SourceOf
<1>3. /\ Sound(t) /\ t.page = page /\ t.play = play /\ t.past = past
      /\ Lag(t, disk.saved, news) /\ t.net = net
  BY WithoutFacts
<1>4. Opened(t, op, source, mark) = IF source.kind = "server" THEN z ELSE y
  BY DEF Opened
<1> HIDE DEF t
<1>5. /\ Sound(s) /\ s.page = page /\ s.play = play /\ s.past = past /\ s.net = net
      /\ \A f : /\ Covered(f, t.ops, news) => Covered(f, s.ops, news)
                /\ Fetched(f, t.ops) => Fetched(f, s.ops)
  BY <1>3, StaleSound, StaleDownloads
<1> HIDE DEF s
<1>6. s \in TabType /\ source.kind \in Kinds
  BY <1>2, <1>5, Nothing DEF Sound, Kinds
<1>7. /\ x \in TabType /\ x.page.current = op.file /\ x.page.kind = source.kind
      /\ x.page.marked = page.marked
      /\ x.page.listed = page.listed /\ x.page.allowed = page.allowed
      /\ x.page.disposed = page.disposed
      /\ x.play = play /\ x.ops = s.ops /\ x.net = net /\ x.past = past
  BY <1>1, <1>5, <1>6 DEF TabType, PageType
<1> HIDE DEF x
<1>8. ListLag(x, {}, disk.saved, news)
  BY <1>3, <1>5, <1>7 DEF Lag, LagBut, ListLag
<1>9. \A o \in x.ops : OpSound(o, x)
  BY <1>5, <1>7 DEF Sound, OpSound
<1>10. source = [file |-> x.page.current, kind |-> x.page.kind]
  BY <1>2, <1>7 DEF Sources
<1>11. /\ past.wanted # NoFile /\ x.net.urls = Urls(x.play.audio)
       /\ Asked(past, source)
  <2>1. op.file # NoFile /\ Asked(past, play.audio)
    BY <1>1, <1>3, Nothing DEF Sound
  <2> QED BY <1>1, <1>2, <1>3, <1>7, <2>1 DEF Sound, Asked
<1>12. /\ Sound(y) /\ ListLag(y, {}, disk.saved, news) /\ ~Ripe(y)
       /\ y.page.current = op.file /\ y.page.allowed = page.allowed
  <2>1. /\ x \in TabType /\ source \in Sources /\ op.at \in Times /\ op.auto \in BOOLEAN
        /\ source.kind = "server" => x.page.allowed
        /\ x.past.wanted # NoFile /\ Asked(x.past, source)
        /\ ~x.page.disposed /\ x.page.listed
    BY <1>1, <1>2, <1>7, <1>11
  <2>2. /\ Sound(y) /\ ListLag(y, {}, disk.saved, news) /\ ~Ripe(y) /\ y.page = x.page
    BY ONLY <1>8, <1>9, <1>10, <1>11, <2>1, LoadSourceSound
  <2> QED BY <1>7, <2>2
<1> HIDE DEF y
<1>13. CASE source.kind = "server"
  <2>1. /\ Sound(z) /\ z.page = y.page /\ z.play = y.play /\ z.past = y.past
        /\ y.ops \subseteq z.ops /\ Own(op.file, z.ops)
    BY <1>1, <1>2, <1>12, <1>13, CacheFacts
  <2> HIDE DEF z
  <2>2. Keeps(z.ops, y.ops)
    BY <2>1, MoreKeeps
  <2>3. \A f : /\ Covered(f, y.ops, news) => Covered(f, z.ops, news)
               /\ Fetched(f, y.ops) => Fetched(f, z.ops)
    BY <2>2, CoveredKept
  <2>4. ListLag(z, {}, disk.saved, news)
    BY <1>12, <2>1, <2>3 DEF ListLag
  <2>5. MarkLag(z, {}, disk.saved, news) /\ ~Ripe(z)
    BY <1>12, <2>1 DEF MarkLag, Ripe
  <2> QED BY <1>4, <1>13, <2>1, <2>4, <2>5 DEF Good, Lag, LagBut, Due, DueBut, t
<1>14. CASE source.kind # "server"
  <2>1. op.file \in disk.saved
    BY <1>2, <1>14, Nothing
  <2>2. MarkLag(y, {}, disk.saved, news)
    BY <1>12, <2>1 DEF MarkLag
  <2> QED BY <1>4, <1>12, <1>14, <2>2 DEF Good, Lag, LagBut, Due, DueBut, t
<1> QED BY <1>13, <1>14

(* The copy of a chapter was looked for. *)
LEMMA OpenSourceKept ==
    ASSUME IInv, NEW op \in ops, OpenSource(op), acts' \in 0..MaxActs
    PROVE  IInv'
<1>1. op.do = "open" /\ disk' = disk /\ news' = news
  BY DEF OpenSource
<1>2. PICK source \in {SourceOf(op.file), NoSource}, mark \in Marks(op) :
          Becomes(CASE ~Current(op) -> Finished(op)
                    [] Current(op) /\ Refused(source) -> GivenUp(Finished(op))
                    [] Current(op) /\ ~Refused(source) ->
                         Opened(Without(op), op, source, mark))
  BY DEF OpenSource
<1>3. CASE ~Current(op)
  <2>1. Becomes(Finished(op))
    BY <1>2, <1>3
  <2>2. ~(Ripe(Tab) /\ Looks(op, Tab))
    BY <1>1, <1>3, TabNow DEF Ripe, Looks, Sound, Current
  <2>3. Good(Finished(op), disk.saved, news)
    BY <1>1, <2>2, WithoutGood
  <2> QED BY <1>1, <2>1, <2>3, GoodTab, TabNow
<1>4. CASE Current(op) /\ Refused(source)
  <2>1. Becomes(GivenUp(Finished(op)))
    BY <1>2, <1>4
  <2>2. Good(GivenUp(Finished(op)), disk.saved, news)
    BY <1>1, FinishedFacts, MissedGood
  <2> QED BY <1>1, <2>1, <2>2, GoodTab, TabNow
<1>5. CASE Current(op) /\ ~Refused(source)
  <2>1. Becomes(Opened(Without(op), op, source, mark))
    BY <1>2, <1>5
  <2>2. source = SourceOf(op.file)
    BY <1>2, <1>5 DEF Refused
  <2>3. op.file \in Files /\ op \in OpType /\ page \in PageType
    BY <1>1, TabNow DEF OpSound
  <2>4. mark \in BOOLEAN
    BY <1>2, <2>3 DEF Marks, OpType, PageType
  <2>5. Good(Opened(Without(op), op, source, mark), disk.saved, news)
    BY <1>1, <1>5, <2>2, <2>4, OpenedGood
  <2> QED BY <1>1, <2>1, <2>5, GoodTab, TabNow
<1> QED BY <1>3, <1>4, <1>5

(* The copy of the chapter that plays was looked for. *)
LEMMA SwitchSourceKept ==
    ASSUME IInv, NEW op \in ops, SwitchSource(op), acts' \in 0..MaxActs
    PROVE  IInv'
<1>1. PICK kind \in {"offline", "server"} :
          /\ op.do = (IF kind = "offline" THEN "toOffline" ELSE "toServer")
          /\ Becomes(IF StillFits(op, kind)
                     THEN LoadSource([Without(op) EXCEPT !.page.kind = kind], SourceOf(op.file),
                                     IF op.at = NoTime THEN play.time ELSE op.at, FALSE)
                     ELSE Finished(op))
          /\ UNCHANGED <<disk, news>>
  BY DEF SwitchSource
<1>2. op.do \in {"toOffline", "toServer"} /\ op \in OpType
  BY <1>1, TabNow
<1>3. CASE StillFits(op, kind)
  <2> DEFINE t == Without(op)
             x == [t EXCEPT !.page.kind = kind]
             at == IF op.at = NoTime THEN play.time ELSE op.at
             y == LoadSource(x, SourceOf(op.file), at, FALSE)
  <2>1. Becomes(y)
    BY <1>1, <1>3
  <2>2. /\ Sound(t) /\ t.page = page /\ t.play = play /\ t.past = past
        /\ Lag(t, disk.saved, news) /\ t.net = net /\ t \in TabType
    BY <1>2, WithoutFacts DEF Sound
  <2>3. /\ ~page.disposed /\ op.file = page.current /\ SourceOf(op.file).kind = kind
        /\ page.kind # "none" /\ (kind = "server" => page.allowed /\ ~page.mark)
        /\ (kind = "offline" => op.file \in disk.saved)
    BY <1>3, TabNow DEF StillFits, Current, SwitchKind, SourceOf
  <2>4. at \in Times
    BY <1>2, TabNow DEF OpType, PlayType
  <2>5. /\ op.file \in Files /\ past.wanted # NoFile /\ page.listed
        /\ Asked(past, play.audio) /\ play.audio.file = op.file
    BY <2>2, <2>3, TabNow DEF Sound, PageType
  <2> HIDE DEF t, at
  <2>6. kind \in Kinds
    BY DEF Kinds
  <2>7. /\ x \in TabType /\ x.page.current = op.file /\ x.page.kind = kind
        /\ x.page.mark = page.mark /\ x.page.marked = page.marked
        /\ x.page.listed = page.listed /\ x.page.allowed = page.allowed
        /\ x.page.disposed = page.disposed
        /\ x.play = play /\ x.ops = t.ops /\ x.net = net /\ x.past = past
    BY <2>2, <2>3, <2>6 DEF TabType, PageType
  <2> HIDE DEF x
  <2>8. ListLag(x, {}, disk.saved, news)
    BY <2>2, <2>7 DEF Lag, LagBut, ListLag
  <2>9. \A o \in x.ops : OpSound(o, x)
    BY <2>2, <2>7 DEF Sound, OpSound
  <2>10. SourceOf(op.file) \in Sources
         /\ SourceOf(op.file) = [file |-> x.page.current, kind |-> x.page.kind]
         /\ SourceOf(op.file).file = op.file
    BY <2>3, <2>5, <2>7, SourceOfFacts DEF Sources
  <2>11. x.net.urls = Urls(x.play.audio) /\ Asked(past, SourceOf(op.file))
    BY <2>2, <2>5, <2>7, <2>10 DEF Sound, Asked
  <2>12. /\ Sound(y) /\ ListLag(y, {}, disk.saved, news) /\ ~Ripe(y)
         /\ y.page.current = op.file /\ y.page.mark = page.mark
    <3> DEFINE source == SourceOf(op.file)
               auto == FALSE
    <3>1. /\ x \in TabType /\ source \in Sources /\ at \in Times /\ auto \in BOOLEAN
          /\ source = [file |-> x.page.current, kind |-> x.page.kind]
          /\ source.kind = "server" => x.page.allowed
          /\ x.past.wanted # NoFile /\ Asked(x.past, source)
          /\ ~x.page.disposed /\ x.page.listed
      BY <2>3, <2>4, <2>5, <2>7, <2>10, <2>11
    <3> HIDE DEF source, auto
    <3> DEFINE z == LoadSource(x, source, at, auto)
    <3>2. /\ Sound(z) /\ ListLag(z, {}, disk.saved, news) /\ ~Ripe(z) /\ z.page = x.page
      BY ONLY <2>8, <2>9, <2>11, <3>1, LoadSourceSound
    <3>3. y = z
      BY DEF source, auto
    <3> QED BY <2>7, <3>2, <3>3
  <2> HIDE DEF y
  <2>13. MarkLag(y, {}, disk.saved, news)
    BY <2>3, <2>12 DEF MarkLag
  <2>14. Good(y, disk.saved, news)
    BY <2>12, <2>13 DEF Good, Lag, LagBut, Due, DueBut
  <2> QED BY <1>1, <2>1, <2>14, GoodTab, TabNow
<1>4. CASE ~StillFits(op, kind)
  <2>1. ASSUME Ripe(Tab), Looks(op, Tab)
        PROVE  \/ Covered(page.current, ops, news)
               \/ page.current \notin disk.saved /\ Own(page.current, ops)
    <3>1. /\ op.do = "toOffline" /\ op.fresh /\ op.file = page.current
      BY <1>2, <2>1, TabNow DEF Looks
    <3>2. /\ play.phase = "loaded" /\ page.kind = "server" /\ page.mark
          /\ ~play.ready /\ ~play.playing /\ ~past.missed
      BY <2>1, TabNow DEF Ripe
    <3>3. ~page.disposed /\ page.current # NoFile /\ page.current \in Files
      BY <3>2, TabNow DEF Sound, PageType
    <3>4. kind = "offline" /\ SwitchKind(Tab) = "offline"
      BY <1>1, <3>1, <3>2, TabNow DEF SwitchKind
    <3>5. page.current \notin disk.saved
      BY <1>4, <3>1, <3>3, <3>4 DEF StillFits, Current, SourceOf
    <3> QED BY <3>2, <3>3, <3>5, TabNow DEF Lag, LagBut, MarkLag
  <2>2. Good(Finished(op), disk.saved, news)
    BY <1>2, <2>1, WithoutGood
  <2>3. Becomes(Finished(op))
    BY <1>1, <1>4
  <2> QED BY <1>1, <2>2, <2>3, GoodTab, TabNow
<1> QED BY <1>3, <1>4

(* The copy could not be looked for. *)
LEMMA SwitchFailsKept ==
    ASSUME IInv, NEW op \in ops, SwitchFails(op), acts' \in 0..MaxActs
    PROVE  IInv'
<1>1. /\ op.do \in {"toOffline", "toServer"} /\ UNCHANGED <<disk, news>>
      /\ Becomes(IF Current(op) THEN GivenUp(Finished(op)) ELSE Finished(op))
  BY DEF SwitchFails
<1>2. Good(GivenUp(Finished(op)), disk.saved, news)
  BY <1>1, FinishedFacts, MissedGood
<1>3. ASSUME ~Current(op) PROVE Good(Finished(op), disk.saved, news)
  <2>1. ~(Ripe(Tab) /\ Looks(op, Tab))
    BY <1>1, <1>3, TabNow DEF Ripe, Looks, Sound, Current
  <2> QED BY <1>1, <2>1, WithoutGood
<1> QED BY <1>1, <1>2, <1>3, GoodTab, TabNow

-----------------------------------------------------------------------------
(***************************************************************************)
(* The player.                                                             *)
(***************************************************************************)

(* A source has loaded: whether another would do is asked at once. *)
LEMMA SourceLoadsKept ==
    ASSUME IInv, SourceLoads, acts' \in 0..MaxActs
    PROVE  IInv'
<1> DEFINE x == [Tab EXCEPT !.play.phase = "loaded", !.play.time = play.seek]
<1>1. /\ x \in TabType /\ x.page = page /\ x.ops = ops /\ x.net = net /\ x.past = past
      /\ x.play.audio = play.audio /\ x.play.phase = "loaded"
  BY TabNow DEF TabType, PlayType, Tab
<1>2. play.phase = "loading" /\ Becomes(Switch(x, NoTime)) /\ UNCHANGED <<disk, news>>
  BY DEF SourceLoads
<1> HIDE DEF x
<1>3. SameSource(x, Tab) /\ SameMarks(x, Tab) /\ Keeps(x.ops, Tab.ops)
  BY <1>1, <1>2, TabNow, MoreKeeps DEF SameSource, SameMarks
<1>4. \A op \in x.ops : OpSound(op, x)
  BY <1>1, <1>3, TabNow, OpKept
<1>5. Sound(x) /\ Lag(x, disk.saved, news)
  BY <1>3, <1>4, TabNow, SoundKept, LagKept
<1>6. Good(Switch(x, NoTime), disk.saved, news)
  BY <1>5, SwitchGood
<1> QED BY <1>2, <1>6, GoodTab, TabNow

(* A source fails. *)
LEMMA SourceFailsKept ==
    ASSUME IInv, SourceFails, acts' \in 0..MaxActs
    PROVE  IInv'
<1> DEFINE x == [Tab EXCEPT !.play.phase = "failed", !.play.playing = FALSE,
                            !.play.ready = FALSE, !.play.ending = FALSE]
<1>1. /\ x \in TabType /\ x.page = page /\ x.ops = ops /\ x.net = net /\ x.past = past
      /\ x.play.audio = play.audio /\ x.play.phase = "failed"
  BY TabNow DEF TabType, PlayType, Tab
<1>2. play.phase # "none" /\ Becomes(x) /\ UNCHANGED <<disk, news>>
  BY DEF SourceFails
<1> HIDE DEF x
<1>3. ~Ripe(x)
  BY <1>1 DEF Ripe
<1>4. Good(x, disk.saved, news)
  BY <1>1, <1>2, <1>3, TabNow, PlayGood
<1> QED BY <1>2, <1>4, GoodTab, TabNow

(* Playback starts, and may ask for a copy of the chapter. *)
LEMMA PlaybackStartsKept ==
    ASSUME IInv, PlaybackStarts, acts' \in 0..MaxActs
    PROVE  IInv'
<1> DEFINE from == IF play.time = Length THEN 0 ELSE play.time
           x == [Tab EXCEPT !.play.ready = FALSE, !.play.playing = TRUE, !.play.time = from]
<1>1. from \in Times
  BY TabNow, Nothing DEF PlayType
<1>2. /\ play.phase = "loaded" /\ UNCHANGED <<disk, news>>
      /\ Becomes(IF page.kind = "server" /\ ~page.mark /\ page.current \notin net.saving
                 THEN CacheOfflineFile(x, page.current, TRUE) ELSE x)
  BY DEF PlaybackStarts, Tab
<1> HIDE DEF from
<1>3. /\ x \in TabType /\ x.page = page /\ x.ops = ops /\ x.net = net /\ x.past = past
      /\ x.play.audio = play.audio /\ x.play.phase = play.phase /\ x.play.playing
  BY <1>1, TabNow DEF TabType, PlayType, Tab
<1> HIDE DEF x
<1>4. ~Ripe(x)
  BY <1>3 DEF Ripe
<1>5. Good(x, disk.saved, news)
  BY <1>3, <1>4, TabNow, PlayGood
<1>6. page.kind = "server" => page.current \in Files
  BY TabNow DEF Sound, PageType
<1>7. page.kind = "server" => Good(CacheOfflineFile(x, page.current, TRUE), disk.saved, news)
  BY <1>5, <1>6, CacheGood
<1> QED BY <1>2, <1>5, <1>7, GoodTab, TabNow

(* Time goes by. *)
LEMMA PlaybackGoesOnKept ==
    ASSUME IInv, PlaybackGoesOn, acts' \in 0..MaxActs
    PROVE  IInv'
<1> DEFINE x == [Tab EXCEPT !.play.time = @ + 1]
<1>1. play.time \in Times /\ play.playing /\ play.time < Length /\ play.time + 1 \in Times
  BY TabNow, LengthAssumption DEF PlayType, Times, PlaybackGoesOn
<1>2. /\ x \in TabType /\ x.page = page /\ x.ops = ops /\ x.net = net /\ x.past = past
      /\ x.play.audio = play.audio /\ x.play.phase = play.phase /\ x.play.playing
  BY <1>1, TabNow DEF TabType, PlayType, Tab
<1>3. Becomes(x) /\ UNCHANGED <<disk, news>>
  BY DEF PlaybackGoesOn
<1> HIDE DEF x
<1>4. ~Ripe(x)
  BY <1>2 DEF Ripe
<1>5. Good(x, disk.saved, news)
  BY <1>2, <1>4, TabNow, PlayGood
<1> QED BY <1>3, <1>5, GoodTab, TabNow

(* A tab whose player changes but not its source has sound operations and marks. *)
LEMMA PlayerFacts ==
    ASSUME IInv, NEW x \in TabType, x.page = page, x.ops = ops, x.net = net, x.past = past,
           x.play.audio = play.audio, x.play.phase = play.phase
    PROVE  Sound(x) /\ Lag(x, disk.saved, news)
<1>1. SameSource(x, Tab) /\ SameMarks(x, Tab) /\ Keeps(x.ops, Tab.ops)
  BY TabNow, MoreKeeps DEF SameSource, SameMarks
<1>2. \A op \in x.ops : OpSound(op, x)
  BY <1>1, TabNow, OpKept
<1> QED BY <1>1, <1>2, TabNow, SoundKept, LagKept

(* Playback reaches the end of the chapter. *)
LEMMA PlaybackEndsKept ==
    ASSUME IInv, PlaybackEnds, acts' \in 0..MaxActs
    PROVE  IInv'
<1> DEFINE x == [Tab EXCEPT !.play.playing = FALSE, !.play.ready = FALSE, !.play.ending = TRUE]
           op == Op("end", page.current, NoTime, FALSE)
<1>1. /\ x \in TabType /\ x.page = page /\ x.ops = ops /\ x.net = net /\ x.past = past
      /\ x.play.audio = play.audio /\ x.play.phase = play.phase
  BY TabNow DEF TabType, PlayType, Tab
<1>2. Becomes(Later(x, op)) /\ Flush(Length) /\ news' = news
  BY DEF PlaybackEnds
<1>3. page.current \in Files \union {NoFile}
  BY TabNow DEF PageType
<1>4. op \in OpType /\ op.do = "end" /\ op.fresh
  BY <1>3 DEF Op, OpType, SourceOps
<1> HIDE DEF x, op
<1>5. OpSound(op, x) /\ Looks(op, x)
  BY <1>4 DEF OpSound, Looks
<1>6. Good(Later(x, op), disk.saved, news)
  BY <1>1, <1>4, <1>5, PlayerFacts, LookerGood
<1>7. disk' \in DiskType /\ disk'.saved = disk.saved
  BY <1>2, FlushFacts, Nothing
<1> QED BY <1>2, <1>6, <1>7, GoodTab, TabNow

(* The listener pauses: the source may change once the position is written, and not if *)
(* the write fails.                                                                    *)
LEMMA PressPauseKept ==
    ASSUME IInv, PressPause, acts' \in 0..MaxActs
    PROVE  IInv'
<1> DEFINE x == [Tab EXCEPT !.play.playing = FALSE, !.play.ready = FALSE]
           op == Op("pause", NoFile, NoTime, FALSE)
<1>1. /\ x \in TabType /\ x.page = page /\ x.ops = ops /\ x.net = net /\ x.past = past
      /\ x.play.audio = play.audio /\ x.play.phase = play.phase
  BY TabNow DEF TabType, PlayType, Tab
<1>2. /\ news' = news
      /\ \/ disk' = Persisted(play.time) /\ Becomes(Later(x, op))
         \/ disk' = disk /\ Becomes(GivenUp(x))
  BY DEF PressPause
<1>3. play.time \in Times
  BY TabNow DEF PlayType
<1>4. op \in OpType /\ op.do = "pause"
  BY DEF Op, OpType, OtherOps
<1> HIDE DEF x, op
<1>5. OpSound(op, x) /\ Looks(op, x)
  BY <1>4 DEF OpSound, Looks
<1>6. Sound(x) /\ Lag(x, disk.saved, news)
  BY <1>1, PlayerFacts
<1>7. Good(Later(x, op), disk.saved, news) /\ Good(GivenUp(x), disk.saved, news)
  BY <1>4, <1>5, <1>6, LookerGood, MissedGood
<1>8. disk' \in DiskType /\ disk'.saved = disk.saved
  BY <1>2, <1>3, FlushFacts, TabNow
<1> QED BY <1>2, <1>7, <1>8, GoodTab, TabNow

(* The listener plays. *)
LEMMA PressPlayKept ==
    ASSUME IInv, PressPlay, acts' \in 0..MaxActs
    PROVE  IInv'
<1> DEFINE x == Play(Tab)
<1>1. x = [Tab EXCEPT !.play.ready = TRUE]
  BY TabNow DEF Play, PressPlay
<1>2. Becomes(x) /\ UNCHANGED <<disk, news>>
  BY DEF PressPlay
<1> HIDE DEF x
<1>3. /\ x \in TabType /\ x.page = page /\ x.ops = ops /\ x.net = net /\ x.past = past
      /\ x.play.audio = play.audio /\ x.play.phase = play.phase /\ x.play.ready
  BY <1>1, TabNow DEF TabType, PlayType, Tab
<1>4. ~Ripe(x)
  BY <1>3 DEF Ripe
<1>5. Good(x, disk.saved, news)
  BY <1>3, <1>4, TabNow, PlayGood
<1> QED BY <1>2, <1>5, GoodTab, TabNow

(* The position after a pause was written. *)
LEMMA AfterPauseKept ==
    ASSUME IInv, NEW op \in ops, AfterPause(op), acts' \in 0..MaxActs
    PROVE  IInv'
<1>1. /\ op.do = "pause" /\ Becomes(Switch(Without(op), NoTime)) /\ UNCHANGED <<disk, news>>
  BY DEF AfterPause
<1>2. Good(Switch(Without(op), NoTime), disk.saved, news)
  BY <1>1, WithoutFacts, SwitchGood
<1> QED BY <1>1, <1>2, GoodTab, TabNow

(* The end of a chapter is superseded: nothing that is ripe waited for it. *)
LEMMA SupersededGood ==
    ASSUME IInv, NEW op \in ops, op.do \in {"end", "next"}, EndSuperseded(op)
    PROVE  Good(Finished(op), disk.saved, news)
<1>1. ~(Ripe(Tab) /\ Looks(op, Tab))
  <2> SUFFICES ASSUME Ripe(Tab), Looks(op, Tab) PROVE FALSE
    OBVIOUS
  <2>1. op.fresh
    BY DEF Looks
  <2>2. play.phase = "loaded" /\ ~play.ready /\ ~play.playing
    BY TabNow DEF Ripe
  <2>3. ~page.disposed
    BY <2>2, TabNow DEF Sound
  <2> QED BY <2>1, <2>2, <2>3 DEF EndSuperseded, Current
<1> QED BY <1>1, WithoutGood

(* The end of the chapter was written. *)
LEMMA AfterEndKept ==
    ASSUME IInv, NEW op \in ops, AfterEnd(op), acts' \in 0..MaxActs
    PROVE  IInv'
<1> DEFINE o == [op EXCEPT !.do = "next"]
<1>1. /\ op.do = "end" /\ UNCHANGED <<disk, news>>
      /\ Becomes(IF EndSuperseded(op) THEN Finished(op) ELSE Later(Without(op), o))
  BY DEF AfterEnd
<1>2. CASE EndSuperseded(op)
  <2>1. Good(Finished(op), disk.saved, news)
    BY <1>1, <1>2, SupersededGood
  <2> QED BY <1>1, <1>2, <2>1, GoodTab, TabNow
<1>3. CASE ~EndSuperseded(op)
  <2>1. op.fresh /\ op \in OpType
    BY <1>3, TabNow DEF EndSuperseded, Current
  <2>2. o \in OpType /\ o.do = "next" /\ o.fresh
    BY <2>1 DEF OpType, SourceOps
  <2> HIDE DEF o
  <2>3. OpSound(o, Without(op)) /\ Looks(o, Without(op))
    BY <2>2 DEF OpSound, Looks
  <2>4. Good(Later(Without(op), o), disk.saved, news)
    BY <1>1, <2>2, <2>3, WithoutFacts, LookerGood
  <2> QED BY <1>1, <1>3, <2>4, GoodTab, TabNow
<1> QED BY <1>2, <1>3

(* The next chapter is asked for, or the last one changes over at its end. *)
LEMMA NextFileKept ==
    ASSUME IInv, NEW op \in ops, NextFile(op), acts' \in 0..MaxActs
    PROVE  IInv'
<1> DEFINE t == Without(op)
           switched == Switch(t, 0)
           after == page.current + 1
           marked == after \in disk.saved \/ page.marked[after]
           asked == SetCurrentFile(t, after, NoTime, TRUE, marked)
<1>1. op.do = "next" /\ UNCHANGED <<disk, news>>
  BY DEF NextFile
<1>2. Sound(t) /\ Lag(t, disk.saved, news) /\ t.page = page
  BY <1>1, WithoutFacts
<1>3. CASE EndSuperseded(op)
  <2>1. Becomes(Finished(op))
    BY <1>3 DEF NextFile
  <2>2. Good(Finished(op), disk.saved, news)
    BY <1>1, <1>3, SupersededGood
  <2> QED BY <1>1, <2>1, <2>2, GoodTab, TabNow
<1>4. CASE ~EndSuperseded(op) /\ page.current \in {Last, NoFile}
  <2>1. Becomes(IF switched = t THEN Finished(op) ELSE switched)
    BY <1>4 DEF NextFile
  <2>2. Good(switched, disk.saved, news)
    BY <1>2, Nothing, SwitchGood
  <2>3. switched = t => Good(Finished(op), disk.saved, news)
    BY <1>1, <2>2, FinishedFacts DEF Good
  <2> HIDE DEF switched, t
  <2> QED BY <1>1, <2>1, <2>2, <2>3, GoodTab, TabNow
<1>5. CASE ~EndSuperseded(op) /\ page.current \notin {Last, NoFile}
  <2>1. Becomes(asked)
    BY <1>5 DEF NextFile
  <2>2. page.current \in Files /\ page.listed /\ page.current # Last
    BY <1>5, TabNow DEF Sound, PageType
  <2>3. after \in Files /\ after # page.current
    BY <2>2, LastAssumption DEF Files
  <2>4. ~Reuses(t, after)
    BY <1>2, <2>3 DEF Reuses
  <2> HIDE DEF t, after
  <2>5. page.marked[after] \in BOOLEAN
    BY <2>3, TabNow DEF PageType
  <2>6. marked \in BOOLEAN /\ t.page.listed
    BY <1>2, <2>2, <2>5
  <2> HIDE DEF marked
  <2>7. Good(asked, disk.saved, news)
    BY <1>2, <2>3, <2>4, <2>6, AskGood
  <2> HIDE DEF asked
  <2> QED BY <1>1, <2>1, <2>7, GoodTab, TabNow
<1> QED BY <1>3, <1>4, <1>5

(* The chapters could not be read. *)
LEMMA NextFileFailsKept ==
    ASSUME IInv, NEW op \in ops, NextFileFails(op), acts' \in 0..MaxActs
    PROVE  IInv'
<1>1. /\ op.do = "next" /\ UNCHANGED <<disk, news>>
      /\ Becomes(IF EndSuperseded(op) THEN Finished(op) ELSE GivenUp(Finished(op)))
  BY DEF NextFileFails
<1>2. Good(GivenUp(Finished(op)), disk.saved, news)
  BY <1>1, FinishedFacts, MissedGood
<1>3. EndSuperseded(op) => Good(Finished(op), disk.saved, news)
  BY <1>1, SupersededGood
<1> QED BY <1>1, <1>2, <1>3, GoodTab, TabNow

(* The tab does nothing: the position is written while it plays, or when it is hidden. *)
LEMMA SaveCurrentPlayingKept ==
    ASSUME IInv, SaveCurrentPlaying, acts' \in 0..MaxActs
    PROVE  IInv'
<1>1. Becomes(Tab) /\ disk' = Persisted(play.time) /\ news' = news
  BY DEF SaveCurrentPlaying, Becomes, Tab
<1>2. play.time \in Times
  BY TabNow DEF PlayType
<1>3. disk' \in DiskType /\ disk'.saved = disk.saved
  BY <1>1, <1>2, FlushFacts
<1> QED BY <1>1, <1>3, GoodTab, TabNow

-----------------------------------------------------------------------------
(***************************************************************************)
(* Downloads and what is saved.                                            *)
(***************************************************************************)

(* Of a page that was left nothing is claimed any more. *)
LEMMA DisposedGood ==
    ASSUME NEW t, Sound(t), t.page.disposed, NEW saved, NEW told
    PROVE  Good(t, saved, told)
<1>1. ~Ripe(t)
  BY DEF Ripe, Sound
<1> QED BY <1>1 DEF Good, Lag, LagBut, ListLag, MarkLag, Due, DueBut

(* Marks and failures are none of what Sound speaks of. *)
LEMMA SameSound ==
    ASSUME NEW t, Sound(t), NEW x, SameSource(x, t), x.ops \subseteq t.ops
    PROVE  Sound(x)
<1>1. \A op \in x.ops : OpSound(op, x)
  BY OpKept DEF Sound
<1> QED BY <1>1, SoundKept

(* An operation on some files says nothing of the others. *)
LEMMA OthersKept ==
    ASSUME NEW op, op.file \in Files \union {NoFile}, NEW open, NEW told,
           NEW f \in Files \ Scope(op.file)
    PROVE  /\ Covered(f, open, told) => Covered(f, open \ {op}, told)
           /\ Fetched(f, open) => Fetched(f, open \ {op})
           /\ Own(f, open) => Own(f, open \ {op})
<1>1. f # op.file
  BY DEF Scope
<1>2. Covered(f, open, told) => Covered(f, open \ {op}, told)
  BY DEF Covered
<1>3. Fetched(f, open) => Fetched(f, open \ {op})
  BY <1>1 DEF Fetched
<1>4. Own(f, open) => Own(f, open \ {op})
  BY <1>1 DEF Own
<1> QED BY <1>2, <1>3, <1>4

(* A reading of what is saved covers what its end leaves. *)
LEMMA RefreshOfflineStateKept ==
    ASSUME IInv, NEW op \in ops, RefreshOfflineState(op), acts' \in 0..MaxActs
    PROVE  IInv'
<1> DEFINE t == Without(op)
           files == Scope(op.file)
           marked == [g \in Files |-> IF g \in files THEN g \in disk.saved ELSE t.page.marked[g]]
           mark == IF page.current \in files THEN page.current \in disk.saved ELSE t.page.mark
           unread == t.past.unread \ files
           x == [t EXCEPT !.page.marked = marked, !.page.mark = mark, !.past.unread = unread]
<1>1. /\ op.do = "refresh" /\ UNCHANGED <<disk, news>>
      /\ Becomes(IF page.disposed THEN t ELSE Switch(x, NoTime))
  BY DEF RefreshOfflineState, Refreshed
<1>2. /\ Sound(t) /\ t.page = page /\ t.play = play /\ t.net = net /\ t.past = past
      /\ t.ops = ops \ {op}
  BY WithoutFacts
<1>3. /\ page.current \in Files \union {NoFile} /\ files \subseteq Files
      /\ op.file \in Files \union {NoFile}
  BY TabNow DEF PageType, Scope, OpType
<1>4. \A f \in Files \ files : /\ Covered(f, ops, news) => Covered(f, ops \ {op}, news)
                               /\ Fetched(f, ops) => Fetched(f, ops \ {op})
                               /\ Own(f, ops) => Own(f, ops \ {op})
  BY <1>3, OthersKept
<1>5. marked \in [Files -> BOOLEAN] /\ mark \in BOOLEAN
  <2>1. page.marked \in [Files -> BOOLEAN] /\ page.mark \in BOOLEAN
    BY TabNow DEF PageType
  <2>2. ASSUME NEW g \in Files
        PROVE  (IF g \in files THEN g \in disk.saved ELSE t.page.marked[g]) \in BOOLEAN
    <3>1. t.page.marked[g] \in BOOLEAN
      BY <1>2, <2>1
    <3> HIDE DEF files, t
    <3>2. CASE g \in files
      BY <3>2
    <3>3. CASE g \notin files
      BY <3>1, <3>3
    <3> QED BY ONLY <3>2, <3>3
  <2>3. marked \in [Files -> BOOLEAN]
    BY ONLY <2>2
  <2>4. mark \in BOOLEAN
    <3> HIDE DEF files, t
    <3>1. CASE page.current \in files
      BY <3>1
    <3>2. CASE page.current \notin files
      BY <1>2, <2>1, <3>2
    <3> QED BY <3>1, <3>2
  <2> QED BY <2>3, <2>4
<1>6. \A f \in Files : marked[f] = IF f \in files THEN f \in disk.saved ELSE page.marked[f]
  BY <1>2
<1>7. page.current \in files => (mark <=> page.current \in disk.saved)
  OBVIOUS
<1>8. page.current \notin files => mark = page.mark
  BY <1>2
<1>9. unread = past.unread \ files /\ unread \in SUBSET Files
  BY <1>2, TabNow DEF PastType
<1> HIDE DEF t, files, marked, mark, unread
<1>10. t \in TabType
  BY <1>2 DEF Sound
<1>11. /\ x \in TabType /\ x.page.marked = marked /\ x.page.mark = mark
       /\ x.page.current = page.current /\ x.page.kind = page.kind
       /\ x.page.listed = page.listed /\ x.page.allowed = page.allowed
       /\ x.page.disposed = page.disposed
       /\ x.past.wanted = past.wanted /\ x.past.opening = past.opening
       /\ x.past.missed = past.missed /\ x.past.unread = unread
       /\ x.play = t.play /\ x.ops = t.ops /\ x.net = t.net
  BY <1>2, <1>5, <1>9, <1>10 DEF TabType, PageType, PastType
<1> HIDE DEF x
<1>12. SameSource(x, t)
  BY <1>2, <1>11 DEF SameSource
<1>13. Sound(x)
  BY <1>2, <1>11, <1>12, SameSound
<1>14. ListLag(x, {}, disk.saved, news)
  <2> SUFFICES ASSUME ~page.disposed, page.listed, NEW f \in Files, f \notin unread
               PROVE  \/ x.page.marked[f] <=> f \in disk.saved
                      \/ Covered(f, x.ops, news)
                      \/ f \in disk.saved /\ Fetched(f, x.ops)
    BY <1>11 DEF ListLag
  <2>1. CASE f \in files
    BY <1>6, <1>11, <2>1
  <2>2. CASE f \notin files
    <3>1. \/ page.marked[f] <=> f \in disk.saved
          \/ Covered(f, ops, news)
          \/ f \in disk.saved /\ Fetched(f, ops)
      BY <1>9, <2>2, TabNow DEF Lag, LagBut, ListLag
    <3> QED BY <1>2, <1>4, <1>6, <1>11, <2>2, <3>1
  <2> QED BY <2>1, <2>2
<1>15. MarkLag(x, {}, disk.saved, news)
  <2> SUFFICES ASSUME ~page.disposed, mark, ~past.missed, page.current # NoFile
               PROVE  \/ page.current \in disk.saved
                      \/ Covered(page.current, x.ops, news)
                      \/ Own(page.current, x.ops)
    BY <1>11 DEF MarkLag
  <2>1. CASE page.current \in files
    BY <1>7, <2>1
  <2>2. CASE page.current \notin files
    <3>1. \/ page.current \in disk.saved
          \/ Covered(page.current, ops, news)
          \/ Own(page.current, ops)
      BY <1>8, <2>2, TabNow DEF Lag, LagBut, MarkLag
    <3> QED BY <1>2, <1>3, <1>4, <1>11, <2>2, <3>1
  <2> QED BY <2>1, <2>2
<1>16. Good(Switch(x, NoTime), disk.saved, news)
  BY <1>13, <1>14, <1>15, SwitchGood DEF Lag, LagBut
<1>17. page.disposed => Good(t, disk.saved, news)
  BY <1>2, DisposedGood
<1> QED BY <1>1, <1>16, <1>17, GoodTab, TabNow

(* It could not be read: the marks of those files may be wrong from now on. *)
LEMMA ReadOfMarksFailsKept ==
    ASSUME IInv, NEW op \in ops, ReadOfMarksFails(op), acts' \in 0..MaxActs
    PROVE  IInv'
<1> DEFINE t == Without(op)
           files == Scope(op.file)
           unread == t.past.unread \union files
           missed == t.past.missed \/ t.page.current \in files
           x == [t EXCEPT !.past.unread = unread, !.past.missed = missed]
<1>1. op.do \in {"refresh", "settle"} /\ UNCHANGED <<disk, news>> /\ Becomes(x)
  BY DEF ReadOfMarksFails, MarksLost
<1>2. /\ Sound(t) /\ t.page = page /\ t.play = play /\ t.net = net /\ t.past = past
      /\ t.ops = ops \ {op} /\ t \in TabType
  BY WithoutFacts DEF Sound
<1>3. /\ page.current \in Files \union {NoFile} /\ files \subseteq Files
      /\ op.file \in Files \union {NoFile}
  BY TabNow DEF PageType, Scope, OpType
<1>4. \A f \in Files \ files : /\ Covered(f, ops, news) => Covered(f, ops \ {op}, news)
                               /\ Fetched(f, ops) => Fetched(f, ops \ {op})
                               /\ Own(f, ops) => Own(f, ops \ {op})
  BY <1>3, OthersKept
<1>5. /\ unread = past.unread \union files /\ unread \in SUBSET Files
      /\ missed \in BOOLEAN /\ (missed <=> past.missed \/ page.current \in files)
  BY <1>2, <1>3, TabNow DEF PastType
<1> HIDE DEF t, files, unread, missed
<1>6. /\ x \in TabType /\ x.page = page /\ x.play = play /\ x.net = net
      /\ x.ops = ops \ {op}
      /\ x.past.wanted = past.wanted /\ x.past.opening = past.opening
      /\ x.past.missed = missed /\ x.past.unread = unread
  BY <1>2, <1>5 DEF TabType, PastType
<1> HIDE DEF x
<1>7. SameSource(x, t)
  BY <1>2, <1>6 DEF SameSource
<1>8. Sound(x)
  BY <1>2, <1>6, <1>7, SameSound
<1>9. ListLag(x, {}, disk.saved, news)
  <2> SUFFICES ASSUME ~page.disposed, page.listed, NEW f \in Files, f \notin unread
               PROVE  \/ page.marked[f] <=> f \in disk.saved
                      \/ Covered(f, x.ops, news)
                      \/ f \in disk.saved /\ Fetched(f, x.ops)
    BY <1>6 DEF ListLag
  <2>1. \/ page.marked[f] <=> f \in disk.saved
        \/ Covered(f, ops, news)
        \/ f \in disk.saved /\ Fetched(f, ops)
    BY <1>5, TabNow DEF Lag, LagBut, ListLag
  <2> QED BY <1>4, <1>5, <1>6, <2>1
<1>10. MarkLag(x, {}, disk.saved, news)
  <2> SUFFICES ASSUME ~page.disposed, page.mark, ~missed, page.current # NoFile
               PROVE  \/ page.current \in disk.saved
                      \/ Covered(page.current, x.ops, news)
                      \/ Own(page.current, x.ops)
    BY <1>6 DEF MarkLag
  <2>1. \/ page.current \in disk.saved
        \/ Covered(page.current, ops, news)
        \/ Own(page.current, ops)
    BY <1>5, TabNow DEF Lag, LagBut, MarkLag
  <2> QED BY <1>3, <1>4, <1>5, <1>6, <2>1
<1>11. Due(x, disk.saved, news)
  <2> SUFFICES ASSUME Ripe(x)
               PROVE  \/ \E o \in x.ops : Looks(o, x)
                      \/ Covered(page.current, x.ops, news)
                      \/ page.current \notin disk.saved /\ Own(page.current, x.ops)
    BY <1>6 DEF Due, DueBut
  <2>1. Ripe(Tab) /\ page.current \in Files \ files
    BY <1>3, <1>5, <1>6, TabNow DEF Ripe, Sound
  <2>2. \/ \E o \in ops : Looks(o, Tab)
        \/ Covered(page.current, ops, news)
        \/ page.current \notin disk.saved /\ Own(page.current, ops)
    BY <2>1, TabNow DEF Due, DueBut
  <2>3. \A o \in ops : Looks(o, Tab) => o \in x.ops /\ Looks(o, x)
    BY <1>1, <1>6, TabNow DEF Looks
  <2> QED BY <1>4, <1>6, <2>1, <2>2, <2>3
<1> QED BY <1>1, <1>8, <1>9, <1>10, <1>11, GoodTab, TabNow DEF Good, Lag, LagBut

(* Operations that wait for the download of f end: those on other files go on. *)
LEMMA WaitingEnds ==
    ASSUME NEW f \in Files
    PROVE  /\ ops \ Waiting(f) \subseteq ops
           /\ \A g, told : Covered(g, ops, told) => Covered(g, ops \ Waiting(f), told)
           /\ \A g : g # f => /\ Fetched(g, ops) => Fetched(g, ops \ Waiting(f))
                              /\ Own(g, ops) => Own(g, ops \ Waiting(f))
           /\ \A t : \A op \in ops : Looks(op, t) => op \in ops \ Waiting(f)
<1>1. \A op \in Waiting(f) : op.do = "save" /\ op.file = f
  BY DEF Waiting
<1>2. \A g, told : Covered(g, ops, told) => Covered(g, ops \ Waiting(f), told)
  BY <1>1 DEF Covered
<1>3. \A g : g # f /\ Fetched(g, ops) => Fetched(g, ops \ Waiting(f))
  BY <1>1 DEF Fetched
<1>4. \A g : g # f /\ Own(g, ops) => Own(g, ops \ Waiting(f))
  BY <1>1 DEF Own
<1>5. \A t : \A op \in ops : Looks(op, t) => op \in ops \ Waiting(f)
  BY <1>1 DEF Looks
<1> QED BY <1>2, <1>3, <1>4, <1>5

(* While a download goes on its chapter is not saved: the mark of what plays may go. *)
LEMMA DownloadGoesOnKept ==
    ASSUME IInv, NEW f \in Files, DownloadGoesOn(f), acts' \in 0..MaxActs
    PROVE  IInv'
<1> DEFINE marked == [page.marked EXCEPT ![f] = FALSE]
<1>1. PICK mark \in MarkOf(f, Waiting(f), FALSE) :
          Becomes([Tab EXCEPT !.page.marked[f] = FALSE, !.page.mark = mark])
  BY DEF DownloadGoesOn
<1> DEFINE x == [Tab EXCEPT !.page.marked = marked, !.page.mark = mark]
<1>2. Becomes(x) /\ UNCHANGED <<disk, news>> /\ Waiting(f) # {}
  BY <1>1, TabNow DEF DownloadGoesOn
<1>3. mark \in BOOLEAN /\ (mark => page.mark)
  BY <1>1, TabNow DEF MarkOf, PageType
<1>4. /\ marked \in [Files -> BOOLEAN] /\ ~marked[f]
      /\ \A g \in Files \ {f} : marked[g] = page.marked[g]
  BY TabNow DEF PageType
<1> HIDE DEF marked
<1>5. /\ x \in TabType /\ x.page.marked = marked /\ x.page.mark = mark
      /\ x.page.current = page.current /\ x.page.kind = page.kind
      /\ x.page.listed = page.listed /\ x.page.allowed = page.allowed
      /\ x.page.disposed = page.disposed
      /\ x.play = play /\ x.ops = ops /\ x.net = net /\ x.past = past
  BY <1>3, <1>4, TabNow DEF TabType, PageType, Tab
<1> HIDE DEF x
<1>6. Sound(x)
  <2>1. SameSource(x, Tab)
    BY <1>5, TabNow DEF SameSource
  <2> QED BY <1>5, <2>1, TabNow, SameSound
<1>7. Fetched(f, ops)
  BY <1>2 DEF Waiting, Fetched, Downloads
<1>8. ListLag(x, {}, disk.saved, news)
  BY <1>4, <1>5, <1>7, TabNow DEF Lag, LagBut, ListLag
<1>9. MarkLag(x, {}, disk.saved, news)
  BY <1>3, <1>5, TabNow DEF Lag, LagBut, MarkLag
<1>10. Due(x, disk.saved, news)
  BY <1>3, <1>5, TabNow DEF Due, DueBut, Ripe, Looks
<1> QED BY <1>2, <1>6, <1>8, <1>9, <1>10, GoodTab, TabNow DEF Good, Lag, LagBut

(* A download is aborted, and those who wait for it settle. *)
LEMMA DownloadInvalidatedKept ==
    ASSUME IInv, NEW f \in Files, DownloadInvalidated(f), acts' \in 0..MaxActs
    PROVE  IInv'
<1>1. Becomes(CancelDownloads(Tab, {f})) /\ UNCHANGED <<disk, news>>
  BY DEF DownloadInvalidated
<1>2. Good(CancelDownloads(Tab, {f}), disk.saved, news)
  BY TabNow, CancelGood
<1> QED BY <1>1, <1>2, GoodTab, TabNow

(* A download fails, and leaves marks that may be wrong. *)
LEMMA DownloadFailsKept ==
    ASSUME IInv, NEW f \in Files, DownloadFails(f), acts' \in 0..MaxActs
    PROVE  IInv'
<1> DEFINE open == ops \ Waiting(f)
           left == [net EXCEPT !.saving = @ \ {f}, !.doomed = @ \ {f}]
           unread == past.unread \union ({f} \cap disk.saved)
           missed == past.missed \/ (page.current = f /\ page.mark)
           failed == [past EXCEPT !.unread = unread, !.missed = missed]
           x == [Tab EXCEPT !.ops = open, !.net = left, !.past = failed]
<1>1. Becomes(x) /\ UNCHANGED <<disk, news>>
  BY DEF DownloadFails, Tab
<1>2. left \in NetType /\ left.urls = net.urls
  BY TabNow DEF NetType
<1>3. /\ open \subseteq ops
      /\ \A g : Covered(g, ops, news) => Covered(g, open, news)
      /\ \A g : g # f => /\ Fetched(g, ops) => Fetched(g, open)
                         /\ Own(g, ops) => Own(g, open)
      /\ \A op \in ops : Looks(op, Tab) => op \in open
  BY WaitingEnds
<1>4. page.mark \in BOOLEAN /\ past \in PastType /\ past.missed \in BOOLEAN
  BY TabNow DEF PageType, PastType
<1>5. unread \in SUBSET Files /\ missed \in BOOLEAN
  BY <1>4 DEF PastType
<1> HIDE DEF open, left
<1>6. /\ failed \in PastType /\ failed.wanted = past.wanted /\ failed.opening = past.opening
      /\ failed.unread = unread /\ failed.missed = missed
  <2> HIDE DEF unread, missed
  <2> QED BY <1>4, <1>5 DEF PastType
<1> HIDE DEF failed
<1>7. /\ x \in TabType /\ x.page = page /\ x.play = play /\ x.past = failed
      /\ x.net = left /\ x.ops = open
  BY <1>2, <1>3, <1>6, TabNow DEF TabType, Tab
<1> HIDE DEF x
<1>8. Sound(x)
  <2>1. SameSource(x, Tab)
    BY <1>2, <1>6, <1>7, TabNow DEF SameSource
  <2> QED BY <1>3, <1>7, <2>1, TabNow, SameSound
<1>9. ListLag(x, {}, disk.saved, news)
  <2> SUFFICES ASSUME ~page.disposed, page.listed, NEW g \in Files, g \notin unread
               PROVE  \/ page.marked[g] <=> g \in disk.saved
                      \/ Covered(g, open, news)
                      \/ g \in disk.saved /\ Fetched(g, open)
    BY <1>6, <1>7 DEF ListLag
  <2>1. \/ page.marked[g] <=> g \in disk.saved
        \/ Covered(g, ops, news)
        \/ g \in disk.saved /\ Fetched(g, ops)
    BY TabNow DEF Lag, LagBut, ListLag
  <2>2. g \in disk.saved => g # f
    OBVIOUS
  <2> HIDE DEF unread
  <2> QED BY <1>3, <2>1, <2>2
<1>10. MarkLag(x, {}, disk.saved, news)
  <2> SUFFICES ASSUME ~page.disposed, page.mark, ~missed, page.current # NoFile
               PROVE  \/ page.current \in disk.saved
                      \/ Covered(page.current, open, news)
                      \/ Own(page.current, open)
    BY <1>6, <1>7 DEF MarkLag
  <2>1. ~past.missed /\ page.current # f
    OBVIOUS
  <2>2. \/ page.current \in disk.saved
        \/ Covered(page.current, ops, news)
        \/ Own(page.current, ops)
    BY <2>1, TabNow DEF Lag, LagBut, MarkLag
  <2> QED BY <1>3, <2>1, <2>2
<1>11. Due(x, disk.saved, news)
  <2> SUFFICES ASSUME Ripe(x)
               PROVE  \/ \E o \in x.ops : Looks(o, x)
                      \/ Covered(page.current, x.ops, news)
                      \/ page.current \notin disk.saved /\ Own(page.current, x.ops)
    BY <1>7 DEF Due, DueBut
  <2>1. page.mark /\ ~missed
    BY <1>6, <1>7 DEF Ripe
  <2>2. ~past.missed /\ page.current # f
    BY <2>1
  <2>3. Ripe(Tab)
    BY <1>7, <2>2, TabNow DEF Ripe
  <2>4. \/ \E o \in ops : Looks(o, Tab)
        \/ Covered(page.current, ops, news)
        \/ page.current \notin disk.saved /\ Own(page.current, ops)
    BY <2>3, TabNow DEF Due, DueBut
  <2>5. \A o \in ops : Looks(o, Tab) => o \in x.ops /\ Looks(o, x)
    BY <1>3, <1>7, TabNow DEF Looks
  <2> QED BY <1>3, <1>7, <2>2, <2>4, <2>5
<1> QED BY <1>1, <1>8, <1>9, <1>10, <1>11, GoodTab, TabNow DEF Good, Lag, LagBut

(* A copy is complete: what is marked of it may be wrong until it is read again, unless *)
(* it was there already, and then what plays is looked at.                              *)
LEMMA DownloadCompletesKept ==
    ASSUME IInv, NEW f \in Files, DownloadCompletes(f), acts' \in 0..MaxActs
    PROVE  IInv'
<1> DEFINE open == ops \ Waiting(f)
           left == [net EXCEPT !.saving = @ \ {f}]
           u == [Tab EXCEPT !.ops = open, !.net = left]
           marked == [page.marked EXCEPT ![f] = TRUE]
           unread == past.unread \ {f}
           stored == disk.saved \union {f}
           change == [removed |-> FALSE, file |-> f]
<1>1. PICK mark \in MarkOf(f, Waiting(f), TRUE) :
          LET saved == [Tab EXCEPT !.ops = @ \ Waiting(f), !.net.saving = @ \ {f}]
              marks == IF page.disposed \/ Waiting(f) = {} THEN saved
                       ELSE [saved EXCEPT !.page.marked[f] = TRUE, !.page.mark = mark,
                                          !.past.unread = @ \ {f}]
              over == IF page.disposed \/ page.current # f THEN marks ELSE Switch(marks, NoTime)
          IN  Becomes(IF f \in disk.saved THEN over
                      ELSE Reconcile(over, [removed |-> FALSE, file |-> f]))
  BY DEF DownloadCompletes
<1> DEFINE x == [u EXCEPT !.page.marked = marked, !.page.mark = mark, !.past.unread = unread]
           marks == IF page.disposed \/ Waiting(f) = {} THEN u ELSE x
           t == IF page.disposed \/ page.current # f THEN marks ELSE Switch(marks, NoTime)
<1>2. u.page = page /\ u.past = past
  BY DEF Tab
<1>3. [Tab EXCEPT !.ops = @ \ Waiting(f), !.net.saving = @ \ {f}] = u
  BY TabNow
<1>4. [u EXCEPT !.page.marked[f] = TRUE, !.page.mark = mark, !.past.unread = @ \ {f}] = x
  <2>1. u.page.marked = page.marked /\ u.past.unread = past.unread
    BY <1>2
  <2> HIDE DEF u
  <2> QED BY <2>1
<1>5. Becomes(IF f \in disk.saved THEN t ELSE Reconcile(t, change))
  BY <1>1, <1>3, <1>4
<1>6. disk' = [disk EXCEPT !.saved = stored] /\ news' = news
  BY TabNow DEF DownloadCompletes, DiskType
<1>7. left \in NetType /\ left.urls = net.urls
  BY TabNow DEF NetType
<1>8. /\ open \subseteq ops
      /\ \A g : Covered(g, ops, news) => Covered(g, open, news)
      /\ \A g : g # f => /\ Fetched(g, ops) => Fetched(g, open)
                         /\ Own(g, ops) => Own(g, open)
      /\ \A op \in ops : Looks(op, Tab) => op \in open
  BY WaitingEnds
<1>9. /\ marked \in [Files -> BOOLEAN] /\ marked[f]
      /\ \A g \in Files \ {f} : marked[g] = page.marked[g]
  BY TabNow DEF PageType
<1>10. mark \in BOOLEAN /\ (page.current # f => mark = page.mark)
  BY <1>1, TabNow DEF PageType, MarkOf
<1>11. /\ disk' \in DiskType /\ disk'.saved = stored /\ change \in Changes
       /\ change.file = f /\ Scope(f) = {f}
  BY <1>6, TabNow, Nothing DEF DiskType, Changes, Scope
<1>12. unread \in SUBSET Files
  BY TabNow DEF PastType
<1>13. Waiting(f) = {} => open = ops
  OBVIOUS
<1> HIDE DEF open, left, marked
<1>14. /\ u \in TabType /\ u.page = page /\ u.play = play /\ u.past = past
       /\ u.net = left /\ u.ops = open
  BY <1>7, <1>8, TabNow DEF TabType, Tab
<1> HIDE DEF u, unread
<1>15. /\ x \in TabType /\ x.page.marked = marked /\ x.page.mark = mark
       /\ x.page.current = page.current /\ x.page.kind = page.kind
       /\ x.page.listed = page.listed /\ x.page.allowed = page.allowed
       /\ x.page.disposed = page.disposed
       /\ x.past.wanted = past.wanted /\ x.past.opening = past.opening
       /\ x.past.missed = past.missed /\ x.past.unread = unread
       /\ x.play = play /\ x.ops = open /\ x.net = left
  BY <1>9, <1>10, <1>12, <1>14 DEF TabType, PageType, PastType
<1> HIDE DEF x
<1>16. Sound(u) /\ Sound(x)
  <2>1. SameSource(u, Tab) /\ SameSource(x, Tab)
    BY <1>7, <1>14, <1>15, TabNow DEF SameSource
  <2> QED BY <1>8, <1>14, <1>15, <2>1, TabNow, SameSound
<1> DEFINE apart(y) == /\ y.page.current = page.current /\ y.page.kind = page.kind
                       /\ y.page.listed = page.listed /\ y.page.disposed = page.disposed
                       /\ y.page.current # f => y.page.mark = page.mark
                       /\ \A g \in Files \ {f} : y.page.marked[g] = page.marked[g]
                       /\ y.past.missed = past.missed
                       /\ past.unread \subseteq y.past.unread \union {f}
                       /\ y.play = play /\ y.ops = open
<1>17. apart(u) /\ apart(x)
  <2>1. past.unread \subseteq unread \union {f}
    BY DEF unread
  <2> QED BY <1>9, <1>10, <1>14, <1>15, <2>1
<1>18. Sound(marks) /\ apart(marks)
  BY <1>16, <1>17
<1> HIDE DEF marks, stored
<1>19. LagBut(marks, {f}, stored, news)
  <2>1. \A g : g # f => (g \in stored <=> g \in disk.saved)
    BY DEF stored
  <2>2. ListLag(marks, {f}, stored, news)
    <3> SUFFICES ASSUME ~page.disposed, page.listed, NEW g \in Files, g # f,
                        g \notin past.unread
                 PROVE  \/ page.marked[g] <=> g \in stored
                        \/ Covered(g, open, news)
                        \/ g \in stored /\ Fetched(g, open)
      BY <1>18 DEF ListLag
    <3>1. \/ page.marked[g] <=> g \in disk.saved
          \/ Covered(g, ops, news)
          \/ g \in disk.saved /\ Fetched(g, ops)
      BY TabNow DEF Lag, LagBut, ListLag
    <3> QED BY <1>8, <2>1, <3>1
  <2>3. MarkLag(marks, {f}, stored, news)
    <3> SUFFICES ASSUME ~page.disposed, page.mark, ~past.missed, page.current # NoFile,
                        page.current # f
                 PROVE  \/ page.current \in stored
                        \/ Covered(page.current, open, news)
                        \/ Own(page.current, open)
      BY <1>18 DEF MarkLag
    <3>1. \/ page.current \in disk.saved
          \/ Covered(page.current, ops, news)
          \/ Own(page.current, ops)
      BY TabNow DEF Lag, LagBut, MarkLag
    <3> QED BY <1>8, <2>1, <3>1
  <2> QED BY <2>2, <2>3 DEF LagBut
<1>20. DueBut(marks, {f}, stored, news)
  <2> SUFFICES ASSUME Ripe(marks), page.current # f
               PROVE  \/ \E o \in open : Looks(o, marks)
                      \/ Covered(page.current, open, news)
                      \/ page.current \notin stored /\ Own(page.current, open)
    BY <1>18 DEF DueBut
  <2>1. Ripe(Tab)
    BY <1>18, TabNow DEF Ripe
  <2>2. \/ \E o \in ops : Looks(o, Tab)
        \/ Covered(page.current, ops, news)
        \/ page.current \notin disk.saved /\ Own(page.current, ops)
    BY <2>1, TabNow DEF Due, DueBut
  <2>3. \A o \in ops : Looks(o, Tab) => o \in open /\ Looks(o, marks)
    BY <1>8, <1>18, TabNow DEF Looks
  <2> QED BY <1>8, <2>2, <2>3 DEF stored
<1>21. Sound(t) /\ LagBut(t, {f}, stored, news) /\ DueBut(t, {f}, stored, news)
  <2> DEFINE y == Switch(marks, NoTime)
  <2>1. /\ Sound(y) /\ LagBut(y, {f}, stored, news) /\ y.page = marks.page
    BY <1>18, <1>19, SwitchFacts, SwitchLag
  <2> HIDE DEF y
  <2>2. page.current = f => DueBut(y, {f}, stored, news)
    BY <1>18, <2>1 DEF DueBut
  <2> QED BY <1>18, <1>19, <1>20, <2>1, <2>2 DEF y
<1>22. f \notin disk.saved => Good(Reconcile(t, change), stored, news)
  <2> HIDE DEF t, change
  <2> QED BY <1>11, <1>21, ReconcileGood
<1>23. ASSUME f \in disk.saved PROVE Good(t, stored, news)
  <2>1. stored = disk.saved
    BY <1>23 DEF stored
  <2>2. CASE page.disposed
    BY <1>18, <2>2, DisposedGood
  <2>3. CASE ~page.disposed
    <3>1. Lag(marks, stored, news)
      <4>1. CASE Waiting(f) = {}
        <5>1. marks = u /\ SameMarks(u, Tab) /\ Keeps(u.ops, ops)
          BY <1>13, <1>14, <4>1, TabNow, MoreKeeps DEF marks, SameMarks
        <5> QED BY <2>1, <5>1, TabNow, LagKept
      <4>2. CASE Waiting(f) # {}
        <5>1. marks = x
          BY <2>3, <4>2 DEF marks
        <5>2. ListLag(x, {}, stored, news)
          BY <1>9, <1>15, <1>19, <1>23, <2>1, <5>1 DEF LagBut, ListLag
        <5>3. MarkLag(x, {}, stored, news)
          BY <1>15, <1>19, <1>23, <2>1, <5>1 DEF LagBut, MarkLag
        <5> QED BY <5>1, <5>2, <5>3 DEF Lag, LagBut
      <4> QED BY <4>1, <4>2
    <3>2. CASE page.current = f
      BY <1>18, <2>3, <3>1, <3>2, SwitchGood
    <3>3. CASE page.current # f
      BY <1>18, <1>20, <3>1, <3>3 DEF Good, Due, DueBut
    <3> QED BY <3>2, <3>3
  <2> QED BY <2>2, <2>3
<1> HIDE DEF t, change
<1> QED BY <1>5, <1>6, <1>11, <1>22, <1>23, GoodTab, TabNow

(* An aborted download leaves what is saved: no mark it sets is wrong. *)
LEMMA SettleAbortedKept ==
    ASSUME IInv, NEW op \in ops, SettleAborted(op), acts' \in 0..MaxActs
    PROVE  IInv'
<1> DEFINE t == Without(op)
           kept == op.file \in disk.saved
           marked == [page.marked EXCEPT ![op.file] = kept]
           unread == past.unread \ {op.file}
<1>1. PICK mark \in MarkOf(op.file, {op}, kept) :
          Becomes(IF page.disposed THEN t
                  ELSE [t EXCEPT !.page.marked[op.file] = kept, !.page.mark = mark,
                                 !.past.unread = @ \ {op.file},
                                 !.past.missed = @ \/ (mark /\ ~page.mark)])
  BY DEF SettleAborted
<1> DEFINE missed == past.missed \/ (mark /\ ~page.mark)
           x == [t EXCEPT !.page.marked = marked, !.page.mark = mark,
                          !.past.unread = unread, !.past.missed = missed]
<1>2. op.do = "settle" /\ UNCHANGED <<disk, news>>
  BY DEF SettleAborted
<1>3. /\ Sound(t) /\ t.page = page /\ t.play = play /\ t.net = net /\ t.past = past
      /\ t.ops = ops \ {op} /\ t \in TabType
  BY WithoutFacts DEF Sound
<1> HIDE DEF t
<1>4. Becomes(IF page.disposed THEN t ELSE x)
  BY <1>1, <1>3
<1>5. page.mark \in BOOLEAN /\ past.missed \in BOOLEAN
  BY TabNow DEF PageType, PastType
<1>6. /\ mark \in BOOLEAN
      /\ page.current # op.file => mark = page.mark
      /\ op.fresh /\ page.current = op.file => (mark <=> op.file \in disk.saved)
      /\ mark = page.mark \/ (mark <=> page.current \in disk.saved)
  <2>1. kept \in BOOLEAN /\ (kept <=> op.file \in disk.saved)
    OBVIOUS
  <2> HIDE DEF kept
  <2> QED BY <1>1, <1>5, <2>1 DEF MarkOf
<1>7. /\ marked \in [Files -> BOOLEAN]
      /\ \A f \in Files : f # op.file => marked[f] = page.marked[f]
      /\ op.file \in Files => (marked[op.file] <=> op.file \in disk.saved)
  <2>1. page.marked \in [Files -> BOOLEAN]
    BY TabNow DEF PageType
  <2>2. kept \in BOOLEAN /\ (kept <=> op.file \in disk.saved)
    OBVIOUS
  <2> HIDE DEF kept
  <2> QED BY <2>1, <2>2
<1>8. unread \in SUBSET Files /\ missed \in BOOLEAN
  BY <1>5, <1>6, TabNow DEF PastType
<1>9. missed <=> past.missed \/ (mark /\ ~page.mark)
  OBVIOUS
<1> HIDE DEF marked, missed
<1>10. /\ x \in TabType /\ x.page.marked = marked /\ x.page.mark = mark
       /\ x.page.current = page.current /\ x.page.kind = page.kind
       /\ x.page.listed = page.listed /\ x.page.allowed = page.allowed
       /\ x.page.disposed = page.disposed
       /\ x.past.wanted = past.wanted /\ x.past.opening = past.opening
       /\ x.past.missed = missed /\ x.past.unread = unread
       /\ x.play = play /\ x.ops = ops \ {op} /\ x.net = net
  <2> HIDE DEF unread
  <2> QED BY <1>3, <1>6, <1>7, <1>8 DEF TabType, PageType, PastType
<1> HIDE DEF x
<1>11. Sound(x)
  <2>1. SameSource(x, t)
    BY <1>3, <1>10 DEF SameSource
  <2> QED BY <1>3, <1>10, <2>1, SameSound
<1>12. /\ op.file \in Files \union {NoFile} /\ page.current \in Files \union {NoFile}
       /\ disk.saved \subseteq Files
  BY TabNow DEF OpType, PageType
<1>13. /\ \A f : Covered(f, ops, news) => Covered(f, x.ops, news)
       /\ \A f : f # op.file => (Fetched(f, ops) => Fetched(f, x.ops))
       /\ \A f : f # op.file \/ ~op.fresh => (Own(f, ops) => Own(f, x.ops))
  <2>1. \A f : Covered(f, ops, news) => Covered(f, x.ops, news)
    BY <1>2, <1>10 DEF Covered
  <2>2. \A f : f # op.file => (Fetched(f, ops) => Fetched(f, x.ops))
    BY <1>10 DEF Fetched
  <2>3. \A f : f # op.file \/ ~op.fresh => (Own(f, ops) => Own(f, x.ops))
    BY <1>10 DEF Own
  <2> QED BY <2>1, <2>2, <2>3
<1>14. ListLag(x, {}, disk.saved, news)
  <2> SUFFICES ASSUME ~page.disposed, page.listed, NEW f \in Files, f \notin unread
               PROVE  \/ marked[f] <=> f \in disk.saved
                      \/ Covered(f, x.ops, news)
                      \/ f \in disk.saved /\ Fetched(f, x.ops)
    BY <1>10 DEF ListLag
  <2>1. CASE f = op.file
    BY <1>7, <2>1
  <2>2. CASE f # op.file
    <3>1. \/ page.marked[f] <=> f \in disk.saved
          \/ Covered(f, ops, news)
          \/ f \in disk.saved /\ Fetched(f, ops)
      BY <2>2, TabNow DEF Lag, LagBut, ListLag
    <3> QED BY <1>7, <1>13, <2>2, <3>1
  <2> QED BY <2>1, <2>2
<1>15. MarkLag(x, {}, disk.saved, news)
  <2> SUFFICES ASSUME ~page.disposed, mark, ~missed, page.current # NoFile
               PROVE  \/ page.current \in disk.saved
                      \/ Covered(page.current, x.ops, news)
                      \/ Own(page.current, x.ops)
    BY <1>10 DEF MarkLag
  <2>1. page.mark /\ ~past.missed
    BY <1>9
  <2>2. \/ page.current \in disk.saved
        \/ Covered(page.current, ops, news)
        \/ Own(page.current, ops)
    BY <2>1, TabNow DEF Lag, LagBut, MarkLag
  <2> QED BY <1>6, <1>13, <2>2
<1>16. Due(x, disk.saved, news)
  <2> SUFFICES ASSUME Ripe(x)
               PROVE  \/ \E o \in x.ops : Looks(o, x)
                      \/ Covered(page.current, x.ops, news)
                      \/ page.current \notin disk.saved /\ Own(page.current, x.ops)
    BY <1>10 DEF Due, DueBut
  <2>1. mark /\ ~missed
    BY <1>10 DEF Ripe
  <2>2. page.mark /\ ~past.missed
    BY <1>9, <2>1
  <2>3. Ripe(Tab)
    BY <1>10, <2>2, TabNow DEF Ripe
  <2>4. \/ \E o \in ops : Looks(o, Tab)
        \/ Covered(page.current, ops, news)
        \/ page.current \notin disk.saved /\ Own(page.current, ops)
    BY <2>3, TabNow DEF Due, DueBut
  <2>5. \A o \in ops : Looks(o, Tab) => o \in x.ops /\ Looks(o, x)
    BY <1>2, <1>10, TabNow DEF Looks
  <2> QED BY <1>6, <1>13, <2>1, <2>4, <2>5
<1>17. page.disposed => Good(t, disk.saved, news)
  BY <1>3, DisposedGood
<1> QED BY <1>2, <1>4, <1>11, <1>14, <1>15, <1>16, <1>17, GoodTab, TabNow DEF Good, Lag, LagBut

(* What another tab announced is read again. *)
LEMMA HandleNewsKept ==
    ASSUME IInv, NEW change \in news, HandleNews(change), acts' \in 0..MaxActs
    PROVE  IInv'
<1>1. /\ news' = news \ {change} /\ Becomes(Reconcile(Tab, change)) /\ disk' = disk
  BY DEF HandleNews
<1>2. change \in Changes
  BY TabNow
<1>3. \A f : f \notin Scope(change.file) /\ Covered(f, ops, news)
                 => Covered(f, ops, news \ {change})
  BY DEF Covered
<1>4. LagBut(Tab, Scope(change.file), disk.saved, news \ {change})
  BY <1>3, TabNow DEF Lag, LagBut, ListLag, MarkLag
<1>5. DueBut(Tab, Scope(change.file), disk.saved, news \ {change})
  BY <1>3, TabNow DEF Due, DueBut
<1>6. Good(Reconcile(Tab, change), disk.saved, news \ {change})
  BY <1>2, <1>4, <1>5, TabNow, ReconcileGood
<1> QED BY <1>1, <1>6, GoodTab, TabNow

-----------------------------------------------------------------------------
(***************************************************************************)
(* Removing.                                                               *)
(***************************************************************************)

(* Playing is given up. *)
LEMMA LeftGood ==
    ASSUME NEW t, Sound(t), NEW saved, NEW told, Lag(t, saved, told)
    PROVE  Good(NoCurrentFile(NewSourceRequest(t)), saved, told)
BY SupersededFacts, GivenUpGood

(* Operations that ask for no chapter are sound. *)
LEMMA PlainOp ==
    ASSUME NEW do \in {"clean", "remove", "drop"}, NEW f \in Files \union {NoFile}
    PROVE  Op(do, f, NoTime, FALSE) \in OpType /\ \A t : OpSound(Op(do, f, NoTime, FALSE), t)
BY DEF Op, OpType, OtherOps, OpSound

(* Nor do those that go on with one of them. *)
LEMMA PlainStep ==
    ASSUME NEW op \in OpType, NEW do \in {"cleared", "dropped", "erase"}
    PROVE  [op EXCEPT !.do = do] \in OpType /\ \A t : OpSound([op EXCEPT !.do = do], t)
<1> DEFINE o == [op EXCEPT !.do = do]
<1>1. o \in OpType /\ o.do = do
  BY DEF OpType, OtherOps
<1> HIDE DEF o
<1>2. \A t : OpSound(o, t)
  BY <1>1 DEF OpSound
<1> QED BY <1>1, <1>2 DEF o

(* Playing is given up before the book is cleaned. *)
LEMMA CleanBookDataKept ==
    ASSUME IInv, CleanBookData, acts' \in 0..MaxActs
    PROVE  IInv'
<1> DEFINE t == NoCurrentFile(NewSourceRequest(Tab))
           op == Op("clean", NoFile, NoTime, FALSE)
<1>1. Good(t, disk.saved, news)
  BY TabNow, LeftGood
<1>2. \/ disk' = Persisted(play.time) /\ Becomes(Later(t, op))
      \/ UNCHANGED disk /\ Becomes(t)
  BY DEF CleanBookData
<1>3. news' = news
  BY DEF CleanBookData
<1>4. op \in OpType /\ OpSound(op, t)
  BY PlainOp
<1> HIDE DEF t, op
<1>5. Good(Later(t, op), disk.saved, news)
  BY <1>1, <1>4, LaterGood
<1>6. play.time \in Times
  BY TabNow DEF PlayType
<1>7. disk' \in DiskType /\ disk'.saved = disk.saved
  BY <1>2, <1>6, FlushFacts, TabNow
<1> QED BY <1>1, <1>2, <1>3, <1>5, <1>7, GoodTab, TabNow

(* Its downloads end. *)
LEMMA CancelForCleanKept ==
    ASSUME IInv, NEW op \in ops, CancelForClean(op), acts' \in 0..MaxActs
    PROVE  IInv'
<1> DEFINE t == CancelDownloads(Without(op), Files)
           o == [op EXCEPT !.do = "cleared"]
<1>1. op.do = "clean" /\ Becomes(Later(t, o)) /\ UNCHANGED <<disk, news>>
  BY DEF CancelForClean
<1>2. Good(t, disk.saved, news)
  BY <1>1, WithoutGood, CancelGood DEF Looks
<1>3. o \in OpType /\ OpSound(o, t)
  BY TabNow, PlainStep
<1> HIDE DEF t, o
<1>4. Good(Later(t, o), disk.saved, news)
  BY <1>2, <1>3, LaterGood
<1> QED BY <1>1, <1>4, GoodTab, TabNow

(* A removal fails, and with it the request. *)
LEMMA RemovalFailsKept ==
    ASSUME IInv, NEW op \in ops, RemovalFails(op), acts' \in 0..MaxActs
    PROVE  IInv'
<1>1. /\ op.do \in {"cleared", "remove", "erase"} /\ Becomes(Without(op))
      /\ UNCHANGED <<disk, news>>
  BY DEF RemovalFails
<1>2. Good(Without(op), disk.saved, news)
  BY <1>1, WithoutGood DEF Looks
<1> QED BY <1>1, <1>2, GoodTab, TabNow

(* So does the write of the position before it. *)
LEMMA SaveForDropFailsKept ==
    ASSUME IInv, NEW op \in ops, SaveForDropFails(op), acts' \in 0..MaxActs
    PROVE  IInv'
<1>1. op.do = "drop" /\ Becomes(Without(op)) /\ UNCHANGED <<disk, news>>
  BY DEF SaveForDropFails
<1>2. Good(Without(op), disk.saved, news)
  BY <1>1, WithoutGood DEF Looks
<1> QED BY <1>1, <1>2, GoodTab, TabNow

(* Downloads that will not be kept are downloads all the same. *)
LEMMA DoomedFacts ==
    ASSUME NEW t, Sound(t)
    PROVE  /\ Sound(Doomed(t)) /\ SameMarks(Doomed(t), t)
           /\ Doomed(t).page = t.page /\ Doomed(t).ops = t.ops /\ Doomed(t).play = t.play
           /\ Doomed(t).past = t.past
<1> DEFINE u == Doomed(t)
<1>1. t \in TabType
  BY DEF Sound
<1>2. /\ u \in TabType /\ u.page = t.page /\ u.play = t.play /\ u.ops = t.ops
      /\ u.past = t.past /\ u.net.urls = t.net.urls
  BY <1>1 DEF Doomed, TabType, NetType
<1> HIDE DEF u
<1>3. SameSource(u, t) /\ SameMarks(u, t)
  BY <1>2 DEF SameSource, SameMarks
<1>4. \A o \in u.ops : OpSound(o, u)
  BY <1>2, <1>3, OpKept DEF Sound
<1>5. Sound(u)
  BY <1>3, <1>4, SoundKept
<1> QED BY <1>2, <1>3, <1>5 DEF u

(* Once the book is gone everything is read again, whatever was saved of it. *)
LEMMA AllReadAgain ==
    ASSUME NEW t, Sound(t), NEW saved, NEW told
    PROVE  Good(Reconcile(Doomed(t), [removed |-> TRUE, file |-> NoFile]), saved, told)
<1> DEFINE x == Doomed(t)
           change == [removed |-> TRUE, file |-> NoFile]
<1>1. Sound(x)
  BY DoomedFacts
<1>2. change \in Changes /\ Scope(change.file) = Files
  BY DEF Changes, Scope
<1>3. x.page.current \in Files \union {NoFile}
  BY <1>1 DEF Sound, TabType, PageType
<1> HIDE DEF x, change
<1>4. LagBut(x, Scope(change.file), saved, told)
  BY <1>2, <1>3 DEF LagBut, ListLag, MarkLag
<1>5. DueBut(x, Scope(change.file), saved, told)
  <2>1. Ripe(x) => x.page.current # NoFile
    BY <1>1 DEF Ripe, Sound
  <2> QED BY <1>2, <1>3, <2>1 DEF DueBut
<1>6. Good(Reconcile(x, change), saved, told)
  BY <1>1, <1>2, <1>4, <1>5, ReconcileGood
<1> QED BY <1>6 DEF x, change

(* The copies of the book are removed, and its details asked for again. *)
LEMMA RemoveCopiesKept ==
    ASSUME IInv, NEW op \in ops, RemoveCopies(op), acts' \in 0..MaxActs
    PROVE  IInv'
<1> DEFINE t == Reconcile(Doomed(Without(op)), [removed |-> TRUE, file |-> NoFile])
           stored == ~page.allowed
<1>1. disk' = [disk EXCEPT !.saved = {}] /\ news' = news /\ Becomes(Load(t, stored, FALSE))
  BY DEF RemoveCopies
<1>2. disk' \in DiskType /\ disk'.saved = {}
  BY <1>1, TabNow DEF DiskType
<1>3. Good(t, {}, news)
  BY WithoutFacts, AllReadAgain
<1>4. stored \in BOOLEAN
  BY TabNow DEF PageType
<1> HIDE DEF t, stored
<1>5. Good(Load(t, stored, FALSE), {}, news)
  BY <1>3, <1>4, LoadGood
<1> QED BY <1>1, <1>2, <1>5, GoodTab, TabNow

(* The listener removes the book: playing is given up first. *)
LEMMA RemoveBookKept ==
    ASSUME IInv, RemoveBook, acts' \in 0..MaxActs
    PROVE  IInv'
<1> DEFINE s == NewSourceRequest(Tab)
           m == NewMetadataRequest(s)
           t == CancelDownloads(NoCurrentFile(m), Files)
           op == Op("remove", NoFile, NoTime, FALSE)
<1>1. Becomes(Later(t, op)) /\ UNCHANGED <<disk, news>>
  BY DEF RemoveBook
<1>2. /\ Sound(s) /\ Lag(s, disk.saved, news)
      /\ \A o \in s.ops : o.do \in SourceOps => ~o.fresh
  BY TabNow, SupersededFacts
<1> HIDE DEF s
<1>3. /\ Sound(m) /\ Lag(m, disk.saved, news)
      /\ \A o \in m.ops : o \in s.ops \/ o.do \in MetadataOps
  BY <1>2, StaleSound, StaleLag DEF NewMetadataRequest
<1>4. \A o \in m.ops : o.do \in SourceOps => ~o.fresh
  BY <1>2, <1>3 DEF SourceOps, MetadataOps
<1> HIDE DEF m
<1>5. Good(t, disk.saved, news)
  BY <1>3, <1>4, GivenUpGood, CancelGood
<1>6. op \in OpType /\ OpSound(op, t)
  BY PlainOp
<1> HIDE DEF t, op
<1>7. Good(Later(t, op), disk.saved, news)
  BY <1>5, <1>6, LaterGood
<1> QED BY <1>1, <1>7, GoodTab, TabNow

(* The rows of the book are removed. *)
LEMMA RemoveRowsKept ==
    ASSUME IInv, NEW op \in ops, RemoveRows(op), acts' \in 0..MaxActs
    PROVE  IInv'
<1> DEFINE t == Reconcile(Doomed(Without(op)), [removed |-> TRUE, file |-> NoFile])
<1>1. disk' = NoBook /\ news' = news /\ Becomes(t)
  BY DEF RemoveRows
<1>2. disk' \in DiskType
  BY <1>1 DEF NoBook, DiskType
<1>3. Good(t, disk'.saved, news)
  BY WithoutFacts, AllReadAgain
<1> HIDE DEF t
<1> QED BY <1>1, <1>2, <1>3, GoodTab, TabNow

(* The listener removes the copy of a chapter. *)
LEMMA RemoveFileKept ==
    ASSUME IInv, NEW f \in Files, RemoveFile(f), acts' \in 0..MaxActs
    PROVE  IInv'
<1> DEFINE t == CancelDownloads(Tab, {f})
           op == Op("drop", f, NoTime, FALSE)
<1>1. Becomes(Later(t, op)) /\ UNCHANGED <<disk, news>>
  BY DEF RemoveFile
<1>2. Good(t, disk.saved, news)
  BY TabNow, CancelGood
<1>3. op \in OpType /\ OpSound(op, t)
  BY PlainOp
<1> HIDE DEF t, op
<1>4. Good(Later(t, op), disk.saved, news)
  BY <1>2, <1>3, LaterGood
<1> QED BY <1>1, <1>4, GoodTab, TabNow

(* The position of the chapter that plays is written first. *)
LEMMA SaveForDropKept ==
    ASSUME IInv, NEW op \in ops, SaveForDrop(op), acts' \in 0..MaxActs
    PROVE  IInv'
<1> DEFINE do == IF page.current = op.file THEN "dropped" ELSE "erase"
           o == [op EXCEPT !.do = do]
<1>1. /\ op.do = "drop" /\ Becomes(Later(Without(op), o)) /\ news' = news
      /\ disk' = IF page.current = op.file THEN Persisted(play.time) ELSE disk
  BY DEF SaveForDrop
<1>2. Good(Without(op), disk.saved, news)
  BY <1>1, WithoutGood DEF Looks
<1>3. o \in OpType /\ OpSound(o, Without(op))
  BY TabNow, PlainStep
<1> HIDE DEF o
<1>4. Good(Later(Without(op), o), disk.saved, news)
  BY <1>2, <1>3, LaterGood
<1>5. play.time \in Times
  BY TabNow DEF PlayType
<1>6. disk' \in DiskType /\ disk'.saved = disk.saved
  BY <1>1, <1>5, FlushFacts, TabNow
<1> QED BY <1>1, <1>4, <1>6, GoodTab, TabNow

(* Whatever plays by then is given up. *)
LEMMA StopForDropKept ==
    ASSUME IInv, NEW op \in ops, StopForDrop(op), acts' \in 0..MaxActs
    PROVE  IInv'
<1> DEFINE t == NoCurrentFile(NewSourceRequest(Without(op)))
           o == [op EXCEPT !.do = "erase"]
<1>1. op.do = "dropped" /\ Becomes(Later(t, o)) /\ UNCHANGED <<disk, news>>
  BY DEF StopForDrop
<1>2. Good(t, disk.saved, news)
  BY <1>1, WithoutFacts, LeftGood
<1>3. o \in OpType /\ OpSound(o, t)
  BY TabNow, PlainStep
<1> HIDE DEF t, o
<1>4. Good(Later(t, o), disk.saved, news)
  BY <1>2, <1>3, LaterGood
<1> QED BY <1>1, <1>4, GoodTab, TabNow

(* The copy is removed: what other chapters show of theirs is as it was. *)
LEMMA RemoveCopyKept ==
    ASSUME IInv, NEW op \in ops, RemoveCopy(op), acts' \in 0..MaxActs
    PROVE  IInv'
<1> DEFINE t == Doomed(Without(op))
           stored == disk.saved \ {op.file}
           change == [removed |-> TRUE, file |-> op.file]
<1>1. /\ op.do = "erase" /\ disk' = [disk EXCEPT !.saved = stored] /\ news' = news
  BY TabNow DEF RemoveCopy, DiskType
<1>2. PICK value \in {FALSE, page.marked[op.file]} :
          Becomes(Reconcile([t EXCEPT !.page.marked[op.file] = value], change))
  BY DEF RemoveCopy
<1> DEFINE marked == [page.marked EXCEPT ![op.file] = value]
           x == [t EXCEPT !.page.marked = marked]
<1>3. Good(Without(op), disk.saved, news) /\ Without(op).page = page
  BY <1>1, WithoutFacts, WithoutGood DEF Looks
<1>4. /\ Sound(t) /\ SameMarks(t, Without(op)) /\ t.page = page
      /\ t.play = Without(op).play /\ t.past = Without(op).past /\ t.ops = Without(op).ops
  BY <1>3, DoomedFacts DEF Good
<1> HIDE DEF t
<1>5. Good(t, disk.saved, news)
  <2>1. Keeps(t.ops, Without(op).ops)
    BY <1>4, MoreKeeps
  <2>2. Lag(t, disk.saved, news)
    BY <1>3, <1>4, <2>1, LagKept DEF Good
  <2>3. Due(t, disk.saved, news)
    BY <1>3, <1>4, <2>1, DueKept DEF Good, Ripe
  <2> QED BY <1>4, <2>2, <2>3 DEF Good
<1>6. op.file \in Files \union {NoFile}
  BY TabNow DEF OpType
<1>7. /\ marked \in [Files -> BOOLEAN]
      /\ \A f \in Files \ {op.file} : marked[f] = page.marked[f]
  <2>1. page.marked \in [Files -> BOOLEAN]
    BY TabNow DEF PageType
  <2>2. op.file \in Files => value \in BOOLEAN
    BY <1>2, <2>1
  <2> QED BY <2>1, <2>2
<1>8. [t EXCEPT !.page.marked[op.file] = value] = x
  BY <1>4
<1>9. disk' \in DiskType /\ disk'.saved = stored
  BY <1>1, TabNow DEF DiskType
<1>10. /\ change \in Changes /\ change.file = op.file /\ op.file \in Scope(op.file) \union {NoFile}
       /\ Scope(op.file) = Files \/ Scope(op.file) = {op.file}
  BY <1>6, Nothing DEF Changes, Scope
<1> HIDE DEF marked
<1>11. /\ x \in TabType /\ x.page.marked = marked /\ x.page.mark = page.mark
       /\ x.page.current = page.current /\ x.page.kind = page.kind
       /\ x.page.listed = page.listed /\ x.page.allowed = page.allowed
       /\ x.page.disposed = page.disposed
       /\ x.play = t.play /\ x.ops = t.ops /\ x.net = t.net /\ x.past = t.past
  BY <1>4, <1>7 DEF Sound, TabType, PageType
<1> HIDE DEF x
<1>12. Sound(x)
  <2>1. SameSource(x, t)
    BY <1>4, <1>11 DEF SameSource
  <2> QED BY <1>4, <1>11, <2>1, SameSound
<1>13. \A f : f # op.file => (f \in stored <=> f \in disk.saved)
  OBVIOUS
<1>14. page.current \in Files \union {NoFile}
  BY TabNow DEF PageType
<1> HIDE DEF stored, change
<1>15. \A f \in Files \ Scope(op.file) : f # op.file
  BY <1>10
<1>16. ListLag(x, Scope(op.file), stored, news)
  BY <1>4, <1>5, <1>7, <1>11, <1>13, <1>15 DEF Good, Lag, LagBut, ListLag
<1>17. MarkLag(x, Scope(op.file), stored, news)
  BY <1>4, <1>5, <1>11, <1>13, <1>14, <1>15 DEF Good, Lag, LagBut, MarkLag
<1>18. DueBut(x, Scope(op.file), stored, news)
  <2> SUFFICES ASSUME Ripe(x), page.current \notin Scope(op.file)
               PROVE  \/ \E o \in x.ops : Looks(o, x)
                      \/ Covered(page.current, x.ops, news)
                      \/ page.current \notin stored /\ Own(page.current, x.ops)
    BY <1>11 DEF DueBut
  <2>1. Ripe(t) /\ page.current \in Files
    BY <1>4, <1>11, <1>12, <1>14 DEF Ripe, Sound
  <2>2. \/ \E o \in t.ops : Looks(o, t)
        \/ Covered(page.current, t.ops, news)
        \/ page.current \notin disk.saved /\ Own(page.current, t.ops)
    BY <1>4, <1>5, <2>1 DEF Good, Due, DueBut
  <2>3. \A o \in t.ops : Looks(o, t) => o \in x.ops /\ Looks(o, x)
    BY <1>4, <1>11 DEF Looks
  <2> QED BY <1>11, <1>13, <1>15, <2>1, <2>2, <2>3
<1>19. Good(Reconcile(x, change), stored, news)
  BY <1>10, <1>12, <1>16, <1>17, <1>18, ReconcileGood DEF LagBut
<1> QED BY <1>1, <1>2, <1>8, <1>9, <1>19, GoodTab, TabNow

-----------------------------------------------------------------------------
(***************************************************************************)
(* The details of the book, other tabs, and all steps.                     *)
(***************************************************************************)

(* The details of the book are asked for. *)
LEMMA SetTorrentInfoKept ==
    ASSUME IInv, NEW stored \in BOOLEAN, SetTorrentInfo(stored), acts' \in 0..MaxActs
    PROVE  IInv'
<1>1. Becomes(Load(Tab, stored, TRUE)) /\ UNCHANGED <<disk, news>>
  BY DEF SetTorrentInfo
<1>2. Good(Load(Tab, stored, TRUE), disk.saved, news)
  BY TabNow, LoadGood
<1> QED BY <1>1, <1>2, GoodTab, TabNow

(* They arrive: the list shows what is saved right then. *)
LEMMA TorrentInfoArrivesKept ==
    ASSUME IInv, NEW op \in ops, TorrentInfoArrives(op), acts' \in 0..MaxActs
    PROVE  IInv'
<1> DEFINE t == Without(op)
           marked == [f \in Files |-> f \in disk.saved]
           none == {}
           x == [t EXCEPT !.page.listed = TRUE, !.page.marked = marked, !.past.unread = none]
           do == IF op.do = "info" \/ page.allowed THEN "bytes" ELSE "resume"
           o == [op EXCEPT !.do = do, !.file = disk.state.file, !.at = disk.state.time]
<1>1. /\ op.do \in {"info", "stored"} /\ news' = news
      /\ disk' = IF op.do = "info" THEN [disk EXCEPT !.kept = TRUE] ELSE disk
  BY DEF TorrentInfoArrives
<1>2. Becomes(t) \/ Becomes(Later(x, o))
  BY DEF TorrentInfoArrives
<1>3. disk' \in DiskType /\ disk'.saved = disk.saved
  BY <1>1, TabNow DEF DiskType
<1>4. Good(t, disk.saved, news) /\ t.page = page
  BY <1>1, WithoutGood, WithoutFacts DEF Looks
<1>5. do \in {"bytes", "resume"}
  OBVIOUS
<1>6. disk.state.file \in Files \union {NoFile} /\ disk.state.time \in Times \union {NoTime}
  BY TabNow, Nothing DEF DiskType, Nowhere
<1> HIDE DEF do
<1>7. o \in OpType /\ o.do \in {"bytes", "resume"}
  BY <1>5, <1>6, TabNow DEF OpType, MetadataOps
<1>8. marked \in [Files -> BOOLEAN] /\ \A f \in Files : marked[f] <=> f \in disk.saved
  <2>1. \A f \in Files : (f \in disk.saved) \in BOOLEAN
    OBVIOUS
  <2>2. marked \in [Files -> BOOLEAN]
    BY ONLY <2>1
  <2>3. \A f \in Files : marked[f] = (f \in disk.saved)
    OBVIOUS
  <2> HIDE DEF marked
  <2> QED BY <2>2, <2>3
<1>9. t \in TabType /\ none \in SUBSET Files
  BY <1>4 DEF Good, Sound
<1> HIDE DEF t, o, marked, none
<1>10. /\ x \in TabType /\ x.page.marked = marked /\ x.page.listed = TRUE
       /\ x.page.mark = t.page.mark
       /\ x.page.current = t.page.current /\ x.page.kind = t.page.kind
       /\ x.page.allowed = t.page.allowed /\ x.page.disposed = t.page.disposed
       /\ x.past.wanted = t.past.wanted /\ x.past.opening = t.past.opening
       /\ x.past.missed = t.past.missed
       /\ x.play = t.play /\ x.ops = t.ops /\ x.net = t.net
  BY <1>8, <1>9 DEF TabType, PageType, PastType
<1> HIDE DEF x
<1>11. Sound(x)
  <2>1. SameSource(x, t)
    BY <1>10 DEF SameSource
  <2> QED BY <1>4, <1>10, <2>1, SameSound DEF Good
<1>12. ListLag(x, {}, disk.saved, news)
  BY <1>8, <1>10 DEF ListLag
<1>13. MarkLag(x, {}, disk.saved, news)
  BY <1>4, <1>10 DEF Good, Lag, LagBut, MarkLag
<1>14. Due(x, disk.saved, news)
  <2>1. Ripe(x) => Ripe(t)
    BY <1>10 DEF Ripe
  <2>2. Keeps(x.ops, t.ops)
    BY <1>10, MoreKeeps
  <2> QED BY <1>4, <1>10, <2>1, <2>2, DueKept DEF Good
<1>15. OpSound(o, x)
  BY <1>7, <1>10 DEF OpSound
<1>16. Good(Later(x, o), disk.saved, news)
  BY <1>7, <1>11, <1>12, <1>13, <1>14, <1>15, LaterGood DEF Good, Lag, LagBut
<1> QED BY <1>1, <1>2, <1>3, <1>4, <1>16, GoodTab, TabNow

(* They do not. *)
LEMMA TorrentInfoFailsKept ==
    ASSUME IInv, NEW op \in ops, TorrentInfoFails(op), acts' \in 0..MaxActs
    PROVE  IInv'
<1>1. op.do \in {"info", "stored"} /\ Becomes(Without(op)) /\ UNCHANGED <<disk, news>>
  BY DEF TorrentInfoFails
<1>2. Good(Without(op), disk.saved, news)
  BY <1>1, WithoutGood DEF Looks
<1> QED BY <1>1, <1>2, GoodTab, TabNow

(* What the server has of it arrives. *)
LEMMA ServerCacheArrivesKept ==
    ASSUME IInv, NEW op \in ops, ServerCacheArrives(op), acts' \in 0..MaxActs
    PROVE  IInv'
<1> DEFINE o == [op EXCEPT !.do = "resume"]
<1>1. op.do = "bytes" /\ UNCHANGED <<disk, news>>
      /\ (Becomes(Later(Without(op), o)) \/ Becomes(Without(op)))
  BY DEF ServerCacheArrives
<1>2. Good(Without(op), disk.saved, news) /\ Without(op).page = page
  BY <1>1, WithoutGood, WithoutFacts DEF Looks
<1>3. page.listed
  BY <1>1, TabNow DEF OpSound
<1>4. o \in OpType /\ o.do = "resume"
  BY TabNow DEF OpType, MetadataOps
<1> HIDE DEF o
<1>5. OpSound(o, Without(op))
  BY <1>2, <1>3, <1>4 DEF OpSound
<1>6. Good(Later(Without(op), o), disk.saved, news)
  BY <1>2, <1>4, <1>5, LaterGood
<1> QED BY <1>1, <1>2, <1>6, GoodTab, TabNow

(* Playing resumes, of a file that is marked in the list or as it was read. *)
LEMMA ResumeSavedFileKept ==
    ASSUME IInv, NEW op \in ops, ResumeSavedFile(op), acts' \in 0..MaxActs
    PROVE  IInv'
<1> DEFINE t == Without(op)
<1>1. op.do = "resume" /\ news' = news
  BY DEF ResumeSavedFile
<1>2. Good(t, disk.saved, news) /\ t.page = page
  BY <1>1, WithoutGood, WithoutFacts DEF Looks
<1>3. page.listed /\ op \in OpType /\ play.time \in Times
  BY <1>1, TabNow DEF OpSound, PlayType
<1>4. CASE Current(op) /\ op.auto /\ op.file # NoFile
  <2>1. UNCHANGED disk \/ Flush(play.time)
    BY <1>4 DEF ResumeSavedFile
  <2>2. PICK marked \in {page.marked[op.file], page.marked[op.file] \/ op.file \in disk.saved} :
            Becomes(SetCurrentFile(t, op.file, op.at, FALSE, marked))
    BY <1>4 DEF ResumeSavedFile
  <2> DEFINE u == SetCurrentFile(t, op.file, op.at, FALSE, marked)
  <2>3. op.file \in Files /\ op.at \in Times \union {NoTime}
    BY <1>3, <1>4 DEF OpType
  <2>4. marked \in BOOLEAN
    BY <2>2, <2>3, TabNow DEF PageType
  <2> HIDE DEF t
  <2>5. Good(u, disk.saved, news)
    BY <1>2, <1>3, <2>3, <2>4, SetCurrentGood
  <2>6. disk' \in DiskType /\ disk'.saved = disk.saved
    BY <1>3, <2>1, FlushFacts, TabNow
  <2>7. Becomes(u)
    BY <2>2
  <2> HIDE DEF u
  <2> QED BY <1>1, <2>5, <2>6, <2>7, GoodTab, TabNow
<1>5. CASE ~(Current(op) /\ op.auto /\ op.file # NoFile)
  <2>1. Becomes(t) /\ disk' = disk
    BY <1>5 DEF ResumeSavedFile
  <2> QED BY <1>1, <1>2, <2>1, GoodTab, TabNow
<1> QED BY <1>4, <1>5

(* Permission is given. *)
LEMMA AuthorizeKept ==
    ASSUME IInv, Authorize, acts' \in 0..MaxActs
    PROVE  IInv'
<1> DEFINE x == [Tab EXCEPT !.page.allowed = TRUE]
<1>1. Becomes(x) /\ UNCHANGED <<disk, news>>
  BY DEF Authorize
<1>2. /\ x \in TabType /\ x.page.marked = page.marked /\ x.page.mark = page.mark
      /\ x.page.current = page.current /\ x.page.kind = page.kind
      /\ x.page.listed = page.listed /\ x.page.allowed = TRUE
      /\ x.page.disposed = page.disposed
      /\ x.play = play /\ x.ops = ops /\ x.net = net /\ x.past = past
  BY TabNow DEF TabType, PageType, Tab
<1> HIDE DEF x
<1>3. SameSource(x, Tab) /\ SameMarks(x, Tab) /\ Keeps(x.ops, Tab.ops)
  BY <1>2, TabNow, MoreKeeps DEF SameSource, SameMarks
<1>4. Sound(x) /\ Lag(x, disk.saved, news)
  BY <1>2, <1>3, TabNow, SameSound, LagKept
<1>5. Ripe(x) => Ripe(Tab)
  BY <1>2, TabNow DEF Ripe
<1>6. Due(x, disk.saved, news)
  BY <1>2, <1>3, <1>5, TabNow, DueKept
<1>7. Good(x, disk.saved, news)
  BY <1>4, <1>6 DEF Good
<1> QED BY <1>1, <1>7, GoodTab, TabNow

(* The page is left: nothing plays any more, and no request is the latest. *)
LEMMA DisposeKept ==
    ASSUME IInv, Dispose, acts' \in 0..MaxActs
    PROVE  IInv'
<1> DEFINE s == NewSourceRequest(Tab)
           m == NewMetadataRequest(s)
           left == [m.net EXCEPT !.urls = @ - Urls(m.play.audio)]
           bare == [m.page EXCEPT !.disposed = TRUE]
           none == [m.past EXCEPT !.wanted = NoFile, !.opening = NoFile]
           x == [m EXCEPT !.net = left, !.play = Silent, !.page = bare, !.past = none]
<1>1. Flush(play.time) /\ news' = news
  BY DEF Dispose
<1>2. Sound(s) /\ \A o \in s.ops : o.do \in SourceOps => ~o.fresh
  BY TabNow, SupersededFacts
<1> HIDE DEF s
<1>3. Sound(m) /\ \A o \in m.ops : o \in s.ops \/ o.do \in MetadataOps
  BY <1>2, StaleSound DEF NewMetadataRequest
<1>4. \A o \in m.ops : o.do \in SourceOps => ~o.fresh
  BY <1>2, <1>3 DEF SourceOps, MetadataOps
<1>5. m \in TabType /\ m.net.urls = Urls(m.play.audio)
  BY <1>3 DEF Sound
<1>6. Becomes(x)
  <2>1. Becomes([ClearSource(m) EXCEPT !.page.disposed = TRUE, !.past.wanted = NoFile,
                                       !.past.opening = NoFile])
    BY DEF Dispose, s
  <2> HIDE DEF m
  <2>2. ClearSource(m) = [m EXCEPT !.net = left, !.play = Silent]
    BY DEF ClearSource
  <2>3. [ClearSource(m) EXCEPT !.page.disposed = TRUE, !.past.wanted = NoFile,
                               !.past.opening = NoFile] = x
    <3> HIDE DEF left
    <3> QED BY <1>5, <2>2 DEF TabType
  <2> QED BY <2>1, <2>3
<1> HIDE DEF m
<1>7. left \in NetType /\ left.urls = 0
  <2>1. m.net \in NetType /\ m.net.urls - Urls(m.play.audio) = 0
    BY <1>5, Nothing DEF TabType, NetType
  <2> QED BY <2>1 DEF NetType
<1>8. Silent \in PlayType /\ Silent.audio = NoSource /\ Silent.phase = "none"
  BY Nothing DEF Silent, PlayType
<1>9. /\ bare \in PageType /\ bare.disposed = TRUE /\ bare.current = m.page.current
      /\ bare.kind = m.page.kind /\ bare.listed = m.page.listed
  BY <1>5 DEF TabType, PageType
<1>10. none \in PastType /\ none.wanted = NoFile /\ none.opening = NoFile
  BY <1>5 DEF TabType, PastType
<1> HIDE DEF left, bare, none
<1>11. /\ x \in TabType /\ x.page = bare /\ x.play = Silent /\ x.ops = m.ops
       /\ x.net = left /\ x.past = none
  BY <1>5, <1>7, <1>8, <1>9, <1>10 DEF TabType
<1> HIDE DEF x
<1>12. ASSUME NEW op \in x.ops PROVE OpSound(op, x)
  <2>1. OpSound(op, m) /\ (op.do \in SourceOps => ~op.fresh)
    BY <1>3, <1>4, <1>11 DEF Sound
  <2> QED BY <1>9, <1>11, <2>1 DEF OpSound, SourceOps
<1>13. Sound(x)
  BY <1>3, <1>7, <1>8, <1>9, <1>10, <1>11, <1>12, Nothing DEF Sound, Asked
<1>14. Good(x, disk.saved, news)
  BY <1>9, <1>11, <1>13, DisposedGood
<1>15. play.time \in Times
  BY TabNow DEF PlayType
<1>16. disk' \in DiskType /\ disk'.saved = disk.saved
  BY <1>1, <1>15, FlushFacts
<1> QED BY <1>1, <1>6, <1>14, <1>16, GoodTab, TabNow

(* What another tab changes of what is saved it announces. *)
LEMMA AnnouncedGood ==
    ASSUME IInv, NEW t \in {Tab, Doomed(Tab)}, NEW stored, NEW change \in Changes,
           \A f \in Files \ Scope(change.file) : f \in stored <=> f \in disk.saved
    PROVE  Good(t, stored, news \union {change})
<1>1. /\ Sound(t) /\ t.page = page /\ t.play = play /\ t.past = past /\ t.ops = ops
  BY TabNow, DoomedFacts
<1>2. \A f : Covered(f, ops, news) => Covered(f, ops, news \union {change})
  BY DEF Covered
<1>3. \A f \in Scope(change.file) : Covered(f, ops, news \union {change})
  BY DEF Covered
<1>4. page.current \in Files \union {NoFile}
  BY TabNow DEF PageType
<1>5. ListLag(t, {}, stored, news \union {change})
  BY <1>1, <1>2, <1>3, TabNow DEF Lag, LagBut, ListLag
<1>6. MarkLag(t, {}, stored, news \union {change})
  BY <1>1, <1>2, <1>3, <1>4, TabNow DEF Lag, LagBut, MarkLag
<1>7. Due(t, stored, news \union {change})
  <2> SUFFICES ASSUME Ripe(t)
               PROVE  \/ \E o \in ops : Looks(o, t)
                      \/ Covered(page.current, ops, news \union {change})
                      \/ page.current \notin stored /\ Own(page.current, ops)
    BY <1>1 DEF Due, DueBut
  <2>1. Ripe(Tab) /\ page.current \in Files
    BY <1>1, <1>4, TabNow DEF Ripe, Sound
  <2>2. \/ \E o \in ops : Looks(o, Tab)
        \/ Covered(page.current, ops, news)
        \/ page.current \notin disk.saved /\ Own(page.current, ops)
    BY <2>1, TabNow DEF Due, DueBut
  <2>3. \A o : Looks(o, Tab) => Looks(o, t)
    BY <1>1, TabNow DEF Looks
  <2> QED BY <1>2, <1>3, <2>1, <2>2, <2>3
<1> QED BY <1>1, <1>5, <1>6, <1>7 DEF Good, Lag, LagBut

(* Another tab saves a chapter. *)
LEMMA OtherTabSavesKept ==
    ASSUME IInv, NEW f \in Files, OtherTabSaves(f), acts' \in 0..MaxActs
    PROVE  IInv'
<1> DEFINE change == [removed |-> FALSE, file |-> f]
           stored == disk.saved \union {f}
<1>1. /\ disk' = [disk EXCEPT !.saved = stored] /\ news' = news \union {change} /\ Becomes(Tab)
  BY TabNow DEF OtherTabSaves, Announce, ThisTab, Becomes, Tab, DiskType
<1>2. change \in Changes /\ Scope(change.file) = {f}
  BY Nothing DEF Changes, Scope
<1>3. Good(Tab, stored, news \union {change})
  BY <1>2, AnnouncedGood
<1>4. disk' \in DiskType /\ disk'.saved = stored
  BY <1>1, TabNow DEF DiskType
<1> QED BY <1>1, <1>2, <1>3, <1>4, GoodTab, TabNow

(* Another tab removes one. *)
LEMMA OtherTabRemovesKept ==
    ASSUME IInv, NEW f \in Files, OtherTabRemoves(f), acts' \in 0..MaxActs
    PROVE  IInv'
<1> DEFINE change == [removed |-> TRUE, file |-> f]
           stored == disk.saved \ {f}
<1>1. /\ disk' = [disk EXCEPT !.saved = stored] /\ news' = news \union {change}
      /\ Becomes(Doomed(Tab))
  BY TabNow DEF OtherTabRemoves, Announce, ThisTab, Becomes, Tab, Doomed, DiskType
<1>2. change \in Changes /\ Scope(change.file) = {f}
  BY Nothing DEF Changes, Scope
<1>3. Good(Doomed(Tab), stored, news \union {change})
  BY <1>2, AnnouncedGood
<1>4. disk' \in DiskType /\ disk'.saved = stored
  BY <1>1, TabNow DEF DiskType
<1> QED BY <1>1, <1>2, <1>3, <1>4, GoodTab, TabNow

(* Another tab removes the book. *)
LEMMA OtherTabRemovesBookKept ==
    ASSUME IInv, OtherTabRemovesBook, acts' \in 0..MaxActs
    PROVE  IInv'
<1> DEFINE change == [removed |-> TRUE, file |-> NoFile]
<1>1. /\ disk' = NoBook /\ news' = news \union {change} /\ Becomes(Doomed(Tab))
  BY TabNow DEF OtherTabRemovesBook, Announce, ThisTab, Becomes, Tab, Doomed
<1>2. change \in Changes /\ Scope(change.file) = Files
  BY DEF Changes, Scope
<1>3. Good(Doomed(Tab), {}, news \union {change})
  BY <1>2, AnnouncedGood
<1>4. disk' \in DiskType /\ disk'.saved = {}
  BY <1>1 DEF NoBook, DiskType
<1> QED BY <1>1, <1>2, <1>3, <1>4, GoodTab, TabNow

(* A page that has just been opened. *)
LEMMA InitKept ==
    ASSUME Init
    PROVE  IInv
<1> DEFINE op == Op(IF page.allowed THEN "info" ELSE "stored", NoFile, NoTime, TRUE)
<1>1. PICK book \in Books :
          /\ page = [current |-> NoFile, kind |-> "none", mark |-> FALSE,
                     marked |-> [f \in Files |-> FALSE], listed |-> FALSE,
                     allowed |-> book.allowed, disposed |-> FALSE]
          /\ disk = [saved |-> book.saved, kept |-> TRUE, state |-> book.state]
  BY DEF Init
<1>2. /\ play = Silent /\ ops = {op} /\ net = [saving |-> {}, doomed |-> {}, urls |-> 0]
      /\ news = {} /\ acts = MaxActs
      /\ past = [wanted |-> NoFile, opening |-> NoFile, missed |-> FALSE, unread |-> {}]
  BY DEF Init
<1>3. disk \in DiskType /\ book.allowed \in BOOLEAN
  BY <1>1, BooksAssumption DEF DiskType
<1>4. page \in PageType
  BY <1>1, <1>3 DEF PageType, Kinds
<1>5. Silent \in PlayType /\ Silent.audio = NoSource /\ Silent.phase = "none"
  BY Nothing DEF Silent, PlayType
<1>6. net \in NetType /\ net.urls = 0
  BY <1>2 DEF NetType
<1>7. op \in OpType /\ op.do \in {"info", "stored"}
  BY DEF Op, OpType, MetadataOps
<1>8. past \in PastType /\ past.wanted = NoFile /\ past.opening = NoFile
  BY <1>2 DEF PastType
<1> HIDE DEF op
<1>9. /\ Tab \in TabType /\ Tab.page = page /\ Tab.play = Silent /\ Tab.ops = {op}
      /\ Tab.net = net /\ Tab.past = past
  BY <1>2, <1>4, <1>5, <1>6, <1>7, <1>8 DEF Tab, TabType
<1>10. \A o \in Tab.ops : OpSound(o, Tab)
  BY <1>7, <1>9 DEF OpSound
<1>11. page.kind = "none" /\ page.current = NoFile /\ ~page.listed /\ ~page.mark
  BY <1>1
<1>12. Sound(Tab)
  BY <1>5, <1>6, <1>8, <1>9, <1>10, <1>11, Nothing DEF Sound, Asked
<1>13. Lag(Tab, disk.saved, news) /\ ~Ripe(Tab)
  BY <1>9, <1>11 DEF Lag, LagBut, ListLag, MarkLag, Ripe
<1> QED BY <1>2, <1>3, <1>12, <1>13, BoundsAssumption DEF IInv, Good, Due, DueBut

(* Every step keeps the invariant. *)
LEMMA StepKept ==
    ASSUME IInv, [Next]_vars
    PROVE  IInv'
<1>1. CASE UNCHANGED vars
  BY <1>1 DEF vars, IInv, Good, Sound, Lag, LagBut, ListLag, MarkLag, Due, DueBut, OpSound, Ripe,
              Looks, Covered, Fetched, Own, Asked, Tab
<1>2. CASE Next
  <2>1. acts' \in 0..MaxActs
    BY <1>2, BoundsAssumption DEF IInv, Next
  <2>2. ASSUME NEW op \in ops, Resolve(op) PROVE IInv'
    BY <2>1, <2>2, ChangeFileKept, OpenSourceKept, SwitchSourceKept, AfterEndKept, NextFileKept,
       AfterPauseKept, RefreshOfflineStateKept, SettleAbortedKept, CancelForCleanKept,
       RemoveCopiesKept, RemoveRowsKept, SaveForDropKept, StopForDropKept, RemoveCopyKept,
       TorrentInfoArrivesKept, ServerCacheArrivesKept, ResumeSavedFileKept
       DEF Resolve
  <2>3. ASSUME NEW op \in ops, Fail(op) PROVE IInv'
    BY <2>1, <2>3, SwitchFailsKept, NextFileFailsKept, ReadOfMarksFailsKept, RemovalFailsKept,
       SaveForDropFailsKept, TorrentInfoFailsKept
       DEF Fail
  <2>4. CASE Player
    BY <2>1, <2>4, SourceLoadsKept, PlaybackStartsKept, PlaybackGoesOnKept, PlaybackEndsKept
       DEF Player
  <2>5. CASE Others
    BY <2>1, <2>5, PressPlayKept, SaveCurrentPlayingKept, DownloadGoesOnKept,
       DownloadCompletesKept, DownloadInvalidatedKept
       DEF Others, SaveWhilePlaying
  <2>6. CASE Acts
    <3>1. ASSUME NEW f \in Files, NEW at \in {NoTime, 1}, PickFile(f, at) PROVE IInv'
      <4>1. at \in Times \union {NoTime}
        BY LengthAssumption DEF Times
      <4> QED BY <2>1, <3>1, <4>1, PickFileKept
    <3> QED BY <2>1, <2>6, <3>1, CleanBookDataKept, RemoveBookKept, RemoveFileKept,
               SetTorrentInfoKept, PressPauseKept, SaveCurrentPlayingKept, AuthorizeKept,
               DisposeKept, OtherTabSavesKept, OtherTabRemovesKept, OtherTabRemovesBookKept,
               SourceFailsKept, DownloadFailsKept
            DEF Acts, SaveWhenHidden
  <2>7. ASSUME NEW change \in news, HandleNews(change) PROVE IInv'
    BY <2>1, <2>7, HandleNewsKept
  <2> QED BY <1>2, <2>2, <2>3, <2>4, <2>5, <2>6, <2>7 DEF Next
<1> QED BY <1>1, <1>2

(* The inductive invariant of the page. *)
LEMMA Invariant == Spec => []IInv
BY InitKept, StepKept, PTL DEF Spec

(* The chapters whose rows are copies are chapters: only such are saved. *)
LEMMA RowsAreFiles == Spec => [](rows \subseteq Files)
<1>1. Init => rows \subseteq Files
  BY DEF Init
<1>2. ASSUME IInv', rows \subseteq Files, [Next]_vars
      PROVE  (rows \subseteq Files)'
  <2>1. disk'.saved \subseteq Files
    BY <1>2 DEF IInv, DiskType
  <2>2. rows' = rows \/ RowsRead
    BY <1>2 DEF Next, vars
  <2> QED BY <1>2, <2>1, <2>2 DEF RowsRead
<1> QED BY <1>1, <1>2, Invariant, PTL DEF Spec

-----------------------------------------------------------------------------
(***************************************************************************)
(* What the invariant gives.                                               *)
(***************************************************************************)

(* Page and player agree in every state: on the chapter and the source that plays, on *)
(* the object URL it takes, and nothing is streamed that may not be.                  *)
THEOREM PageIsSound == Spec => []PageSound
<1>1. ASSUME IInv, rows \subseteq Files PROVE PageSound
  <2>1. TypeOK
    BY <1>1, TabNow, Types DEF IInv
  <2>2. SourceMatches /\ UrlsAccounted
    BY <1>1, TabNow DEF Sound, SourceMatches, UrlsAccounted
  <2>3. ServerOnlyIfAllowed
    BY <1>1, TabNow, Nothing DEF Sound, ServerOnlyIfAllowed
  <2> QED BY <2>1, <2>2, <2>3 DEF PageSound
<1> QED BY <1>1, Invariant, RowsAreFiles, PTL

(* When nothing is under way the chapter that plays has changed over to its copy if it *)
(* is marked as saved and nobody listens, unless a handler that would have seen to it  *)
(* has failed since it was loaded.                                                     *)
THEOREM ChangesOverInTheEnd == Spec => []ChangesOver
<1>1. ASSUME IInv PROVE ChangesOver
  <2> SUFFICES ASSUME Quiet, play.phase = "loaded", ~past.missed,
                      SwitchKind(Tab) = "offline"
               PROVE  FALSE
    BY DEF ChangesOver
  <2>1. Ripe(Tab)
    BY <1>1, TabNow DEF Ripe, SwitchKind
  <2>2. ~Covered(page.current, ops, news) /\ ~Own(page.current, ops)
    BY DEF Quiet, Covered, Own
  <2> QED BY <1>1, <2>1, <2>2, TabNow DEF Due, DueBut, Quiet
<1> QED BY <1>1, Invariant, PTL

(* When nothing is under way the list shows of each chapter whether it is saved, *)
(* whatever this tab and others saved and removed, but for those whose marks a   *)
(* handler that failed left behind.                                              *)
THEOREM ListIsRight == Spec => []ListSettles
<1>1. ASSUME IInv PROVE ListSettles
  <2>1. Quiet => \A f : ~Covered(f, ops, news) /\ ~Fetched(f, ops)
    BY DEF Quiet, Covered, Fetched
  <2> QED BY <1>1, <2>1, TabNow DEF Lag, LagBut, ListLag, ListSettles
<1> QED BY <1>1, Invariant, PTL

-----------------------------------------------------------------------------
(***************************************************************************)
(* What is loaded, and when.                                               *)
(***************************************************************************)

(* The fields of a tab and of its player. *)
Whole(t) ==
    /\ t = [page |-> t.page, play |-> t.play, ops |-> t.ops, net |-> t.net, past |-> t.past]
    /\ t.play = [audio |-> t.play.audio, phase |-> t.play.phase, playing |-> t.play.playing,
                 ready |-> t.play.ready, ending |-> t.play.ending, time |-> t.play.time,
                 seek |-> t.play.seek]

(* The source stays, or goes. *)
LoadsNothing(u, t) == Whole(u) /\ u.play.audio \in {t.play.audio, NoSource}

(* First one thing and then another. *)
LEMMA LoadsNothingTwice ==
    ASSUME NEW t, NEW u, NEW v, LoadsNothing(u, t), LoadsNothing(v, u)
    PROVE  LoadsNothing(v, t)
BY DEF LoadsNothing

(* Handlers that come and go leave the player alone. *)
LEMMA OpsLoadNothing ==
    ASSUME NEW t, Whole(t)
    PROVE  /\ LoadsNothing(t, t)
           /\ \A open : LoadsNothing([t EXCEPT !.ops = open], t)
           /\ \A op : LoadsNothing(Later(t, op), t)
           /\ \A kinds : LoadsNothing(Stale(t, kinds), t)
           /\ LoadsNothing(NewSourceRequest(t), t)
           /\ LoadsNothing(NewMetadataRequest(t), t)
           /\ \A page1 : LoadsNothing([t EXCEPT !.page = page1], t)
           /\ \A open, net1 : LoadsNothing([t EXCEPT !.ops = open, !.net = net1], t)
           /\ \A net1 : LoadsNothing([t EXCEPT !.net = net1], t)
           /\ \A past1 : LoadsNothing([t EXCEPT !.past = past1], t)
           /\ \A page1, past1 : LoadsNothing([t EXCEPT !.page = page1, !.past = past1], t)
           /\ LoadsNothing(GivenUp(t), t)
           /\ \A files : LoadsNothing(MarksLost(t, files), t)
<1>1. \A open : LoadsNothing([t EXCEPT !.ops = open], t)
  BY DEF LoadsNothing, Whole
<1>2. \A op : LoadsNothing(Later(t, op), t)
  BY <1>1 DEF Later
<1>3. \A kinds : LoadsNothing(Stale(t, kinds), t)
  BY <1>1 DEF Stale
<1>4. LoadsNothing(NewSourceRequest(t), t) /\ LoadsNothing(NewMetadataRequest(t), t)
  BY <1>3 DEF NewSourceRequest, NewMetadataRequest
<1>5. \A page1 : LoadsNothing([t EXCEPT !.page = page1], t)
  BY DEF LoadsNothing, Whole
<1>6. \A net1 : LoadsNothing([t EXCEPT !.net = net1], t)
  BY DEF LoadsNothing, Whole
<1>7. \A past1 : LoadsNothing([t EXCEPT !.past = past1], t)
  BY DEF LoadsNothing, Whole
<1>8. LoadsNothing(t, t)
  BY DEF LoadsNothing
<1>9. ASSUME NEW open, NEW net1 PROVE LoadsNothing([t EXCEPT !.ops = open, !.net = net1], t)
  <2> DEFINE u == [t EXCEPT !.ops = open, !.net = net1]
  <2>1. u = [t EXCEPT !.ops = open, !.net = net1]
    OBVIOUS
  <2> HIDE DEF u
  <2>2. LoadsNothing(u, t)
    BY <2>1 DEF LoadsNothing, Whole
  <2> QED BY <2>2 DEF u
<1>10. ASSUME NEW page1, NEW past1
       PROVE  LoadsNothing([t EXCEPT !.page = page1, !.past = past1], t)
  <2> DEFINE u == [t EXCEPT !.page = page1, !.past = past1]
  <2>1. u = [t EXCEPT !.page = page1, !.past = past1]
    OBVIOUS
  <2> HIDE DEF u
  <2>2. LoadsNothing(u, t)
    BY <2>1 DEF LoadsNothing, Whole
  <2> QED BY <2>2 DEF u
<1>11. LoadsNothing(GivenUp(t), t)
  BY <1>7 DEF GivenUp
<1>12. ASSUME NEW files PROVE LoadsNothing(MarksLost(t, files), t)
  <2> DEFINE unread == t.past.unread \union files
             missed == t.past.missed \/ t.page.current \in files
             lost == [t.past EXCEPT !.unread = unread, !.missed = missed]
  <2>1. MarksLost(t, files) = [t EXCEPT !.past = lost]
    BY DEF MarksLost, Whole
  <2> HIDE DEF lost
  <2> QED BY <1>7, <2>1
<1> QED BY <1>1, <1>2, <1>3, <1>4, <1>5, <1>6, <1>7, <1>8, <1>9, <1>10, <1>11, <1>12

(* Nor do downloads, and changing over only asks for what is saved. *)
LEMMA DownloadsLoadNothing ==
    ASSUME NEW t, Whole(t)
    PROVE  /\ \A f, own : LoadsNothing(CacheOfflineFile(t, f, own), t)
           /\ \A at : LoadsNothing(Switch(t, at), t)
           /\ \A files : LoadsNothing(CancelDownloads(t, files), t)
           /\ LoadsNothing(Doomed(t), t)
<1>1. ASSUME NEW f, NEW own PROVE LoadsNothing(CacheOfflineFile(t, f, own), t)
  <2> DEFINE left == [t.net EXCEPT !.saving = @ \union {f}]
             x == [t EXCEPT !.net = left]
             op == [Op("save", f, NoTime, FALSE) EXCEPT !.fresh = own]
  <2>1. LoadsNothing(x, t)
    BY OpsLoadNothing
  <2>2. CacheOfflineFile(t, f, own) = IF t.page.allowed THEN Later(x, op) ELSE t
    BY DEF CacheOfflineFile
  <2> HIDE DEF x, op
  <2>3. LoadsNothing(Later(x, op), x)
    BY <2>1, OpsLoadNothing DEF LoadsNothing
  <2> QED BY <2>1, <2>2, <2>3, OpsLoadNothing, LoadsNothingTwice
<1>2. \A at : LoadsNothing(Switch(t, at), t)
  BY OpsLoadNothing DEF Switch
<1>3. ASSUME NEW files PROVE LoadsNothing(CancelDownloads(t, files), t)
  <2> DEFINE left == [t.net EXCEPT !.saving = @ \ files, !.doomed = @ \ files]
             open == {IF op.do = "save" /\ op.file \in files
                      THEN [op EXCEPT !.do = "settle"] ELSE op : op \in t.ops}
  <2>1. CancelDownloads(t, files) = [t EXCEPT !.net = left, !.ops = open]
    BY DEF CancelDownloads
  <2> HIDE DEF left, open
  <2> QED BY <2>1 DEF LoadsNothing, Whole
<1>4. LoadsNothing(Doomed(t), t)
  BY OpsLoadNothing DEF Doomed
<1> QED BY <1>1, <1>2, <1>3, <1>4

(* Giving up loads nothing either. *)
LEMMA GivingUpLoadsNothing ==
    ASSUME NEW t, Whole(t)
    PROVE  LoadsNothing(NoCurrentFile(t), t)
<1> DEFINE quiet == [t.net EXCEPT !.urls = @ - Urls(t.play.audio)]
           c == ClearSource(t)
           s == Stale(c, Downloads)
           bare == [s.page EXCEPT !.current = NoFile, !.kind = "none", !.mark = FALSE]
           none == [s.past EXCEPT !.wanted = NoFile, !.opening = NoFile]
<1>1. /\ Silent.audio = NoSource
      /\ Silent = [audio |-> Silent.audio, phase |-> Silent.phase, playing |-> Silent.playing,
                   ready |-> Silent.ready, ending |-> Silent.ending, time |-> Silent.time,
                   seek |-> Silent.seek]
  BY DEF Silent
<1>2. LoadsNothing(c, t)
  <2>1. c = [t EXCEPT !.net = quiet, !.play = Silent]
    BY DEF ClearSource
  <2> HIDE DEF quiet, c
  <2>2. c = [page |-> t.page, play |-> Silent, ops |-> t.ops, net |-> quiet, past |-> t.past]
    BY <2>1 DEF Whole
  <2> QED BY <1>1, <2>2 DEF LoadsNothing, Whole
<1> HIDE DEF c
<1>3. LoadsNothing(s, t)
  <2>1. LoadsNothing(s, c)
    BY <1>2, OpsLoadNothing DEF LoadsNothing
  <2> QED BY <1>2, <2>1, LoadsNothingTwice
<1>4. NoCurrentFile(t) = [s EXCEPT !.page = bare, !.past = none]
  <2>1. NoCurrentFile(t) = [s EXCEPT !.page.current = NoFile, !.page.kind = "none",
                                     !.page.mark = FALSE, !.past.wanted = NoFile,
                                     !.past.opening = NoFile]
    BY DEF NoCurrentFile, c
  <2> HIDE DEF s
  <2> QED BY <1>3, <2>1 DEF LoadsNothing, Whole
<1> HIDE DEF s, bare, none
<1>5. LoadsNothing([s EXCEPT !.page = bare, !.past = none], s)
  BY <1>3, OpsLoadNothing DEF LoadsNothing
<1> QED BY <1>3, <1>4, <1>5, LoadsNothingTwice

(* What was saved is read again, and the details of the book are asked for. *)
LEMMA RequestsLoadNothing ==
    ASSUME NEW t, Whole(t)
    PROVE  /\ \A change : LoadsNothing(Reconcile(t, change), t)
           /\ \A stored, resume : LoadsNothing(Load(t, stored, resume), t)
<1>1. ASSUME NEW change PROVE LoadsNothing(Reconcile(t, change), t)
  <2> DEFINE x == IF change.removed THEN CancelDownloads(t, Files) ELSE t
             op == Op("refresh", change.file, NoTime, FALSE)
  <2>1. LoadsNothing(x, t)
    BY DownloadsLoadNothing, OpsLoadNothing
  <2>2. Reconcile(t, change) = Later(x, op)
    BY DEF Reconcile
  <2> HIDE DEF x, op
  <2>3. LoadsNothing(Later(x, op), x)
    BY <2>1, OpsLoadNothing DEF LoadsNothing
  <2> QED BY <2>1, <2>2, <2>3, LoadsNothingTwice
<1>2. ASSUME NEW stored, NEW resume PROVE LoadsNothing(Load(t, stored, resume), t)
  <2> DEFINE x == NewMetadataRequest(t)
             op == Op(IF stored THEN "stored" ELSE "info", NoFile, NoTime, resume)
  <2>1. LoadsNothing(x, t)
    BY OpsLoadNothing
  <2>2. Load(t, stored, resume) = Later(x, op)
    BY DEF Load
  <2> HIDE DEF x, op
  <2>3. LoadsNothing(Later(x, op), x)
    BY <2>1, OpsLoadNothing DEF LoadsNothing
  <2> QED BY <2>1, <2>2, <2>3, LoadsNothingTwice
<1> QED BY <1>1, <1>2

(* Asking for a chapter loads nothing yet. *)
LEMMA AskingLoadsNothing ==
    ASSUME NEW t, Whole(t), NEW f, NEW at, NEW auto, NEW marked
    PROVE  LoadsNothing(SetCurrentFile(t, f, at, auto, marked), t)
<1> DEFINE u == SetCurrentFile(t, f, at, auto, marked)
           other == FALSE
<1> HIDE DEF other
<1>1. CASE Reuses(t, f)
  <2> DEFINE chosen == [t.past EXCEPT !.wanted = f]
             t0 == [t EXCEPT !.past = chosen]
             t1 == IF at # NoTime THEN SeekTo(t0, at) ELSE t0
             t2 == IF marked THEN t1 ELSE CacheOfflineFile(t1, f, other)
  <2>1. u = IF marked /\ t2.page.kind = "server" THEN Switch(t2, NoTime) ELSE t2
    BY <1>1 DEF SetCurrentFile, other
  <2> HIDE DEF chosen
  <2>2. LoadsNothing(t0, t)
    BY OpsLoadNothing
  <2> HIDE DEF t0
  <2>3. LoadsNothing(SeekTo(t0, at), t0) /\ LoadsNothing(t0, t0)
    BY <2>2 DEF SeekTo, LoadsNothing, Whole
  <2>4. LoadsNothing(t1, t)
    BY <2>2, <2>3, LoadsNothingTwice
  <2> HIDE DEF t1
  <2>5. LoadsNothing(CacheOfflineFile(t1, f, other), t1) /\ LoadsNothing(t1, t1)
    BY <2>4, DownloadsLoadNothing, OpsLoadNothing DEF LoadsNothing
  <2>6. LoadsNothing(t2, t)
    BY <2>4, <2>5, LoadsNothingTwice
  <2> HIDE DEF t2
  <2>7. LoadsNothing(Switch(t2, NoTime), t2)
    BY <2>6, DownloadsLoadNothing DEF LoadsNothing
  <2> HIDE DEF u
  <2> QED BY <2>1, <2>6, <2>7, LoadsNothingTwice DEF u
<1>2. CASE ~Reuses(t, f)
  <2> DEFINE s == NewSourceRequest(t)
             asked == [s.past EXCEPT !.wanted = f, !.opening = f]
             x == [s EXCEPT !.past = asked]
             op == [Op("change", f, IF at = NoTime THEN 0 ELSE at, auto \/ t.play.playing)
                       EXCEPT !.ends = auto, !.marked = marked]
  <2>1. LoadsNothing(s, t)
    BY OpsLoadNothing
  <2>2. u = Later([s EXCEPT !.past.wanted = f, !.past.opening = f], op)
    BY <1>2 DEF SetCurrentFile
  <2> HIDE DEF s, op, u
  <2>3. u = Later(x, op)
    BY <2>1, <2>2 DEF LoadsNothing, Whole
  <2> HIDE DEF asked
  <2>4. LoadsNothing(x, s)
    BY <2>1, OpsLoadNothing DEF LoadsNothing
  <2> HIDE DEF x
  <2>5. LoadsNothing(Later(x, op), x)
    BY <2>4, OpsLoadNothing DEF LoadsNothing
  <2> QED BY <2>1, <2>3, <2>4, <2>5, LoadsNothingTwice DEF u
<1> QED BY <1>1, <1>2

(* The tab as it is has all its fields, and so has one that a handler has left. *)
LEMMA TabWhole ==
    ASSUME IInv
    PROVE  /\ Whole(Tab)
           /\ \A op : LoadsNothing(Without(op), Tab) /\ LoadsNothing(Finished(op), Tab)
<1>1. Whole(Tab)
  BY TabNow DEF Whole, TabType, PlayType
<1>2. ASSUME NEW op PROVE LoadsNothing(Without(op), Tab) /\ LoadsNothing(Finished(op), Tab)
  <2> DEFINE t == Without(op)
             still == t.play.ending /\ ~op.ends
  <2>1. LoadsNothing(t, Tab)
    BY <1>1, OpsLoadNothing DEF Without
  <2>2. Finished(op) = [t EXCEPT !.play.ending = still]
    BY DEF Finished
  <2> HIDE DEF t, still
  <2>3. LoadsNothing(Finished(op), t)
    BY <2>1, <2>2 DEF LoadsNothing, Whole
  <2> QED BY <2>1, <2>3, LoadsNothingTwice DEF t
<1> QED BY <1>1, <1>2

(* A tab that has loaded nothing since. *)
Silently(t) == LoadsNothing(t, Tab)

(* What handlers are made of leaves it so. *)
LEMMA SilentSteps ==
    ASSUME NEW t, Silently(t)
    PROVE  /\ \A op : Silently(Later(t, op))
           /\ Silently(NewSourceRequest(t)) /\ Silently(NewMetadataRequest(t))
           /\ \A page1 : Silently([t EXCEPT !.page = page1])
           /\ \A page1, past1 : Silently([t EXCEPT !.page = page1, !.past = past1])
           /\ \A past1 : Silently([t EXCEPT !.past = past1])
           /\ Silently(GivenUp(t)) /\ \A files : Silently(MarksLost(t, files))
           /\ \A f, own : Silently(CacheOfflineFile(t, f, own))
           /\ \A at : Silently(Switch(t, at))
           /\ \A files : Silently(CancelDownloads(t, files))
           /\ Silently(Doomed(t)) /\ Silently(NoCurrentFile(t))
           /\ \A change : Silently(Reconcile(t, change))
           /\ \A stored, resume : Silently(Load(t, stored, resume))
           /\ \A f, at, auto, marked : Silently(SetCurrentFile(t, f, at, auto, marked))
<1>1. Whole(t)
  BY DEF Silently, LoadsNothing
<1>2. \A u : LoadsNothing(u, t) => Silently(u)
  BY LoadsNothingTwice DEF Silently
<1>3. /\ \A op : Silently(Later(t, op))
      /\ Silently(NewSourceRequest(t)) /\ Silently(NewMetadataRequest(t))
      /\ \A page1 : Silently([t EXCEPT !.page = page1])
      /\ \A page1, past1 : Silently([t EXCEPT !.page = page1, !.past = past1])
      /\ \A past1 : Silently([t EXCEPT !.past = past1])
      /\ Silently(GivenUp(t)) /\ \A files : Silently(MarksLost(t, files))
  BY <1>1, <1>2, OpsLoadNothing
<1>4. /\ \A f, own : Silently(CacheOfflineFile(t, f, own))
      /\ \A at : Silently(Switch(t, at))
      /\ \A files : Silently(CancelDownloads(t, files))
      /\ Silently(Doomed(t))
  BY <1>1, <1>2, DownloadsLoadNothing
<1>5. Silently(NoCurrentFile(t))
  BY <1>1, <1>2, GivingUpLoadsNothing
<1>6. /\ \A change : Silently(Reconcile(t, change))
      /\ \A stored, resume : Silently(Load(t, stored, resume))
  BY <1>1, <1>2, RequestsLoadNothing
<1>7. \A f, at, auto, marked : Silently(SetCurrentFile(t, f, at, auto, marked))
  BY <1>1, <1>2, AskingLoadsNothing
<1> QED BY <1>3, <1>4, <1>5, <1>6, <1>7

(* A handler that does no more loads nothing. *)
LEMMA BecomesSilent ==
    ASSUME NEW t, Silently(t), Becomes(t)
    PROVE  play'.audio \in {play.audio, NoSource}
BY DEF Silently, LoadsNothing, Becomes, Tab

(* Of the handlers only those that open a chapter or change over load a source. *)
LEMMA HandlersLoadNothing ==
    ASSUME IInv, NEW op \in ops, Resolve(op)
    PROVE  OpenSource(op) \/ SwitchSource(op) \/ play'.audio \in {play.audio, NoSource}
<1> DEFINE t == Without(op)
<1>1. Silently(t) /\ Silently(Finished(op)) /\ Whole(t)
  BY TabWhole DEF Silently, LoadsNothing
<1>2. ASSUME ChangeFile(op) PROVE play'.audio \in {play.audio, NoSource}
  BY <1>1, <1>2, SilentSteps, BecomesSilent DEF ChangeFile
<1>3. ASSUME AfterEnd(op) PROVE play'.audio \in {play.audio, NoSource}
  BY <1>1, <1>3, SilentSteps, BecomesSilent DEF AfterEnd
<1>4. ASSUME NextFile(op) PROVE play'.audio \in {play.audio, NoSource}
  <2> DEFINE switched == Switch(t, 0)
             marked == page.current + 1 \in disk.saved \/ page.marked[page.current + 1]
             auto == TRUE
             asked == SetCurrentFile(t, page.current + 1, NoTime, auto, marked)
  <2>1. Becomes(Finished(op)) \/ Becomes(switched) \/ Becomes(asked)
    BY <1>4 DEF NextFile
  <2> HIDE DEF marked, auto
  <2>2. Silently(switched) /\ Silently(asked)
    BY <1>1, SilentSteps
  <2> QED BY <1>1, <2>1, <2>2, BecomesSilent
<1>5. ASSUME AfterPause(op) PROVE play'.audio \in {play.audio, NoSource}
  BY <1>1, <1>5, SilentSteps, BecomesSilent DEF AfterPause
<1>6. ASSUME RefreshOfflineState(op) PROVE play'.audio \in {play.audio, NoSource}
  <2>1. Silently(Refreshed(t, op.file))
    <3> DEFINE bare == [t.page EXCEPT
            !.marked = [g \in Files |-> IF g \in Scope(op.file) THEN g \in disk.saved ELSE @[g]],
            !.mark = IF page.current \in Scope(op.file) THEN page.current \in disk.saved ELSE @]
               read == [t.past EXCEPT !.unread = @ \ Scope(op.file)]
               u == [t EXCEPT !.page = bare, !.past = read]
    <3>1. Refreshed(t, op.file) = u
      BY <1>1 DEF Refreshed, Whole
    <3> HIDE DEF bare, read
    <3>2. Silently(u)
      BY <1>1, SilentSteps
    <3> HIDE DEF u
    <3> QED BY <3>1, <3>2
  <2> QED BY <1>1, <1>6, <2>1, SilentSteps, BecomesSilent DEF RefreshOfflineState
<1>7. ASSUME SettleAborted(op) PROVE play'.audio \in {play.audio, NoSource}
  <2> DEFINE kept == op.file \in disk.saved
  <2>1. PICK mark : Becomes(t) \/ Becomes([t EXCEPT !.page.marked[op.file] = kept,
                                                    !.page.mark = mark, !.past.unread = @ \ {op.file},
                                                    !.past.missed = @ \/ (mark /\ ~page.mark)])
    BY <1>7 DEF SettleAborted
  <2> DEFINE missed == t.past.missed \/ (mark /\ ~page.mark)
             marked == [t.page.marked EXCEPT ![op.file] = kept]
             bare == [t.page EXCEPT !.marked = marked, !.mark = mark]
             settled == [t.past EXCEPT !.unread = @ \ {op.file}, !.missed = missed]
             u == [t EXCEPT !.page = bare, !.past = settled]
  <2> HIDE DEF kept
  <2>2. Becomes(t) \/ Becomes(u)
    <3> HIDE DEF t
    <3> QED BY <1>1, <2>1 DEF Whole
  <2> HIDE DEF bare, settled
  <2>3. Silently(u)
    BY <1>1, SilentSteps
  <2> HIDE DEF u
  <2> QED BY <1>1, <2>2, <2>3, BecomesSilent
<1>8. ASSUME CancelForClean(op) PROVE play'.audio \in {play.audio, NoSource}
  BY <1>1, <1>8, SilentSteps, BecomesSilent DEF CancelForClean
<1>9. ASSUME RemoveCopies(op) PROVE play'.audio \in {play.audio, NoSource}
  BY <1>1, <1>9, SilentSteps, BecomesSilent DEF RemoveCopies
<1>10. ASSUME RemoveRows(op) PROVE play'.audio \in {play.audio, NoSource}
  BY <1>1, <1>10, SilentSteps, BecomesSilent DEF RemoveRows
<1>11. ASSUME SaveForDrop(op) PROVE play'.audio \in {play.audio, NoSource}
  BY <1>1, <1>11, SilentSteps, BecomesSilent DEF SaveForDrop
<1>12. ASSUME StopForDrop(op) PROVE play'.audio \in {play.audio, NoSource}
  BY <1>1, <1>12, SilentSteps, BecomesSilent DEF StopForDrop
<1>13. ASSUME RemoveCopy(op) PROVE play'.audio \in {play.audio, NoSource}
  <2>1. PICK marked : Becomes(Reconcile([Doomed(t) EXCEPT !.page.marked[op.file] = marked],
                                        [removed |-> TRUE, file |-> op.file]))
    BY <1>13 DEF RemoveCopy
  <2> DEFINE x == Doomed(t)
             y == [x EXCEPT !.page.marked[op.file] = marked]
  <2>2. Silently(y)
    BY <1>1, SilentSteps
  <2> HIDE DEF y
  <2>3. Becomes(Reconcile(y, [removed |-> TRUE, file |-> op.file]))
    BY <2>1 DEF y
  <2> QED BY <2>2, <2>3, SilentSteps, BecomesSilent
<1>14. ASSUME TorrentInfoArrives(op) PROVE play'.audio \in {play.audio, NoSource}
  <2> DEFINE marked == [f \in Files |-> f \in disk.saved]
             bare == [t.page EXCEPT !.listed = TRUE, !.marked = marked]
             read == [t.past EXCEPT !.unread = {}]
             x == [t EXCEPT !.page = bare, !.past = read]
             y == [t EXCEPT !.page.listed = TRUE, !.page.marked = marked, !.past.unread = {}]
  <2>1. y = x
    <3> HIDE DEF t, marked
    <3> QED BY <1>1 DEF Whole
  <2>2. Becomes(t) \/ \E o : Becomes(Later(y, o))
    BY <1>14 DEF TorrentInfoArrives
  <2> HIDE DEF bare, read, y
  <2>3. Silently(x)
    BY <1>1, SilentSteps
  <2> HIDE DEF x
  <2> QED BY <1>1, <2>1, <2>2, <2>3, SilentSteps, BecomesSilent
<1>15. ASSUME ServerCacheArrives(op) PROVE play'.audio \in {play.audio, NoSource}
  BY <1>1, <1>15, SilentSteps, BecomesSilent DEF ServerCacheArrives
<1>16. ASSUME ResumeSavedFile(op) PROVE play'.audio \in {play.audio, NoSource}
  <2> DEFINE auto == FALSE
  <2>1. Becomes(t) \/ \E marked : Becomes(SetCurrentFile(t, op.file, op.at, auto, marked))
    BY <1>16 DEF ResumeSavedFile
  <2> HIDE DEF auto
  <2> QED BY <1>1, <2>1, SilentSteps, BecomesSilent
<1> QED BY <1>2, <1>3, <1>4, <1>5, <1>6, <1>7, <1>8, <1>9, <1>10, <1>11, <1>12, <1>13, <1>14,
           <1>15, <1>16 DEF Resolve

(* Those that fail load none. *)
LEMMA FailuresLoadNothing ==
    ASSUME IInv, NEW op, Fail(op)
    PROVE  play'.audio \in {play.audio, NoSource}
<1>1. Silently(Without(op)) /\ Silently(Finished(op))
  BY TabWhole DEF Silently
<1>2. Silently(GivenUp(Finished(op))) /\ \A files : Silently(MarksLost(Without(op), files))
  BY <1>1, SilentSteps
<1>3. \/ Becomes(Without(op)) \/ Becomes(Finished(op)) \/ Becomes(GivenUp(Finished(op)))
      \/ \E files : Becomes(MarksLost(Without(op), files))
  BY DEF Fail, SwitchFails, NextFileFails, ReadOfMarksFails, RemovalFails, SaveForDropFails,
         TorrentInfoFails
<1> QED BY <1>1, <1>2, <1>3, BecomesSilent

(* The player and its listener load none. *)
LEMMA PlayerLoadsNothing ==
    ASSUME IInv, Player \/ PressPlay \/ PressPause \/ SourceFails
    PROVE  play'.audio \in {play.audio, NoSource}
<1>1. \A x \in TabType : x.play.audio = play.audio => Silently(x)
  BY TabNow DEF Silently, LoadsNothing, Whole, TabType, PlayType
<1>2. play \in PlayType /\ play.time \in Times /\ Tab.play = play
  BY TabNow DEF PlayType
<1>3. CASE SourceLoads
  <2> DEFINE x == [Tab EXCEPT !.play.phase = "loaded", !.play.time = play.seek]
  <2>1. Silently(x)
    <3>1. x \in TabType /\ x.play.audio = play.audio
      BY TabNow DEF TabType, PlayType, Tab
    <3> QED BY ONLY <1>1, <3>1
  <2> HIDE DEF x
  <2>2. Becomes(Switch(x, NoTime))
    BY <1>3 DEF SourceLoads, x
  <2> QED BY <2>1, <2>2, SilentSteps, BecomesSilent
<1>4. CASE PlaybackStarts
  <2> DEFINE from == IF play.time = Length THEN 0 ELSE play.time
             x == [Tab EXCEPT !.play.ready = FALSE, !.play.playing = TRUE, !.play.time = from]
             own == TRUE
  <2>1. Becomes(CacheOfflineFile(x, page.current, own)) \/ Becomes(x)
    BY <1>2, <1>4 DEF PlaybackStarts
  <2>2. from \in Times
    BY <1>2, Nothing
  <2> HIDE DEF from, own
  <2>3. Silently(x)
    <3>1. x \in TabType /\ x.play.audio = play.audio
      BY <2>2, TabNow DEF TabType, PlayType, Tab
    <3> QED BY ONLY <1>1, <3>1
  <2> HIDE DEF x
  <2> QED BY <2>1, <2>3, SilentSteps, BecomesSilent
<1>5. CASE PlaybackGoesOn
  <2> DEFINE x == [Tab EXCEPT !.play.time = @ + 1]
  <2>1. Silently(x)
    <3>1. x \in TabType /\ x.play.audio = play.audio
      <4>1. play.time + 1 \in Times
        BY <1>2, <1>5, LengthAssumption DEF PlaybackGoesOn, Times
      <4> QED BY <4>1, TabNow DEF TabType, PlayType, Tab
    <3> QED BY ONLY <1>1, <3>1
  <2> HIDE DEF x
  <2>2. Becomes(x)
    BY <1>5 DEF PlaybackGoesOn, x
  <2> QED BY <2>1, <2>2, BecomesSilent
<1>6. CASE PlaybackEnds
  <2> DEFINE x == [Tab EXCEPT !.play.playing = FALSE, !.play.ready = FALSE, !.play.ending = TRUE]
  <2>1. Silently(x)
    <3>1. x \in TabType /\ x.play.audio = play.audio
      BY TabNow DEF TabType, PlayType, Tab
    <3> QED BY ONLY <1>1, <3>1
  <2> HIDE DEF x
  <2>2. \E op : Becomes(Later(x, op))
    BY <1>6 DEF PlaybackEnds, x
  <2> QED BY <2>1, <2>2, SilentSteps, BecomesSilent
<1>7. CASE PressPlay
  <2> DEFINE x == Play(Tab)
  <2>1. Silently(x)
    <3>1. x \in TabType /\ x.play.audio = play.audio
      BY <1>7, TabNow DEF Play, PressPlay, TabType, PlayType, Tab
    <3> QED BY ONLY <1>1, <3>1
  <2> HIDE DEF x
  <2>2. Becomes(x)
    BY <1>7 DEF PressPlay, x
  <2> QED BY <2>1, <2>2, BecomesSilent
<1>8. CASE PressPause
  <2> DEFINE x == [Tab EXCEPT !.play.playing = FALSE, !.play.ready = FALSE]
  <2>1. Silently(x)
    <3>1. x \in TabType /\ x.play.audio = play.audio
      BY TabNow DEF TabType, PlayType, Tab
    <3> QED BY ONLY <1>1, <3>1
  <2> HIDE DEF x
  <2>2. Becomes(GivenUp(x)) \/ \E op : Becomes(Later(x, op))
    BY <1>8 DEF PressPause, x
  <2> QED BY <2>1, <2>2, SilentSteps, BecomesSilent
<1>9. CASE SourceFails
  <2> DEFINE x == [Tab EXCEPT !.play.phase = "failed", !.play.playing = FALSE,
                              !.play.ready = FALSE, !.play.ending = FALSE]
  <2>1. Silently(x)
    <3>1. x \in TabType /\ x.play.audio = play.audio
      BY TabNow DEF TabType, PlayType, Tab
    <3> QED BY ONLY <1>1, <3>1
  <2> HIDE DEF x
  <2>2. Becomes(x)
    BY <1>9 DEF SourceFails, x
  <2> QED BY <2>1, <2>2, BecomesSilent
<1> QED BY <1>3, <1>4, <1>5, <1>6, <1>7, <1>8, <1>9 DEF Player

(* Downloads load none. *)
LEMMA EndedDownloadsLoadNothing ==
    ASSUME IInv, NEW f,
           DownloadGoesOn(f) \/ DownloadCompletes(f) \/ DownloadInvalidated(f) \/ DownloadFails(f)
    PROVE  play'.audio \in {play.audio, NoSource}
<1>1. Whole(Tab) /\ Silently(Tab)
  BY TabWhole, OpsLoadNothing DEF Silently
<1>2. \A open, left : Silently([Tab EXCEPT !.ops = open, !.net = left])
  BY <1>1, OpsLoadNothing DEF Silently
<1>3. CASE DownloadFails(f)
  <2> DEFINE open == ops \ Waiting(f)
             left == [net EXCEPT !.saving = @ \ {f}, !.doomed = @ \ {f}]
             missed == past.missed \/ (page.current = f /\ page.mark)
             failed == [past EXCEPT !.unread = @ \union ({f} \cap disk.saved), !.missed = missed]
             x == [Tab EXCEPT !.ops = open, !.net = left]
             y == [x EXCEPT !.past = failed]
  <2>1. Becomes(y)
    BY <1>3 DEF DownloadFails, Tab
  <2> HIDE DEF open, left, failed
  <2>2. Silently(x)
    BY <1>2
  <2> HIDE DEF x
  <2>3. Silently(y)
    BY <2>2, SilentSteps
  <2> HIDE DEF y
  <2> QED BY <2>1, <2>3, BecomesSilent
<1>4. CASE DownloadCompletes(f)
  <2> DEFINE saved == [Tab EXCEPT !.ops = @ \ Waiting(f), !.net.saving = @ \ {f}]
             change == [removed |-> FALSE, file |-> f]
  <2>1. PICK mark :
            LET marks == IF page.disposed \/ Waiting(f) = {} THEN saved
                         ELSE [saved EXCEPT !.page.marked[f] = TRUE, !.page.mark = mark,
                                            !.past.unread = @ \ {f}]
                over == IF page.disposed \/ page.current # f THEN marks ELSE Switch(marks, NoTime)
            IN  Becomes(IF f \in disk.saved THEN over ELSE Reconcile(over, change))
    BY <1>4 DEF DownloadCompletes
  <2> DEFINE marked == [saved.page.marked EXCEPT ![f] = TRUE]
             bare == [saved.page EXCEPT !.marked = marked, !.mark = mark]
             read == [saved.past EXCEPT !.unread = @ \ {f}]
             x == [saved EXCEPT !.page = bare, !.past = read]
             y == [saved EXCEPT !.page.marked[f] = TRUE, !.page.mark = mark,
                                !.past.unread = @ \ {f}]
             marks == IF page.disposed \/ Waiting(f) = {} THEN saved ELSE y
             over == IF page.disposed \/ page.current # f THEN marks ELSE Switch(marks, NoTime)
  <2>2. Becomes(IF f \in disk.saved THEN over ELSE Reconcile(over, change))
    BY <2>1
  <2>3. Silently(saved) /\ Whole(saved)
    <3>1. Silently(saved)
      BY <1>2
    <3> HIDE DEF saved
    <3> QED BY <3>1 DEF Silently, LoadsNothing
  <2> HIDE DEF saved, change
  <2>4. y = x
    BY <2>3 DEF Whole
  <2> HIDE DEF bare, read, y
  <2>5. Silently(x)
    BY <2>3, SilentSteps
  <2> HIDE DEF x
  <2>6. Silently(marks)
    BY <2>3, <2>4, <2>5
  <2> HIDE DEF marks
  <2>7. Silently(over)
    BY <2>6, SilentSteps
  <2> HIDE DEF over
  <2>8. Silently(Reconcile(over, change))
    BY <2>7, SilentSteps
  <2> QED BY <2>2, <2>7, <2>8, BecomesSilent
<1>5. CASE DownloadGoesOn(f)
  <2>1. PICK mark : Becomes([Tab EXCEPT !.page.marked[f] = FALSE, !.page.mark = mark])
    BY <1>5 DEF DownloadGoesOn
  <2> DEFINE marked == [page.marked EXCEPT ![f] = FALSE]
             bare == [page EXCEPT !.marked = marked, !.mark = mark]
             x == [Tab EXCEPT !.page = bare]
  <2>2. Becomes(x)
    BY <2>1 DEF Tab
  <2> HIDE DEF bare
  <2>3. Silently(x)
    BY <1>1, SilentSteps
  <2> HIDE DEF x
  <2> QED BY <2>2, <2>3, BecomesSilent
<1>6. CASE DownloadInvalidated(f)
  BY <1>1, <1>6, SilentSteps, BecomesSilent DEF DownloadInvalidated
<1> QED BY <1>3, <1>4, <1>5, <1>6

(* Nor does the user, nor another tab, before what they ask for was looked for. *)
LEMMA UsersLoadNothing ==
    ASSUME IInv, Acts \/ Others \/ \E change \in news : HandleNews(change)
    PROVE  play'.audio \in {play.audio, NoSource}
<1>1. Silently(Tab) /\ Whole(Tab)
  BY TabWhole, OpsLoadNothing DEF Silently
<1>2. ASSUME NEW f, NEW at, PickFile(f, at) PROVE play'.audio \in {play.audio, NoSource}
  BY <1>1, <1>2, SilentSteps, BecomesSilent DEF PickFile
<1>3. CASE CleanBookData
  BY <1>1, <1>3, SilentSteps, BecomesSilent DEF CleanBookData
<1>4. CASE RemoveBook
  BY <1>1, <1>4, SilentSteps, BecomesSilent DEF RemoveBook
<1>5. ASSUME NEW f, RemoveFile(f) PROVE play'.audio \in {play.audio, NoSource}
  BY <1>1, <1>5, SilentSteps, BecomesSilent DEF RemoveFile
<1>6. ASSUME NEW stored, SetTorrentInfo(stored) PROVE play'.audio \in {play.audio, NoSource}
  BY <1>1, <1>6, SilentSteps, BecomesSilent DEF SetTorrentInfo
<1>7. CASE Authorize
  <2> DEFINE x == [Tab EXCEPT !.page.allowed = TRUE]
  <2>1. Silently(x)
    BY <1>1, SilentSteps
  <2> HIDE DEF x
  <2>2. Becomes(x)
    BY <1>7 DEF Authorize, x
  <2> QED BY <2>1, <2>2, BecomesSilent
<1>8. CASE Dispose
  <2> DEFINE m == NewMetadataRequest(NewSourceRequest(Tab))
             left == [m.net EXCEPT !.urls = @ - Urls(m.play.audio)]
             bare == [m.page EXCEPT !.disposed = TRUE]
             none == [m.past EXCEPT !.wanted = NoFile, !.opening = NoFile]
             x == [m EXCEPT !.net = left, !.play = Silent, !.page = bare, !.past = none]
  <2>1. Whole(m)
    BY <1>1, SilentSteps DEF Silently, LoadsNothing
  <2>2. Becomes([ClearSource(m) EXCEPT !.page.disposed = TRUE, !.past.wanted = NoFile,
                                       !.past.opening = NoFile])
    BY <1>8 DEF Dispose
  <2> HIDE DEF m
  <2>3. ClearSource(m) = [m EXCEPT !.net = left, !.play = Silent]
    BY DEF ClearSource
  <2> HIDE DEF left
  <2>4. [ClearSource(m) EXCEPT !.page.disposed = TRUE, !.past.wanted = NoFile,
                               !.past.opening = NoFile] = x
    BY <2>1, <2>3 DEF Whole
  <2>5. Becomes(x)
    BY <2>2, <2>4
  <2> HIDE DEF bare, none
  <2>6. x.play = Silent
    BY <2>1 DEF Whole
  <2> HIDE DEF x
  <2> QED BY <2>5, <2>6 DEF Becomes, Silent
<1>9. ASSUME UNCHANGED play PROVE play'.audio \in {play.audio, NoSource}
  BY <1>9
<1>10. ASSUME NEW change, HandleNews(change) PROVE play'.audio \in {play.audio, NoSource}
  BY <1>1, <1>10, SilentSteps, BecomesSilent DEF HandleNews
<1>11. ASSUME NEW f, OtherTabSaves(f) \/ OtherTabRemoves(f) \/ OtherTabRemovesBook
       PROVE  UNCHANGED play
  BY <1>11 DEF OtherTabSaves, OtherTabRemoves, OtherTabRemovesBook, ThisTab
<1>12. ASSUME SaveCurrentPlaying PROVE UNCHANGED play
  BY <1>12 DEF SaveCurrentPlaying
<1>13. ASSUME NEW f, \/ DownloadGoesOn(f) \/ DownloadCompletes(f)
                     \/ DownloadInvalidated(f) \/ DownloadFails(f)
       PROVE  play'.audio \in {play.audio, NoSource}
  BY <1>13, EndedDownloadsLoadNothing
<1>14. ASSUME Others PROVE play'.audio \in {play.audio, NoSource}
  <2>1. PressPlay \/ SaveCurrentPlaying \/ \E f : \/ DownloadGoesOn(f) \/ DownloadCompletes(f)
                                                \/ DownloadInvalidated(f)
    BY <1>14 DEF Others, SaveWhilePlaying
  <2> QED BY <1>9, <1>12, <1>13, <2>1, PlayerLoadsNothing
<1>15. ASSUME Acts PROVE play'.audio \in {play.audio, NoSource}
  <2>1. \/ \E f, at : PickFile(f, at)
        \/ CleanBookData \/ RemoveBook \/ \E f : RemoveFile(f)
        \/ \E stored : SetTorrentInfo(stored)
        \/ PressPause \/ SaveCurrentPlaying \/ Authorize \/ Dispose
        \/ \E f : OtherTabSaves(f) \/ OtherTabRemoves(f) \/ OtherTabRemovesBook
        \/ SourceFails \/ \E f : DownloadFails(f)
    BY <1>15 DEF Acts, SaveWhenHidden
  <2> QED BY <1>2, <1>3, <1>4, <1>5, <1>6, <1>7, <1>8, <1>9, <1>11, <1>12, <1>13, <2>1,
             PlayerLoadsNothing
<1> QED BY <1>10, <1>14, <1>15

(* A source is loaded for the chapter that was set out to be opened last, or another *)
(* one for the chapter that plays, while nobody listens.                             *)
LEMMA WhatLoads ==
    ASSUME IInv, NEW op \in ops, OpenSource(op) \/ SwitchSource(op),
           play'.audio # play.audio, play'.audio # NoSource
    PROVE  /\ past'.wanted = past.wanted /\ past'.opening = past.opening
           /\ past.wanted # NoFile
           /\ \/ op.do = "open" /\ op.fresh /\ op.file = play'.audio.file /\ op.file = past.opening
              \/ ~play.playing /\ ~play.ready /\ play'.audio.file = play.audio.file
<1>1. CASE OpenSource(op)
  <2>1. PICK source \in {SourceOf(op.file), NoSource}, mark \in Marks(op) :
            Becomes(CASE ~Current(op) -> Finished(op)
                      [] Current(op) /\ Refused(source) -> GivenUp(Finished(op))
                      [] Current(op) /\ ~Refused(source) ->
                           Opened(Without(op), op, source, mark))
    BY <1>1 DEF OpenSource
  <2>2. op.do = "open" /\ OpSound(op, Tab) /\ Tab.past = past
    BY <1>1, TabNow DEF OpenSource
  <2>3. ~Becomes(Finished(op)) /\ ~Becomes(GivenUp(Finished(op)))
    <3>1. Silently(Finished(op)) /\ Silently(GivenUp(Finished(op)))
      BY TabWhole, SilentSteps DEF Silently
    <3> QED BY <3>1, BecomesSilent
  <2>4. Current(op) /\ ~Refused(source) /\ Becomes(Opened(Without(op), op, source, mark))
    BY <2>1, <2>3
  <2>5. op.fresh /\ op.file \in Files /\ op.file = past.opening
    BY <2>2, <2>4 DEF Current, OpSound
  <2>6. source = SourceOf(op.file) /\ source.file = op.file /\ source # NoSource
    BY <2>1, <2>4, <2>5, SourceOfFacts DEF Refused
  <2>7. past.wanted # NoFile
    BY <2>5, TabNow, Nothing DEF Sound, Asked
  <2> DEFINE t == Without(op)
             s == Stale(t, Downloads)
             bare == [s.page EXCEPT !.current = op.file, !.kind = source.kind, !.mark = mark]
             x == [s EXCEPT !.page = bare]
             y == LoadSource(x, source, op.at, op.auto)
             own == TRUE
  <2>8. Whole(t) /\ t.past = past
    BY TabWhole, WithoutFacts DEF LoadsNothing
  <2> HIDE DEF t
  <2>9. Whole(s) /\ s.past = past
    <3> DEFINE open == {IF o.do \in Downloads THEN [o EXCEPT !.fresh = FALSE] ELSE o : o \in t.ops}
    <3>1. s = [t EXCEPT !.ops = open]
      BY DEF Stale
    <3> HIDE DEF s, open
    <3> QED BY <2>8, <3>1 DEF Whole
  <2> HIDE DEF s
  <2>10. [s EXCEPT !.page.current = op.file, !.page.kind = source.kind, !.page.mark = mark] = x
    BY <2>9 DEF Whole
  <2>11. Opened(t, op, source, mark)
            = IF source.kind = "server" THEN CacheOfflineFile(y, op.file, own) ELSE y
    BY <2>10 DEF Opened, s
  <2> HIDE DEF bare, own
  <2>12. Whole(x) /\ x.past = past
    BY <2>9 DEF Whole
  <2> HIDE DEF x
  <2> DEFINE plays == op.auto \/ x.play.playing \/ x.play.ready
             begun == [Silent EXCEPT !.audio = source, !.phase = "loading", !.seek = op.at,
                                     !.ready = plays]
             left == [x.net EXCEPT !.urls = @ - Urls(x.play.audio) + Urls(source)]
             reset == [x.past EXCEPT !.missed = FALSE]
  <2>13. begun.audio = source
    BY DEF Silent
  <2>14. reset.wanted = past.wanted /\ reset.opening = past.opening
    BY <2>12, TabNow DEF PastType
  <2>15. y = [x EXCEPT !.net = left, !.play = begun, !.past = reset]
    BY <2>12 DEF LoadSource, Whole
  <2> HIDE DEF y, left, begun, reset
  <2>16. y = [page |-> x.page, play |-> begun, ops |-> x.ops, net |-> left, past |-> reset]
    BY <2>12, <2>15 DEF Whole
  <2>17. /\ CacheOfflineFile(y, op.file, own).play = y.play
         /\ CacheOfflineFile(y, op.file, own).past = y.past
    BY <2>16 DEF CacheOfflineFile, Later
  <2>18. play'.audio = source /\ past' = reset
    BY <2>4, <2>11, <2>13, <2>16, <2>17 DEF Becomes, t
  <2> QED BY <2>2, <2>5, <2>6, <2>7, <2>14, <2>18
<1>2. CASE SwitchSource(op)
  <2>1. PICK kind \in {"offline", "server"} :
            Becomes(IF StillFits(op, kind)
                    THEN LoadSource([Without(op) EXCEPT !.page.kind = kind], SourceOf(op.file),
                                    IF op.at = NoTime THEN play.time ELSE op.at, FALSE)
                    ELSE Finished(op))
    BY <1>2 DEF SwitchSource
  <2> DEFINE t == Without(op)
             x == [t EXCEPT !.page.kind = kind]
             y == LoadSource(x, SourceOf(op.file),
                             IF op.at = NoTime THEN play.time ELSE op.at, FALSE)
             reset == [past EXCEPT !.missed = FALSE]
  <2>2. StillFits(op, kind) /\ Becomes(y)
    BY <2>1, TabWhole, BecomesSilent DEF Silently
  <2>3. /\ op.file = page.current /\ page.kind # "none" /\ ~page.disposed
        /\ ~play.playing /\ ~play.ready
    BY <2>2, TabNow DEF StillFits, SwitchKind, Current
  <2>4. play.audio.file = page.current /\ past.wanted # NoFile /\ page.current \in Files
    BY <2>3, TabNow DEF Sound, PageType
  <2>5. Whole(t) /\ t.past = past
    BY TabWhole, WithoutFacts DEF LoadsNothing
  <2> HIDE DEF t
  <2>6. Whole(x) /\ x.past = past
    BY <2>5 DEF Whole
  <2> HIDE DEF x
  <2>7. y.play.audio = SourceOf(op.file) /\ y.past = reset
    BY <2>6 DEF LoadSource, Whole, Silent
  <2> HIDE DEF y
  <2>8. reset.wanted = past.wanted /\ reset.opening = past.opening
    BY TabNow DEF PastType
  <2>9. play'.audio = SourceOf(op.file) /\ past' = reset
    BY <2>2, <2>7 DEF Becomes
  <2> QED BY <2>3, <2>4, <2>8, <2>9, SourceOfFacts
<1> QED BY <1>1, <1>2

(* So it is for every step. *)
LEMMA WhoLoads ==
    ASSUME IInv, [Next]_vars, play'.audio # play.audio, play'.audio # NoSource
    PROVE  /\ past'.wanted = past.wanted /\ past'.opening = past.opening
           /\ past.wanted # NoFile
           /\ \/ \E op \in ops : /\ op.do = "open" /\ op.fresh
                                 /\ op.file = play'.audio.file /\ op.file = past.opening
              \/ ~play.playing /\ ~play.ready /\ play'.audio.file = play.audio.file
<1>1. ~UNCHANGED vars
  BY DEF vars
<1>2. ASSUME Player \/ Others \/ Acts \/ \E change \in news : HandleNews(change)
      PROVE  FALSE
  BY <1>2, PlayerLoadsNothing, UsersLoadNothing
<1>3. ASSUME NEW op \in ops, Fail(op) PROVE FALSE
  BY <1>3, FailuresLoadNothing
<1>4. PICK op \in ops : Resolve(op)
  BY <1>1, <1>2, <1>3 DEF Next
<1>5. OpenSource(op) \/ SwitchSource(op)
  BY <1>4, HandlersLoadNothing
<1> QED BY <1>5, WhatLoads

(* Whatever requests, ends of chapters, resumptions, failures and removals overlap: the *)
(* source that is loaded is of the chapter chosen last, or the other one of the chapter *)
(* that plays, or of the chapter that was being opened when the one that plays was      *)
(* chosen again; and none is loaded once playing was given up.                          *)
THEOREM OnlyWhatWasAskedLoads == Spec => LoadsWhatWasAsked
<1>1. ASSUME IInv, [Next]_vars
      PROVE  [play'.audio # play.audio /\ play'.audio # NoSource
                => LET f == play'.audio.file
                   IN  \/ f = past'.wanted
                       \/ past'.wanted # NoFile /\ f = play.audio.file
                       \/ f = past'.opening /\ past'.wanted = play.audio.file]_vars
  <2>1. Asked(past, play.audio)
    BY <1>1, TabNow DEF Sound
  <2> QED BY <1>1, <2>1, WhoLoads DEF Asked
<1> QED BY <1>1, Invariant, PTL DEF Spec, LoadsWhatWasAsked

(* Changing over to the other source, whenever it is decided and however long the copy *)
(* takes to read, interrupts nobody who listens or wants to.                           *)
THEOREM ListenersAreNotInterrupted == Spec => NobodyInterrupted
<1>1. ASSUME IInv, [Next]_vars
      PROVE  [play'.audio # play.audio /\ play'.audio # NoSource /\ (play.playing \/ play.ready)
                => \E op \in ops : op.do = "open" /\ op.fresh /\ op.file = play'.audio.file]_vars
  BY <1>1, WhoLoads
<1> QED BY <1>1, Invariant, PTL DEF Spec, NobodyInterrupted
================================================================================
