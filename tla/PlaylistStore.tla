----------------------------- MODULE PlaylistStore -----------------------------
(***************************************************************************)
(* The page that plays a book: useBookStore in                             *)
(* src/src/routes/Playlist/store.js with the player's store and the Player *)
(* it drives (Player/store.js, Player/player.js).                          *)
(*                                                                         *)
(* Every handler is asynchronous, and any number of them are under way at  *)
(* once: an op is what is left of one of them after an await.  Handlers    *)
(* notice that they were superseded by request numbers; of a number only   *)
(* matters whether it is still the latest, which is the op's fresh.        *)
(*                                                                         *)
(* A file plays from the server or from the copy saved in IndexedDB, and   *)
(* the page changes over whenever nobody listens.                          *)
(***************************************************************************)
EXTENDS Integers, FiniteSets

CONSTANTS
    Last,    \* the chapters are 1..Last, in playing order
    Length,  \* the end of a chapter; positions are 0..Length
    Books,   \* what the page may find: what is saved, where it was left, what is allowed
    MaxActs, \* bound: how often the user and other tabs act and handlers fail
    MaxOps   \* bound: new things begin only while fewer handlers and announcements are open

ASSUME LastAssumption == Last \in Nat \ {0}
ASSUME LengthAssumption == Length \in Nat \ {0}
ASSUME BoundsAssumption == MaxActs \in Nat \ {0} /\ MaxOps \in Nat \ {0}

Files == 1..Last
NoFile == 0
Times == 0..Length
NoTime == -1

VARIABLES
    page,  \* fields of the book store
    play,  \* fields of the player's store and of the Player
    ops,   \* handlers under way
    disk,  \* IndexedDB: saved copies, the book's row with its resume position
    net,   \* what the tab's downloads and its object URLs amount to
    news,  \* changes other tabs announced and this one has not handled
    past,  \* history: what was chosen and what failed
    rows,  \* history: the chapters whose rows may be copies, which are marked as saved
    acts   \* how often the user and other tabs may still act, and reads and writes fail

vars == <<page, play, ops, disk, net, news, past, rows, acts>>

(* Of the past it is remembered                                                        *)
(*   wanted   the chapter that was chosen last, NoFile when playing was given up,      *)
(*   opening  the chapter that was last set out to be opened, likewise,                *)
(*   missed   whether a handler that might have changed the source over to the saved   *)
(*            copy has failed since the source was loaded,                             *)
(*   unread   the chapters whose marks a failed handler left behind.                   *)

Kinds == {"none", "server", "offline"}
Sources == [file : Files, kind : {"server", "offline"}]
NoSource == [file |-> NoFile, kind |-> "none"]
Nowhere == [file |-> NoFile, time |-> 0]

ASSUME BooksAssumption ==
    Books \subseteq [saved : SUBSET Files, allowed : BOOLEAN,
                     state : [file : Files, time : Times] \union {Nowhere}]

SourceOps == {"change", "open", "toOffline", "toServer", "end", "next"}
MetadataOps == {"info", "stored", "bytes", "resume"}
OtherOps == {"pause", "save", "settle", "refresh", "clean", "cleared", "drop", "dropped",
             "erase", "remove"}

Downloads == {"save", "settle"}

(* at: the position to start at; auto: whether to play or to resume; marked: whether   *)
(* the file at hand is marked as saved; ends: whether the end of a chapter is over     *)
(* with it; fresh, of a download: whether the file at hand is the one the page plays   *)
(* (files are objects, and a path has several: the one listed, copies of it in the     *)
(* rows of the page, the one that plays).                                              *)
Op(do, f, at, auto) ==
    [do |-> do, file |-> f, at |-> at, auto |-> auto, marked |-> FALSE, ends |-> do = "end",
     fresh |-> TRUE]
Changes == [removed : BOOLEAN, file : Files \union {NoFile}]  \* NoFile: the whole book

TypeOK ==
    /\ page \in [current : Files \union {NoFile}, kind : Kinds, mark : BOOLEAN,
                 marked : [Files -> BOOLEAN], listed : BOOLEAN, allowed : BOOLEAN,
                 disposed : BOOLEAN]
    /\ play \in [audio : Sources \union {NoSource}, phase : {"none", "loading", "loaded", "failed"},
                 playing : BOOLEAN, ready : BOOLEAN, ending : BOOLEAN,
                 time : Times, seek : Times]
    /\ ops \subseteq [do : SourceOps \union MetadataOps \union OtherOps,
                      file : Files \union {NoFile}, at : Times \union {NoTime},
                      auto : BOOLEAN, marked : BOOLEAN, ends : BOOLEAN, fresh : BOOLEAN]
    /\ disk \in [saved : SUBSET Files, kept : BOOLEAN,
                 state : [file : Files, time : Times] \union {Nowhere}]
    /\ net \in [saving : SUBSET Files, doomed : SUBSET Files, urls : Nat]
    /\ news \subseteq Changes
    /\ past \in [wanted : Files \union {NoFile}, opening : Files \union {NoFile},
                 missed : BOOLEAN, unread : SUBSET Files]
    /\ rows \subseteq Files
    /\ acts \in 0..MaxActs

Silent == [audio |-> NoSource, phase |-> "none", playing |-> FALSE, ready |-> FALSE,
           ending |-> FALSE, time |-> 0, seek |-> 0]

(* A page that has just been opened, on a book that may have been played before *)
Init ==
    /\ \E book \in Books :
          /\ page = [current |-> NoFile, kind |-> "none", mark |-> FALSE,
                     marked |-> [f \in Files |-> FALSE], listed |-> FALSE,
                     allowed |-> book.allowed, disposed |-> FALSE]
          /\ disk = [saved |-> book.saved, kept |-> TRUE, state |-> book.state]
    /\ play = Silent
    /\ ops = {Op(IF page.allowed THEN "info" ELSE "stored", NoFile, NoTime, TRUE)}
    /\ net = [saving |-> {}, doomed |-> {}, urls |-> 0]
    /\ news = {}
    /\ past = [wanted |-> NoFile, opening |-> NoFile, missed |-> FALSE, unread |-> {}]
    /\ rows = {}
    /\ acts = MaxActs

--------------------------------------------------------------------------------
(* What handlers are made of: each operator maps a state of the tab to the next. *)
(* t collects page, play, ops and net, and past.                                 *)

Tab == [page |-> page, play |-> play, ops |-> ops, net |-> net, past |-> past]
Becomes(t) ==
    /\ page' = t.page /\ play' = t.play /\ ops' = t.ops /\ net' = t.net /\ past' = t.past

Without(op) == [Tab EXCEPT !.ops = @ \ {op}]
Finished(op) == [Without(op) EXCEPT !.play.ending = @ /\ ~op.ends]
Later(t, op) == [t EXCEPT !.ops = @ \union {op}]

Stale(t, kinds) ==
    [t EXCEPT !.ops = {IF op.do \in kinds THEN [op EXCEPT !.fresh = FALSE] ELSE op : op \in @}]

(* sourceRequestId += 1, metadataRequestId += 1 *)
NewSourceRequest(t) == Stale(t, SourceOps)
NewMetadataRequest(t) == Stale(t, MetadataOps)

(* isCurrentSourceRequest, isCurrentMetadataRequest *)
Current(op) == op.fresh /\ ~page.disposed

(* A failed read or write ends a handler that might have changed the source over, or *)
(* leaves the marks of files as they are.                                             *)
GivenUp(t) == [t EXCEPT !.past.missed = TRUE]
MarksLost(t, files) ==
    [t EXCEPT !.past.unread = @ \union files, !.past.missed = @ \/ t.page.current \in files]

(* The URL of a saved copy holds the copy in memory until it is revoked. *)
Urls(source) == IF source.kind = "offline" THEN 1 ELSE 0

ClearSource(t) ==
    [t EXCEPT !.net.urls = @ - Urls(t.play.audio), !.play = Silent]

FaultyLoadSource(t, source, at, auto) ==
    [t EXCEPT !.net.urls = @ + Urls(source),
              !.play = [Silent EXCEPT !.audio = source, !.phase = "loading", !.seek = at,
                                      !.ready = auto \/ t.play.playing \/ t.play.ready],
              !.past.missed = FALSE]

(* Until the new source has loaded its position reads 0. *)
LoadSource(t, source, at, auto) ==
    [t EXCEPT !.net.urls = @ - Urls(t.play.audio) + Urls(source),
              !.play = [Silent EXCEPT !.audio = source, !.phase = "loading", !.seek = at,
                                      !.ready = auto \/ t.play.playing \/ t.play.ready],
              !.past.missed = FALSE]

NoCurrentFile(t) ==
    [Stale(ClearSource(t), Downloads)
        EXCEPT !.page.current = NoFile, !.page.kind = "none", !.page.mark = FALSE,
               !.past.wanted = NoFile, !.past.opening = NoFile]

(* createResumeSnapshot and persistResumeSnapshot, at a position *)
Snapshot == play.audio # NoSource /\ page.current # NoFile
Persisted(at) ==
    IF Snapshot /\ disk.kept
    THEN [disk EXCEPT !.state = [file |-> page.current, time |-> at]]
    ELSE disk

Flush(at) == disk' \in {disk, Persisted(at)}  \* the write may fail

(* cacheOfflineFile, up to the download; own: of the file object the page plays *)
CacheOfflineFile(t, f, own) ==
    IF t.page.allowed
    THEN Later([t EXCEPT !.net.saving = @ \union {f}],
               [Op("save", f, NoTime, FALSE) EXCEPT !.fresh = own])
    ELSE t

(* switchCurrentSourceToOffline and ...ToServer, up to the read of the copy *)
SwitchKind(t) ==
    CASE t.play.phase = "loading" \/ t.play.ready \/ t.play.playing -> "none"
      [] OTHER ->
           CASE t.page.kind = "server" /\ t.page.mark -> "offline"
             [] t.page.kind = "offline" /\ ~t.page.mark /\ t.page.allowed -> "server"
             [] OTHER -> "none"

Switch(t, at) ==
    CASE SwitchKind(t) = "offline" -> Later(t, [Op("toOffline", t.page.current, at, FALSE) EXCEPT !.ends = at = 0])
      [] SwitchKind(t) = "server" -> Later(t, [Op("toServer", t.page.current, at, FALSE) EXCEPT !.ends = at = 0])
      [] OTHER -> t

SeekTo(t, at) ==
    IF t.play.phase = "loaded" THEN [t EXCEPT !.play.time = at] ELSE [t EXCEPT !.play.seek = at]

Play(t) == [t EXCEPT !.play.ready = t.play.audio # NoSource /\ ~t.play.ending]

(* reuseAuthorizedCurrentSource *)
Reuses(t, f) ==
    /\ f = t.page.current /\ t.play.audio # NoSource /\ t.play.phase # "failed"
    /\ t.page.allowed \/ t.page.kind # "server"

(* setCurrentFile, up to the flush of the previous position.  Choosing the chapter that *)
(* is loaded supersedes nothing: one that is still being opened will replace it.        *)
SetCurrentFile(t, f, at, auto, marked) ==
    IF Reuses(t, f)
    THEN LET t0 == [t EXCEPT !.past.wanted = f]
             t1 == IF at # NoTime THEN SeekTo(t0, at) ELSE t0
             t2 == IF marked THEN t1 ELSE CacheOfflineFile(t1, f, FALSE)
         IN  IF marked /\ t2.page.kind = "server" THEN Switch(t2, NoTime) ELSE t2
    ELSE Later([NewSourceRequest(t) EXCEPT !.past.wanted = f, !.past.opening = f],
               [Op("change", f, IF at = NoTime THEN 0 ELSE at, auto \/ t.play.playing)
                    EXCEPT !.ends = auto, !.marked = marked])

--------------------------------------------------------------------------------
(* Choosing a chapter *)

MayAct == ~page.disposed /\ acts > 0

(* A chapter is chosen by its row, or with a position by a note, which takes the file *)
(* of the list.                                                                       *)
PickFile(f, at) ==
    /\ MayAct /\ page.listed
    /\ \E marked \in {page.marked[f], page.marked[f] \/ (at = NoTime /\ f \in rows)} :
          Becomes(SetCurrentFile(Tab, f, at, FALSE, marked))
    /\ IF Reuses(Tab, f) THEN UNCHANGED disk ELSE Flush(play.time)
    /\ UNCHANGED news

(* After the flush *)
ChangeFile(op) ==
    /\ op.do = "change"
    /\ Becomes(IF Current(op) THEN Later(Without(op), [op EXCEPT !.do = "open"])
               ELSE Finished(op))
    /\ UNCHANGED <<disk, news>>

SourceOf(f) == [file |-> f, kind |-> IF f \in disk.saved THEN "offline" ELSE "server"]

(* activatePlayableSource and cacheServerSourceOffline *)
Opened(t, op, source, mark) ==
    LET loaded == LoadSource([Stale(t, Downloads)
                                 EXCEPT !.page.current = op.file, !.page.kind = source.kind,
                                        !.page.mark = mark],
                             source, op.at, op.auto)
    IN  IF source.kind = "server" THEN CacheOfflineFile(loaded, op.file, TRUE) ELSE loaded

(* The file at hand is the one of the list or a copy, marked as it was when chosen. *)
Marks(op) == {page.marked[op.file], op.marked}

Refused(source) == source = NoSource \/ (source.kind = "server" /\ ~page.allowed)

FaultyOpenSource(op) ==
    /\ op.do = "open"
    /\ \E source \in {SourceOf(op.file), NoSource}, mark \in Marks(op) :
          Becomes(IF Refused(source) THEN GivenUp(Finished(op))
                  ELSE Opened(Without(op), op, source, mark))
    /\ UNCHANGED <<disk, news>>

(* resolvePlayableSource: the URL of a superseded request is released at once. *)
OpenSource(op) ==
    /\ op.do = "open"
    /\ \E source \in {SourceOf(op.file), NoSource}, mark \in Marks(op) :  \* NoSource: the read failed
          Becomes(CASE ~Current(op) -> Finished(op)
                    [] Current(op) /\ Refused(source) -> GivenUp(Finished(op))
                    [] Current(op) /\ ~Refused(source) -> Opened(Without(op), op, source, mark))
    /\ UNCHANGED <<disk, news>>

FaultyStillFits(op, kind) == op.fresh /\ SourceOf(op.file).kind = kind

(* Everything is asked again once the copy was read. *)
StillFits(op, kind) ==
    /\ Current(op) /\ op.file = page.current
    /\ SwitchKind(Tab) = kind
    /\ SourceOf(op.file).kind = kind

SwitchSource(op) ==
    \E kind \in {"offline", "server"} :
        /\ op.do = (IF kind = "offline" THEN "toOffline" ELSE "toServer")
        /\ Becomes(IF StillFits(op, kind)
                   THEN LoadSource([Without(op) EXCEPT !.page.kind = kind], SourceOf(op.file),
                                   IF op.at = NoTime THEN play.time ELSE op.at, FALSE)
                   ELSE Finished(op))
        /\ UNCHANGED <<disk, news>>

(* The read of the copy fails, and nobody is told. *)
SwitchFails(op) ==
    /\ op.do \in {"toOffline", "toServer"}
    /\ Becomes(IF Current(op) THEN GivenUp(Finished(op)) ELSE Finished(op))
    /\ UNCHANGED <<disk, news>>

--------------------------------------------------------------------------------
(* The player.  Callbacks of an earlier source are ignored by its revision. *)

FaultySourceLoads ==
    /\ play.phase = "loading"
    /\ Becomes([Tab EXCEPT !.play.phase = "loaded", !.play.time = play.seek])
    /\ UNCHANGED <<disk, news>>

SourceLoads ==
    /\ play.phase = "loading"
    /\ Becomes(Switch([Tab EXCEPT !.play.phase = "loaded", !.play.time = play.seek], NoTime))
    /\ UNCHANGED <<disk, news>>

SourceFails ==
    /\ play.phase \in {"loading", "loaded"}
    /\ Becomes([Tab EXCEPT !.play.phase = "failed", !.play.playing = FALSE,
                           !.play.ready = FALSE, !.play.ending = FALSE])
    /\ UNCHANGED <<disk, news>>

PlaybackStarts ==
    /\ play.phase = "loaded" /\ play.ready
    /\ LET t == [Tab EXCEPT !.play.ready = FALSE, !.play.playing = TRUE,
                            !.play.time = IF @ = Length THEN 0 ELSE @]
       IN  Becomes(IF page.kind = "server" /\ ~page.mark /\ page.current \notin net.saving
                   THEN CacheOfflineFile(t, page.current, TRUE) ELSE t)
    /\ UNCHANGED <<disk, news>>

PlaybackGoesOn ==
    /\ play.playing /\ play.time < Length
    /\ Becomes([Tab EXCEPT !.play.time = @ + 1])
    /\ UNCHANGED <<disk, news>>

(* handleEnd, handlePlaybackEnd *)
PlaybackEnds ==
    /\ play.playing /\ play.time = Length
    /\ Becomes(Later([Tab EXCEPT !.play.playing = FALSE, !.play.ready = FALSE,
                                 !.play.ending = TRUE],
                     Op("end", page.current, NoTime, FALSE)))
    /\ Flush(Length)
    /\ UNCHANGED news

EndSuperseded(op) == ~Current(op) \/ play.ready \/ play.playing

AfterEnd(op) ==
    /\ op.do = "end"
    /\ Becomes(IF EndSuperseded(op) THEN Finished(op)
               ELSE Later(Without(op), [op EXCEPT !.do = "next"]))
    /\ UNCHANGED <<disk, news>>

(* The last chapter may change over at its end; that is part of it.  *)
NextFile(op) ==
    /\ op.do = "next"
    /\ LET switched == Switch(Without(op), 0)
           after == page.current + 1
       IN  \/ EndSuperseded(op) /\ Becomes(Finished(op))
           \/ /\ ~EndSuperseded(op) /\ page.current \in {Last, NoFile}
              /\ Becomes(IF switched = Without(op) THEN Finished(op) ELSE switched)
           \/ /\ ~EndSuperseded(op) /\ page.current \notin {Last, NoFile}
              /\ Becomes(SetCurrentFile(Without(op), after, NoTime, TRUE,
                                        after \in disk.saved \/ page.marked[after]))
    /\ UNCHANGED <<disk, news>>

(* The read of the chapters fails: there is no next one, nor any change over. *)
NextFileFails(op) ==
    /\ op.do = "next"
    /\ Becomes(IF EndSuperseded(op) THEN Finished(op) ELSE GivenUp(Finished(op)))
    /\ UNCHANGED <<disk, news>>

PressPlay ==
    /\ ~page.disposed /\ ~play.ending /\ ~play.playing /\ ~play.ready
    /\ play.audio # NoSource
    /\ Becomes(Play(Tab))
    /\ UNCHANGED <<disk, news>>

(* handlePlaybackPause: the source may change once the position is written, and does *)
(* not if the write fails.                                                           *)
PressPause ==
    /\ MayAct /\ ~play.ending /\ (play.playing \/ play.ready)
    /\ LET paused == [Tab EXCEPT !.play.playing = FALSE, !.play.ready = FALSE]
       IN  \/ /\ disk' = Persisted(play.time)
              /\ Becomes(Later(paused, Op("pause", NoFile, NoTime, FALSE)))
           \/ /\ Snapshot /\ UNCHANGED disk
              /\ Becomes(GivenUp(paused))
    /\ UNCHANGED news

AfterPause(op) ==
    /\ op.do = "pause"
    /\ Becomes(Switch(Without(op), NoTime))
    /\ UNCHANGED <<disk, news>>

SaveCurrentPlaying ==
    /\ ~page.disposed
    /\ disk' = Persisted(play.time)
    /\ UNCHANGED <<page, play, ops, net, news, past>>

SaveWhenHidden == SaveCurrentPlaying
SaveWhilePlaying == play.playing /\ SaveCurrentPlaying  \* every few seconds

--------------------------------------------------------------------------------
(* Downloads and what is saved *)

Scope(f) == IF f = NoFile THEN Files ELSE {f}

FaultyRefreshed(t, f) ==
    [t EXCEPT !.page.marked = [g \in Files |-> @[g] \/ (g \in Scope(f) /\ g \in disk.saved)],
              !.page.mark = IF page.current \in Scope(f) THEN page.current \in disk.saved ELSE @,
              !.past.unread = @ \ Scope(f)]

(* applyPersistedOfflineState, for the list and for the current file *)
Refreshed(t, f) ==
    [t EXCEPT !.page.marked = [g \in Files |-> IF g \in Scope(f) THEN g \in disk.saved ELSE @[g]],
              !.page.mark = IF page.current \in Scope(f) THEN page.current \in disk.saved ELSE @,
              !.past.unread = @ \ Scope(f)]

RefreshOfflineState(op) ==
    /\ op.do = "refresh"
    /\ Becomes(IF page.disposed THEN Without(op)
               ELSE Switch(Refreshed(Without(op), op.file), NoTime))
    /\ UNCHANGED <<disk, news>>

(* A failed read is reported at best, and the marks stay as they are. *)
ReadOfMarksFails(op) ==
    /\ op.do \in {"refresh", "settle"}
    /\ Becomes(MarksLost(Without(op), Scope(op.file)))
    /\ UNCHANGED <<disk, news>>

(* cancelOfflineDownloads: those who wait for the download read what there is. *)
CancelDownloads(t, files) ==
    [t EXCEPT !.net.saving = @ \ files, !.net.doomed = @ \ files,
              !.ops = {IF op.do = "save" /\ op.file \in files
                       THEN [op EXCEPT !.do = "settle"] ELSE op : op \in @}]

(* reconcileOfflineChange: a removal cancels every download of the book. *)
Reconcile(t, change) ==
    Later(IF change.removed THEN CancelDownloads(t, Files) ELSE t,
          Op("refresh", change.file, NoTime, FALSE))

Waiting(f) == {op \in ops : op.do = "save" /\ op.file = f}

(* What marking one of the handlers' files does to the mark of the one that plays,  *)
(* if that is the same chapter: it is the same object, or may be.                   *)
MarkOf(f, handlers, value) ==
    IF page.current # f \/ handlers = {} THEN {page.mark}
    ELSE IF \E op \in handlers : op.fresh THEN {value} ELSE {page.mark, value}

(* applyOfflineProgress: until its download is complete a chapter is not saved. *)
DownloadGoesOn(f) ==
    /\ f \in net.saving /\ Waiting(f) # {} /\ page.listed /\ ~page.disposed
    /\ \E mark \in MarkOf(f, Waiting(f), FALSE) :
          Becomes([Tab EXCEPT !.page.marked[f] = FALSE, !.page.mark = mark])
    /\ UNCHANGED <<disk, news>>

(* The copy is complete, or was already.  Whoever asked for it marks it; a copy that *)
(* was not there is announced.                                                       *)
DownloadCompletes(f) ==
    /\ f \in net.saving \ net.doomed
    /\ \E mark \in MarkOf(f, Waiting(f), TRUE) :
          LET saved == [Tab EXCEPT !.ops = @ \ Waiting(f), !.net.saving = @ \ {f}]
              marks == IF page.disposed \/ Waiting(f) = {} THEN saved
                       ELSE [saved EXCEPT !.page.marked[f] = TRUE, !.page.mark = mark,
                                          !.past.unread = @ \ {f}]
              over == IF page.disposed \/ page.current # f THEN marks ELSE Switch(marks, NoTime)
          IN  Becomes(IF f \in disk.saved THEN over
                      ELSE Reconcile(over, [removed |-> FALSE, file |-> f]))
    /\ disk' = [disk EXCEPT !.saved = @ \union {f}]
    /\ UNCHANGED news

(* What it was to save has been removed since: it is aborted. *)
DownloadInvalidated(f) ==
    /\ f \in net.saving \cap net.doomed
    /\ Becomes(CancelDownloads(Tab, {f}))
    /\ UNCHANGED <<disk, news>>

(* It fails, and no mark is corrected. *)
DownloadFails(f) ==
    /\ f \in net.saving
    /\ Becomes([Tab EXCEPT !.ops = @ \ Waiting(f), !.net.saving = @ \ {f},
                           !.net.doomed = @ \ {f},
                           !.past.unread = @ \union ({f} \cap disk.saved),
                           !.past.missed = @ \/ (page.current = f /\ page.mark)])
    /\ UNCHANGED <<disk, news>>

(* handleOfflineCacheError, for an abort: a copy that is there after all is marked, and *)
(* nothing tries to play from it.                                                       *)
SettleAborted(op) ==
    /\ op.do = "settle"
    /\ \E mark \in MarkOf(op.file, {op}, op.file \in disk.saved) :
          Becomes(IF page.disposed THEN Without(op)
                  ELSE [Without(op) EXCEPT !.page.marked[op.file] = op.file \in disk.saved,
                                           !.page.mark = mark, !.past.unread = @ \ {op.file},
                                           !.past.missed = @ \/ (mark /\ ~page.mark)])
    /\ UNCHANGED <<disk, news>>

HandleNews(change) ==
    /\ ~page.disposed
    /\ news' = news \ {change}
    /\ Becomes(Reconcile(Tab, change))
    /\ UNCHANGED disk

--------------------------------------------------------------------------------
(* Removing *)

Doomed(t) == [t EXCEPT !.net.doomed = t.net.saving]

(* cleanBookData *)
CleanBookData ==
    /\ MayAct
    /\ \/ /\ disk' = Persisted(play.time)
          /\ Becomes(Later(NoCurrentFile(NewSourceRequest(Tab)), Op("clean", NoFile, NoTime, FALSE)))
       \/ Snapshot /\ UNCHANGED disk /\ Becomes(NoCurrentFile(NewSourceRequest(Tab)))
    /\ UNCHANGED news

CancelForClean(op) ==
    /\ op.do = "clean"
    /\ Becomes(Later(CancelDownloads(Without(op), Files), [op EXCEPT !.do = "cleared"]))
    /\ UNCHANGED <<disk, news>>

Load(t, stored, resume) ==
    Later(NewMetadataRequest(t), Op(IF stored THEN "stored" ELSE "info", NoFile, NoTime, resume))

(* A removal is one transaction: it fails, and nothing is removed or told. *)
RemovalFails(op) ==
    /\ op.do \in {"cleared", "remove", "erase"}
    /\ Becomes(Without(op))
    /\ UNCHANGED <<disk, news>>

RemoveCopies(op) ==
    /\ op.do = "cleared"
    /\ disk' = [disk EXCEPT !.saved = {}]
    /\ Becomes(Load(Reconcile(Doomed(Without(op)), [removed |-> TRUE, file |-> NoFile]),
                    ~page.allowed, FALSE))
    /\ UNCHANGED news

RemoveBook ==
    /\ MayAct
    /\ Becomes(Later(CancelDownloads(NoCurrentFile(NewMetadataRequest(NewSourceRequest(Tab))),
                                     Files),
                     Op("remove", NoFile, NoTime, FALSE)))
    /\ UNCHANGED <<disk, news>>

NoBook == [saved |-> {}, kept |-> FALSE, state |-> Nowhere]

RemoveRows(op) ==
    /\ op.do = "remove"
    /\ disk' = NoBook
    /\ Becomes(Reconcile(Doomed(Without(op)), [removed |-> TRUE, file |-> NoFile]))
    /\ UNCHANGED news

RemoveFile(f) ==
    /\ MayAct /\ page.listed
    /\ Becomes(Later(CancelDownloads(Tab, {f}), Op("drop", f, NoTime, FALSE)))
    /\ UNCHANGED <<disk, news>>

(* The position of the file that plays is saved before it goes. *)
SaveForDrop(op) ==
    /\ op.do = "drop"
    /\ Becomes(Later(Without(op),
                     [op EXCEPT !.do = IF page.current = op.file THEN "dropped" ELSE "erase"]))
    /\ disk' = IF page.current = op.file THEN Persisted(play.time) ELSE disk
    /\ UNCHANGED news

(* If that fails nothing goes. *)
SaveForDropFails(op) ==
    /\ op.do = "drop" /\ page.current = op.file /\ Snapshot
    /\ Becomes(Without(op))
    /\ UNCHANGED <<disk, news>>

(* Whatever plays by then stops. *)
StopForDrop(op) ==
    /\ op.do = "dropped"
    /\ Becomes(Later(NoCurrentFile(NewSourceRequest(Without(op))), [op EXCEPT !.do = "erase"]))
    /\ UNCHANGED <<disk, news>>

(* The file at hand is the one of the list or a copy. *)
RemoveCopy(op) ==
    /\ op.do = "erase"
    /\ disk' = [disk EXCEPT !.saved = @ \ {op.file}]
    /\ \E marked \in {FALSE, page.marked[op.file]} :
          Becomes(Reconcile([Doomed(Without(op)) EXCEPT !.page.marked[op.file] = marked],
                            [removed |-> TRUE, file |-> op.file]))
    /\ UNCHANGED news

--------------------------------------------------------------------------------
(* The book's details, and resuming where it was left *)

(* setTorrentInfo *)
SetTorrentInfo(stored) ==
    /\ MayAct
    /\ stored \/ page.allowed
    /\ Becomes(Load(Tab, stored, TRUE))
    /\ UNCHANGED <<disk, news>>

(* requestTorrentInfo: a book without a row is fetched from the server and gets one. *)
TorrentInfoArrives(op) ==
    /\ op.do \in {"info", "stored"}
    /\ IF ~Current(op) \/ (~disk.kept /\ op.do = "stored") THEN Becomes(Without(op))
       ELSE Becomes(Later([Without(op) EXCEPT !.page.listed = TRUE,
                                              !.page.marked = [f \in Files |-> f \in disk.saved],
                                              !.past.unread = {}],
                          [op EXCEPT !.do = IF op.do = "info" \/ page.allowed THEN "bytes"
                                            ELSE "resume",
                                     !.file = disk.state.file, !.at = disk.state.time]))
    /\ disk' = IF op.do = "info" THEN [disk EXCEPT !.kept = TRUE] ELSE disk
    /\ UNCHANGED news

TorrentInfoFails(op) ==
    /\ op.do \in {"info", "stored"}
    /\ Becomes(Without(op))
    /\ UNCHANGED <<disk, news>>

(* refreshServerCache *)
ServerCacheArrives(op) ==
    /\ op.do = "bytes"
    /\ Becomes(IF Current(op) /\ op.auto THEN Later(Without(op), [op EXCEPT !.do = "resume"])
               ELSE Without(op))
    /\ UNCHANGED <<disk, news>>

(* getAllTorrentFiles marks what is saved; when it fails the list is taken as it is. *)
ResumeSavedFile(op) ==
    /\ op.do = "resume"
    /\ IF Current(op) /\ op.auto /\ op.file # NoFile
       THEN /\ \E marked \in {page.marked[op.file], page.marked[op.file] \/ op.file \in disk.saved} :
                  Becomes(SetCurrentFile(Without(op), op.file, op.at, FALSE, marked))
            /\ IF Reuses(Tab, op.file) THEN UNCHANGED disk ELSE Flush(play.time)
       ELSE Becomes(Without(op)) /\ UNCHANGED disk
    /\ UNCHANGED news

Authorize ==
    /\ MayAct /\ ~page.allowed
    /\ Becomes([Tab EXCEPT !.page.allowed = TRUE])
    /\ UNCHANGED <<disk, news>>

Dispose ==
    /\ MayAct
    /\ Flush(play.time)
    /\ Becomes([ClearSource(NewMetadataRequest(NewSourceRequest(Tab)))
                    EXCEPT !.page.disposed = TRUE, !.past.wanted = NoFile, !.past.opening = NoFile])
    /\ UNCHANGED news

--------------------------------------------------------------------------------
(* Other tabs *)

Announce(change) == news' = news \union {change}
ThisTab == UNCHANGED <<page, play, ops, past>>

OtherTabSaves(f) ==
    /\ MayAct /\ disk.kept /\ f \notin disk.saved
    /\ disk' = [disk EXCEPT !.saved = @ \union {f}]
    /\ Announce([removed |-> FALSE, file |-> f])
    /\ ThisTab /\ UNCHANGED net

OtherTabRemoves(f) ==
    /\ MayAct /\ f \in disk.saved
    /\ disk' = [disk EXCEPT !.saved = @ \ {f}]
    /\ Announce([removed |-> TRUE, file |-> f])
    /\ net' = [net EXCEPT !.doomed = net.saving]
    /\ ThisTab

OtherTabRemovesBook ==
    /\ MayAct /\ disk.kept
    /\ disk' = NoBook
    /\ Announce([removed |-> TRUE, file |-> NoFile])
    /\ net' = [net EXCEPT !.doomed = net.saving]
    /\ ThisTab

--------------------------------------------------------------------------------
Resolve(op) ==
    \/ ChangeFile(op) \/ OpenSource(op) \/ SwitchSource(op) \/ AfterEnd(op) \/ NextFile(op)
    \/ AfterPause(op) \/ RefreshOfflineState(op) \/ SettleAborted(op) \/ CancelForClean(op)
    \/ RemoveCopies(op) \/ RemoveRows(op) \/ SaveForDrop(op) \/ StopForDrop(op) \/ RemoveCopy(op)
    \/ TorrentInfoArrives(op) \/ ServerCacheArrives(op)
    \/ ResumeSavedFile(op)

Fail(op) ==
    \/ SwitchFails(op) \/ NextFileFails(op) \/ ReadOfMarksFails(op) \/ RemovalFails(op)
    \/ SaveForDropFails(op) \/ TorrentInfoFails(op)

Player == SourceLoads \/ PlaybackStarts \/ PlaybackGoesOn \/ PlaybackEnds

(* What the bound counts *)
Acts ==
    \/ \E f \in Files, at \in {NoTime, 1} : PickFile(f, at)
    \/ CleanBookData \/ RemoveBook \/ \E f \in Files : RemoveFile(f)
    \/ \E stored \in BOOLEAN : SetTorrentInfo(stored)
    \/ PressPause \/ SaveWhenHidden \/ Authorize \/ Dispose
    \/ \E f \in Files : OtherTabSaves(f) \/ OtherTabRemoves(f)
    \/ OtherTabRemovesBook
    \/ SourceFails \/ \E f \in Files : DownloadFails(f)

Others ==
    \/ PressPlay \/ SaveWhilePlaying
    \/ \E f \in Files : DownloadGoesOn(f) \/ DownloadCompletes(f) \/ DownloadInvalidated(f)

Busy == Cardinality({op \in ops : op.do # "save"}) + Cardinality(news) >= MaxOps

(* loadAndSortFiles: the row of a chapter that is saved when the rows are read is a *)
(* copy, for as long as no later reading succeeds.                                  *)
RowsRead == rows' = IF page'.listed THEN rows \union disk'.saved ELSE rows

Next ==
    \/ (\E op \in ops : Resolve(op)) /\ RowsRead /\ UNCHANGED acts
    \/ (\E change \in news : HandleNews(change)) /\ RowsRead /\ UNCHANGED acts
    \/ acts > 0 /\ (\E op \in ops : Fail(op)) /\ RowsRead /\ acts' = acts - 1
    \/ ~Busy /\ (Player \/ Others) /\ RowsRead /\ UNCHANGED acts
    \/ ~Busy /\ acts > 0 /\ Acts /\ RowsRead /\ acts' = acts - 1

Spec == Init /\ [][Next]_vars

--------------------------------------------------------------------------------
(* What is loaded is what the page says it plays, in the way it says. *)
SourceMatches ==
    play.audio # NoSource => play.audio = [file |-> page.current, kind |-> page.kind]

(* Every object URL of a saved copy that is not in use has been revoked. *)
UrlsAccounted == net.urls = Urls(play.audio)

(* Nothing is streamed from the server without permission. *)
ServerOnlyIfAllowed == play.audio.kind = "server" => page.allowed

(* Page and player agree on what plays, and on what it takes. *)
PageSound == TypeOK /\ SourceMatches /\ UrlsAccounted /\ ServerOnlyIfAllowed

(* Once nothing is under way and nobody listens, what plays plays from its saved copy  *)
(* if it is marked as saved, unless a read or a write that failed since it was loaded  *)
(* ended the handler that would have seen to it.                                       *)
Quiet == ops = {} /\ news = {} /\ net.saving = {}

ChangesOver ==
    Quiet /\ play.phase = "loaded" /\ ~past.missed => SwitchKind(Tab) # "offline"

(* The list of chapters then shows what is saved, but for chapters of which a reading *)
(* failed, or a download of what was saved already, and none succeeded since.         *)
ListSettles ==
    Quiet /\ ~page.disposed /\ page.listed
      => \A f \in Files \ past.unread : page.marked[f] <=> f \in disk.saved

(* The source that is loaded is of the chapter chosen last, or the other source of    *)
(* the chapter that plays: no superseded request, end of a chapter or resumption      *)
(* loads another, nor anything once playing was given up.  The code allows for one    *)
(* exception: choosing the chapter that is loaded does not call off the opening of    *)
(* another one.                                                                       *)
LoadsWhatWasAsked ==
    [][play'.audio # play.audio /\ play'.audio # NoSource
         => LET f == play'.audio.file
            IN  \/ f = past'.wanted
                \/ past'.wanted # NoFile /\ f = play.audio.file
                \/ f = past'.opening /\ past'.wanted = play.audio.file]_vars

(* Changing over to the other source never interrupts who listens, or wants to: only *)
(* a chapter that was asked for replaces the one that plays.                         *)
NobodyInterrupted ==
    [][play'.audio # play.audio /\ play'.audio # NoSource /\ (play.playing \/ play.ready)
         => \E op \in ops : op.do = "open" /\ op.fresh /\ op.file = play'.audio.file]_vars

(* This one does not hold: the player is asked where it is before it has seeked.        *)
(* README: clearing the saved audio keeps the resume position: the one written is where *)
(* the listener is, which while a source loads is where it will start.                  *)
ClearingKeepsPosition ==
    [][CleanBookData /\ disk' # disk
         => disk'.state.time = IF play.phase = "loading" THEN play.seek ELSE play.time]_vars
================================================================================
