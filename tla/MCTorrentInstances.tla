-------------------------- MODULE MCTorrentInstances --------------------------
(***************************************************************************)
(* Three instances of TorrentManager that TLC explores in one run. They    *)
(* have the same torrents, sessions and requests, so the invariants of     *)
(* TorrentManager are about each of them; what an instance does without    *)
(* stays empty.                                                            *)
(***************************************************************************)
EXTENDS TorrentManager

CONSTANTS t1, t2, o1

VARIABLE instance \* which of the three

(* Two torrents in a cache that holds one of them, which the configuration *)
(* makes of TorrentManager itself: one session at a time, no requests.     *)
TwoTorrents == Next /\ obj'[2] = NoObject /\ op'[o1] = NoOp

(* An old session of a torrent and its successor: no second torrent.       *)
Alone == t2 \notin history' /\ session'[t2] = NoSession /\ removal'[t2] = "none"

(* The torrent is registered, requested and removed. *)
Registrations == INSTANCE TorrentManager WITH
    Stored <- {}, Routes <- {"register", "remove"}

(* It is cached, does not fit, and may fail. *)
Failures == INSTANCE TorrentManager WITH
    Capacity <- 0, Routes <- {"remove"}, Incidents <- {"torrent"}

AnyInit ==
    \/ instance = "two torrents" /\ Init
    \/ instance = "registrations" /\ Registrations!Init
    \/ instance = "failures" /\ Failures!Init

AnyNext ==
    /\ \/ instance = "two torrents" /\ TwoTorrents
       \/ instance = "registrations" /\ Registrations!Next /\ Alone
       \/ instance = "failures" /\ Failures!Next /\ Alone
    /\ UNCHANGED instance

AnySpec == AnyInit /\ [][AnyNext]_<<instance, vars>>
================================================================================
