--------------------------- MODULE MCTorrentManager ---------------------------
(***************************************************************************)
(* Instances of TorrentManager for TLC.                                    *)
(***************************************************************************)
EXTENDS TorrentManager

CONSTANTS t1, o1, r1, r2
=============================================================================
