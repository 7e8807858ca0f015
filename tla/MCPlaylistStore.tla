---------------------------- MODULE MCPlaylistStore ----------------------------
(* Two chapters of length one, in a book that is streamed and in one that is saved *)
EXTENDS PlaylistStore

MCBooks ==
    {[saved |-> {}, state |-> [file |-> 1, time |-> 0], allowed |-> TRUE],
     [saved |-> {1}, state |-> [file |-> 1, time |-> 1], allowed |-> FALSE]}
================================================================================
