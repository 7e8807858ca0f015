------------------------------- MODULE SavedBook -------------------------------
(***************************************************************************)
(* What saving a book for offline listening promises to whoever plays it,  *)
(* without chunks, leases, tabs or manifests: a file is either not there   *)
(* or there whole, in one version, until somebody deletes it; and nothing  *)
(* of a removed book is there before the book is added again.              *)
(***************************************************************************)
CONSTANTS
    Files,     \* audio files of the book
    Versions,  \* what the server may have served as the content of a file
    None       \* not playable offline, and none of the versions

VARIABLES
    playable,  \* version of each file that plays without the server, or None
    onShelf    \* the book is not removed

vars == <<playable, onShelf>>

TypeOK ==
    /\ playable \in [Files -> Versions \union {None}]
    /\ onShelf \in BOOLEAN

Init ==
    /\ playable = [f \in Files |-> None]
    /\ onShelf = TRUE

Save(f, v) ==
    /\ onShelf
    /\ playable[f] = None
    /\ playable' = [playable EXCEPT ![f] = v]
    /\ UNCHANGED onShelf

Delete(fs) ==
    /\ playable' = [f \in Files |-> IF f \in fs THEN None ELSE playable[f]]
    /\ UNCHANGED onShelf

RemoveBook ==
    /\ playable' = [f \in Files |-> None]
    /\ onShelf' = FALSE

AddBook ==
    /\ onShelf' = TRUE
    /\ UNCHANGED playable

Next ==
    \/ \E f \in Files, v \in Versions : Save(f, v)
    \/ \E fs \in SUBSET Files : Delete(fs)
    \/ RemoveBook
    \/ AddBook

Spec == Init /\ [][Next]_vars
================================================================================
