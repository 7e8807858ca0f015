-------------------------------- MODULE JobQueue --------------------------------
(***************************************************************************)
(* What whoever asks for captions sees of the chapters of a book: a queue  *)
(* that serves one chapter at a time, first come first served, without     *)
(* attempts, timers, leases, requests or the processes that come and go.   *)
(* One step may take any number of chapters each one step further.         *)
(***************************************************************************)
EXTENDS Naturals

CONSTANT Files \* the chapters

VARIABLES
    row,      \* of each chapter: its state, when it was queued and by whom
    captions  \* the queue time of the attempt that wrote them, 0 if there are none

vars == <<row, captions>>

\* "off" is a chapter the automatic setting cancelled.
States == {"none", "queued", "running", "completed", "failed", "cancelled", "off"}
NoRow == [state |-> "none", at |-> 0, by |-> "manual"]

TypeOK ==
    /\ row \in [Files -> [state: States, at: Nat, by: {"automatic", "manual"}]]
    /\ captions \in [Files -> Nat]

Init ==
    /\ row = [f \in Files |-> NoRow]
    /\ captions = [f \in Files |-> 0]

SameCaptions(f) == captions'[f] = captions[f]
Same(f) == row'[f] = row[f] /\ SameCaptions(f)

\* It joins the end of the queue.  What failed, or was cancelled by the user, is
\* taken up again by nobody but the user.
Ask(f) ==
    /\ row[f].state \notin {"queued", "running"}
    /\ row'[f].state = "queued"
    /\ row'[f].by = "automatic" => row[f].state \in {"none", "completed", "off"}
    /\ \A g \in Files : row[g].at < row'[f].at
    /\ \A g \in Files \ {f} : row'[g].at # row'[f].at
    /\ SameCaptions(f)

\* It is the first of those still in the queue, and no other chapter runs.
Begin(f) ==
    /\ row[f].state = "queued"
    /\ row'[f] = [row[f] EXCEPT !.state = "running"]
    /\ \A g \in Files \ {f} :
           /\ row'[g].state # "running"
           /\ row'[g].state = "queued" => row[f].at < row'[g].at
    /\ SameCaptions(f)

\* It has captions of its own, or those it had before.
Complete(f) ==
    /\ row[f].state = "running"
    /\ row'[f] = [row[f] EXCEPT !.state = "completed"]
    /\ captions'[f] = row[f].at
Fail(f) ==
    /\ row[f].state = "running"
    /\ row'[f] = [row[f] EXCEPT !.state = "failed"]
    /\ SameCaptions(f)

\* The user cancels it; the setting cancels only what it had queued.
Cancel(f) ==
    /\ row[f].state \in {"queued", "running"}
    /\ \/ row'[f] = [row[f] EXCEPT !.state = "cancelled"]
       \/ row[f].by = "automatic" /\ row'[f] = [row[f] EXCEPT !.state = "off"]
    /\ SameCaptions(f)

\* Row and captions are deleted, never while it runs.
Forget(f) ==
    /\ row[f].state # "running"
    /\ row'[f] = NoRow
    /\ captions'[f] = 0

Next ==
    \A f \in Files :
        Same(f) \/ Ask(f) \/ Begin(f) \/ Complete(f) \/ Fail(f) \/ Cancel(f) \/ Forget(f)

Spec == Init /\ [][Next]_vars

\* What the queue gives whoever looks at it: never two chapters that run, also where
\* the process that ran one is gone and the row still says so.
OneRuns ==
    \A f, g \in Files : row[f].state = "running" /\ row[g].state = "running" => f = g
================================================================================
