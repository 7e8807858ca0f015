---------------------- MODULE MCTranscriptionManager ------------------------
(***************************************************************************)
(* Instances of TranscriptionManager for TLC.                              *)
(***************************************************************************)
EXTENDS TranscriptionManager, TLC

CONSTANTS t1, t2, c1, c2

OneBook == {<<t1, 0>>, <<t1, 1>>}

(* A restarted server gets fewer requests and transcribes no window. *)
Bounded == boots = 2 => inputs <= 2 /\ \A k \in Keys : exec[k].windows = 0
Builds == Permutations(Models)
=============================================================================
