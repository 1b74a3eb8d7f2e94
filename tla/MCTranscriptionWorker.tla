------------------------- MODULE MCTranscriptionWorker -------------------------
(***************************************************************************)
(* Instances of TranscriptionWorker for TLC.                               *)
(***************************************************************************)
EXTENDS TranscriptionWorker

CONSTANTS s1, r1, r2

OneSession == {s1}
TwoRequests == {r1, r2}
OneRequest == {r1}
TwoKinds == {Mic, System}

OneEach == [k \in TwoKinds |-> 1]
TwoEach == [k \in TwoKinds |-> 2]
TwoAndOne == [k \in TwoKinds |-> IF k = Mic THEN 2 ELSE 1]   \* the speakers are mostly silent
=============================================================================
