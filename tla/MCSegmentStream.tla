---------------------------- MODULE MCSegmentStream ----------------------------
(***************************************************************************)
(* Instances of SegmentStream for TLC.                                     *)
(***************************************************************************)
EXTENDS SegmentStream

\* Replay, tail and cursor need two segments, a second transcript one.
TwoAndOne == [m \in Mode |-> IF m = "live" THEN 2 ELSE 1]
=============================================================================
