----------------------------- MODULE MCGrounding -----------------------------
(***************************************************************************)
(* Instances of Grounding for TLC.                                         *)
(***************************************************************************)
EXTENDS Grounding

\* A number that a prompt of one segment has, one that it has not, both, one too long to see.
SomeCites == {{1}, {2}, {1, 3}, {4}}
\* Up to three short segments in two windows, one too long for a prompt, three windows in
\* the other order: a segment of one track may start before an earlier one of the other.
Shaped(starts, costs, lengths) == UNION {[1..n -> [start : starts, cost : costs]] : n \in lengths}
SomeTranscripts ==
  Shaped({0, 3}, {1}, 0..3) \cup Shaped({0}, {1, 3}, 1..2)
    \cup {[n \in 1..3 |-> [start |-> 6 - 2 * n, cost |-> 1]]}
=============================================================================
