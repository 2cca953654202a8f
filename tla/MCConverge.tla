----------------------------- MODULE MCConverge -----------------------------
(* Instances of Converge for TLC. *)
EXTENDS Converge

CONSTANTS a1, a2, b1, c1

\* Two lanes of one family and two of others, one of which is not free.
Free == <<a1, a2, b1>>
TwoOfOne == [l \in Lanes |-> IF l \in {a1, a2} THEN a1 ELSE l]
SomePanels == {<<>>, <<a2>>, <<b1, c1>>, <<a2, b1>>, <<b1, b1>>}
=============================================================================
