--------------------------- MODULE MCLaneDispatch ---------------------------
(* Instances of LaneDispatch for TLC. *)
EXTENDS LaneDispatch

CONSTANTS w1, w2, gemini

Two == [l \in Lanes |-> 2]
One == [l \in Lanes |-> 1]
NoLimit == [l \in Lanes |-> -1]
Unpaced == [l \in Lanes |-> 0]
=============================================================================
