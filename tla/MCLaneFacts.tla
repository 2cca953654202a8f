----------------------------- MODULE MCLaneFacts -----------------------------
(* Instances of LaneFacts for TLC. *)
EXTENDS LaneFacts, TLC

CONSTANTS l1, l2, s1, s2, free, paid, before, after

\* One lane is free as it ships, the other is paid.
Shipped == [l \in Lanes |-> IF l = l1 THEN free ELSE paid]

\* One host's environment says what a lane costs; the shell and the other host say nothing.
OneHostPresets ==
    [p \in Servers |-> [l \in Lanes |-> IF p = s1 /\ l = l1 THEN free ELSE Unset]]

\* What a probe sees of a lane is only ever compared.
LooksAlike == Permutations(Looks)
=============================================================================
