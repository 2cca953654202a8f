----------------------------- MODULE MCCouncil -----------------------------
(* Instances of Council for TLC. *)
EXTENDS Council

CONSTANTS f, g, m, p

\* Two free lanes, a limited and a paid one; g is experimental, and faster than f.
Costs == [l \in Lanes |-> IF l \in {f, g} THEN 0 ELSE IF l = m THEN 1 ELSE 2]
Keys == [l \in Lanes |-> CASE l = f -> 3 [] l = g -> 1 [] l = m -> 2 [] OTHER -> 4]
Fifties == [l \in Lanes |-> 50]
Latencies == [l \in Lanes |-> IF l = f THEN 2 ELSE 1]
Fails == [l \in Lanes |-> IF l = g THEN 1 ELSE 0]
Ratings == [l \in Lanes |-> IF l = m THEN [n |-> 2, avg |-> 45] ELSE [n |-> 1, avg |-> 10]]
InOrder == <<f, m, g, p>>
SomePolicies == {<<"saver", "yes">>, <<"balanced", "none">>, <<"max", "none">>}
SomeCooled == {{}, {f}}
SomeLists == {<<>>, <<m>>, <<"unknown">>}
SomeJudges == {Nobody, p}
SomeFound == {<<1, 2, TRUE>>, <<2, 1, TRUE>>, <<3, 2, TRUE>>, <<3, 1, TRUE>>, <<2, 2, FALSE>>}
=============================================================================
