---------------------------- MODULE MCBuildLoop ----------------------------
(* Instances of BuildLoop for TLC. *)
EXTENDS BuildLoop

CONSTANTS b1, b2, b3

\* One repository "/repo": the zone is "frontend", reached in two ways, or "backend".
OneTarget == [b \in Builds |-> "/repo"]
TwoTargets == [b \in Builds |-> IF b = b1 THEN "/repo" ELSE "/repo/frontend"]
SameZone == [b \in Builds |-> "frontend"]
TwoZones == [b \in Builds |-> IF b = b3 THEN "backend" ELSE "frontend"]
=============================================================================
