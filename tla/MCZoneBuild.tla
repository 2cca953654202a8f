----------------------------- MODULE MCZoneBuild -----------------------------
(* Instances of ZoneBuild for TLC. *)
EXTENDS ZoneBuild

CONSTANTS b1, b2, calc, logo

\* A new source file in the zone of one build, a committed image in that of the other.
OneFileEach == [b \in Builds |-> IF b = b1 THEN {calc} ELSE {logo}]
=============================================================================
