----------------------------- MODULE MCBatchRun -----------------------------
(* Instances of BatchRun for TLC. *)
EXTENDS BatchRun

CONSTANTS k1, k2, k3

\* No two tasks are equal.
Distinct == [t \in Tasks |-> IF t = 1 THEN k1 ELSE IF t = 2 THEN k2 ELSE k3]

SecondIsDear == [t \in Tasks |-> IF t = 2 THEN 2 ELSE 1]
Free == [t \in Tasks |-> 0]

OneCall == {<<1, 0>>}
EitherCap == {<<2, 0>>, <<0, 2>>}
=============================================================================
