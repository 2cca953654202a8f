------------------------------- MODULE MCRunner -------------------------------
(* One CLI and one process it starts. *)
EXTENDS Runner
=============================================================================
