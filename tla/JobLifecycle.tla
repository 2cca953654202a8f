---------------------------- MODULE JobLifecycle ----------------------------
(***************************************************************************)
(* What a background job promises the host that polls it: it is running    *)
(* from the moment its id is returned, it ends once, and it ends cancelled *)
(* only if the host asked for that. How jobs.py keeps the promise with a   *)
(* build inside is BuildLoop's subject.                                    *)
(***************************************************************************)

CONSTANT Jobs

VARIABLES
    status,  \* what job(action=status) shows
    asked    \* the jobs for which job(action=cancel) answered "cancelling"

vars == <<status, asked>>

Init ==
    /\ status = [j \in Jobs |-> "absent"]
    /\ asked = {}

Start(j) ==
    /\ status[j] = "absent"
    /\ status' = [status EXCEPT ![j] = "running"]
    /\ UNCHANGED asked

Ask(j) ==
    /\ status[j] = "running"
    /\ asked' = asked \cup {j}
    /\ UNCHANGED status

Finish(j) ==
    /\ status[j] = "running"
    /\ \E s \in {"succeeded", "failed", "cancelled"} :
          /\ s = "cancelled" => j \in asked
          /\ status' = [status EXCEPT ![j] = s]
    /\ UNCHANGED asked

Next == \E j \in Jobs : Start(j) \/ Ask(j) \/ Finish(j)

Spec == Init /\ [][Next]_vars
=============================================================================
