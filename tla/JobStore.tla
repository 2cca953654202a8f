------------------------------ MODULE JobStore ------------------------------
(***************************************************************************)
(* Background jobs across processes: each server keeps its own jobs in      *)
(* memory, a row for each in the shared database, and the result of a      *)
(* finished one in the overflow directory. A server that starts flips the  *)
(* rows whose owner is gone. JobLifecycle is what one server's host sees   *)
(* while that server lives; this is what is left of it afterwards, and     *)
(* what others see.                                                        *)
(*                                                                         *)
(* A process is an incarnation: it boots once and dies once, and a later   *)
(* one may be given its pid. The end of a job is three writes (the file,   *)
(* the status, the row) with no await between them, but other processes    *)
(* look in between and a crash may part them.                              *)
(*                                                                         *)
(* A variant of an operator stands just before it; no specification uses   *)
(* it.                                                                     *)
(***************************************************************************)
EXTENDS Integers, Sequences

CONSTANTS
    Servers, Pids, Jobs,
    Nobody,
    Answer,             \* an overflow file that is not a job's result
    MaxFiles,           \* CLI_BRIDGE_OVERFLOW_MAX_FILES
    MaxAnswers          \* bound: the answers too long to return inline

ASSUME JobStoreAssumption ==
    /\ Nobody \notin Servers \cup Pids
    /\ Answer \notin Jobs
    /\ MaxFiles \in Nat /\ MaxAnswers \in Nat

Final == {"succeeded", "failed", "cancelled", "interrupted"}

VARIABLES
    proc, pid,                      \* the processes
    owner,                          \* the server that has a job in its _JOBS, dead or alive
    pc, status, kept, path,         \* there: how far it is; Job.status, Job.result, Job.result_path
    rowStatus, rowPid, rowPath,     \* its row
    found,                          \* the rows a booting process found running
    files,                          \* the overflow directory, oldest first
    answers

\* What the properties need.
VARIABLES
    stale,                          \* jobs whose latest row could not be written
    pruned,                         \* jobs whose result file was pruned
    runningAtBoot,                  \* jobs a process that is still sweeping booted in the middle of
    deadAtBoot                      \* running rows whose owner was dead when a process booted

jobVars == <<owner, pc, status, kept, path>>
rowVars == <<rowStatus, rowPid, rowPath>>
ghostVars == <<stale, pruned, runningAtBoot, deadAtBoot>>
vars == <<proc, pid, jobVars, rowVars, found, files, answers, ghostVars>>

TypeOK ==
    /\ proc \in [Servers -> {"off", "sweeping", "up", "dead"}]
    /\ pid \in [Servers -> Pids \cup {Nobody}]
    /\ \A s \in Servers : pid[s] = Nobody <=> proc[s] = "off"
    /\ owner \in [Jobs -> Servers \cup {Nobody}]
    /\ pc \in [Jobs -> {"new", "running", "spilled", "over"}]
    /\ status \in [Jobs -> {"none", "running"} \cup (Final \ {"interrupted"})]
    /\ kept \subseteq Jobs /\ path \subseteq Jobs /\ rowPath \subseteq Jobs
    /\ rowStatus \in [Jobs -> {"none", "running"} \cup Final]
    /\ rowPid \in [Jobs -> Pids \cup {Nobody}]
    /\ \A j \in Jobs : rowStatus[j] = "none" <=> rowPid[j] = Nobody
    /\ found \in [Servers -> SUBSET Jobs]
    /\ files \in Seq(Jobs \cup {Answer})
    /\ answers \in 0..MaxAnswers
    /\ stale \subseteq Jobs /\ pruned \subseteq Jobs
    /\ runningAtBoot \in [Servers -> SUBSET Jobs]
    /\ deadAtBoot \in [Servers -> SUBSET Jobs]

Init ==
    /\ proc = [s \in Servers |-> "off"]
    /\ pid = [s \in Servers |-> Nobody]
    /\ owner = [j \in Jobs |-> Nobody]
    /\ pc = [j \in Jobs |-> "new"]
    /\ status = [j \in Jobs |-> "none"]
    /\ kept = {} /\ path = {}
    /\ rowStatus = [j \in Jobs |-> "none"]
    /\ rowPid = [j \in Jobs |-> Nobody]
    /\ rowPath = {}
    /\ found = [s \in Servers |-> {}]
    /\ files = <<>>
    /\ answers = 0
    /\ stale = {} /\ pruned = {}
    /\ runningAtBoot = [s \in Servers |-> {}]
    /\ deadAtBoot = [s \in Servers |-> {}]

Running(s) == proc[s] \in {"sweeping", "up"}
Stored(j) == \E k \in DOMAIN files : files[k] = j

-----------------------------------------------------------------------------
(* The processes. *)

\* _pid_alive
PidAlive(q) == \E s \in Servers : Running(s) /\ pid[s] = q

\* The rows that say running are read...
FoundAll == {j \in Jobs : rowStatus[j] # "none"}
Found == {j \in Jobs : rowStatus[j] = "running"}
Boot(s, q) ==
    /\ proc[s] = "off" /\ ~PidAlive(q)
    /\ proc' = [proc EXCEPT ![s] = "sweeping"]
    /\ pid' = [pid EXCEPT ![s] = q]
    /\ found' = [found EXCEPT ![s] = Found]
    /\ runningAtBoot' = [runningAtBoot EXCEPT ![s] = {j \in Jobs : rowStatus[j] = "running"}]
    /\ deadAtBoot' = [deadAtBoot EXCEPT ![s] =
                         {j \in Jobs : rowStatus[j] = "running" /\ ~Running(owner[j])}]
    /\ UNCHANGED <<jobVars, rowVars, files, answers, stale, pruned>>

\* ... and those whose pid nobody has are flipped, by id.
FlippedAll(s) == found[s]
Flipped(s) == {j \in found[s] : ~PidAlive(rowPid[j])}
Sweep(s) ==
    /\ proc[s] = "sweeping"
    /\ proc' = [proc EXCEPT ![s] = "up"]
    /\ rowStatus' = [j \in Jobs |-> IF j \in Flipped(s) THEN "interrupted" ELSE rowStatus[j]]
    /\ found' = [found EXCEPT ![s] = {}]
    /\ runningAtBoot' = [runningAtBoot EXCEPT ![s] = {}]
    /\ UNCHANGED <<pid, jobVars, rowPid, rowPath, files, answers, stale, pruned, deadAtBoot>>

\* A process ends, or is killed wherever it is. What it had in memory is gone, its file and row stay.
Die(s) ==
    /\ Running(s)
    /\ proc' = [proc EXCEPT ![s] = "dead"]
    /\ found' = [found EXCEPT ![s] = {}]
    /\ runningAtBoot' = [runningAtBoot EXCEPT ![s] = {}]
    /\ UNCHANGED <<pid, jobVars, rowVars, files, answers, stale, pruned, deadAtBoot>>

-----------------------------------------------------------------------------
(* The jobs. *)

Up(j) == owner[j] \in Servers /\ proc[owner[j]] = "up"

\* job_put, or sqlite refuses. A row keeps the pid it was inserted with.
JobPut(j, s, st, withPath) ==
    \/ /\ rowStatus' = [rowStatus EXCEPT ![j] = st]
       /\ rowPid' = [rowPid EXCEPT ![j] = IF @ = Nobody THEN pid[s] ELSE @]
       /\ rowPath' = IF withPath THEN rowPath \cup {j} ELSE rowPath \ {j}
       /\ stale' = stale \ {j}
    \/ UNCHANGED rowVars /\ stale' = stale \cup {j}

Start(s, j) ==
    /\ proc[s] = "up" /\ pc[j] = "new"
    /\ pc' = [pc EXCEPT ![j] = "running"]
    /\ owner' = [owner EXCEPT ![j] = s]
    /\ status' = [status EXCEPT ![j] = "running"]
    /\ JobPut(j, s, "running", FALSE)
    /\ UNCHANGED <<proc, pid, kept, path, found, files, answers, pruned, runningAtBoot, deadAtBoot>>

\* The body returned; its result goes to a file, or stays in memory if that fails.
SpillLost(j) == UNCHANGED <<kept, path, files>>
Spill(j) ==
    \/ /\ files' = Append(files, j)
       /\ path' = path \cup {j}
       /\ UNCHANGED kept
    \/ kept' = kept \cup {j} /\ UNCHANGED <<files, path>>

BodyReturns(j) ==
    /\ Up(j) /\ pc[j] = "running"
    /\ Spill(j)
    /\ pc' = [pc EXCEPT ![j] = "spilled"]
    /\ UNCHANGED <<proc, pid, owner, status, rowVars, found, answers, ghostVars>>

Settle(j, st, withPath) ==
    /\ pc' = [pc EXCEPT ![j] = "over"]
    /\ status' = [status EXCEPT ![j] = st]
    /\ JobPut(j, owner[j], st, withPath)
    /\ UNCHANGED <<proc, pid, owner, kept, path, found, files, answers, pruned, runningAtBoot, deadAtBoot>>

Finish(j) ==
    /\ Up(j) /\ pc[j] = "spilled"
    /\ \E st \in {"succeeded", "failed"} : Settle(j, st, j \in path)

\* The body raised, or its task was cancelled.
FailOrCancel(j) ==
    /\ Up(j) /\ pc[j] = "running"
    /\ \E st \in {"failed", "cancelled"} : Settle(j, st, FALSE)

-----------------------------------------------------------------------------
(* The overflow directory. *)

\* An answer that is too long: old files go, beyond their number or their age, then it is written.
Emit(s) ==
    /\ proc[s] = "up" /\ answers < MaxAnswers
    /\ answers' = answers + 1
    /\ \E drop \in 0..Len(files) :
          /\ Len(files) - drop <= MaxFiles
          /\ files' = Append(SubSeq(files, drop + 1, Len(files)), Answer)
          /\ pruned' = pruned \cup {j \in Jobs : \E k \in 1..drop : files[k] = j}
    /\ UNCHANGED <<proc, pid, jobVars, rowVars, found, stale, runningAtBoot, deadAtBoot>>

Next ==
    \/ \E s \in Servers :
          \/ \E q \in Pids : Boot(s, q)
          \/ Sweep(s) \/ Die(s) \/ Emit(s)
          \/ \E j \in Jobs : Start(s, j)
    \/ \E j \in Jobs : BodyReturns(j) \/ Finish(j) \/ FailOrCancel(j)

Spec == Init /\ [][Next]_vars

-----------------------------------------------------------------------------
(* What process s answers about job j: from memory if it is its own, else from the row. *)

StatusTold(s, j) == IF owner[j] = s THEN status[j] ELSE rowStatus[j]
Fetched(s, j) ==
    IF owner[j] = s THEN j \in kept \/ (j \in path /\ Stored(j))
                    ELSE j \in rowPath /\ Stored(j)

-----------------------------------------------------------------------------
(* Properties. *)

\* A row tells other processes the truth. While the server of a job lives, the row says what the
\* server itself says: no process that boots meanwhile flips it, whatever pids the dead ones had.
\* And once a process is up, no job that a dead server left behind before it booted still shows
\* running, unless a later process was given the dead one's pid.
RowsTellTheTruth ==
    /\ \A j \in Jobs \ stale : Up(j) =>
          \A s \in Servers : proc[s] = "up" => StatusTold(s, j) = status[j]
    /\ \A s \in Servers : proc[s] = "up" =>
          \A j \in deadAtBoot[s] :
              \/ rowStatus[j] # "running"
              \/ \E r \in Servers \ {owner[j]} : pid[r] = rowPid[j]

\* The row of a finished job is never changed again; but a process that found it running before it
\* ended, and its server gone a moment later, does change it.
FinalRowsStay ==
    [][\A j \in Jobs :
        rowStatus[j] \in Final /\ (\A s \in Servers : j \notin runningAtBoot[s])
            => rowStatus'[j] = rowStatus[j]]_vars

\* The result of a job that returned can be fetched: from its server, from memory or the file; from
\* any other process, by the path in the row; unless the overflow directory was pruned of it.
ResultsCanBeFetched ==
    \A j \in Jobs \ pruned, s \in Servers :
        /\ proc[s] = "up"
        /\ StatusTold(s, j) = "succeeded"
        /\ s = owner[j] \/ j \in rowPath
        => Fetched(s, j)
=============================================================================
