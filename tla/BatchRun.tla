------------------------------ MODULE BatchRun ------------------------------
(***************************************************************************)
(* The durable fan-out (orchestrate.batch_run): one run id, invoked again  *)
(* to resume it, after the first invocation ended, was cancelled or died   *)
(* with the server, or beside it. Its tasks share the invocation's budget  *)
(* ledger and semaphore; its invocations share the journal in sqlite.      *)
(*                                                                         *)
(* An action is what a task does between two awaits. try_reserve awaits a  *)
(* lock that is never contended, since nothing is awaited inside it. A     *)
(* call of run_lane is seen from outside: it spawns, up to Retries times   *)
(* again, and answers. sqlite may refuse any write and any read of the     *)
(* journal; telemetry then goes on as if nothing were journalled. With the *)
(* journal switched off, everything is refused.                            *)
(*                                                                         *)
(* As in BuildLoop, a variant of an operator stands just before it; no     *)
(* specification uses it.                                                  *)
(***************************************************************************)
EXTENDS Integers, FiniteSets, FiniteSetsExt

CONSTANTS
    M,                \* bound: the invocations of the run id
    N,                \* the number of tasks
    Keys, KeyOf,      \* [1..N -> Keys]: _task_key; equal tasks have equal keys
    Cost,             \* [1..N -> Nat]: the credits batch_run reserves for a task
    MaxConcurrency,
    Retries,          \* CLI_BRIDGE_RETRIES
    Budgets           \* bound: the max_calls and max_credits the host may give, 0 for none

Runs == 1..M
Tasks == 1..N

ASSUME BatchRunAssumption ==
    /\ M \in Nat /\ N \in Nat
    /\ KeyOf \in [Tasks -> Keys]
    /\ Cost \in [Tasks -> Nat]
    /\ MaxConcurrency \in Nat \ {0}
    /\ Retries \in Nat
    /\ Budgets \subseteq Nat \X Nat

VARIABLES
    state,                  \* where an invocation is
    cached,                 \* the keys batch_get told it were done
    maxCalls, maxCredits,   \* its _BudgetLedger
    calls, credits,
    free,                   \* its semaphore
    pc,                     \* where a task of it is
    attempts,               \* the spawns of a task's call of run_lane
    reported,               \* the tasks whose result is ok, replayed or not
    journal                 \* batch_journal: the status of a key

\* What the properties need.
VARIABLES
    overlap,                \* two invocations ran at once
    finished,               \* the tasks that an invocation was answered ok
    refused                 \* the keys sqlite refused to write, or to read, as done

ledgerVars == <<maxCalls, maxCredits, calls, credits>>
taskVars == <<pc, attempts, reported>>
ghostVars == <<overlap, finished, refused>>
vars == <<state, cached, ledgerVars, free, taskVars, journal, ghostVars>>

TypeOK ==
    /\ state \in [Runs -> {"new", "started", "over"}]
    /\ cached \in [Runs -> SUBSET Keys]
    /\ maxCalls \in [Runs -> Nat] /\ maxCredits \in [Runs -> Nat]
    /\ calls \in [Runs -> Nat] /\ credits \in [Runs -> Nat]
    /\ free \in [Runs -> 0..MaxConcurrency]
    /\ pc \in [Runs -> [Tasks -> {"ready", "waiting", "calling", "done"}]]
    /\ attempts \in [Runs -> [Tasks -> 0..(Retries + 1)]]
    /\ reported \in [Runs -> SUBSET Tasks]
    /\ journal \in [Keys -> {"none", "failed", "done"}]
    /\ overlap \in BOOLEAN
    /\ finished \subseteq Tasks
    /\ refused \subseteq Keys

Init ==
    /\ state = [i \in Runs |-> "new"]
    /\ cached = [i \in Runs |-> {}]
    /\ maxCalls = [i \in Runs |-> 0] /\ maxCredits = [i \in Runs |-> 0]
    /\ calls = [i \in Runs |-> 0] /\ credits = [i \in Runs |-> 0]
    /\ free = [i \in Runs |-> MaxConcurrency]
    /\ pc = [i \in Runs |-> [t \in Tasks |-> "ready"]]
    /\ attempts = [i \in Runs |-> [t \in Tasks |-> 0]]
    /\ reported = [i \in Runs |-> {}]
    /\ journal = [k \in Keys |-> "none"]
    /\ overlap = FALSE
    /\ finished = {}
    /\ refused = {}

\* batch_get: the rows that are there, or none on an error.
BatchGet(i) ==
    LET done == {k \in Keys : journal[k] = "done"} IN
    \/ cached' = [cached EXCEPT ![i] = done] /\ UNCHANGED refused
    \/ cached' = [cached EXCEPT ![i] = {}] /\ refused' = refused \cup done

\* batch_put: the row is written, or it stays as it was.
BatchPut(k, s) ==
    \/ journal' = [journal EXCEPT ![k] = s] /\ UNCHANGED refused
    \/ /\ refused' = IF s = "done" THEN refused \cup {k} ELSE refused
       /\ UNCHANGED journal

\* The journal is read once, then all tasks are scheduled.
Begin(i, max) ==
    /\ state[i] = "new"
    /\ \A j \in Runs : j < i => state[j] # "new"
    /\ state' = [state EXCEPT ![i] = "started"]
    /\ BatchGet(i)
    /\ maxCalls' = [maxCalls EXCEPT ![i] = max[1]]
    /\ maxCredits' = [maxCredits EXCEPT ![i] = max[2]]
    /\ overlap' = (overlap \/ \E j \in Runs : state[j] = "started")
    /\ UNCHANGED <<calls, credits, free, taskVars, journal, finished>>

-----------------------------------------------------------------------------
(* The first step of a task. *)

\* The tasks were scheduled in order.
IsNext(i, t) ==
    /\ state[i] = "started"
    /\ pc[i][t] = "ready"
    /\ \A u \in Tasks : u < t => pc[i][u] # "ready"

Finish(i, t, ok) ==
    /\ pc' = [pc EXCEPT ![i][t] = "done"]
    /\ reported' = [reported EXCEPT ![i] = IF ok THEN @ \cup {t} ELSE @]

\* The task was done when the invocation began.
HitOtherRun(i, t) == FALSE
HitAny(i, t) == journal[KeyOf[t]] # "none"
Hit(i, t) == KeyOf[t] \in cached[i]

Replay(i, t) ==
    /\ IsNext(i, t)
    /\ Hit(i, t)
    /\ Finish(i, t, TRUE)
    /\ UNCHANGED <<state, cached, ledgerVars, free, attempts, journal, ghostVars>>

\* There is no such lane, or no default one.
NoLane(i, t) ==
    /\ IsNext(i, t)
    /\ ~Hit(i, t)
    /\ Finish(i, t, FALSE)
    /\ BatchPut(KeyOf[t], "failed")
    /\ UNCHANGED <<state, cached, ledgerVars, free, attempts, overlap, finished>>

CanReserveOneMore(i, t) ==
    /\ maxCalls[i] > 0 => calls[i] <= maxCalls[i]
    /\ maxCredits[i] > 0 => credits[i] + Cost[t] <= maxCredits[i]
CanReserveIfAnyLeft(i, t) ==
    /\ maxCalls[i] > 0 => calls[i] < maxCalls[i]
    /\ maxCredits[i] > 0 => credits[i] < maxCredits[i]
CanReserve(i, t) ==
    /\ maxCalls[i] > 0 => calls[i] < maxCalls[i]
    /\ maxCredits[i] > 0 => credits[i] + Cost[t] <= maxCredits[i]

\* Over the budget: neither spawned nor journalled.
Skip(i, t) ==
    /\ IsNext(i, t)
    /\ ~Hit(i, t)
    /\ ~CanReserve(i, t)
    /\ Finish(i, t, FALSE)
    /\ UNCHANGED <<state, cached, ledgerVars, free, attempts, journal, ghostVars>>

\* A ledger without a cap is not asked. A reservation is never given back.
Reserve(i, t) ==
    /\ IsNext(i, t)
    /\ ~Hit(i, t)
    /\ CanReserve(i, t)
    /\ IF maxCalls[i] > 0 \/ maxCredits[i] > 0
          THEN /\ calls' = [calls EXCEPT ![i] = @ + 1]
               /\ credits' = [credits EXCEPT ![i] = @ + Cost[t]]
          ELSE UNCHANGED <<calls, credits>>
    /\ IF free[i] > 0
          THEN /\ free' = [free EXCEPT ![i] = @ - 1]
               /\ pc' = [pc EXCEPT ![i][t] = "calling"]
          ELSE /\ pc' = [pc EXCEPT ![i][t] = "waiting"]
               /\ UNCHANGED free
    /\ UNCHANGED <<state, cached, maxCalls, maxCredits, attempts, reported, journal, ghostVars>>

-----------------------------------------------------------------------------
(* The semaphore and the call. *)

\* The semaphore wakes its waiters in the order they came, which is that of the tasks.
GetSlot(i, t) ==
    /\ state[i] = "started"
    /\ pc[i][t] = "waiting"
    /\ \A u \in Tasks : u < t => pc[i][u] # "waiting"
    /\ free[i] > 0
    /\ free' = [free EXCEPT ![i] = @ - 1]
    /\ pc' = [pc EXCEPT ![i][t] = "calling"]
    /\ UNCHANGED <<state, cached, ledgerVars, attempts, reported, journal, ghostVars>>

MaySpawn(i, t) == attempts[i][t] <= Retries

\* run_lane spawns the delegate, or spawns it again.
Spawn(i, t) ==
    /\ state[i] = "started"
    /\ pc[i][t] = "calling"
    /\ MaySpawn(i, t)
    /\ attempts' = [attempts EXCEPT ![i][t] = @ + 1]
    /\ UNCHANGED <<state, cached, ledgerVars, free, pc, reported, journal, ghostVars>>

FreeSlot(i) == free' = [free EXCEPT ![i] = @ + 1]

\* run_lane answers, with or without a spawn, and the answer is journalled.
Answer(i, t, ok) ==
    /\ state[i] = "started"
    /\ pc[i][t] = "calling"
    /\ FreeSlot(i)
    /\ Finish(i, t, ok)
    /\ BatchPut(KeyOf[t], IF ok THEN "done" ELSE "failed")
    /\ finished' = IF ok THEN finished \cup {t} ELSE finished
    /\ UNCHANGED <<state, cached, ledgerVars, attempts, overlap>>

\* One crash does not sink the batch, and is not journalled.
RaisesKeepingSlot(i, t) ==
    /\ state[i] = "started"
    /\ pc[i][t] = "calling"
    /\ Finish(i, t, FALSE)
    /\ UNCHANGED <<state, cached, ledgerVars, free, attempts, journal, ghostVars>>
Raises(i, t) ==
    /\ state[i] = "started"
    /\ pc[i][t] = "calling"
    /\ FreeSlot(i)
    /\ Finish(i, t, FALSE)
    /\ UNCHANGED <<state, cached, ledgerVars, attempts, journal, ghostVars>>

-----------------------------------------------------------------------------
(* The end of an invocation. *)

\* Nothing is left of the invocations S, which are over.
Leave(S) ==
    /\ cached' = [i \in Runs |-> IF i \in S THEN {} ELSE cached[i]]
    /\ maxCalls' = [i \in Runs |-> IF i \in S THEN 0 ELSE maxCalls[i]]
    /\ maxCredits' = [i \in Runs |-> IF i \in S THEN 0 ELSE maxCredits[i]]
    /\ calls' = [i \in Runs |-> IF i \in S THEN 0 ELSE calls[i]]
    /\ credits' = [i \in Runs |-> IF i \in S THEN 0 ELSE credits[i]]
    /\ free' = [i \in Runs |-> IF i \in S THEN MaxConcurrency ELSE free[i]]
    /\ pc' = [i \in Runs |-> IF i \in S THEN [t \in Tasks |-> "ready"] ELSE pc[i]]
    /\ attempts' = [i \in Runs |-> IF i \in S THEN [t \in Tasks |-> 0] ELSE attempts[i]]
    /\ reported' = [i \in Runs |-> IF i \in S THEN {} ELSE reported[i]]
    /\ UNCHANGED <<journal, ghostVars>>

\* gather has every result.
Collect(i) ==
    /\ state[i] = "started"
    /\ \A t \in Tasks : pc[i][t] = "done"
    /\ state' = [state EXCEPT ![i] = "over"]
    /\ Leave({i})

\* The job or the request is cancelled, and with it every task.
Cancel(i) ==
    /\ state[i] = "started"
    /\ state' = [state EXCEPT ![i] = "over"]
    /\ Leave({i})

\* The server dies; the journal stays.
Restart ==
    LET S == {i \in Runs : state[i] = "started"} IN
    /\ S # {}
    /\ state' = [i \in Runs |-> IF i \in S THEN "over" ELSE state[i]]
    /\ Leave(S)

TaskStep(i, t) ==
    \/ Replay(i, t) \/ NoLane(i, t) \/ Skip(i, t) \/ Reserve(i, t)
    \/ GetSlot(i, t) \/ Spawn(i, t) \/ Raises(i, t)
    \/ \E ok \in BOOLEAN : Answer(i, t, ok)

RunStep(i) == Collect(i) \/ \E t \in Tasks : TaskStep(i, t)

Next ==
    \/ \E i \in Runs, max \in Budgets : Begin(i, max)
    \/ \E i \in Runs : RunStep(i) \/ Cancel(i)
    \/ Restart

Spec == Init /\ [][Next]_vars

-----------------------------------------------------------------------------
(* Properties *)

Called(i) == {t \in Tasks : pc[i][t] = "calling" \/ attempts[i][t] > 0}

\* Tasks that run in parallel on one ledger never call run_lane more than max_calls times,
\* nor for more than max_credits together, however they wait for the semaphore and
\* whichever of them fail.
CallsWithinBudget ==
    \A i \in Runs : maxCalls[i] > 0 => Cardinality(Called(i)) <= maxCalls[i]
CreditsWithinBudget ==
    \A i \in Runs :
        maxCredits[i] > 0 => MapThenSumSet(LAMBDA t : Cost[t], Called(i)) <= maxCredits[i]

\* The only task with its key.
Unique(t) == \A u \in Tasks : KeyOf[u] = KeyOf[t] => u = t

\* Across cancels, restarts and budgets, invocations that follow one another journal as done
\* only a task that was answered ok, and report no other as ok, now or replayed; and the
\* journal keeps what was answered ok, unless sqlite refused it: then batch_put and batch_get
\* say nothing, and the task counts as not done ...
FinishedIsKept ==
    ~overlap => \A t \in Tasks : Unique(t) =>
        /\ journal[KeyOf[t]] = "done" => t \in finished
        /\ t \in finished => journal[KeyOf[t]] = "done" \/ KeyOf[t] \in refused
        /\ \A i \in Runs : t \in reported[i] => t \in finished

\* ... and run no task again that has finished, with the same exception.
FinishedNotCalledAgain ==
    [][\A i \in Runs, t \in Tasks :
          Unique(t) /\ ~overlap /\ pc[i][t] # "calling" /\ pc'[i][t] = "calling"
              => t \notin finished \/ KeyOf[t] \in refused]_vars

\* Nobody waits for a slot that will never come: one is free, or its holder will free it.
WaitersAreServed ==
    \A i \in Runs :
        (\E t \in Tasks : pc[i][t] = "waiting")
            => free[i] > 0 \/ \E t \in Tasks : pc[i][t] = "calling"

-----------------------------------------------------------------------------
(* What the documentation says, and the code does not keep. *)

\* docs/BUDGET.md: max_calls is "spawns in this invocation (exact)".
MaxCallsIsExact ==
    \A i \in Runs :
        maxCalls[i] > 0 => MapThenSumSet(LAMBDA t : attempts[i][t], Tasks) <= maxCalls[i]
=============================================================================
