------------------------------ MODULE BuildLoop ------------------------------
(***************************************************************************)
(* Steerable direct builds: the background job (jobs.py) that runs a       *)
(* delegate over several turns in one zone of a repository (buildloop.py), *)
(* the per-zone lock it holds (worktrees.py), the delegate process of a    *)
(* turn (runner.py) and the host, which steers, interrupts and cancels.    *)
(*                                                                         *)
(* One server process and one asyncio event loop: an action is the code    *)
(* between two awaits of one task, so git, the Definition of Done and a    *)
(* sqlite write, which block the loop, are part of the action they are in. *)
(*                                                                         *)
(* A few operators have a variant just before them, with a mistake that is *)
(* easily made there (the lock leaked, the queue read too early, ...). No  *)
(* specification uses the variants: each shows that a property below is    *)
(* sensitive to its mistake.                                               *)
(***************************************************************************)
EXTENDS Integers, Sequences

CONSTANTS
    Builds,          \* the async direct builds the host starts
    TargetDir,       \* [Builds -> directory]: the target_dir argument, absolute
    ZoneRel,         \* [Builds -> zone]: the zone, relative to the repository root
    DoDCmd,          \* bound: the builds the host may start with a dod_cmd
    MaxTurns,        \* max_turns
    MaxFailRetries,  \* max_fail_retries
    MaxSteers,       \* bound: the host steers until a build had this many instructions
    MaxInterrupts,   \* bound: interrupts the host sends to one build
    MaxCancels       \* bound: cancel requests for one build answered "cancelling"

ASSUME BuildLoopAssumption ==
    /\ DoDCmd \subseteq Builds
    /\ MaxTurns \in Nat \ {0}
    /\ MaxFailRetries \in Nat \ {0}
    /\ MaxSteers \in Nat
    /\ MaxInterrupts \in Nat
    /\ MaxCancels \in Nat

VARIABLES
    dod,                 \* the builds started with a dod_cmd; an argument, never assigned
    pc,                  \* where the job task is suspended
    status,              \* Job.status
    outcome,             \* BuildState.outcome, "" until _report sets it
    mustCancel,          \* a CancelledError awaits the job task at its next resume
    turn,                \* BuildState.turn
    consecutiveFails,    \* _loop's consecutive_fails
    steerQ,              \* BuildState.steer_q, an instruction being its number
    interruptRequested,  \* BuildState.interrupt_requested
    turnTask,            \* BuildState.turn_task and how far it got
    delegate,            \* the process group of the current turn
    orphan,              \* a delegate of an earlier turn is still running
    work,                \* the build's files are on disk, in its zone
    locked,              \* asyncio.Lock._locked of each zone lock
    waiters              \* the tasks waiting for each zone lock, in order

\* What the properties need to remember; no action reads these.
VARIABLES
    posted,      \* how many instructions were ever queued for the build
    applied,     \* the instructions folded into prompts, in order
    interrupts,  \* how many interrupts the host sent
    cancels,     \* how many cancel requests were answered "cancelling"
    briefed,     \* a delegate was started on the prompt that holds the task
    overran      \* a turn of the build timed out

jobVars == <<pc, status, outcome, mustCancel>>
loopVars == <<turn, consecutiveFails, steerQ, interruptRequested>>
turnVars == <<turnTask, delegate, orphan, work>>
lockVars == <<locked, waiters>>
ghostVars == <<posted, applied, interrupts, cancels, briefed, overran>>
vars == <<dod, jobVars, loopVars, turnVars, lockVars, ghostVars>>

\* _zone_lock: the lock of a build is looked up by the pair (target_dir, zone_rel).
LockKey(b) == <<TargetDir[b], ZoneRel[b]>>
LockKeys == {LockKey(b) : b \in Builds}

Places == {"idle", "created", "locking", "turn", "grace", "settled"}
Statuses == {"absent", "running", "succeeded", "failed", "cancelled"}
Outcomes == {"", "done", "built", "dod_failed", "max_turns", "zone_violation"}
\* A turn is awaited while it runs, while _terminate waits for a delegate that timed
\* out or was cancelled, and while a cancel is on its way ("signalled": to a running
\* turn; "cut": into _terminate itself). Then it has a result, was cancelled or raised.
ActiveTurn == {"running", "timing_out", "cancelling", "signalled", "cut"}
EndedTurn == {"result", "cancelled", "raised"}

Inside(b) == pc[b] \in {"turn", "grace"}

TypeOK ==
    /\ pc \in [Builds -> Places]
    /\ status \in [Builds -> Statuses]
    /\ outcome \in [Builds -> Outcomes]
    /\ mustCancel \in [Builds -> BOOLEAN]
    /\ turn \in [Builds -> 0..MaxTurns]
    /\ consecutiveFails \in [Builds -> 0..MaxFailRetries]
    /\ steerQ \in [Builds -> Seq(Nat)]
    /\ interruptRequested \in [Builds -> BOOLEAN]
    /\ turnTask \in [Builds -> {"none"} \cup ActiveTurn \cup EndedTurn]
    /\ delegate \in [Builds -> {"none", "up", "termed"}]
    /\ orphan \in [Builds -> BOOLEAN]
    /\ work \in [Builds -> BOOLEAN]
    /\ locked \in [LockKeys -> BOOLEAN]
    /\ waiters \in [LockKeys -> Seq(Builds)]
    /\ posted \in [Builds -> Nat]
    /\ applied \in [Builds -> Seq(Nat)]
    /\ interrupts \in [Builds -> 0..MaxInterrupts]
    /\ cancels \in [Builds -> 0..MaxCancels]
    /\ briefed \in [Builds -> BOOLEAN]
    /\ overran \in [Builds -> BOOLEAN]

Init ==
    /\ dod \in SUBSET DoDCmd
    /\ pc = [b \in Builds |-> "idle"]
    /\ status = [b \in Builds |-> "absent"]
    /\ outcome = [b \in Builds |-> ""]
    /\ mustCancel = [b \in Builds |-> FALSE]
    /\ turn = [b \in Builds |-> 0]
    /\ consecutiveFails = [b \in Builds |-> 0]
    /\ steerQ = [b \in Builds |-> <<>>]
    /\ interruptRequested = [b \in Builds |-> FALSE]
    /\ turnTask = [b \in Builds |-> "none"]
    /\ delegate = [b \in Builds |-> "none"]
    /\ orphan = [b \in Builds |-> FALSE]
    /\ work = [b \in Builds |-> FALSE]
    /\ locked = [k \in LockKeys |-> FALSE]
    /\ waiters = [k \in LockKeys |-> <<>>]
    /\ posted = [b \in Builds |-> 0]
    /\ applied = [b \in Builds |-> <<>>]
    /\ interrupts = [b \in Builds |-> 0]
    /\ cancels = [b \in Builds |-> 0]
    /\ briefed = [b \in Builds |-> FALSE]
    /\ overran = [b \in Builds |-> FALSE]

-----------------------------------------------------------------------------
(* How a segment of the loop ends: in the next turn or in the job's result. *)

\* _compose_prompt: the prompt drains q, the queue at that moment.
Compose(b, q) ==
    /\ applied' = [applied EXCEPT ![b] = @ \o q]
    /\ steerQ' = [steerQ EXCEPT ![b] = <<>>]

\* One iteration of _loop up to its await.
BeginTurn(b, q) ==
    /\ turn' = [turn EXCEPT ![b] = @ + 1]
    /\ Compose(b, q)
    /\ turnTask' = [turnTask EXCEPT ![b] = "running"]
    /\ locked' = [locked EXCEPT ![LockKey(b)] = TRUE]
    /\ pc' = [pc EXCEPT ![b] = "turn"]
    /\ UNCHANGED <<status, outcome>>

\* `async with` releases the lock of a build that got as far as taking it.
LeakZone(b) == locked
ReleaseAnyway(b) == [locked EXCEPT ![LockKey(b)] = FALSE]
ReleaseZone(b) == [locked EXCEPT ![LockKey(b)] = @ /\ ~Inside(b)]

\* _report; a build that ends without a report has no outcome.
Report(b, o) == outcome' = [outcome EXCEPT ![b] = o]

\* The job coroutine ends: `async with` releases the zone lock if it is held, jobs._run
\* writes the status s. q is what is left in the queue.
Settle(b, s, o, q) ==
    /\ status' = [status EXCEPT ![b] = s]
    /\ Report(b, o)
    /\ steerQ' = [steerQ EXCEPT ![b] = q]
    /\ turnTask' = [turnTask EXCEPT ![b] = "none"]
    /\ locked' = ReleaseZone(b)
    /\ pc' = [pc EXCEPT ![b] = "settled"]
    /\ UNCHANGED <<turn, applied>>

LoopTopStale(b, q) ==
    \/ turn[b] < MaxTurns /\ BeginTurn(b, steerQ[b])
    \/ turn[b] >= MaxTurns /\ Settle(b, "succeeded", "max_turns", q)

\* `while state.turn < state.max_turns`
LoopTop(b, q) ==
    \/ turn[b] < MaxTurns /\ BeginTurn(b, q)
    \/ turn[b] >= MaxTurns /\ Settle(b, "succeeded", "max_turns", q)

-----------------------------------------------------------------------------
(* The job task: from start_job to the zone lock. *)

\* start_job and register; the task has not run yet.
StartJob(b) ==
    /\ pc[b] = "idle"
    /\ pc' = [pc EXCEPT ![b] = "created"]
    /\ status' = [status EXCEPT ![b] = "running"]
    /\ UNCHANGED <<outcome, mustCancel, loopVars, turnVars, lockVars, ghostVars>>

\* run_build returns an "[error] ..." text before the lock: to jobs._run a result like
\* any other. Or it raises (makedirs, a non-integer max_turns).
RefuseBuild(b) ==
    /\ pc[b] = "created"
    /\ \/ Settle(b, "succeeded", "", steerQ[b])
       \/ Settle(b, "failed", "", steerQ[b])
    /\ UNCHANGED <<mustCancel, consecutiveFails, interruptRequested, delegate, orphan, work,
                   waiters, posted, interrupts, cancels, briefed, overran>>

\* With the lock: the dirty guard refuses, or the first turn starts.
EnterZone(b) ==
    /\ \/ Settle(b, "succeeded", "", steerQ[b])
       \/ LoopTop(b, steerQ[b])
    /\ UNCHANGED <<mustCancel, consecutiveFails, interruptRequested, delegate, orphan, work,
                   posted, interrupts, cancels, briefed, overran>>

\* The lock is free: asyncio.Lock.acquire does not suspend.
TakeFreeZone(b) ==
    /\ pc[b] = "created"
    /\ ~locked[LockKey(b)]
    /\ waiters[LockKey(b)] = <<>>
    /\ EnterZone(b)
    /\ UNCHANGED waiters

QueueForZone(b) ==
    /\ pc[b] = "created"
    /\ locked[LockKey(b)] \/ waiters[LockKey(b)] # <<>>
    /\ waiters' = [waiters EXCEPT ![LockKey(b)] = Append(@, b)]
    /\ pc' = [pc EXCEPT ![b] = "locking"]
    /\ UNCHANGED <<status, outcome, mustCancel, loopVars, turnVars, locked, ghostVars>>

\* The lock was released and this build is the first to wait.
GetZone(b) ==
    /\ pc[b] = "locking"
    /\ ~mustCancel[b]
    /\ ~locked[LockKey(b)]
    /\ waiters[LockKey(b)] # <<>> /\ Head(waiters[LockKey(b)]) = b
    /\ waiters' = [waiters EXCEPT ![LockKey(b)] = Tail(@)]
    /\ EnterZone(b)

CancelledInQueue(b) ==
    /\ pc[b] = "locking"
    /\ mustCancel[b]
    /\ \E i \in DOMAIN waiters[LockKey(b)] :
          /\ waiters[LockKey(b)][i] = b
          /\ waiters' = [waiters EXCEPT ![LockKey(b)] =
                             SubSeq(@, 1, i - 1) \o SubSeq(@, i + 1, Len(@))]
    /\ mustCancel' = [mustCancel EXCEPT ![b] = FALSE]
    /\ Settle(b, "cancelled", "", steerQ[b])
    /\ UNCHANGED <<consecutiveFails, interruptRequested, delegate, orphan, work,
                   posted, interrupts, cancels, briefed, overran>>

-----------------------------------------------------------------------------
(* The turn task: run_lane and the delegate it spawns (runner.arun). *)

Spawn(b) ==
    /\ turnTask[b] = "running"
    /\ delegate[b] = "none"
    /\ delegate' = [delegate EXCEPT ![b] = "up"]
    /\ briefed' = [briefed EXCEPT ![b] = @ \/ turn[b] = 1]
    /\ UNCHANGED <<jobVars, loopVars, turnTask, orphan, work, lockVars,
                   posted, applied, interrupts, cancels, overran>>

\* The delegate exits, or a gate answers in its place; _loop never looks at res.ok.
TurnReturns(b) ==
    /\ turnTask[b] = "running"
    /\ turnTask' = [turnTask EXCEPT ![b] = "result"]
    /\ delegate' = [delegate EXCEPT ![b] = "none"]
    /\ UNCHANGED <<jobVars, loopVars, orphan, work, lockVars, ghostVars>>

TurnRaises(b) ==
    /\ turnTask[b] = "running"
    /\ delegate[b] = "none"
    /\ turnTask' = [turnTask EXCEPT ![b] = "raised"]
    /\ UNCHANGED <<jobVars, loopVars, delegate, orphan, work, lockVars, ghostVars>>

\* arun's wait_for expires: SIGTERM to the group, then up to 3 s of waiting.
TimeOut(b) ==
    /\ turnTask[b] = "running"
    /\ delegate[b] = "up"
    /\ turnTask' = [turnTask EXCEPT ![b] = "timing_out"]
    /\ delegate' = [delegate EXCEPT ![b] = "termed"]
    /\ overran' = [overran EXCEPT ![b] = TRUE]
    /\ UNCHANGED <<jobVars, loopVars, orphan, work, lockVars,
                   posted, applied, interrupts, cancels, briefed>>

\* The turn sees the CancelledError: it kills its delegate first, unless it was already
\* doing so. A CancelledError inside _terminate leaves it before SIGKILL.
CancelArrives(b) ==
    /\ \/ /\ turnTask[b] = "signalled"
          /\ delegate[b] = "up"
          /\ turnTask' = [turnTask EXCEPT ![b] = "cancelling"]
          /\ delegate' = [delegate EXCEPT ![b] = "termed"]
          /\ UNCHANGED orphan
       \/ /\ turnTask[b] = "signalled"
          /\ delegate[b] = "none"
          /\ turnTask' = [turnTask EXCEPT ![b] = "cancelled"]
          /\ UNCHANGED <<delegate, orphan>>
       \/ /\ turnTask[b] = "cut"
          /\ turnTask' = [turnTask EXCEPT ![b] = "cancelled"]
          /\ delegate' = [delegate EXCEPT ![b] = "none"]
          /\ orphan' = [orphan EXCEPT ![b] = @ \/ delegate[b] = "termed"]
    /\ UNCHANGED <<jobVars, loopVars, work, lockVars, ghostVars>>

\* _terminate returns: the delegate obeyed SIGTERM, or SIGKILL came after 3 s.
Terminated(b) ==
    /\ \/ /\ turnTask[b] = "timing_out"
          /\ turnTask' = [turnTask EXCEPT ![b] = "result"]
       \/ /\ turnTask[b] = "cancelling"
          /\ turnTask' = [turnTask EXCEPT ![b] = "cancelled"]
    /\ delegate' = [delegate EXCEPT ![b] = "none"]
    /\ UNCHANGED <<jobVars, loopVars, orphan, work, lockVars, ghostVars>>

\* A process that got SIGTERM may exit, early or late.
DelegateObeys(b) ==
    /\ \/ /\ delegate[b] = "termed"
          /\ delegate' = [delegate EXCEPT ![b] = "none"]
          /\ UNCHANGED orphan
       \/ /\ orphan[b]
          /\ orphan' = [orphan EXCEPT ![b] = FALSE]
          /\ UNCHANGED delegate
    /\ UNCHANGED <<jobVars, loopVars, turnTask, work, lockVars, ghostVars>>

\* The delegate writes into the zone.
Write(b) ==
    /\ delegate[b] # "none" \/ orphan[b]
    /\ ~work[b]
    /\ work' = [work EXCEPT ![b] = TRUE]
    /\ UNCHANGED <<jobVars, loopVars, turnTask, delegate, orphan, lockVars, ghostVars>>

-----------------------------------------------------------------------------
(* The job task: what follows `await state.turn_task`. *)

SawCancel(b) == pc[b] = "turn" /\ (turnTask[b] = "cancelled" \/ mustCancel[b])
SawResultFirst(b) == pc[b] = "turn" /\ turnTask[b] = "result"
SawResult(b) == pc[b] = "turn" /\ turnTask[b] = "result" /\ ~mustCancel[b]

\* The CancelledError is taken for an interrupt: the loop goes on.
InterruptTaken(b) ==
    /\ SawCancel(b)
    /\ interruptRequested[b]
    /\ interruptRequested' = [interruptRequested EXCEPT ![b] = FALSE]
    /\ mustCancel' = [mustCancel EXCEPT ![b] = FALSE]
    /\ LoopTop(b, steerQ[b])
    /\ UNCHANGED <<consecutiveFails, delegate, orphan, work, waiters,
                   posted, interrupts, cancels, briefed, overran>>

CancelTaken(b) ==
    /\ SawCancel(b)
    /\ ~interruptRequested[b]
    /\ mustCancel' = [mustCancel EXCEPT ![b] = FALSE]
    /\ Settle(b, "cancelled", "", steerQ[b])
    /\ UNCHANGED <<consecutiveFails, interruptRequested, delegate, orphan, work, waiters,
                   posted, interrupts, cancels, briefed, overran>>

\* run_lane raised something else: jobs._run records a failed job.
TurnFailed(b) ==
    /\ pc[b] = "turn"
    /\ turnTask[b] = "raised"
    /\ ~mustCancel[b]
    /\ Settle(b, "failed", "", steerQ[b])
    /\ UNCHANGED <<mustCancel, consecutiveFails, interruptRequested, delegate, orphan, work,
                   waiters, posted, interrupts, cancels, briefed, overran>>

\* _revert_zone: git checkout and git clean take back whatever was written in the zone.
RevertZone(b) == [c \in Builds |-> work[c] /\ ZoneRel[c] # ZoneRel[b]]

\* The global porcelain check found a path outside the zone: the zone is reverted,
\* and the job settles as failed (server's predicate).
ZoneViolated(b) ==
    /\ SawResult(b)
    /\ work' = RevertZone(b)
    /\ Settle(b, "failed", "zone_violation", steerQ[b])
    /\ UNCHANGED <<mustCancel, consecutiveFails, interruptRequested, delegate, orphan, waiters,
                   posted, interrupts, cancels, briefed, overran>>

DoDPasses(b) ==
    /\ SawResult(b)
    /\ b \in dod
    /\ Settle(b, "succeeded", "done", steerQ[b])
    /\ UNCHANGED <<mustCancel, consecutiveFails, interruptRequested, delegate, orphan, work,
                   waiters, posted, interrupts, cancels, briefed, overran>>

\* The last failure allowed ends the build; an earlier one is queued as steering.
DoDFails(b) ==
    /\ SawResult(b)
    /\ b \in dod
    /\ consecutiveFails' = [consecutiveFails EXCEPT ![b] = @ + 1]
    /\ \/ /\ consecutiveFails[b] + 1 >= MaxFailRetries
          /\ Settle(b, "succeeded", "dod_failed", steerQ[b])
          /\ UNCHANGED posted
       \/ /\ consecutiveFails[b] + 1 < MaxFailRetries
          /\ LoopTop(b, Append(steerQ[b], posted[b] + 1))
          /\ posted' = [posted EXCEPT ![b] = @ + 1]
    /\ UNCHANGED <<mustCancel, interruptRequested, delegate, orphan, work, waiters,
                   interrupts, cancels, briefed, overran>>

\* Without a dod_cmd: queued steering means another turn, else the grace wait starts
\* (steer_evt is cleared: only what arrives from here on can end the wait early).
NoDoDTurnEnds(b) ==
    /\ SawResult(b)
    /\ b \notin dod
    /\ consecutiveFails' = [consecutiveFails EXCEPT ![b] = 0]
    /\ \/ /\ steerQ[b] # <<>>
          /\ LoopTop(b, steerQ[b])
       \/ /\ steerQ[b] = <<>>
          /\ pc' = [pc EXCEPT ![b] = "grace"]
          /\ turnTask' = [turnTask EXCEPT ![b] = "none"]
          /\ UNCHANGED <<status, outcome, turn, steerQ, applied, locked>>
    /\ UNCHANGED <<mustCancel, interruptRequested, delegate, orphan, work, waiters,
                   posted, interrupts, cancels, briefed, overran>>

\* _wait_for_steer's answer.
OnlyInterrupted(b) == interruptRequested[b]
WaitedLongEnough(b) == TRUE
SomethingCame(b) == steerQ[b] # <<>> \/ interruptRequested[b]

\* steer_evt was set, or the grace period is over; what counts is what the loop sees now.
GraceEnds(b) ==
    /\ pc[b] = "grace"
    /\ ~mustCancel[b]
    /\ IF SomethingCame(b)
          THEN LoopTop(b, steerQ[b])
          ELSE Settle(b, "succeeded", "built", steerQ[b])
    /\ UNCHANGED <<mustCancel, consecutiveFails, interruptRequested, delegate, orphan, work,
                   waiters, posted, interrupts, cancels, briefed, overran>>

CancelledInGrace(b) ==
    /\ pc[b] = "grace"
    /\ mustCancel[b]
    /\ mustCancel' = [mustCancel EXCEPT ![b] = FALSE]
    /\ Settle(b, "cancelled", "", steerQ[b])
    /\ UNCHANGED <<consecutiveFails, interruptRequested, delegate, orphan, work, waiters,
                   posted, interrupts, cancels, briefed, overran>>

-----------------------------------------------------------------------------
(* The host. It learns the job id from the answer to ask_build, after the   *)
(* job task has run its first segment; a build is never unregistered.       *)

Known(b) == pc[b] \notin {"idle", "created"}

\* Task.cancel() on the turn task.
Signal(t) ==
    CASE t = "running" -> "signalled"
      [] t \in {"timing_out", "cancelling"} -> "cut"
      [] OTHER -> t

\* job(action=steer, instruction=..., interrupt=i): answered "steering queued".
Steer(b, i) ==
    /\ Known(b)
    /\ posted[b] < MaxSteers
    /\ i => interrupts[b] < MaxInterrupts
    /\ posted' = [posted EXCEPT ![b] = @ + 1]
    /\ steerQ' = [steerQ EXCEPT ![b] = Append(@, posted[b] + 1)]
    /\ interruptRequested' = [interruptRequested EXCEPT ![b] = @ \/ i]
    /\ interrupts' = [interrupts EXCEPT ![b] = IF i THEN @ + 1 ELSE @]
    /\ turnTask' = [turnTask EXCEPT ![b] = IF i THEN Signal(@) ELSE @]
    /\ UNCHANGED <<jobVars, turn, consecutiveFails, delegate, orphan, work, lockVars,
                   applied, cancels, briefed, overran>>

\* job(action=steer, interrupt=true) alone.
Interrupt(b) ==
    /\ Known(b)
    /\ interrupts[b] < MaxInterrupts
    /\ interrupts' = [interrupts EXCEPT ![b] = @ + 1]
    /\ interruptRequested' = [interruptRequested EXCEPT ![b] = TRUE]
    /\ turnTask' = [turnTask EXCEPT ![b] = Signal(@)]
    /\ UNCHANGED <<jobVars, turn, consecutiveFails, steerQ, delegate, orphan, work, lockVars,
                   posted, applied, cancels, briefed, overran>>

CancelAtOnce(b) ==
    /\ Known(b)
    /\ status[b] = "running"
    /\ cancels[b] < MaxCancels
    /\ cancels' = [cancels EXCEPT ![b] = @ + 1]
    /\ status' = [status EXCEPT ![b] = "cancelled"]
    /\ turnTask' = [turnTask EXCEPT ![b] = Signal(@)]
    /\ UNCHANGED <<pc, outcome, mustCancel, loopVars, delegate, orphan, work, lockVars,
                   posted, applied, interrupts, briefed, overran>>

\* job(action=cancel), answered "cancelling": Task.cancel() on the job task goes to the
\* turn it awaits, or marks the job task itself.
Cancel(b) ==
    /\ Known(b)
    /\ status[b] = "running"
    /\ cancels[b] < MaxCancels
    /\ cancels' = [cancels EXCEPT ![b] = @ + 1]
    /\ IF turnTask[b] \in ActiveTurn
          THEN /\ turnTask' = [turnTask EXCEPT ![b] = Signal(@)]
               /\ UNCHANGED mustCancel
          ELSE /\ mustCancel' = [mustCancel EXCEPT ![b] = TRUE]
               /\ UNCHANGED turnTask
    /\ UNCHANGED <<pc, status, outcome, loopVars, delegate, orphan, work, lockVars,
                   posted, applied, interrupts, briefed, overran>>

-----------------------------------------------------------------------------
LoopStep(b) ==
    /\ \/ RefuseBuild(b) \/ TakeFreeZone(b) \/ QueueForZone(b) \/ GetZone(b)
       \/ CancelledInQueue(b) \/ InterruptTaken(b) \/ CancelTaken(b) \/ TurnFailed(b)
       \/ ZoneViolated(b) \/ DoDPasses(b) \/ DoDFails(b) \/ NoDoDTurnEnds(b)
       \/ GraceEnds(b) \/ CancelledInGrace(b)
    /\ UNCHANGED dod

TurnStep(b) ==
    /\ \/ Spawn(b) \/ TurnReturns(b) \/ TurnRaises(b) \/ TimeOut(b)
       \/ CancelArrives(b) \/ Terminated(b)
    /\ UNCHANGED dod

HostStep(b) ==
    \/ StartJob(b) \/ Interrupt(b) \/ Cancel(b)
    \/ \E i \in BOOLEAN : Steer(b, i)

Next ==
    \E b \in Builds :
        \/ LoopStep(b) \/ TurnStep(b)
        \/ (HostStep(b) \/ DelegateObeys(b) \/ Write(b)) /\ UNCHANGED dod

\* The event loop runs every ready task. A turn ends: arun bounds it by timeout_s and
\* _terminate by 3 s; a grace wait ends after 90 s. Nothing is assumed of the host, nor
\* of a delegate: it may write or not, obey SIGTERM or not.
Fairness == \A b \in Builds : WF_vars(LoopStep(b)) /\ WF_vars(TurnStep(b))

Spec == Init /\ [][Next]_vars
FairSpec == Spec /\ Fairness

-----------------------------------------------------------------------------
(* Properties *)

\* A delegate of the build is running: that of its turn, or one an earlier turn left.
Runs(b) == delegate[b] # "none" \/ orphan[b]

\* A turn that was being terminated can have been cut once more: there were two cuts, or
\* one and a timeout.
MayBeCutTwice(b) == interrupts[b] + cancels[b] >= IF overran[b] THEN 1 ELSE 2

\* The zone lock serialises delegates, the ones left behind included: delegates of two
\* builds that look up the same lock run at the same time only if the host cut a turn of
\* one of them that was already being terminated (runner.py:250 then leaves before
\* SIGKILL). A cancel in the queue, a first cut or a timeout alone never gets them there.
OneDelegatePerLock ==
    \A b, c \in Builds :
        b # c /\ LockKey(b) = LockKey(c) /\ Runs(b) /\ Runs(c) =>
            MayBeCutTwice(b) \/ MayBeCutTwice(c)

\* An interrupt cuts a turn, never the job: only a job somebody cancelled ends cancelled,
\* although both reach the loop as the same CancelledError.
CancelledOnlyIfAsked ==
    \A b \in Builds : status[b] = "cancelled" => cancels[b] > 0

\* While nobody interrupts, a cancel request answered "cancelling" is never lost: not in
\* the lock queue, in the grace wait, nor on a turn that has just finished.
CancelHonouredWithoutInterrupt ==
    \A b \in Builds :
        status[b] \in {"succeeded", "failed"} /\ interrupts[b] = 0 => cancels[b] = 0

\* A turn leaves no delegate behind, not even one that timed out or was cut: only one
\* that was cut while it was already being terminated does.
OneCutLeavesNoDelegate ==
    \A b \in Builds : orphan[b] => MayBeCutTwice(b)

\* Every instruction queued, by the host or by a failing Definition of Done, is folded
\* into at most one prompt, in the order it came, or is still queued.
SteeringOnceInOrder ==
    \A b \in Builds : applied[b] \o steerQ[b] = [i \in 1..posted[b] |-> i]

\* A build nobody interrupted takes a turn after its first only on an instruction, of the
\* host or of a failing Definition of Done, that the turn's prompt holds: no timer, cancel
\* or late answer buys one, over all the places where the loop continues.
TurnsAnswerInstructions ==
    \A b \in Builds : interrupts[b] = 0 => turn[b] <= 1 + Len(applied[b])

\* What the host queued while the job ran is read by a turn, unless the job ends for a
\* reason of its own; a build that just waited out its grace period has none.
SteeringIsRead ==
    \A b \in Builds :
        Known(b) /\ status[b] = "running" /\ steerQ[b] # <<>> ~>
            \/ steerQ[b] = <<>>
            \/ status[b] # "running" /\ outcome[b] # "built"

\* A delegate's files are taken back by a zone violation only, and only in the zone it
\* happened in: not by an interrupt, a cancel, a timeout or a build of another zone.
WorkLostOnlyToViolation ==
    [][\A b \in Builds : work[b] /\ ~work'[b] =>
          \E c \in Builds : /\ ZoneRel[c] = ZoneRel[b]
                            /\ pc[c] = "turn" /\ outcome'[c] = "zone_violation"]_vars

\* Every build the host starts ends: no lost lock hand-over, no endless turns.
BuildsSettle ==
    \A b \in Builds : pc[b] = "created" ~> pc[b] = "settled"

-----------------------------------------------------------------------------
(* What the code and its documentation say, and the code does not keep. *)

\* jobs.cancel: once it answered "cancelling", "the final 'cancelled' status lands
\* asynchronously".
CancelHonoured ==
    \A b \in Builds : status[b] \in {"succeeded", "failed"} => cancels[b] = 0

\* jobs.py: "Cancelling a job cancels its task, which propagates into runner.arun and
\* kills the delegate's whole process group": once cancelled, nothing of it runs.
CancelledIsDead ==
    \A b \in Builds : status[b] = "cancelled" => delegate[b] = "none" /\ ~orphan[b]

\* The prompt of a turn after the first only says that the previous work is on disk: a
\* delegate was started on the first one, which alone holds the task.
LaterTurnsWereBriefed ==
    \A b \in Builds : turn[b] >= 2 => briefed[b]

\* worktrees.py: "a per-zone atomic lock prevents two builds racing the same zone".
OneDelegatePerZone ==
    \A b, c \in Builds : b # c /\ ZoneRel[b] = ZoneRel[c] => ~Runs(b) \/ ~Runs(c)

\* _wait_for_steer: the note of the grace wait says "send job(action=steer) to continue, or
\* it finishes shortly", and its answer is True "if something arrived": every turn after
\* the first was asked for by an instruction or an interrupt, each asking for one.
TurnsAreAskedFor ==
    \A b \in Builds : turn[b] <= 1 + posted[b] + interrupts[b]

-----------------------------------------------------------------------------
\* What the job tool promises of any job: see JobLifecycle.
Job == INSTANCE JobLifecycle WITH
          Jobs <- Builds, asked <- {b \in Builds : cancels[b] > 0}
JobLifecycleSpec == Job!Spec
=============================================================================
