-------------------------------- MODULE Runner --------------------------------
(***************************************************************************)
(* One delegate process and the call of runner.arun that runs it: the      *)
(* buffered and the streamed way of reading its two pipes, the deadline,   *)
(* the stall guard, the host's cancel, and _terminate.                     *)
(*                                                                         *)
(* The delegate is a process group: Lead, the process arun spawned, and    *)
(* processes it started. A process may ignore SIGTERM, and may have let go *)
(* of the pipes. Lines are counted; what the classification finds in them  *)
(* (tone) is anything at all. Redaction, ANSI codes, clipping and the log  *)
(* file are left out, and so is what a delegate does once nobody waits.    *)
(*                                                                         *)
(* A variant of an operator stands just before it; no specification uses   *)
(* it.                                                                     *)
(***************************************************************************)
EXTENDS Naturals, FiniteSets

CONSTANTS
    Procs, Lead,
    MaxLines,           \* bound: the lines written to a stream
    PipeSize,           \* the lines a pipe holds
    Timeout, Stall,     \* timeout_s, no_output_timeout, in ticks
    MaxCancels          \* bound: how often the host cancels

ASSUME RunnerAssumption ==
    /\ Lead \in Procs /\ IsFiniteSet(Procs)
    /\ {MaxLines, PipeSize, Timeout, Stall} \subseteq Nat \ {0}
    /\ MaxCancels \in Nat

Streams == {"stdout", "stderr"}
Tones == {"plain", "quota", "policy", "denied"}
Delegates ==
    [group : {g \in SUBSET Procs : Lead \in g}, deaf : SUBSET Procs,
     holders : {h \in SUBSET Procs : Lead \in h}]
NoDelegate == [group |-> {}, deaf |-> {}, holders |-> {}]
Kinds == {"ok", "empty", "policy", "denied", "quota", "failed",
          "timeout", "stalled", "not_found", "cancelled", "raised"}

VARIABLES
    stage,              \* idle, reading, closing (awaits the guard), killing, over
    streamed,
    delegate,
    alive,              \* the processes that run
    reaped,             \* the event loop saw Lead's exit
    code,               \* returncode: 0, or not
    written, got,       \* lines put into a pipe, lines taken out of it
    clock, quiet,       \* since the spawn, since the last line; up to their limits
    guard,              \* the stall guard: off, asleep, killing
    stalled,
    result

groupVars == <<delegate, alive, reaped, code>>
callVars == <<stage, streamed, result>>
guardVars == <<guard, stalled>>
timeVars == <<clock, quiet>>
\* What properties need to know: how often the host cancelled, whether a SIGTERM went to the
\* group, and whether a cancel cut _terminate short.
VARIABLES cancels, signalled, cut
runnerGhostVars == <<cancels, signalled, cut>>
runnerVars == <<callVars, groupVars, written, got, timeVars, guardVars, runnerGhostVars>>

RunnerTypeOK ==
    /\ stage \in {"idle", "reading", "closing", "killing", "over"}
    /\ delegate \in Delegates \cup {NoDelegate} /\ alive \subseteq delegate.group
    /\ reaped => Lead \notin alive
    /\ code \in 0..1
    /\ \A s \in Streams : got[s] <= written[s] /\ written[s] <= MaxLines /\ written[s] - got[s] <= PipeSize
    /\ clock \in 0..Timeout /\ quiet \in 0..Stall
    /\ guard \in {"off", "asleep", "killing"}
    /\ guard # "off" => streamed /\ (stage = "reading" \/ result = "raised")
    /\ result \in Kinds \cup {"none"} /\ (result # "none" <=> stage = "over" \/ (stage = "killing"))
    /\ stage = "killing" => result \in {"timeout", "cancelled"}
    /\ cancels \in 0..MaxCancels

RunnerInit ==
    /\ stage = "idle" /\ streamed = FALSE /\ result = "none"
    /\ delegate = NoDelegate /\ alive = {} /\ reaped = FALSE /\ code = 0
    /\ written = [s \in Streams |-> 0] /\ got = [s \in Streams |-> 0]
    /\ clock = 0 /\ quiet = 0
    /\ guard = "off" /\ stalled = FALSE
    /\ cancels = 0 /\ signalled = FALSE /\ cut = FALSE

-----------------------------------------------------------------------------
(* The delegate. *)

Spawn(d, inStream, guarded) ==
    /\ stage = "idle"
    /\ stage' = "reading" /\ streamed' = inStream
    /\ delegate' = d /\ alive' = d.group
    /\ guard' = IF inStream /\ guarded THEN "asleep" ELSE "off"
    /\ UNCHANGED <<result, reaped, code, written, got, timeVars, stalled, runnerGhostVars>>

\* FileNotFoundError and OSError
SpawnFails ==
    /\ stage = "idle"
    /\ stage' = "over" /\ result' = "not_found"
    /\ UNCHANGED <<streamed, groupVars, written, got, timeVars, guardVars, runnerGhostVars>>

Watched == stage \in {"reading", "closing", "killing"} \/ guard # "off"

Writes(s) ==
    /\ Watched /\ alive \cap delegate.holders # {}
    /\ written[s] < MaxLines /\ written[s] - got[s] < PipeSize
    /\ written' = [written EXCEPT ![s] = @ + 1]
    /\ UNCHANGED <<callVars, groupVars, got, timeVars, guardVars, runnerGhostVars>>

Exits(p) ==
    /\ Watched /\ p \in alive
    /\ alive' = alive \ {p}
    /\ code' \in IF p = Lead THEN 0..1 ELSE {code}
    /\ UNCHANGED <<callVars, delegate, reaped, written, got, timeVars, guardVars, runnerGhostVars>>

\* asyncio's child watcher
Reap ==
    /\ Watched /\ Lead \notin alive /\ ~reaped
    /\ reaped' = TRUE
    /\ UNCHANGED <<callVars, delegate, alive, code, written, got, timeVars, guardVars, runnerGhostVars>>

Tick ==
    /\ stage = "reading" \/ guard = "asleep"
    /\ clock < Timeout \/ quiet < Stall
    /\ clock' = IF clock < Timeout THEN clock + 1 ELSE clock
    /\ quiet' = IF quiet < Stall THEN quiet + 1 ELSE quiet
    /\ UNCHANGED <<callVars, groupVars, written, got, guardVars, runnerGhostVars>>

-----------------------------------------------------------------------------
(* _terminate *)

\* os.getpgid fails once Lead is reaped, and proc.kill() reaches nobody then.
SigtermToLead ==
    /\ alive' = IF Lead \in delegate.deaf THEN alive ELSE alive \ {Lead}
    /\ signalled' = TRUE
Sigterm ==
    /\ alive' = IF reaped THEN alive ELSE alive \cap delegate.deaf
    /\ signalled' = (signalled \/ ~reaped)

Killed(S) == code' = IF Lead \in alive /\ Lead \notin S THEN 1 ELSE code

\* The wait for Lead's exit ends with it, or after three seconds, and then SIGKILL follows.
WaitEndsWithExit == reaped /\ UNCHANGED <<alive, code>>
WaitEnds ==
    \/ reaped /\ UNCHANGED <<alive, code>>
    \/ ~reaped /\ alive' = {} /\ Killed({})

-----------------------------------------------------------------------------
(* Reading. *)

Reading == stage = "reading" \/ (stage = "over" /\ result = "raised")
Eof(s) == alive \cap delegate.holders = {} /\ got[s] = written[s]

Reads(s) ==
    /\ Reading
    /\ got[s] < written[s]
    /\ got' = [got EXCEPT ![s] = @ + 1]
    /\ quiet' = 0
    /\ UNCHANGED <<callVars, groupVars, written, clock, guardVars, runnerGhostVars>>

\* StreamReader.readline raises on a line past its limit, and nothing catches it.
ReadsTooLong(s) ==
    /\ stage = "reading" /\ streamed
    /\ got[s] < written[s]
    /\ got' = [got EXCEPT ![s] = @ + 1]
    /\ stage' = "over" /\ result' = "raised"
    /\ UNCHANGED <<streamed, groupVars, written, timeVars, guardVars, runnerGhostVars>>

\* _finish, _ok_or_empty, _failure_kind
Finish(found) ==
    LET said == \E s \in Streams : got[s] > 0
        tone == IF said THEN found ELSE "plain"
    IN  IF tone = "policy" THEN "policy"
        ELSE IF code = 0 THEN IF ~said THEN "empty" ELSE IF tone = "denied" THEN "denied" ELSE "ok"
        ELSE IF tone = "quota" THEN "quota" ELSE "failed"

Returns(kind) == stage' = "over" /\ result' = kind
ReturnsItsResult ==
    \E found \in Tones : Returns(IF stalled THEN "stalled" ELSE Finish(found))

CoreDoneOnExit == reaped
CoreDone == reaped /\ \A s \in Streams : Eof(s)

\* gather or communicate is done. A guard that is still there is cancelled and awaited.
Done ==
    /\ stage = "reading" /\ CoreDone
    /\ guard' = "off"
    /\ \/ guard # "off" /\ stage' = "closing" /\ UNCHANGED result
       \/ guard = "off" /\ ReturnsItsResult
    /\ UNCHANGED <<streamed, groupVars, written, got, timeVars, stalled, runnerGhostVars>>

\* "except asyncio.CancelledError: pass" takes a cancel by the host for the guard's own.
Closed ==
    /\ stage = "closing"
    /\ ReturnsItsResult
    /\ UNCHANGED <<streamed, groupVars, written, got, timeVars, guardVars, runnerGhostVars>>

\* The deadline, or a cancel: both stop the guard and send SIGTERM before they wait.
CutOff(why) ==
    /\ stage = "reading"
    /\ stage' = "killing" /\ result' = why
    /\ guard' = "off"
    /\ Sigterm /\ Killed(alive')
    /\ UNCHANGED <<streamed, delegate, reaped, written, got, timeVars, stalled, cut>>

Deadline == clock = Timeout /\ CutOff("timeout") /\ UNCHANGED cancels

Terminated ==
    /\ stage = "killing"
    /\ stage' = "over"
    /\ WaitEnds
    /\ UNCHANGED <<streamed, result, delegate, reaped, written, got, timeVars, guardVars, runnerGhostVars>>

CancelArrives ==
    /\ cancels < MaxCancels /\ cancels' = cancels + 1
    /\ \/ CutOff("cancelled")
       \/ /\ stage = "killing"          \* the wait of _terminate ends with it: no SIGKILL
          /\ Returns("cancelled") /\ cut' = TRUE
          /\ UNCHANGED <<streamed, groupVars, written, got, timeVars, guardVars, signalled>>
       \/ /\ stage = "closing"
          /\ ReturnsItsResult
          /\ UNCHANGED <<streamed, groupVars, written, got, timeVars, guardVars, signalled, cut>>

\* _stall_guard. It outlives the call that raised.
GuardWakes ==
    /\ guard = "asleep" /\ quiet = Stall
    /\ guard' = "killing" /\ stalled' = TRUE
    /\ Sigterm /\ Killed(alive')
    /\ UNCHANGED <<callVars, delegate, reaped, written, got, timeVars, cancels, cut>>
GuardEnds ==
    /\ guard = "killing"
    /\ guard' = "off"
    /\ WaitEnds
    /\ UNCHANGED <<callVars, delegate, reaped, written, got, timeVars, stalled, runnerGhostVars>>

RunnerNext ==
    \/ \E d \in Delegates, s, g \in BOOLEAN : Spawn(d, s, g)
    \/ SpawnFails
    \/ \E s \in Streams : Writes(s) \/ Reads(s) \/ ReadsTooLong(s)
    \/ \E p \in Procs : Exits(p)
    \/ Reap \/ Tick \/ Done \/ Closed \/ Deadline \/ Terminated \/ CancelArrives
    \/ GuardWakes \/ GuardEnds

\* The event loop runs and time passes; the delegate owes nothing.
Fairness ==
    /\ WF_runnerVars(Tick) /\ WF_runnerVars(Reap)
    /\ \A s \in Streams : WF_runnerVars(Reads(s))
    /\ WF_runnerVars(Done) /\ WF_runnerVars(Closed) /\ WF_runnerVars(Deadline) /\ WF_runnerVars(Terminated)
    /\ WF_runnerVars(GuardWakes) /\ WF_runnerVars(GuardEnds)

RunnerSpec == RunnerInit /\ [][RunnerNext]_runnerVars /\ Fairness

-----------------------------------------------------------------------------
(* Properties. *)

\* Nothing is left running: after a call that was cut off by its deadline, the stall guard or the
\* host, the CLI is dead, and so is every process of its group that heeds SIGTERM, if the signal
\* found the CLI there and no further cancel cut the killing short; a call that comes back with
\* what the delegate said leaves nobody at its pipes.
NoStrays ==
    stage = "over" /\ result \notin {"not_found", "raised"} /\ ~cut =>
        /\ Lead \notin alive
        /\ signalled => alive \subseteq delegate.deaf
        /\ result \notin {"timeout", "cancelled"} => alive \cap delegate.holders = {}

\* The result tells the truth, whatever the order in which the delegate ends, its pipes close, the
\* guard wakes and the deadline passes: an answer or a failure of the delegate's own is classified
\* from all it ever wrote and its own exit, "empty" means it wrote nothing, and a call the host
\* cancelled before the delegate was done does not come back as if it had not been.
ResultIsTrue ==
    stage = "over" =>
        /\ result \in {"ok", "empty", "policy", "denied", "quota", "failed"} =>
              /\ ~signalled /\ got = written
              /\ result \in {"ok", "empty", "denied"} => code = 0
              /\ result = "empty" <=> code = 0 /\ \A s \in Streams : written[s] = 0
        /\ result = "stalled" => streamed /\ stalled
        /\ result = "timeout" => clock = Timeout /\ cancels = 0
        /\ cancels > 0 /\ ~streamed => result = "cancelled"

\* Every call ends, by its deadline and three seconds at the latest, whatever the delegate ignores
\* and whoever holds its pipes.
CallEnds == stage = "reading" ~> stage = "over"

-----------------------------------------------------------------------------
(* What the documentation says, and the code does not keep. *)

\* runner.py: "Kill the whole process tree so a CLI's children don't survive as orphans."
ChildrenDieToo ==
    stage = "over" /\ result \in {"timeout", "cancelled", "stalled"} => alive = {}

\* runner.py: "If the MCP host CANCELS the call ... the CancelledError propagates here".
CancelPropagates == stage = "over" /\ cancels > 0 => result = "cancelled"
=============================================================================
