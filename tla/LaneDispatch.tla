---------------------------- MODULE LaneDispatch ----------------------------
(***************************************************************************)
(* One call of a delegate lane, from its spend gates to its row in the     *)
(* telemetry database (server._run_lane), among other calls of the same    *)
(* server: the daily run limit and the credit cap, the pacing of spawns    *)
(* (runner.pace), the retries (server._spawn_with_retry), and the health   *)
(* of a lane, which every recorded run rewrites (telemetry.record).        *)
(*                                                                         *)
(* One asyncio event loop, so an action is the code between two awaits of  *)
(* one call. A worker is a place for a call under way. Points in time are  *)
(* kept as the time left or passed, in ticks, and the runs and credits of  *)
(* today as running totals, as the queries that sum the rows return them.  *)
(*                                                                         *)
(* As in BuildLoop, a variant of an operator stands just before it; no     *)
(* specification uses it.                                                  *)
(***************************************************************************)
EXTENDS Integers, Sequences, FiniteSets, SequencesExt

CONSTANTS
    Workers,          \* bound: calls under way at once
    Lanes,
    DailyLimit,       \* [Lanes -> Int]: <LANE>_DAILY_LIMIT, negative when there is none
    Paid,             \* the lanes of the paid tier
    Rated,            \* the lanes with a CREDITS_PER_1K rate: their runs cost credits
    CreditCap,        \* DAILY_CREDIT_CAP, 0 when there is none
    MaxCost,          \* bound: the estimated credits of one run
    MinInterval,      \* [Lanes -> Nat]: <LANE>_MIN_INTERVAL_S, 0 when spawns are not paced
    Retries,          \* CLI_BRIDGE_RETRIES
    CooldownTimeout, CooldownQuota, CooldownAuth, CooldownEmpty, CooldownEmptyMax,
    MaxCalls,         \* bound: calls the host makes
    MaxResets         \* bound: reset_lane_state calls

ASSUME LaneDispatchAssumption ==
    /\ IsFiniteSet(Workers)
    /\ DailyLimit \in [Lanes -> Int]
    /\ Paid \subseteq Lanes /\ Rated \subseteq Lanes
    /\ {CreditCap, MaxCost, Retries, MaxCalls, MaxResets} \subseteq Nat
    /\ MinInterval \in [Lanes -> Nat]
    /\ {CooldownTimeout, CooldownQuota, CooldownAuth, CooldownEmpty, CooldownEmptyMax}
          \subseteq Nat

VARIABLES
    pc,            \* where the call of a worker is suspended
    lane,          \* the lane it calls
    retriesLeft,   \* how often _spawn_with_retry may still spawn again
    today,         \* the run was started today
    paceQ,         \* who holds the pacing lock of a lane, then who waits for it
    paceLeft,      \* how long ago _PACE_LAST was, as the wait it still imposes
    bench,         \* lane_state.cooldown_until, as the time left
    timeouts,      \* lane_state.consecutive_timeouts
    empties,       \* lane_state.consecutive_empties
    runsToday,     \* lane_runs_today
    creditsToday   \* est_credits_today

\* What the bounds and the properties need; the server has none of it.
VARIABLES
    calls, resets,   \* how many there were
    outcomes,    \* the latest outcomes of a lane, while they are the same, and its resets
    sinceStart   \* the time since the lane's last paced spawn, up to MinInterval

callVars == <<pc, lane, retriesLeft, today>>
paceVars == <<paceQ, paceLeft>>
healthVars == <<bench, timeouts, empties>>
spendVars == <<runsToday, creditsToday>>
ghostVars == <<calls, resets, outcomes, sinceStart>>
vars == <<callVars, paceVars, healthVars, spendVars, ghostVars>>

\* RunResult.kind; "failed" stands for every failure that no bench follows, whether it is
\* retried (failed, spawn) or not (policy, denied, stalled, not_found).
FailureKinds == {"timeout", "quota", "auth", "empty", "failed"}
Kinds == {"ok"} \cup FailureKinds

CooldownTimeoutThreshold == 2
CooldownEmptyThreshold == 2

AtMost(a, b) == IF a < b THEN a ELSE b
Down(n) == IF n > 0 THEN n - 1 ELSE 0

TypeOK ==
    /\ pc \in [Workers -> {"idle", "selected", "workspace", "pacing", "running", "backoff"}]
    /\ lane \in [Workers -> Lanes]
    /\ retriesLeft \in [Workers -> 0..Retries]
    /\ today \in [Workers -> BOOLEAN]
    /\ paceQ \in [Lanes -> Seq(Workers)]
    /\ \A l \in Lanes : paceLeft[l] \in 0..MinInterval[l]
    \* "Never infinite": no bench outlasts the longest of the configured waits.
    /\ \A l \in Lanes : \E longest \in {CooldownTimeout, CooldownQuota, CooldownAuth,
                                        CooldownEmptyMax} : bench[l] \in 0..longest
    /\ timeouts \in [Lanes -> Nat]
    /\ empties \in [Lanes -> Nat]
    /\ runsToday \in [Lanes -> Nat]
    /\ creditsToday \in Nat
    /\ calls \in 0..MaxCalls /\ resets \in 0..MaxResets
    /\ outcomes \in [Lanes -> Seq(FailureKinds \cup {"reset"})]
    /\ \A l \in Lanes : sinceStart[l] \in 0..MinInterval[l]

Init ==
    /\ pc = [w \in Workers |-> "idle"]
    /\ lane \in [Workers -> Lanes]
    /\ retriesLeft = [w \in Workers |-> 0]
    /\ today = [w \in Workers |-> FALSE]
    /\ paceQ = [l \in Lanes |-> <<>>]
    /\ paceLeft = [l \in Lanes |-> 0]
    /\ bench = [l \in Lanes |-> 0]
    /\ timeouts = [l \in Lanes |-> 0]
    /\ empties = [l \in Lanes |-> 0]
    /\ runsToday = [l \in Lanes |-> 0]
    /\ creditsToday = 0
    /\ calls = 0 /\ resets = 0
    /\ outcomes = [l \in Lanes |-> <<>>]
    /\ sinceStart = [l \in Lanes |-> MinInterval[l]]

-----------------------------------------------------------------------------
(* _run_lane up to the spawn. *)

UnderDailyLimitLate(l) == DailyLimit[l] >= 0 => runsToday[l] <= DailyLimit[l]
UnderDailyLimit(l) == DailyLimit[l] >= 0 => runsToday[l] < DailyLimit[l]

UnderCreditCapPaidOnly(l) == CreditCap > 0 /\ l \in Paid => creditsToday < CreditCap
UnderCreditCap(l) == CreditCap > 0 /\ l \in Paid \cup Rated => creditsToday < CreditCap

\* telemetry.start, then the first spawn.
Start(w, l) ==
    /\ pc' = [pc EXCEPT ![w] = "running"]
    /\ today' = [today EXCEPT ![w] = TRUE]
    /\ sinceStart' = [sinceStart EXCEPT ![l] = 0]

Suspend(w, p) ==
    /\ pc' = [pc EXCEPT ![w] = p]
    /\ UNCHANGED <<today, paceLeft, sinceStart>>

\* The call is over; nothing of it is recorded.
Return(w) ==
    /\ pc' = [pc EXCEPT ![w] = "idle"]
    /\ retriesLeft' = [retriesLeft EXCEPT ![w] = 0]
    /\ today' = [today EXCEPT ![w] = FALSE]
    /\ UNCHANGED <<paceVars, sinceStart>>

\* pace, which suspends only to wait for its lock or for the interval, then the spawn.
Pace(w, l) ==
    \/ /\ MinInterval[l] = 0 \/ (paceQ[l] = <<>> /\ paceLeft[l] = 0)
       /\ Start(w, l)
       /\ paceLeft' = [paceLeft EXCEPT ![l] = MinInterval[l]]
       /\ UNCHANGED paceQ
    \/ /\ MinInterval[l] > 0
       /\ paceQ[l] # <<>> \/ paceLeft[l] > 0
       /\ paceQ' = [paceQ EXCEPT ![l] = Append(@, w)]
       /\ Suspend(w, "pacing")

\* From the gates to the first await. A gate answers "blocked", a cwd that is no
\* directory "failed", the cache what it holds; without a cwd the host may be asked for
\* its roots. A build is not replayed: it has edited files already.
Enter(w, l, isBuild) ==
    \/ Return(w)
    \/ /\ UnderDailyLimit(l)
       /\ UnderCreditCap(l)
       /\ retriesLeft' = [retriesLeft EXCEPT ![w] = IF isBuild THEN 0 ELSE Retries]
       /\ \/ Pace(w, l)
          \/ Suspend(w, "workspace") /\ UNCHANGED paceQ

\* The host asks one lane, which is never held back by its bench.
Ask(w, l, isBuild) ==
    /\ pc[w] = "idle"
    /\ calls < MaxCalls
    /\ calls' = calls + 1
    /\ lane' = [lane EXCEPT ![w] = l]
    /\ Enter(w, l, isBuild)
    /\ UNCHANGED <<healthVars, spendVars, resets, outcomes>>

\* ask_all and the like: a lane that is not benched is picked now, and called later.
Select(w, l) ==
    /\ pc[w] = "idle"
    /\ calls < MaxCalls
    /\ bench[l] = 0
    /\ calls' = calls + 1
    /\ pc' = [pc EXCEPT ![w] = "selected"]
    /\ lane' = [lane EXCEPT ![w] = l]
    /\ UNCHANGED <<retriesLeft, today, paceVars, healthVars, spendVars,
                   resets, outcomes, sinceStart>>

CallSelected(w) ==
    /\ pc[w] = "selected"
    /\ Enter(w, lane[w], FALSE)
    /\ UNCHANGED <<lane, healthVars, spendVars, calls, resets, outcomes>>

\* _workspace_root returns: the cache is looked up, then the call is paced.
RootsKnown(w) ==
    /\ pc[w] = "workspace"
    /\ \/ Return(w)
       \/ Pace(w, lane[w]) /\ UNCHANGED retriesLeft
    /\ UNCHANGED <<lane, healthVars, spendVars, calls, resets, outcomes>>

PacedUnstamped(w) ==
    LET l == lane[w] IN
    /\ pc[w] = "pacing"
    /\ Head(paceQ[l]) = w
    /\ paceLeft[l] = 0
    /\ paceQ' = [paceQ EXCEPT ![l] = Tail(@)]
    /\ Start(w, l)
    /\ UNCHANGED <<lane, retriesLeft, paceLeft, healthVars, spendVars,
                   calls, resets, outcomes>>

\* The holder of the pacing lock has slept long enough, and writes _PACE_LAST.
Paced(w) ==
    LET l == lane[w] IN
    /\ pc[w] = "pacing"
    /\ Head(paceQ[l]) = w
    /\ paceLeft[l] = 0
    /\ paceQ' = [paceQ EXCEPT ![l] = Tail(@)]
    /\ paceLeft' = [paceLeft EXCEPT ![l] = MinInterval[l]]
    /\ Start(w, l)
    /\ UNCHANGED <<lane, retriesLeft, healthVars, spendVars, calls, resets, outcomes>>

-----------------------------------------------------------------------------
(* telemetry.record: the row of the run and the health of its lane. *)

TwoToThe[n \in Nat] == IF n = 0 THEN 1 ELSE 2 * TwoToThe[n - 1]

\* The wait after n empties in a row.
EmptyBackoffUncapped(n) == CooldownEmpty * TwoToThe[n - CooldownEmptyThreshold]
EmptyBackoff(n) ==
    AtMost(CooldownEmpty * TwoToThe[n - CooldownEmptyThreshold], CooldownEmptyMax)

\* cooldown_until after a failure that makes it t timeouts and e empties in a row; what is
\* no reason for a bench carries an existing one forward.
BenchDropped(l, k, t, e) ==
    CASE k = "quota" -> CooldownQuota
      [] k = "auth" -> CooldownAuth
      [] k = "timeout" /\ t >= CooldownTimeoutThreshold -> CooldownTimeout
      [] k = "empty" /\ e >= CooldownEmptyThreshold -> EmptyBackoff(e)
      [] OTHER -> 0
BenchAfter(l, k, t, e) ==
    CASE k = "quota" -> CooldownQuota
      [] k = "auth" -> CooldownAuth
      [] k = "timeout" /\ t >= CooldownTimeoutThreshold -> CooldownTimeout
      [] k = "empty" /\ e >= CooldownEmptyThreshold -> EmptyBackoff(e)
      [] OTHER -> bench[l]

\* The outcomes of l with k after them, from where they are all k.
Remember(l, k) ==
    IF k = "ok" THEN <<>>
    ELSE IF \A i \in DOMAIN outcomes[l] : outcomes[l][i] \in {k, "reset"}
            THEN Append(outcomes[l], k)
            ELSE <<k>>

\* _update_lane_state
UpdateLaneState(l, k) ==
    LET t == IF k = "timeout" THEN timeouts[l] + 1 ELSE 0
        e == IF k = "empty" THEN empties[l] + 1 ELSE 0
    IN  /\ timeouts' = [timeouts EXCEPT ![l] = t]
        /\ empties' = [empties EXCEPT ![l] = e]
        /\ bench' = [bench EXCEPT ![l] = IF k = "ok" THEN 0 ELSE BenchAfter(l, k, t, e)]
        /\ outcomes' = [outcomes EXCEPT ![l] = Remember(l, k)]

\* A run counts for the day it was started on; an unrated lane costs no credits.
Record(w, k, cost) ==
    LET l == lane[w] IN
    /\ UpdateLaneState(l, k)
    /\ runsToday' = [runsToday EXCEPT ![l] = IF today[w] THEN @ + 1 ELSE @]
    /\ creditsToday' = IF today[w] /\ l \in Rated THEN creditsToday + cost ELSE creditsToday

\* The delegate is done and its run recorded; arun turns a timeout into an answer too.
Answer(w, k, cost) ==
    /\ pc[w] = "running"
    /\ Record(w, k, cost)
    /\ Return(w)
    /\ UNCHANGED <<lane, calls, resets>>

\* A failure worth a retry: "failed" or "spawn".
FailTransiently(w) ==
    /\ pc[w] = "running"
    /\ retriesLeft[w] > 0
    /\ pc' = [pc EXCEPT ![w] = "backoff"]
    /\ UNCHANGED <<lane, retriesLeft, today, paceVars, healthVars, spendVars, ghostVars>>

\* A retry is spawned after its own backoff, not paced.
Retry(w) ==
    /\ pc[w] = "backoff"
    /\ pc' = [pc EXCEPT ![w] = "running"]
    /\ retriesLeft' = [retriesLeft EXCEPT ![w] = @ - 1]
    /\ UNCHANGED <<lane, today, paceVars, healthVars, spendVars, ghostVars>>

-----------------------------------------------------------------------------
(* The host and the clock. *)

\* `async with lock`: a cancelled caller gives its place up, or the lock.
StayInLine(w) == paceQ
LeaveLine(w) == [l \in Lanes |-> RemoveFirst(paceQ[l], w)]

\* The request or the job is cancelled in whatever it awaits: no row is written.
Cancel(w) ==
    /\ pc[w] # "idle"
    /\ pc' = [pc EXCEPT ![w] = "idle"]
    /\ retriesLeft' = [retriesLeft EXCEPT ![w] = 0]
    /\ today' = [today EXCEPT ![w] = FALSE]
    /\ paceQ' = LeaveLine(w)
    /\ UNCHANGED <<lane, paceLeft, healthVars, spendVars, ghostVars>>

\* reset_lane: the bench and the timeouts, not the empties.
ResetLane(l) ==
    /\ resets < MaxResets
    /\ resets' = resets + 1
    /\ bench' = [bench EXCEPT ![l] = 0]
    /\ timeouts' = [timeouts EXCEPT ![l] = 0]
    /\ outcomes' = [outcomes EXCEPT ![l] = Append(@, "reset")]
    /\ UNCHANGED <<callVars, paceVars, empties, spendVars, calls, sinceStart>>

Tick ==
    /\ bench' = [l \in Lanes |-> Down(bench[l])]
    /\ paceLeft' = [l \in Lanes |-> Down(paceLeft[l])]
    /\ sinceStart' = [l \in Lanes |-> AtMost(sinceStart[l] + 1, MinInterval[l])]
    /\ UNCHANGED <<callVars, paceQ, timeouts, empties, spendVars,
                   calls, resets, outcomes>>

\* _utc_day_start moves on: the rows written so far are not of today any more.
Midnight ==
    /\ today' = [w \in Workers |-> FALSE]
    /\ runsToday' = [l \in Lanes |-> 0]
    /\ creditsToday' = 0
    /\ UNCHANGED <<pc, lane, retriesLeft, paceVars, healthVars,
                   calls, resets, outcomes, sinceStart>>

-----------------------------------------------------------------------------
\* The steps of a call that wait for nobody but the event loop, the clock and the delegate.
CallStep(w) ==
    \/ CallSelected(w) \/ Paced(w) \/ FailTransiently(w) \/ Retry(w)
    \/ \E k \in Kinds, cost \in 0..MaxCost : Answer(w, k, cost)

HostStep ==
    \/ \E w \in Workers, l \in Lanes : Select(w, l) \/ \E b \in BOOLEAN : Ask(w, l, b)
    \/ \E w \in Workers : RootsKnown(w) \/ Cancel(w)
    \/ \E l \in Lanes : ResetLane(l)

Next == HostStep \/ Tick \/ Midnight \/ \E w \in Workers : CallStep(w)

\* The event loop runs what is ready and time passes; a delegate answers, since arun
\* bounds it by timeout_s. Nothing bounds the host's answer about its roots.
Fairness == WF_vars(Tick) /\ \A w \in Workers : WF_vars(CallStep(w))

Spec == Init /\ [][Next]_vars
FairSpec == Spec /\ Fairness

-----------------------------------------------------------------------------
(* Properties *)

\* The calls that have passed the gates and are not recorded yet.
InFlight(l) == {w \in Workers : lane[w] = l /\ pc[w] \notin {"idle", "selected"}}
Spending == {w \in Workers : lane[w] \in Rated /\ pc[w] \notin {"idle", "selected"}}

\* The run limit is read long before the run is recorded, so calls under way together may
\* pass it, but by no more than their number: the runs of today and those still coming
\* exceed it by at most one less than there are callers. A limit of 0 lets nothing through.
RunsBounded ==
    \A l \in Lanes : DailyLimit[l] >= 0 =>
        runsToday[l] + Cardinality(InFlight(l))
            <= IF DailyLimit[l] = 0 THEN 0 ELSE DailyLimit[l] + Cardinality(Workers) - 1

\* Likewise the credit cap: what may be overspent is the cost of the calls under way,
\* whether the lane is paid or only rated.
CreditsBounded ==
    CreditCap > 0 =>
        creditsToday + MaxCost * Cardinality(Spending)
            < CreditCap + MaxCost * Cardinality(Workers)

\* What the bench of a lane should be, from its latest outcomes: a success lifts it; a quota
\* or auth failure, the second timeout in a row and the second empty in a row each start
\* a wait, doubled by every further empty up to the longest; nothing else shortens or
\* lifts a bench. A reset lifts it, and does not end a streak of empties.
EmptyWait[n \in Nat] ==
    IF n <= 2 THEN AtMost(CooldownEmpty, CooldownEmptyMax)
              ELSE AtMost(2 * EmptyWait[n - 1], CooldownEmptyMax)

\* How many k there are at the end of s, with nothing but others in between.
Streak(s, k, others) ==
    Cardinality({i \in DOMAIN s : s[i] = k /\ \A j \in i..Len(s) : s[j] \in {k} \cup others})

Due(s, current) ==
    IF s = <<>> THEN 0 ELSE
    LET k == s[Len(s)]
        empty == Streak(s, "empty", {"reset"})
    IN  CASE k = "reset" -> 0
          [] k = "quota" -> CooldownQuota
          [] k = "auth" -> CooldownAuth
          [] k = "timeout" /\ Streak(s, k, {}) >= 2 -> CooldownTimeout
          [] k = "empty" /\ empty >= 2 -> EmptyWait[empty]
          [] OTHER -> current

\* The counters in the lane's row, rewritten by runs that end in any order, benches the
\* lane exactly as its recorded outcomes say; between two records only time wears it off.
BenchFollowsOutcomes ==
    [][\A l \in Lanes :
          IF outcomes'[l] # outcomes[l]
             THEN bench'[l] = Due(outcomes'[l], bench[l])
             ELSE bench'[l] \in {bench[l], Down(bench[l])}]_vars

\* The first spawns of the calls of a lane are an interval apart, however many callers
\* queue for the pacing lock and whichever of them are cancelled.
SpawnsSpaced ==
    [][\A w \in Workers :
          pc[w] \in {"idle", "selected", "workspace", "pacing"} /\ pc'[w] = "running"
              => sinceStart[lane'[w]] = MinInterval[lane'[w]]]_vars

\* Once it has its workspace, every call returns: nobody is left behind in the line for
\* the pacing lock, whoever is cancelled in it or waits for the host, and the retries end.
CallsReturn ==
    \A w \in Workers : pc[w] \in {"pacing", "running", "backoff"} ~> pc[w] = "idle"

-----------------------------------------------------------------------------
(* What the documentation says, and the code does not keep. *)

\* docs/BUDGET.md: a spawn is "blocked once the lane hit n runs since UTC midnight", the
\* limit "is exact"; docs/HOSTS.md: a "hard cap on runs/day for any lane".
DailyLimitIsHard ==
    \A l \in Lanes : DailyLimit[l] >= 0 => runsToday[l] <= DailyLimit[l]

\* reset_lane: "Clear a lane's cooldown/failure counters"; config.py: "a one-off empty
\* stays a soft per-call fall-through". The first empty after a reset benches nothing.
ResetForgivesEmpties ==
    [][\A l \in Lanes :
          /\ outcomes[l] # <<>> /\ outcomes[l][Len(outcomes[l])] = "reset"
          /\ outcomes'[l] = Append(outcomes[l], "empty")
          => bench'[l] = 0]_vars
=============================================================================
