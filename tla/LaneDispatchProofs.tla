------------------------- MODULE LaneDispatchProofs -------------------------
(***************************************************************************)
(* What the spend gates of LaneDispatch bound, what pacing spaces, and how *)
(* long a bench lasts, for any lanes, limits, costs, intervals, waits and  *)
(* number of callers.                                                      *)
(***************************************************************************)
EXTENDS LaneDispatch, FiniteSetTheorems, WellFoundedInduction, TLAPS

\* The types the argument needs.
Typed ==
    /\ pc \in [Workers -> {"idle", "selected", "workspace", "pacing", "running", "backoff"}]
    /\ lane \in [Workers -> Lanes]
    /\ runsToday \in [Lanes -> Nat]
    /\ creditsToday \in Nat

-----------------------------------------------------------------------------
(* Every step lets calls go, admits one past the gates, or records one. *)

LetsGo ==
    /\ \A l \in Lanes : /\ InFlight(l)' \subseteq InFlight(l)
                        /\ runsToday'[l] <= runsToday[l]
    /\ Spending' \subseteq Spending
    /\ creditsToday' <= creditsToday

Admits(w, l) ==
    /\ UnderDailyLimit(l)
    /\ UnderCreditCap(l)
    /\ \A m \in Lanes \ {l} : InFlight(m)' \subseteq InFlight(m)
    /\ l \notin Rated => Spending' \subseteq Spending
    /\ UNCHANGED spendVars

Records(w, l) ==
    /\ w \in InFlight(l)
    /\ InFlight(l)' \subseteq InFlight(l) \ {w}
    /\ runsToday'[l] <= runsToday[l] + 1
    /\ \A m \in Lanes \ {l} : /\ InFlight(m)' \subseteq InFlight(m)
                              /\ runsToday'[m] <= runsToday[m]
    /\ IF l \in Rated
          THEN /\ w \in Spending
               /\ Spending' \subseteq Spending \ {w}
               /\ creditsToday' <= creditsToday + MaxCost
          ELSE /\ Spending' \subseteq Spending
               /\ creditsToday' <= creditsToday

LEMMA InitTyped == Init => Typed
BY LaneDispatchAssumption DEF Init, Typed

\* A call enters _run_lane: it returns, or a gate has admitted it.
LEMMA EnterAdmits ==
    ASSUME Typed, NEW w \in Workers, NEW l \in Lanes, NEW b \in BOOLEAN,
           pc[w] \in {"idle", "selected"},
           Enter(w, l, b),
           lane' = [lane EXCEPT ![w] = l],
           UNCHANGED spendVars
    PROVE  Typed' /\ (LetsGo \/ Admits(w, l))
<1>1. /\ pc' \in [Workers -> {"idle", "selected", "workspace", "pacing", "running", "backoff"}]
      /\ \A v \in Workers \ {w} : pc'[v] = pc[v] /\ lane'[v] = lane[v]
      /\ lane' \in [Workers -> Lanes] /\ lane'[w] = l
      /\ pc'[w] = "idle" \/ (UnderDailyLimit(l) /\ UnderCreditCap(l))
  BY DEF Enter, Return, Pace, Start, Suspend, Typed
<1>2. Typed'
  BY <1>1 DEF Typed, spendVars
<1>3. /\ \A m \in Lanes \ {l} : InFlight(m)' \subseteq InFlight(m)
      /\ l \notin Rated => Spending' \subseteq Spending
  BY <1>1 DEF InFlight, Spending
<1>4. CASE pc'[w] = "idle"
  <2>1. InFlight(l)' \subseteq InFlight(l) /\ Spending' \subseteq Spending
    BY <1>1, <1>4 DEF InFlight, Spending
  <2>. QED  BY <1>2, <1>3, <2>1 DEF LetsGo, Typed, spendVars
<1>5. CASE UnderDailyLimit(l) /\ UnderCreditCap(l)
  BY <1>2, <1>3, <1>5 DEF Admits
<1>. QED  BY <1>1, <1>4, <1>5

\* A step that moves no call past the gates and records nothing.
LEMMA OthersLetGo ==
    ASSUME Typed, UNCHANGED spendVars,
           pc' \in [Workers -> {"idle", "selected", "workspace", "pacing", "running", "backoff"}],
           lane' \in [Workers -> Lanes],
           \A v \in Workers : \/ pc'[v] \in {"idle", "selected"}
                              \/ /\ pc[v] \notin {"idle", "selected"}
                                 /\ lane'[v] = lane[v]
    PROVE  Typed' /\ LetsGo
<1>1. Typed'
  BY DEF Typed, spendVars
<1>2. /\ \A l \in Lanes : InFlight(l)' \subseteq InFlight(l)
      /\ Spending' \subseteq Spending
  BY DEF InFlight, Spending
<1>. QED  BY <1>1, <1>2 DEF LetsGo, Typed, spendVars

LEMMA AnswerRecords ==
    ASSUME Typed, NEW w \in Workers, NEW k \in Kinds, NEW cost \in 0..MaxCost,
           Answer(w, k, cost)
    PROVE  Typed' /\ Records(w, lane[w])
<1>. DEFINE l == lane[w]
<1>1. /\ l \in Lanes /\ pc[w] = "running" /\ pc' = [pc EXCEPT ![w] = "idle"] /\ lane' = lane
      /\ runsToday' = [runsToday EXCEPT ![l] = IF today[w] THEN @ + 1 ELSE @]
      /\ creditsToday' = IF today[w] /\ l \in Rated THEN creditsToday + cost ELSE creditsToday
  BY DEF Answer, Record, Return, Typed
<1>2. /\ creditsToday' <= creditsToday + cost
      /\ l \notin Rated => creditsToday' <= creditsToday
      /\ creditsToday' \in Nat
  BY <1>1, LaneDispatchAssumption DEF Typed
<1>3. /\ runsToday' \in [Lanes -> Nat]
      /\ runsToday'[l] <= runsToday[l] + 1
      /\ \A m \in Lanes \ {l} : runsToday'[m] <= runsToday[m]
  BY <1>1 DEF Typed
<1>4. Typed'
  BY <1>1, <1>2, <1>3 DEF Typed
<1>5. /\ w \in InFlight(l) /\ InFlight(l)' \subseteq InFlight(l) \ {w}
      /\ \A m \in Lanes : InFlight(m)' \subseteq InFlight(m)
      /\ Spending' \subseteq Spending
      /\ l \in Rated => w \in Spending /\ Spending' \subseteq Spending \ {w}
  BY <1>1 DEF InFlight, Spending, Typed
<1>6. creditsToday' <= creditsToday + MaxCost
  BY <1>2, LaneDispatchAssumption DEF Typed
<1>. QED  BY <1>2, <1>3, <1>4, <1>5, <1>6 DEF Records

\* The case split every bound below rests on.
LEMMA StepKinds ==
    ASSUME Typed, [Next]_vars
    PROVE  /\ Typed'
           /\ \/ LetsGo
              \/ \E w \in Workers, l \in Lanes : Admits(w, l)
              \/ \E w \in Workers, l \in Lanes : Records(w, l)
<1>1. ASSUME NEW w \in Workers, NEW l \in Lanes, NEW b \in BOOLEAN, Ask(w, l, b)
      PROVE  Typed' /\ (LetsGo \/ Admits(w, l))
  BY <1>1, EnterAdmits DEF Ask
<1>2. ASSUME NEW w \in Workers, NEW l \in Lanes, Select(w, l)
      PROVE  Typed' /\ LetsGo
  BY <1>2, OthersLetGo DEF Select, Typed
<1>3. ASSUME NEW w \in Workers, CallSelected(w)
      PROVE  Typed' /\ (LetsGo \/ Admits(w, lane[w])) /\ lane[w] \in Lanes
  BY <1>3, EnterAdmits DEF CallSelected, Typed
<1>4. ASSUME NEW w \in Workers, RootsKnown(w)
      PROVE  Typed' /\ LetsGo
  BY <1>4, OthersLetGo DEF RootsKnown, Return, Pace, Start, Suspend, Typed
<1>5. ASSUME NEW w \in Workers, Paced(w) \/ FailTransiently(w) \/ Retry(w) \/ Cancel(w)
      PROVE  Typed' /\ LetsGo
  BY <1>5, OthersLetGo DEF Paced, FailTransiently, Retry, Cancel, Start, Typed
<1>6. ASSUME NEW w \in Workers, NEW k \in Kinds, NEW cost \in 0..MaxCost, Answer(w, k, cost)
      PROVE  Typed' /\ Records(w, lane[w]) /\ lane[w] \in Lanes
  BY <1>6, AnswerRecords DEF Typed
<1>7. CASE (\E l \in Lanes : ResetLane(l)) \/ Tick \/ UNCHANGED vars
  <2>1. UNCHANGED <<pc, lane, spendVars>>
    BY <1>7 DEF ResetLane, Tick, vars, callVars
  <2>. QED  BY <2>1, OthersLetGo DEF Typed
<1>8. CASE Midnight
  <2>1. /\ UNCHANGED <<pc, lane>> /\ creditsToday' = 0
        /\ runsToday' = [l \in Lanes |-> 0]
    BY <1>8 DEF Midnight
  <2>2. Typed'
    BY <2>1 DEF Typed
  <2>3. \A l \in Lanes : InFlight(l)' = InFlight(l) /\ runsToday'[l] <= runsToday[l]
    BY <2>1 DEF InFlight, Typed
  <2>4. Spending' = Spending /\ creditsToday' <= creditsToday
    BY <2>1 DEF Spending, Typed
  <2>. QED  BY <2>2, <2>3, <2>4 DEF LetsGo
<1>. QED
  BY <1>1, <1>2, <1>3, <1>4, <1>5, <1>6, <1>7, <1>8 DEF Next, HostStep, CallStep

-----------------------------------------------------------------------------
(* Counting the calls under way. *)

LEMMA CallersCounted ==
    /\ Cardinality(Workers) \in Nat
    /\ \A S, T : S \subseteq T /\ T \subseteq Workers =>
          /\ Cardinality(S) \in Nat
          /\ Cardinality(T) \in Nat
          /\ Cardinality(S) <= Cardinality(T)
    /\ \A S, T : \A w \in T : S \subseteq T \ {w} /\ T \subseteq Workers =>
          Cardinality(S) <= Cardinality(T) - 1
<1>1. IsFiniteSet(Workers)
  BY LaneDispatchAssumption
<1>2. ASSUME NEW S, NEW T, S \subseteq T, T \subseteq Workers
      PROVE  /\ IsFiniteSet(S) /\ IsFiniteSet(T)
             /\ Cardinality(S) \in Nat /\ Cardinality(T) \in Nat
             /\ Cardinality(S) <= Cardinality(T)
  <2>1. IsFiniteSet(T) /\ IsFiniteSet(S)
    BY <1>1, <1>2, FS_Subset
  <2>. QED  BY <1>2, <2>1, FS_Subset, FS_CardinalityType
<1>3. ASSUME NEW S, NEW T, NEW w \in T, S \subseteq T \ {w}, T \subseteq Workers
      PROVE  Cardinality(S) <= Cardinality(T) - 1
  <2>1. IsFiniteSet(T) /\ Cardinality(T) \in Nat
    BY <1>1, <1>3, <1>2
  <2>2. Cardinality(T \ {w}) = Cardinality(T) - 1
    BY <1>3, <2>1, FS_RemoveElement
  <2>3. T \ {w} \subseteq Workers
    BY <1>3
  <2>4. Cardinality(S) <= Cardinality(T \ {w})
    BY <1>2, <1>3, <2>3
  <2>. QED  BY <2>2, <2>4
<1>4. Cardinality(Workers) \in Nat
  BY <1>1, FS_CardinalityType
<1>. QED  BY <1>2, <1>3, <1>4

-----------------------------------------------------------------------------
(* The spend gates. *)

Overshoot(l) == IF DailyLimit[l] = 0 THEN 0 ELSE DailyLimit[l] + Cardinality(Workers) - 1

\* The calls of a lane are callers.
LEMMA InFlightAreCallers ==
    /\ \A l \in Lanes : InFlight(l) \subseteq Workers /\ InFlight(l)' \subseteq Workers
    /\ Spending \subseteq Workers /\ Spending' \subseteq Workers
BY DEF InFlight, Spending

LEMMA NobodyAtFirst ==
    ASSUME Init
    PROVE  /\ \A l \in Lanes : Cardinality(InFlight(l)) = 0
           /\ Cardinality(Spending) = 0
<1>1. /\ \A l \in Lanes : InFlight(l) = {}
      /\ Spending = {}
  BY DEF Init, InFlight, Spending
<1>. QED  BY <1>1, FS_EmptySet

\* The runs and the calls of a lane only add up to more when a gate admits a call, and
\* then the runs are below the limit and the calls are at most the callers.
LEMMA RunsStayBounded ==
    ASSUME Typed, RunsBounded, [Next]_vars
    PROVE  RunsBounded'
<1>. SUFFICES ASSUME NEW l \in Lanes, DailyLimit[l] >= 0
              PROVE  (runsToday[l] + Cardinality(InFlight(l)))' <= Overshoot(l)
  BY DEF RunsBounded, Overshoot
<1>1. /\ DailyLimit[l] \in Nat
      /\ runsToday[l] \in Nat /\ runsToday'[l] \in Nat
      /\ runsToday[l] + Cardinality(InFlight(l)) <= Overshoot(l)
  BY StepKinds, LaneDispatchAssumption DEF Typed, RunsBounded, Overshoot
<1>2. /\ Cardinality(Workers) \in Nat
      /\ Cardinality(InFlight(l)) \in Nat
      /\ Cardinality(InFlight(l)') \in Nat
      /\ Cardinality(InFlight(l)') <= Cardinality(Workers)
      /\ InFlight(l)' \subseteq InFlight(l)
            => Cardinality(InFlight(l)') <= Cardinality(InFlight(l))
      /\ \A w \in InFlight(l) : InFlight(l)' \subseteq InFlight(l) \ {w}
            => Cardinality(InFlight(l)') <= Cardinality(InFlight(l)) - 1
  BY CallersCounted, InFlightAreCallers
<1>3. CASE LetsGo
  BY <1>1, <1>2, <1>3 DEF LetsGo, Overshoot
<1>4. ASSUME NEW w \in Workers, NEW m \in Lanes, Admits(w, m)
      PROVE  (runsToday[l] + Cardinality(InFlight(l)))' <= Overshoot(l)
  <2>1. runsToday'[l] = runsToday[l]
    BY <1>4 DEF Admits, spendVars
  <2>2. CASE m = l
    <3>1. runsToday[l] < DailyLimit[l]
      BY <1>1, <1>4, <2>2 DEF Admits, UnderDailyLimit
    <3>. QED  BY <1>1, <1>2, <2>1, <3>1 DEF Overshoot
  <2>3. CASE m # l
    BY <1>1, <1>2, <1>4, <2>1, <2>3 DEF Admits, Overshoot
  <2>. QED  BY <2>2, <2>3
<1>5. ASSUME NEW w \in Workers, NEW m \in Lanes, Records(w, m)
      PROVE  (runsToday[l] + Cardinality(InFlight(l)))' <= Overshoot(l)
  BY <1>1, <1>2, <1>5 DEF Records, Overshoot
<1>. QED  BY StepKinds, <1>3, <1>4, <1>5

\* Likewise for the credits, every call under way standing for the dearest run.
LEMMA CreditsStayBounded ==
    ASSUME Typed, CreditsBounded, [Next]_vars
    PROVE  CreditsBounded'
<1>. SUFFICES ASSUME CreditCap > 0
              PROVE  (creditsToday + MaxCost * Cardinality(Spending))'
                        < CreditCap + MaxCost * Cardinality(Workers)
  BY DEF CreditsBounded
<1>. DEFINE C == Cardinality(Workers)
            S == Cardinality(Spending)
            T == Cardinality(Spending')
<1>1. /\ CreditCap \in Nat /\ MaxCost \in Nat
      /\ creditsToday \in Nat /\ creditsToday' \in Nat
      /\ creditsToday + MaxCost * S < CreditCap + MaxCost * C
  BY StepKinds, LaneDispatchAssumption DEF Typed, CreditsBounded
<1>2. /\ C \in Nat /\ S \in Nat /\ T \in Nat
      /\ T <= C
      /\ Spending' \subseteq Spending => T <= S
      /\ \A w \in Spending : Spending' \subseteq Spending \ {w} => T <= S - 1
  BY CallersCounted, InFlightAreCallers
<1>3. \A a, b \in Nat : a <= b => MaxCost * a <= MaxCost * b
  BY <1>1
<1>4. \A a, b \in Nat : a <= b - 1 => MaxCost * a + MaxCost <= MaxCost * b
  <2>. SUFFICES ASSUME NEW a \in Nat, NEW b \in Nat, a + 1 <= b
                PROVE  MaxCost * a + MaxCost <= MaxCost * b
    OBVIOUS
  <2>1. MaxCost * (a + 1) <= MaxCost * b
    BY <1>3
  <2>. QED  BY <1>1, <2>1
<1>5. MaxCost * T \in Nat /\ MaxCost * S \in Nat /\ MaxCost * C \in Nat
  BY <1>1, <1>2
<1>. SUFFICES creditsToday' + MaxCost * T < CreditCap + MaxCost * C
  OBVIOUS
<1>. HIDE DEF C, S, T
<1>6. CASE Spending' \subseteq Spending /\ creditsToday' <= creditsToday
  <2>1. MaxCost * T <= MaxCost * S
    BY <1>2, <1>3, <1>6
  <2>. QED  BY <1>1, <1>5, <1>6, <2>1
<1>7. ASSUME NEW w \in Workers, NEW m \in Lanes, Admits(w, m)
      PROVE  creditsToday' + MaxCost * T < CreditCap + MaxCost * C
  <2>1. creditsToday' = creditsToday
    BY <1>7 DEF Admits, spendVars
  <2>2. CASE m \in Rated
    <3>1. creditsToday < CreditCap
      BY <1>7, <2>2 DEF Admits, UnderCreditCap
    <3>2. MaxCost * T <= MaxCost * C
      BY <1>2, <1>3
    <3>. QED  BY <1>1, <1>5, <2>1, <3>1, <3>2
  <2>3. CASE m \notin Rated
    BY <1>1, <1>6, <1>7, <2>1, <2>3 DEF Admits
  <2>. QED  BY <2>2, <2>3
<1>8. ASSUME NEW w \in Workers, NEW m \in Lanes, Records(w, m)
      PROVE  creditsToday' + MaxCost * T < CreditCap + MaxCost * C
  <2>1. CASE m \in Rated
    <3>1. /\ creditsToday' <= creditsToday + MaxCost
          /\ MaxCost * T + MaxCost <= MaxCost * S
      BY <1>2, <1>4, <1>8, <2>1 DEF Records
    <3>. QED  BY <1>1, <1>5, <3>1
  <2>2. CASE m \notin Rated
    BY <1>6, <1>8, <2>2 DEF Records
  <2>. QED  BY <2>1, <2>2
<1>. QED  BY StepKinds, <1>6, <1>7, <1>8 DEF LetsGo

\* Concurrent calls pass the daily run limit by at most one less than there are callers,
\* for every limit, with or without retries, pacing, cancels and midnights.
THEOREM RunLimitOvershoot == Spec => []RunsBounded
<1>1. Init => RunsBounded
  <2>. SUFFICES ASSUME Init, NEW l \in Lanes, DailyLimit[l] >= 0
                PROVE  runsToday[l] + Cardinality(InFlight(l)) <= Overshoot(l)
    BY DEF RunsBounded, Overshoot
  <2>1. runsToday[l] = 0 /\ Cardinality(InFlight(l)) = 0
    BY NobodyAtFirst DEF Init
  <2>. QED
    BY <2>1, CallersCounted, LaneDispatchAssumption DEF Overshoot
<1>2. Typed /\ RunsBounded /\ [Next]_vars => Typed' /\ RunsBounded'
  BY StepKinds, RunsStayBounded
<1>. QED  BY InitTyped, <1>1, <1>2, PTL DEF Spec

\* The credits of a day pass the cap by less than the cost of the calls under way.
THEOREM CreditCapOvershoot == Spec => []CreditsBounded
<1>1. Init => CreditsBounded
  <2>. SUFFICES ASSUME Init, CreditCap > 0
                PROVE  creditsToday + MaxCost * Cardinality(Spending)
                          < CreditCap + MaxCost * Cardinality(Workers)
    BY DEF CreditsBounded
  <2>1. creditsToday = 0 /\ Cardinality(Spending) = 0
    BY NobodyAtFirst DEF Init
  <2>2. MaxCost * Cardinality(Workers) \in Nat /\ MaxCost * 0 = 0 /\ CreditCap \in Nat
    BY CallersCounted, LaneDispatchAssumption
  <2>. QED  BY <2>1, <2>2
<1>2. Typed /\ CreditsBounded /\ [Next]_vars => Typed' /\ CreditsBounded'
  BY StepKinds, CreditsStayBounded
<1>. QED  BY InitTyped, <1>1, <1>2, PTL DEF Spec

-----------------------------------------------------------------------------
(* Pacing. *)

\* _PACE_LAST remembers the last paced spawn: what it still imposes and the time since
\* that spawn add up to the interval.
Remembered ==
    /\ paceLeft \in [Lanes -> Nat]
    /\ sinceStart \in [Lanes -> Nat]
    /\ \A l \in Lanes : paceLeft[l] + sinceStart[l] = MinInterval[l]

Spaced(w) ==
    pc[w] \in {"idle", "selected", "workspace", "pacing"} /\ pc'[w] = "running"
        => sinceStart[lane'[w]] = MinInterval[lane'[w]]

LEMMA StartRemembered ==
    ASSUME Typed, Remembered, NEW w \in Workers, NEW l \in Lanes, paceLeft[l] = 0,
           Start(w, l), paceLeft' = [paceLeft EXCEPT ![l] = MinInterval[l]],
           lane'[w] = l
    PROVE  Remembered' /\ \A v \in Workers : Spaced(v)
<1>1. Remembered'
  BY LaneDispatchAssumption DEF Start, Remembered
<1>2. sinceStart[l] = MinInterval[l]
  BY LaneDispatchAssumption DEF Remembered
<1>3. \A v \in Workers : v # w => pc'[v] = pc[v]
  BY DEF Start, Typed
<1>. QED  BY <1>1, <1>2, <1>3 DEF Spaced

\* A call goes on to pace, and may find that it need not wait.
LEMMA PaceRemembered ==
    ASSUME Typed, Remembered, NEW w \in Workers, NEW l \in Lanes, Pace(w, l), lane'[w] = l
    PROVE  Remembered' /\ \A v \in Workers : Spaced(v)
<1>1. CASE Suspend(w, "pacing")
  BY <1>1 DEF Suspend, Remembered, Spaced, Typed
<1>2. CASE Start(w, l) /\ paceLeft' = [paceLeft EXCEPT ![l] = MinInterval[l]]
           /\ (MinInterval[l] = 0 \/ paceLeft[l] = 0)
  <2>1. paceLeft[l] = 0
    BY <1>2, LaneDispatchAssumption DEF Remembered
  <2>. QED  BY <1>2, <2>1, StartRemembered
<1>. QED  BY <1>1, <1>2 DEF Pace

LEMMA EnterRemembered ==
    ASSUME Typed, Remembered, NEW w \in Workers, NEW l \in Lanes, NEW b \in BOOLEAN,
           Enter(w, l, b), lane'[w] = l
    PROVE  Remembered' /\ \A v \in Workers : Spaced(v)
<1>1. CASE Return(w) \/ (Suspend(w, "workspace") /\ UNCHANGED paceQ)
  BY <1>1 DEF Return, Suspend, paceVars, Remembered, Spaced, Typed
<1>. QED  BY <1>1, PaceRemembered DEF Enter

\* A step that neither starts a first spawn nor touches the two times.
LEMMA OthersRemembered ==
    ASSUME Typed, Remembered, UNCHANGED <<paceLeft, sinceStart>>,
           \A v \in Workers : pc'[v] = "running" => pc[v] \in {"running", "backoff"}
    PROVE  Remembered' /\ \A v \in Workers : Spaced(v)
BY DEF Remembered, Spaced, Typed

LEMMA RememberedStep ==
    ASSUME Typed, Remembered, [Next]_vars
    PROVE  Remembered' /\ \A v \in Workers : Spaced(v)
<1>1. ASSUME NEW w \in Workers, NEW l \in Lanes, NEW b \in BOOLEAN, Ask(w, l, b)
      PROVE  Remembered' /\ \A v \in Workers : Spaced(v)
  <2>1. lane'[w] = l /\ Enter(w, l, b)
    BY <1>1 DEF Ask, Typed
  <2>. QED  BY <2>1, EnterRemembered
<1>2. ASSUME NEW w \in Workers, CallSelected(w)
      PROVE  Remembered' /\ \A v \in Workers : Spaced(v)
  <2>1. lane[w] \in Lanes /\ lane'[w] = lane[w] /\ Enter(w, lane[w], FALSE)
    BY <1>2 DEF CallSelected, Typed
  <2>. QED  BY <2>1, EnterRemembered
<1>3. ASSUME NEW w \in Workers, RootsKnown(w)
      PROVE  Remembered' /\ \A v \in Workers : Spaced(v)
  <2>1. /\ lane[w] \in Lanes /\ lane'[w] = lane[w]
        /\ Return(w) \/ Pace(w, lane[w])
    BY <1>3 DEF RootsKnown, Typed
  <2>2. CASE Return(w)
    BY <2>2, OthersRemembered DEF Return, paceVars, Typed
  <2>. QED  BY <2>1, <2>2, PaceRemembered
<1>4. ASSUME NEW w \in Workers, Paced(w)
      PROVE  Remembered' /\ \A v \in Workers : Spaced(v)
  BY <1>4, StartRemembered DEF Paced, Typed
<1>5. ASSUME NEW w \in Workers,
             \/ \E l \in Lanes : Select(w, l)
             \/ FailTransiently(w) \/ Retry(w) \/ Cancel(w)
             \/ \E k \in Kinds, cost \in 0..MaxCost : Answer(w, k, cost)
      PROVE  Remembered' /\ \A v \in Workers : Spaced(v)
  BY <1>5, OthersRemembered
     DEF Select, FailTransiently, Retry, Cancel, Answer, Return, paceVars, ghostVars, Typed
<1>6. CASE Tick
  <2>1. UNCHANGED pc
    BY <1>6 DEF Tick, callVars
  <2>2. Remembered'
    BY <1>6, LaneDispatchAssumption DEF Tick, Down, AtMost, Remembered
  <2>. QED  BY <2>1, <2>2 DEF Spaced
<1>7. CASE (\E l \in Lanes : ResetLane(l)) \/ Midnight \/ UNCHANGED vars
  BY <1>7, OthersRemembered
     DEF ResetLane, Midnight, vars, callVars, paceVars, ghostVars
<1>. QED
  BY <1>1, <1>2, <1>3, <1>4, <1>5, <1>6, <1>7 DEF Next, HostStep, CallStep

\* The first spawns of a lane keep their interval, for any number of callers and cancels.
THEOREM PacingSpacesSpawns == Spec => SpawnsSpaced
<1>1. Init => Remembered
  BY LaneDispatchAssumption DEF Init, Remembered
<1>2. Typed /\ Remembered /\ [Next]_vars => Typed' /\ Remembered'
  BY RememberedStep, StepKinds
<1>3. Typed /\ Remembered /\ [Next]_vars =>
        [\A w \in Workers :
            pc[w] \in {"idle", "selected", "workspace", "pacing"} /\ pc'[w] = "running"
                => sinceStart[lane'[w]] = MinInterval[lane'[w]]]_vars
  BY RememberedStep DEF Spaced
<1>. QED  BY InitTyped, <1>1, <1>2, <1>3, PTL DEF Spec, SpawnsSpaced

-----------------------------------------------------------------------------
(* Numbers, powers and lines. *)

LEMMA LeastNumber ==
    ASSUME NEW S, S \subseteq Nat, S # {}
    PROVE  \E x \in S : \A y \in S : x <= y
<1>1. PICK x \in S : \A y \in S : <<y, x>> \notin OpToRel(<, Nat)
  BY NatLessThanWellFounded, WFMin
<1>2. \A y \in S : ~(y < x)
  BY <1>1 DEF OpToRel
<1>. QED  BY <1>2

\* Two tables of powers agree as far as both go.
LEMMA PowersAgree ==
    ASSUME NEW m \in Nat, NEW n \in Nat, m <= n, NEW f, NEW g,
           \A k \in 0..m : f[k] = IF k = 0 THEN 1 ELSE 2 * f[k - 1],
           \A k \in 0..n : g[k] = IF k = 0 THEN 1 ELSE 2 * g[k - 1]
    PROVE  \A k \in 0..m : f[k] = g[k]
<1>. DEFINE Wrong == {k \in 0..m : f[k] # g[k]}
<1>. SUFFICES ASSUME Wrong # {}
              PROVE  FALSE
  OBVIOUS
<1>1. PICK k \in Wrong : \A j \in Wrong : k <= j
  <2>1. Wrong \subseteq Nat
    OBVIOUS
  <2>. HIDE DEF Wrong
  <2>. QED  BY <2>1, LeastNumber
<1>2. CASE k = 0
  BY <1>1, <1>2
<1>3. CASE k # 0
  <2>1. k \in 0..m /\ k \in 0..n /\ k - 1 \in 0..m /\ ~(k <= k - 1)
    BY <1>1, <1>3
  <2>2. f[k - 1] = g[k - 1]
    BY <1>1, <2>1
  <2>3. f[k] = 2 * f[k - 1] /\ g[k] = 2 * g[k - 1]
    BY <1>3, <2>1
  <2>. QED  BY <1>1, <2>2, <2>3
<1>. QED  BY <1>2, <1>3

\* There is a table of powers up to any exponent: else there is a least one without.
LEMMA PowersExist ==
    ASSUME NEW n \in Nat
    PROVE  \E f \in [0..n -> Nat] : \A k \in 0..n : f[k] = IF k = 0 THEN 1 ELSE 2 * f[k - 1]
<1>. DEFINE Powers(f, m) == /\ f \in [0..m -> Nat]
                            /\ \A k \in 0..m : f[k] = IF k = 0 THEN 1 ELSE 2 * f[k - 1]
            NoPowers == {m \in Nat : ~\E f : Powers(f, m)}
<1>. SUFFICES ASSUME NoPowers # {}
              PROVE  FALSE
  OBVIOUS
<1>0. NoPowers \subseteq Nat
  OBVIOUS
<1>1. PICK m \in NoPowers : \A k \in NoPowers : m <= k
  <2>. HIDE DEF NoPowers
  <2>. QED  BY <1>0, LeastNumber
<1>2. CASE m = 0
  <2>1. Powers([k \in 0..0 |-> 1], 0)
    OBVIOUS
  <2>. QED  BY <1>1, <1>2, <2>1
<1>3. CASE m # 0
  <2>1. m \in Nat /\ m - 1 \in Nat /\ m - 1 \notin NoPowers
    <3>. HIDE DEF NoPowers
    <3>. QED  BY <1>0, <1>1, <1>3
  <2>2. PICK f : Powers(f, m - 1)
    BY <2>1
  <2>3. Powers([k \in 0..m |-> IF k = m THEN 2 * f[m - 1] ELSE f[k]], m)
    <3>. DEFINE g == [k \in 0..m |-> IF k = m THEN 2 * f[m - 1] ELSE f[k]]
    <3>1. g \in [0..m -> Nat]
      BY <1>3, <2>1, <2>2
    <3>2. ASSUME NEW k \in 0..m
          PROVE  g[k] = IF k = 0 THEN 1 ELSE 2 * g[k - 1]
      <4>1. CASE k = m
        BY <1>3, <2>1, <4>1
      <4>2. CASE k # m
        <5>1. k \in 0..(m - 1) /\ (k # 0 => k - 1 \in 0..m /\ k - 1 # m)
          BY <2>1, <4>2
        <5>. QED  BY <2>2, <4>2, <5>1
      <4>. QED  BY <4>1, <4>2
    <3>. QED  BY <3>1, <3>2
  <2>. QED  BY <1>1, <2>3
<1>. QED  BY <1>2, <1>3

LEMMA PowersOfTwo ==
    /\ TwoToThe[0] = 1
    /\ \A n \in Nat : TwoToThe[n] \in Nat /\ TwoToThe[n + 1] = 2 * TwoToThe[n]
<1>. DEFINE Doubles(f) == f = [n \in Nat |-> IF n = 0 THEN 1 ELSE 2 * f[n - 1]]
            Powers(f, m) == /\ f \in [0..m -> Nat]
                            /\ \A k \in 0..m : f[k] = IF k = 0 THEN 1 ELSE 2 * f[k - 1]
            table(n) == CHOOSE f : Powers(f, n)
            power == [n \in Nat |-> table(n)[n]]
<1>1. \A n \in Nat : Powers(table(n), n)
  <2>. SUFFICES ASSUME NEW n \in Nat
                PROVE  Powers(table(n), n)
    OBVIOUS
  <2>1. \E f : Powers(f, n)
    BY PowersExist
  <2>. HIDE DEF Powers
  <2>. QED  BY <2>1
<1>. HIDE DEF table
<1>2. ASSUME NEW n \in Nat
      PROVE  power[n] \in Nat /\ power[n] = IF n = 0 THEN 1 ELSE 2 * power[n - 1]
  <2>1. power[n] = table(n)[n] /\ n \in 0..n
    OBVIOUS
  <2>2. power[n] \in Nat /\ power[n] = IF n = 0 THEN 1 ELSE 2 * table(n)[n - 1]
    BY <1>1, <2>1
  <2>3. ASSUME n # 0
        PROVE  table(n)[n - 1] = power[n - 1]
    <3>1. n - 1 \in Nat /\ n - 1 <= n /\ n - 1 \in 0..(n - 1)
      BY <2>3
    <3>2. /\ \A k \in 0..(n - 1) : table(n - 1)[k] = IF k = 0 THEN 1 ELSE 2 * table(n - 1)[k - 1]
          /\ \A k \in 0..n : table(n)[k] = IF k = 0 THEN 1 ELSE 2 * table(n)[k - 1]
      BY <1>1, <3>1
    <3>3. \A k \in 0..(n - 1) : table(n - 1)[k] = table(n)[k]
      BY ONLY <3>1, <3>2, PowersAgree, n \in Nat
    <3>. QED  BY <3>1, <3>3
  <2>. QED  BY <2>2, <2>3
<1>3. Doubles(power)
  BY <1>2
<1>. HIDE DEF power
<1>4. Doubles(TwoToThe)
  <2>1. TwoToThe = CHOOSE f : Doubles(f)
    BY DEF TwoToThe
  <2>. HIDE DEF Doubles
  <2>. QED  BY <1>3, <2>1
<1>5. \A n \in Nat : TwoToThe[n] = IF n = 0 THEN 1 ELSE 2 * TwoToThe[n - 1]
  BY <1>4
<1>. HIDE DEF Doubles
<1>6. ASSUME NEW n \in Nat
      PROVE  TwoToThe[n] = power[n]
  <2>1. \A k \in 0..n : TwoToThe[k] = IF k = 0 THEN 1 ELSE 2 * TwoToThe[k - 1]
    BY <1>5
  <2>2. \A k \in 0..n : power[k] = IF k = 0 THEN 1 ELSE 2 * power[k - 1]
    BY <1>2
  <2>3. n <= n /\ n \in 0..n
    OBVIOUS
  <2>4. \A k \in 0..n : TwoToThe[k] = power[k]
    BY ONLY <2>1, <2>2, <2>3, PowersAgree, n \in Nat
  <2>. QED  BY <2>3, <2>4
<1>. QED
  <2>1. \A n \in Nat : n + 1 \in Nat /\ n + 1 # 0 /\ (n + 1) - 1 = n
    OBVIOUS
  <2>. QED  BY <1>2, <1>5, <1>6, <2>1

LEMMA Joined ==
    ASSUME NEW S, NEW r \in Seq(S), NEW s \in Seq(S)
    PROVE  /\ r \o s \in Seq(S)
           /\ Len(r \o s) = Len(r) + Len(s)
           /\ \A i \in 1..(Len(r) + Len(s)) : (r \o s)[i] = IF i <= Len(r) THEN r[i] ELSE s[i - Len(r)]
OBVIOUS

\* Who gives up a place leaves everybody else in the line.
LEMMA LineWithoutOne ==
    ASSUME NEW S, NEW s \in Seq(S), NEW e
    PROVE  /\ RemoveFirst(s, e) \in Seq(S)
           /\ \A j \in 1..Len(s) : s[j] # e =>
                 \E i \in 1..Len(RemoveFirst(s, e)) : RemoveFirst(s, e)[i] = s[j]
<1>1. CASE ~\E i \in 1..Len(s) : s[i] = e
  BY <1>1 DEF RemoveFirst
<1>2. CASE \E i \in 1..Len(s) : s[i] = e
  <2>. DEFINE I == {i \in 1..Len(s) : s[i] = e}
              m == Min(I)
              before == SubSeq(s, 1, m - 1)
              after == SubSeq(s, m + 1, Len(s))
  <2>1. \E x \in I : \A y \in I : x <= y
    <3>1. I \subseteq Nat /\ I # {}
      BY <1>2
    <3>. HIDE DEF I
    <3>. QED  BY <3>1, LeastNumber
  <2>2. m \in I
    <3>. HIDE DEF I
    <3>. QED  BY <2>1 DEF Min
  <2>3. RemoveFirst(s, e) = before \o after
    BY <1>2 DEF RemoveFirst, RemoveAt, SelectInSeq
  <2>. HIDE DEF m
  <2>4. m \in 1..Len(s) /\ s[m] = e
    BY <2>2
  <2>. HIDE DEF I
  <2>5. /\ before \in Seq(S) /\ Len(before) = m - 1 /\ \A i \in 1..(m - 1) : before[i] = s[i]
    BY <2>4
  <2>6. /\ after \in Seq(S) /\ Len(after) = Len(s) - m
        /\ \A i \in 1..(Len(s) - m) : after[i] = s[m + i]
    BY <2>4
  <2>. HIDE DEF before, after
  <2>7. /\ before \o after \in Seq(S) /\ Len(before \o after) = Len(s) - 1
        /\ \A i \in 1..(Len(s) - 1) :
              (before \o after)[i] = IF i <= m - 1 THEN before[i] ELSE after[i - (m - 1)]
    <3>0. Len(s) \in Nat /\ Len(before) \in Nat /\ Len(after) \in Nat
      BY <2>5, <2>6
    <3>1. before \o after \in Seq(S) /\ Len(before \o after) = Len(before) + Len(after)
      BY <2>5, <2>6, Joined
    <3>2. \A i \in 1..(Len(before) + Len(after)) :
            (before \o after)[i] = IF i <= Len(before) THEN before[i] ELSE after[i - Len(before)]
      BY <2>5, <2>6, Joined
    <3>3. Len(before) + Len(after) = Len(s) - 1
      BY <2>4, <2>5, <2>6, <3>0
    <3>. QED  BY <2>5, <3>1, <3>2, <3>3
  <2>8. ASSUME NEW j \in 1..Len(s), s[j] # e
        PROVE  \E i \in 1..(Len(s) - 1) : (before \o after)[i] = s[j]
    <3>1. CASE j < m
      <4>1. j \in 1..(Len(s) - 1) /\ j <= m - 1 /\ j \in 1..(m - 1)
        BY <2>4, <3>1
      <4>. QED  BY <2>5, <2>7, <4>1
    <3>2. CASE j > m
      <4>1. /\ j - 1 \in 1..(Len(s) - 1) /\ ~(j - 1 <= m - 1)
            /\ (j - 1) - (m - 1) = j - m /\ j - m \in 1..(Len(s) - m) /\ m + (j - m) = j
        BY <2>4, <3>2
      <4>. QED  BY <2>6, <2>7, <4>1
    <3>3. j # m
      BY <2>4, <2>8
    <3>4. Len(s) \in Nat /\ j \in Int /\ m \in Int
      BY <2>4
    <3>5. j < m \/ j > m
      BY <3>3, <3>4
    <3>. QED  BY <3>1, <3>2, <3>5
  <2>. QED  BY <2>3, <2>7, <2>8
<1>. QED  BY <1>1, <1>2

-----------------------------------------------------------------------------
(* The types, with what bounds them. *)

\* A call that waits to be spawned again has a retry left.
Filed ==
    /\ retriesLeft \in [Workers -> 0..Retries]
    /\ today \in [Workers -> BOOLEAN]
    /\ \A w \in Workers : pc[w] = "backoff" => retriesLeft[w] > 0

\* Whoever waits for the pacing lock of a lane is in its line.
InLine(v, s) == \E i \in 1..Len(s) : s[i] = v
Lined ==
    /\ paceQ \in [Lanes -> Seq(Workers)]
    /\ \A w \in Workers : pc[w] = "pacing" => InLine(w, paceQ[lane[w]])

\* No bench outlasts the longest of the waits.
Benched ==
    /\ bench \in [Lanes -> Nat] /\ timeouts \in [Lanes -> Nat] /\ empties \in [Lanes -> Nat]
    /\ \A l \in Lanes : \E longest \in {CooldownTimeout, CooldownQuota, CooldownAuth, CooldownEmptyMax} :
          bench[l] <= longest

Noted ==
    /\ calls \in 0..MaxCalls /\ resets \in 0..MaxResets
    /\ outcomes \in [Lanes -> Seq(FailureKinds \cup {"reset"})]

\* A step that moves one call, but into no pause.
LEMMA OneFiled ==
    ASSUME Typed, Filed, NEW w \in Workers, NEW p \in {"idle", "workspace", "pacing", "running"},
           pc' = [pc EXCEPT ![w] = p],
           today' \in [Workers -> BOOLEAN],
           NEW r \in 0..Retries,
           retriesLeft' = [retriesLeft EXCEPT ![w] = r] \/ UNCHANGED retriesLeft
    PROVE  Filed'
<1>1. retriesLeft' \in [Workers -> 0..Retries] /\ \A v \in Workers \ {w} : retriesLeft'[v] = retriesLeft[v]
  BY DEF Filed
<1>2. pc'[w] # "backoff" /\ \A v \in Workers \ {w} : pc'[v] = pc[v]
  BY DEF Typed
<1>. QED  BY <1>1, <1>2 DEF Filed

LEMMA ReturnFiled ==
    ASSUME Typed, Filed, NEW w \in Workers, Return(w)
    PROVE  Filed'
<1>1. 0 \in 0..Retries
  BY LaneDispatchAssumption
<1>2. today' \in [Workers -> BOOLEAN]
  BY DEF Return, Filed
<1>. QED  BY <1>1, <1>2, OneFiled DEF Return

LEMMA PaceFiled ==
    ASSUME Typed, Filed, NEW w \in Workers, NEW l, Pace(w, l), NEW r \in 0..Retries,
           retriesLeft' = [retriesLeft EXCEPT ![w] = r] \/ UNCHANGED retriesLeft
    PROVE  Filed'
<1>1. \/ pc' = [pc EXCEPT ![w] = "running"] /\ today' = [today EXCEPT ![w] = TRUE]
      \/ pc' = [pc EXCEPT ![w] = "pacing"] /\ UNCHANGED today
  BY DEF Pace, Start, Suspend
<1>2. today' \in [Workers -> BOOLEAN]
  BY <1>1 DEF Filed
<1>. QED  BY <1>1, <1>2, OneFiled

LEMMA EnterFiled ==
    ASSUME Typed, Filed, NEW w \in Workers, NEW l, NEW b \in BOOLEAN, Enter(w, l, b)
    PROVE  Filed'
<1>. DEFINE r == IF b THEN 0 ELSE Retries
<1>1. r \in 0..Retries
  BY LaneDispatchAssumption
<1>2. ASSUME retriesLeft' = [retriesLeft EXCEPT ![w] = r], Suspend(w, "workspace")
      PROVE  Filed'
  <2>1. today' \in [Workers -> BOOLEAN] /\ pc' = [pc EXCEPT ![w] = "workspace"]
    BY <1>2 DEF Suspend, Filed
  <2>. HIDE DEF r
  <2>. QED  BY <1>1, <1>2, <2>1, OneFiled
<1>3. ASSUME retriesLeft' = [retriesLeft EXCEPT ![w] = r], Pace(w, l)
      PROVE  Filed'
  <2>. HIDE DEF r
  <2>. QED  BY <1>1, <1>3, PaceFiled
<1>. QED  BY <1>2, <1>3, ReturnFiled DEF Enter

LEMMA FiledStep ==
    ASSUME Typed, Filed, [Next]_vars
    PROVE  Filed'
<1>0. 0 \in 0..Retries
  BY LaneDispatchAssumption
<1>1. ASSUME NEW w \in Workers, NEW l \in Lanes, NEW b \in BOOLEAN, Ask(w, l, b)
      PROVE  Filed'
  BY <1>1, EnterFiled DEF Ask
<1>2. ASSUME NEW w \in Workers, CallSelected(w)
      PROVE  Filed'
  BY <1>2, EnterFiled DEF CallSelected
<1>3. ASSUME NEW w \in Workers, RootsKnown(w) \/ Paced(w)
      PROVE  Filed'
  <2>1. CASE RootsKnown(w)
    BY <1>0, <2>1, ReturnFiled, PaceFiled DEF RootsKnown
  <2>2. CASE Paced(w)
    <3>1. /\ pc' = [pc EXCEPT ![w] = "running"] /\ today' \in [Workers -> BOOLEAN]
          /\ UNCHANGED retriesLeft
      BY <2>2 DEF Paced, Start, Filed
    <3>. QED  BY <1>0, <3>1, OneFiled
  <2>. QED  BY <1>3, <2>1, <2>2
<1>4. ASSUME NEW w \in Workers, Cancel(w) \/ \E k \in Kinds, cost \in 0..MaxCost : Answer(w, k, cost)
      PROVE  Filed'
  <2>1. CASE Cancel(w)
    <3>1. today' \in [Workers -> BOOLEAN]
      BY <2>1 DEF Cancel, Filed
    <3>. QED  BY <1>0, <2>1, <3>1, OneFiled DEF Cancel
  <2>. QED  BY <1>4, <2>1, ReturnFiled DEF Answer
<1>5. ASSUME NEW w \in Workers, FailTransiently(w) \/ \E l \in Lanes : Select(w, l)
      PROVE  Filed'
  BY <1>5 DEF FailTransiently, Select, Typed, Filed
<1>6. ASSUME NEW w \in Workers, Retry(w)
      PROVE  Filed'
  <2>1. retriesLeft' = [retriesLeft EXCEPT ![w] = @ - 1] /\ retriesLeft[w] - 1 \in 0..Retries
    BY <1>6, LaneDispatchAssumption DEF Retry, Filed
  <2>. QED  BY <1>6, <2>1 DEF Retry, Typed, Filed
<1>7. CASE (\E l \in Lanes : ResetLane(l)) \/ Tick \/ Midnight \/ UNCHANGED vars
  BY <1>7 DEF ResetLane, Tick, Midnight, vars, callVars, Filed
<1>. QED  BY <1>1, <1>2, <1>3, <1>4, <1>5, <1>6, <1>7 DEF Next, HostStep, CallStep

LEMMA LastInLine ==
    ASSUME NEW s \in Seq(Workers), NEW w \in Workers
    PROVE  /\ Append(s, w) \in Seq(Workers)
           /\ InLine(w, Append(s, w))
           /\ \A v : InLine(v, s) => InLine(v, Append(s, w))
<1>1. Append(s, w)[Len(s) + 1] = w /\ Len(Append(s, w)) = Len(s) + 1 /\ Len(s) + 1 \in 1..(Len(s) + 1)
  OBVIOUS
<1>2. \A i \in 1..Len(s) : i \in 1..(Len(s) + 1) /\ Append(s, w)[i] = s[i]
  OBVIOUS
<1>. QED  BY <1>1, <1>2 DEF InLine

LEMMA FirstInLine ==
    ASSUME NEW s \in Seq(Workers), s # <<>>
    PROVE  /\ Tail(s) \in Seq(Workers)
           /\ \A v : v # Head(s) /\ InLine(v, s) => InLine(v, Tail(s))
<1>1. Tail(s) \in Seq(Workers) /\ Len(Tail(s)) = Len(s) - 1 /\ Len(s) \in Nat
  OBVIOUS
<1>2. \A i \in 1..(Len(s) - 1) : Tail(s)[i] = s[i + 1]
  OBVIOUS
<1>3. ASSUME NEW v, v # Head(s), NEW i \in 1..Len(s), s[i] = v
      PROVE  \E j \in 1..Len(Tail(s)) : Tail(s)[j] = v
  <2>1. i # 1
    BY <1>3
  <2>2. i - 1 \in 1..(Len(s) - 1) /\ (i - 1) + 1 = i
    BY <1>1, <2>1
  <2>. QED  BY <1>1, <1>2, <1>3, <2>2
<1>. QED  BY <1>1, <1>3 DEF InLine

\* A step after which w is nowhere in a line, and all others that were in one still are.
LEMMA OthersLined ==
    ASSUME Lined, NEW w \in Workers, pc'[w] # "pacing",
           \A v \in Workers \ {w} : pc'[v] = pc[v] /\ lane'[v] = lane[v],
           paceQ' \in [Lanes -> Seq(Workers)],
           \A l \in Lanes : \A v \in Workers \ {w} : InLine(v, paceQ[l]) => InLine(v, paceQ'[l]),
           lane \in [Workers -> Lanes]
    PROVE  Lined'
<1>1. ASSUME NEW v \in Workers, pc'[v] = "pacing"
      PROVE  InLine(v, paceQ'[lane'[v]])
  <2>1. v # w /\ pc[v] = "pacing" /\ lane'[v] = lane[v] /\ lane[v] \in Lanes
    BY <1>1
  <2>2. InLine(v, paceQ[lane[v]])
    BY <2>1 DEF Lined
  <2>. QED  BY <2>1, <2>2
<1>. QED  BY <1>1 DEF Lined, InLine

LEMMA PaceLined ==
    ASSUME Typed, Lined, NEW w \in Workers, NEW l \in Lanes, Pace(w, l), lane'[w] = l,
           \A v \in Workers \ {w} : lane'[v] = lane[v]
    PROVE  Lined'
<1>0. /\ \A v \in Workers \ {w} : pc'[v] = pc[v]
      /\ lane \in [Workers -> Lanes] /\ paceQ[l] \in Seq(Workers)
  BY DEF Pace, Start, Suspend, Typed, Lined
<1>1. CASE Start(w, l) /\ UNCHANGED paceQ
  <2>1. pc'[w] # "pacing"
    BY <1>1 DEF Start, Typed
  <2>. QED  BY <1>0, <1>1, <2>1, OthersLined DEF Lined
<1>2. CASE paceQ' = [paceQ EXCEPT ![l] = Append(@, w)]
  <2>1. paceQ' \in [Lanes -> Seq(Workers)] /\ paceQ'[l] = Append(paceQ[l], w)
    BY <1>0, <1>2, LastInLine DEF Lined
  <2>2. \A m \in Lanes \ {l} : paceQ'[m] = paceQ[m]
    BY <1>2 DEF Lined
  <2>3. ASSUME NEW v \in Workers \ {w}, pc'[v] = "pacing"
        PROVE  InLine(v, paceQ'[lane'[v]])
    <3>1. lane'[v] = lane[v] /\ lane[v] \in Lanes /\ InLine(v, paceQ[lane[v]])
      BY <1>0, <2>3 DEF Lined
    <3>2. CASE lane[v] = l
      BY <1>0, <2>1, <3>1, <3>2, LastInLine
    <3>3. CASE lane[v] # l
      BY <2>2, <3>1, <3>3
    <3>. QED  BY <3>2, <3>3
  <2>4. InLine(w, paceQ'[lane'[w]])
    BY <1>0, <2>1, LastInLine
  <2>. QED  BY <2>1, <2>3, <2>4 DEF Lined, InLine
<1>. QED  BY <1>1, <1>2 DEF Pace

LEMMA LinedStep ==
    ASSUME Typed, Lined, [Next]_vars
    PROVE  Lined'
<1>1. ASSUME NEW w \in Workers, UNCHANGED paceQ, pc'[w] # "pacing",
             \A v \in Workers \ {w} : pc'[v] = pc[v] /\ lane'[v] = lane[v]
      PROVE  Lined'
  BY <1>1, OthersLined DEF Lined, Typed
<1>2. ASSUME NEW w \in Workers, NEW l \in Lanes, NEW b \in BOOLEAN, Enter(w, l, b), lane'[w] = l,
             \A v \in Workers \ {w} : lane'[v] = lane[v]
      PROVE  Lined'
  <2>1. CASE Return(w) \/ (Suspend(w, "workspace") /\ UNCHANGED paceQ)
    <3>1. UNCHANGED paceQ /\ pc'[w] # "pacing" /\ \A v \in Workers \ {w} : pc'[v] = pc[v]
      BY <2>1 DEF Return, Suspend, paceVars, Typed
    <3>. QED  BY <1>1, <1>2, <3>1
  <2>. QED  BY <1>2, <2>1, PaceLined DEF Enter
<1>3. ASSUME NEW w \in Workers, NEW l \in Lanes, NEW b \in BOOLEAN, Ask(w, l, b)
      PROVE  Lined'
  <2>1. Enter(w, l, b) /\ lane'[w] = l /\ \A v \in Workers \ {w} : lane'[v] = lane[v]
    BY <1>3 DEF Ask, Typed
  <2>. QED  BY <1>2, <2>1
<1>4. ASSUME NEW w \in Workers, CallSelected(w)
      PROVE  Lined'
  <2>1. Enter(w, lane[w], FALSE) /\ lane'[w] = lane[w] /\ lane[w] \in Lanes /\ \A v \in Workers \ {w} : lane'[v] = lane[v]
    BY <1>4 DEF CallSelected, Typed
  <2>. QED  BY <1>2, <2>1
<1>5. ASSUME NEW w \in Workers, RootsKnown(w)
      PROVE  Lined'
  <2>1. lane' = lane /\ lane[w] \in Lanes /\ (Return(w) \/ Pace(w, lane[w]))
    BY <1>5 DEF RootsKnown, Typed
  <2>2. CASE Return(w)
    <3>1. UNCHANGED paceQ /\ pc'[w] # "pacing" /\ \A v \in Workers \ {w} : pc'[v] = pc[v]
      BY <2>2 DEF Return, paceVars, Typed
    <3>. QED  BY <1>1, <2>1, <3>1
  <2>. QED  BY <2>1, <2>2, PaceLined
<1>6. ASSUME NEW w \in Workers, Paced(w)
      PROVE  Lined'
  <2>. DEFINE l == lane[w]
  <2>1. /\ l \in Lanes /\ pc[w] = "pacing" /\ lane' = lane /\ Head(paceQ[l]) = w
        /\ paceQ' = [paceQ EXCEPT ![l] = Tail(@)]
        /\ pc'[w] # "pacing" /\ \A v \in Workers \ {w} : pc'[v] = pc[v]
    BY <1>6 DEF Paced, Start, Typed
  <2>2. paceQ[l] \in Seq(Workers) /\ paceQ[l] # <<>>
    <3>1. paceQ[l] \in Seq(Workers) /\ InLine(w, paceQ[l])
      BY <1>6, <2>1 DEF Lined, Paced, l
    <3>2. paceQ[l] # <<>>
      BY <3>1 DEF InLine
    <3>. QED  BY <3>1, <3>2
  <2>. HIDE DEF l
  <2>3. /\ Tail(paceQ[l]) \in Seq(Workers)
        /\ \A v : v # w /\ InLine(v, paceQ[l]) => InLine(v, Tail(paceQ[l]))
    BY <2>1, <2>2, FirstInLine
  <2>4. /\ paceQ' \in [Lanes -> Seq(Workers)] /\ paceQ'[l] = Tail(paceQ[l])
        /\ \A m \in Lanes \ {l} : paceQ'[m] = paceQ[m]
    BY <2>1, <2>3 DEF Lined
  <2>5. \A m \in Lanes : \A v \in Workers \ {w} : InLine(v, paceQ[m]) => InLine(v, paceQ'[m])
    BY <2>3, <2>4
  <2>. QED  BY <2>1, <2>4, <2>5, OthersLined DEF Typed
<1>7. ASSUME NEW w \in Workers, Cancel(w)
      PROVE  Lined'
  <2>1. /\ lane' = lane /\ paceQ' = LeaveLine(w)
        /\ pc'[w] # "pacing" /\ \A v \in Workers \ {w} : pc'[v] = pc[v]
    BY <1>7 DEF Cancel, Typed
  <2>2. \A m \in Lanes : paceQ[m] \in Seq(Workers) /\ paceQ'[m] = RemoveFirst(paceQ[m], w)
    BY <2>1 DEF LeaveLine, Lined
  <2>3. paceQ' \in [Lanes -> Seq(Workers)]
    <3>1. \A m \in Lanes : RemoveFirst(paceQ[m], w) \in Seq(Workers)
      BY <2>2, LineWithoutOne
    <3>. QED  BY <2>1, <3>1 DEF LeaveLine
  <2>4. ASSUME NEW m \in Lanes, NEW v \in Workers \ {w}, InLine(v, paceQ[m])
        PROVE  InLine(v, paceQ'[m])
    BY <2>2, <2>4, LineWithoutOne DEF InLine
  <2>. QED  BY <2>1, <2>3, <2>4, OthersLined DEF Typed
<1>8. ASSUME NEW w \in Workers,
             \/ FailTransiently(w) \/ Retry(w) \/ \E l \in Lanes : Select(w, l)
             \/ \E k \in Kinds, cost \in 0..MaxCost : Answer(w, k, cost)
      PROVE  Lined'
  <2>1. UNCHANGED paceQ /\ pc'[w] # "pacing" /\ \A v \in Workers \ {w} : pc'[v] = pc[v] /\ lane'[v] = lane[v]
    BY <1>8 DEF FailTransiently, Retry, Select, Answer, Return, paceVars, Typed
  <2>. QED  BY <1>1, <2>1
<1>9. CASE (\E l \in Lanes : ResetLane(l)) \/ Tick \/ Midnight \/ UNCHANGED vars
  <2>1. UNCHANGED <<pc, lane, paceQ>>
    BY <1>9 DEF ResetLane, Tick, Midnight, vars, callVars, paceVars
  <2>. QED  BY <2>1 DEF Lined
<1>. QED  BY <1>3, <1>4, <1>5, <1>6, <1>7, <1>8, <1>9 DEF Next, HostStep, CallStep

\* A new bench is one of the waits, at most, and an old one only shrinks.
LEMMA BenchBounded ==
    ASSUME Benched, NEW l \in Lanes, NEW k \in Kinds, NEW t \in Nat, NEW e \in Nat
    PROVE  /\ BenchAfter(l, k, t, e) \in Nat
           /\ \E longest \in {CooldownTimeout, CooldownQuota, CooldownAuth, CooldownEmptyMax} :
                 BenchAfter(l, k, t, e) <= longest
<1>1. ASSUME e >= CooldownEmptyThreshold
      PROVE  EmptyBackoff(e) \in Nat /\ EmptyBackoff(e) <= CooldownEmptyMax
  <2>1. TwoToThe[e - CooldownEmptyThreshold] \in Nat
    BY <1>1, PowersOfTwo DEF CooldownEmptyThreshold
  <2>2. CooldownEmpty * TwoToThe[e - CooldownEmptyThreshold] \in Nat
    BY <2>1, LaneDispatchAssumption
  <2>. QED  BY <2>2, LaneDispatchAssumption DEF EmptyBackoff, AtMost
<1>2. /\ bench[l] \in Nat
      /\ \E longest \in {CooldownTimeout, CooldownQuota, CooldownAuth, CooldownEmptyMax} : bench[l] <= longest
  BY DEF Benched
<1>. QED  BY <1>1, <1>2, LaneDispatchAssumption DEF BenchAfter

LEMMA BenchedStep ==
    ASSUME Typed, Benched, [Next]_vars
    PROVE  Benched'
<1>1. ASSUME NEW w \in Workers, NEW k \in Kinds, NEW cost \in 0..MaxCost, Answer(w, k, cost)
      PROVE  Benched'
  <2>. DEFINE l == lane[w]
              t == IF k = "timeout" THEN timeouts[l] + 1 ELSE 0
              e == IF k = "empty" THEN empties[l] + 1 ELSE 0
              b == IF k = "ok" THEN 0 ELSE BenchAfter(l, k, t, e)
  <2>1. /\ timeouts' = [timeouts EXCEPT ![l] = t] /\ empties' = [empties EXCEPT ![l] = e]
        /\ bench' = [bench EXCEPT ![l] = b]
    BY <1>1 DEF Answer, Record, UpdateLaneState
  <2>2. l \in Lanes /\ t \in Nat /\ e \in Nat
    BY DEF Typed, Benched
  <2>. HIDE DEF l, t, e
  <2>3. /\ b \in Nat
        /\ \E longest \in {CooldownTimeout, CooldownQuota, CooldownAuth, CooldownEmptyMax} : b <= longest
    <3>1. CASE k = "ok"
      BY <3>1, LaneDispatchAssumption
    <3>2. CASE k # "ok"
      BY <2>2, <3>2, BenchBounded
    <3>. QED  BY <3>1, <3>2
  <2>. HIDE DEF b
  <2>. QED  BY <2>1, <2>2, <2>3 DEF Benched
<1>2. ASSUME NEW l \in Lanes, ResetLane(l)
      PROVE  Benched'
  BY <1>2, LaneDispatchAssumption DEF ResetLane, Benched
<1>3. CASE Tick
  <2>1. \A l \in Lanes : Down(bench[l]) \in Nat /\ Down(bench[l]) <= bench[l]
    BY DEF Down, Benched
  <2>2. bench' \in [Lanes -> Nat] /\ \A l \in Lanes : bench'[l] <= bench[l]
    BY <1>3, <2>1 DEF Tick
  <2>3. ASSUME NEW l \in Lanes
        PROVE  \E longest \in {CooldownTimeout, CooldownQuota, CooldownAuth, CooldownEmptyMax} : bench'[l] <= longest
    <3>1. PICK longest \in {CooldownTimeout, CooldownQuota, CooldownAuth, CooldownEmptyMax} : bench[l] <= longest
      BY DEF Benched
    <3>2. longest \in Nat /\ bench[l] \in Nat /\ bench'[l] \in Nat
      BY <2>2, LaneDispatchAssumption DEF Benched
    <3>. QED  BY <2>2, <3>1, <3>2
  <2>. QED  BY <1>3, <2>2, <2>3 DEF Tick, Benched
<1>4. CASE UNCHANGED healthVars
  BY <1>4 DEF healthVars, Benched
<1>. QED
  BY <1>1, <1>2, <1>3, <1>4
     DEF Next, HostStep, CallStep, Ask, Select, RootsKnown, CallSelected, Paced, FailTransiently, Retry,
         Cancel, Midnight, vars

LEMMA NotedStep ==
    ASSUME Typed, Noted, [Next]_vars
    PROVE  Noted'
<1>1. ASSUME NEW w \in Workers, NEW k \in Kinds, NEW cost \in 0..MaxCost, Answer(w, k, cost)
      PROVE  Noted'
  <2>. DEFINE Heard == FailureKinds \cup {"reset"}
  <2>1. lane[w] \in Lanes /\ outcomes[lane[w]] \in Seq(Heard) /\ (k # "ok" => k \in Heard)
    BY DEF Typed, Noted, Kinds
  <2>. HIDE DEF Heard
  <2>2. Remember(lane[w], k) \in Seq(Heard)
    BY <2>1 DEF Remember
  <2>3. outcomes' = [outcomes EXCEPT ![lane[w]] = Remember(lane[w], k)] /\ UNCHANGED <<calls, resets>>
    BY <1>1 DEF Answer, Record, UpdateLaneState
  <2>. QED  BY <2>2, <2>3 DEF Noted, Heard
<1>2. ASSUME NEW l \in Lanes, ResetLane(l)
      PROVE  Noted'
  <2>. DEFINE Heard == FailureKinds \cup {"reset"}
  <2>1. outcomes[l] \in Seq(Heard) /\ "reset" \in Heard
    BY DEF Noted
  <2>. HIDE DEF Heard
  <2>2. Append(outcomes[l], "reset") \in Seq(Heard)
    BY <2>1
  <2>3. outcomes' = [outcomes EXCEPT ![l] = Append(@, "reset")] /\ UNCHANGED calls /\ resets' \in 0..MaxResets
    BY <1>2, LaneDispatchAssumption DEF ResetLane, Noted
  <2>. QED  BY <2>2, <2>3 DEF Noted, Heard
<1>3. ASSUME NEW w \in Workers, NEW l \in Lanes, Select(w, l) \/ \E b \in BOOLEAN : Ask(w, l, b)
      PROVE  Noted'
  <2>1. calls < MaxCalls /\ calls' = calls + 1 /\ UNCHANGED <<resets, outcomes>>
    BY <1>3 DEF Select, Ask
  <2>2. calls \in 0..MaxCalls /\ MaxCalls \in Nat
    BY LaneDispatchAssumption DEF Noted
  <2>3. calls' \in 0..MaxCalls
    BY ONLY <2>1, <2>2
  <2>4. /\ resets' \in 0..MaxResets
        /\ outcomes' \in [Lanes -> Seq(FailureKinds \cup {"reset"})]
    BY <2>1 DEF Noted
  <2>. QED  BY <2>3, <2>4 DEF Noted
<1>4. CASE UNCHANGED <<calls, resets, outcomes>>
  BY <1>4 DEF Noted
<1>. QED
  BY <1>1, <1>2, <1>3, <1>4
     DEF Next, HostStep, CallStep, RootsKnown, CallSelected, Paced, FailTransiently, Retry,
         Cancel, Tick, Midnight, vars, ghostVars

\* For any number of calls, lanes and settings: TypeOK. No bench outlasts the longest of the waits,
\* however many empties in a row double it (telemetry._update_lane_state), and no call spawns again
\* without a retry left (server._spawn_with_retry).
THEOREM CallsTyped == Spec => []TypeOK
<1>1. Init => Filed /\ Lined /\ Benched /\ Noted /\ Remembered
  <2>1. Init => Filed /\ Benched /\ Noted /\ Remembered
    BY LaneDispatchAssumption DEF Init, Filed, Benched, Noted, Remembered
  <2>2. Init => Lined
    BY DEF Init, Lined
  <2>. QED  BY <2>1, <2>2
<1>2. ASSUME Typed, Filed, Lined, Benched, Noted, Remembered
      PROVE  TypeOK
  <2>1. \A l \in Lanes : paceLeft[l] \in 0..MinInterval[l] /\ sinceStart[l] \in 0..MinInterval[l]
    BY <1>2, LaneDispatchAssumption DEF Remembered
  <2>2. \A l \in Lanes : \E longest \in {CooldownTimeout, CooldownQuota, CooldownAuth, CooldownEmptyMax} :
          bench[l] \in 0..longest
    <3>. SUFFICES ASSUME NEW l \in Lanes
                  PROVE  \E longest \in {CooldownTimeout, CooldownQuota, CooldownAuth, CooldownEmptyMax} :
                            bench[l] \in 0..longest
      OBVIOUS
    <3>1. PICK longest \in {CooldownTimeout, CooldownQuota, CooldownAuth, CooldownEmptyMax} : bench[l] <= longest
      BY <1>2 DEF Benched
    <3>2. longest \in Nat /\ bench[l] \in Nat
      BY <1>2, LaneDispatchAssumption DEF Benched
    <3>. QED  BY <3>1, <3>2
  <2>. QED  BY <1>2, <2>1, <2>2 DEF Typed, Filed, Lined, Benched, Noted, TypeOK
<1>3. Typed /\ Filed /\ Lined /\ Benched /\ Noted /\ Remembered /\ [Next]_vars =>
        Typed' /\ Filed' /\ Lined' /\ Benched' /\ Noted' /\ Remembered'
  BY StepKinds, FiledStep, LinedStep, BenchedStep, NotedStep, RememberedStep
<1>. QED  BY InitTyped, <1>1, <1>2, <1>3, PTL DEF Spec

-----------------------------------------------------------------------------
(* The bench of a lane and what it was told of. *)

\* The wait of the specification, each the double of the one before, is the power of the code.
LEMMA WaitsDouble ==
    ASSUME NEW n \in Nat, n >= 2
    PROVE  EmptyWait[n] = EmptyBackoff(n)
<1>. DEFINE Waits(f) == f = [k \in Nat |-> IF k <= 2 THEN AtMost(CooldownEmpty, CooldownEmptyMax)
                                            ELSE AtMost(2 * f[k - 1], CooldownEmptyMax)]
            wait == [k \in Nat |-> IF k <= 2 THEN AtMost(CooldownEmpty, CooldownEmptyMax)
                                    ELSE AtMost(CooldownEmpty * TwoToThe[k - 2], CooldownEmptyMax)]
<1>0. CooldownEmpty \in Nat /\ CooldownEmptyMax \in Nat
  BY LaneDispatchAssumption
<1>1. \A k \in Nat : k >= 2 => wait[k] = AtMost(CooldownEmpty * TwoToThe[k - 2], CooldownEmptyMax)
  <2>1. CooldownEmpty * TwoToThe[0] = CooldownEmpty
    BY <1>0, PowersOfTwo
  <2>. SUFFICES ASSUME NEW k \in Nat, k >= 2
                PROVE  wait[k] = AtMost(CooldownEmpty * TwoToThe[k - 2], CooldownEmptyMax)
    OBVIOUS
  <2>2. CASE k = 2
    BY <2>1, <2>2
  <2>3. CASE k # 2
    BY <2>3
  <2>. QED  BY <2>2, <2>3
<1>2. ASSUME NEW k \in Nat, k > 2
      PROVE  wait[k] = AtMost(2 * wait[k - 1], CooldownEmptyMax)
  <2>. DEFINE x == CooldownEmpty * TwoToThe[k - 3]
  <2>1. k - 3 \in Nat /\ (k - 3) + 1 = k - 2 /\ k - 1 \in Nat /\ k - 1 >= 2 /\ (k - 1) - 2 = k - 3
    BY <1>2
  <2>2. TwoToThe[k - 3] \in Nat /\ TwoToThe[k - 2] = 2 * TwoToThe[k - 3]
    BY <2>1, PowersOfTwo
  <2>3. x \in Nat /\ CooldownEmpty * TwoToThe[k - 2] = 2 * x
    BY <1>0, <2>2
  <2>. HIDE DEF x, wait
  <2>4. wait[k] = AtMost(2 * x, CooldownEmptyMax)
    BY <1>1, <1>2, <2>3
  <2>5. wait[k - 1] = AtMost(x, CooldownEmptyMax)
    BY <1>1, <2>1 DEF x
  <2>. QED  BY <1>0, <2>3, <2>4, <2>5 DEF AtMost
<1>3. Waits(wait)
  <2>1. wait = [k \in Nat |-> wait[k]]
    OBVIOUS
  <2>2. \A k \in Nat : k <= 2 => wait[k] = AtMost(CooldownEmpty, CooldownEmptyMax)
    OBVIOUS
  <2>. HIDE DEF wait
  <2>3. \A k \in Nat : wait[k] = IF k <= 2 THEN AtMost(CooldownEmpty, CooldownEmptyMax)
                                 ELSE AtMost(2 * wait[k - 1], CooldownEmptyMax)
    BY <1>2, <2>2
  <2>. QED  BY <2>1, <2>3
<1>. HIDE DEF wait
<1>4. Waits(EmptyWait)
  <2>1. EmptyWait = CHOOSE f : Waits(f)
    BY DEF EmptyWait
  <2>. HIDE DEF Waits
  <2>. QED  BY <1>3, <2>1
<1>. DEFINE Wrong == {k \in Nat : EmptyWait[k] # wait[k]}
<1>5. Wrong = {}
  <2>. SUFFICES ASSUME Wrong # {}
                PROVE  FALSE
    OBVIOUS
  <2>1. PICK k \in Wrong : \A m \in Wrong : k <= m
    <3>1. Wrong \subseteq Nat
      OBVIOUS
    <3>. HIDE DEF Wrong
    <3>. QED  BY <3>1, LeastNumber
  <2>2. CASE k <= 2
    BY <1>3, <1>4, <2>1, <2>2
  <2>3. CASE ~(k <= 2)
    <3>1. k \in Nat /\ k - 1 \in Nat /\ ~(k <= k - 1)
      BY <2>1, <2>3
    <3>2. EmptyWait[k - 1] = wait[k - 1]
      BY <2>1, <3>1
    <3>3. EmptyWait[k] = AtMost(2 * EmptyWait[k - 1], CooldownEmptyMax)
      BY <1>4, <2>3, <3>1
    <3>4. wait[k] = AtMost(2 * wait[k - 1], CooldownEmptyMax)
      BY <1>3, <2>3, <3>1
    <3>. QED  BY <2>1, <3>2, <3>3, <3>4
  <2>. QED  BY <2>2, <2>3
<1>. QED  BY <1>1, <1>5 DEF EmptyBackoff, CooldownEmptyThreshold

\* What one outcome more makes of a streak.
LEMMA StreakLonger ==
    ASSUME NEW S, NEW s \in Seq(S), NEW k, NEW others, NEW x
    PROVE  /\ Streak(s, k, others) \in Nat
           /\ Streak(Append(s, x), k, others) =
                IF x = k THEN Streak(s, k, others) + 1
                ELSE IF x \in others THEN Streak(s, k, others) ELSE 0
<1>. DEFINE Run(r) == {i \in DOMAIN r : r[i] = k /\ \A j \in i..Len(r) : r[j] \in {k} \cup others}
            n == Len(s)
<1>1. /\ n \in Nat /\ DOMAIN s = 1..n
      /\ Len(Append(s, x)) = n + 1 /\ DOMAIN Append(s, x) = 1..(n + 1)
      /\ Append(s, x)[n + 1] = x
      /\ \A i \in 1..n : Append(s, x)[i] = s[i]
  OBVIOUS
<1>2. /\ Run(s) \subseteq 1..n
      /\ IsFiniteSet(Run(s)) /\ Cardinality(Run(s)) \in Nat
  <2>1. Run(s) \subseteq 1..n
    BY <1>1
  <2>2. IsFiniteSet(1..n)
    BY <1>1, FS_Interval
  <2>. HIDE DEF Run, n
  <2>3. IsFiniteSet(Run(s))
    BY <2>1, <2>2, FS_Subset
  <2>. QED  BY <2>1, <2>3, FS_CardinalityType
<1>3. \A r : Streak(r, k, others) = Cardinality(Run(r))
  BY DEF Streak
<1>5. ASSUME x = k \/ x \in others
      PROVE  Run(Append(s, x)) = Run(s) \cup (IF x = k THEN {n + 1} ELSE {})
  <2>. DEFINE r == Append(s, x)
  <2>0. /\ Len(r) = n + 1 /\ DOMAIN r = 1..(n + 1) /\ r[n + 1] = x
        /\ \A i \in 1..n : r[i] = s[i]
    BY <1>1
  <2>. HIDE DEF r
  <2>1. ASSUME NEW i \in 1..n
        PROVE  i \in Run(r) <=> i \in Run(s)
    <3>1. \A j : j \in i..(n + 1) <=> j \in i..n \/ j = n + 1
      BY <1>1
    <3>2. \A j \in i..n : r[j] = s[j]
      BY <1>1, <2>0
    <3>3. r[n + 1] \in {k} \cup others
      BY <1>5, <2>0
    <3>4. i \in 1..(n + 1) /\ r[i] = s[i]
      BY <1>1, <2>0
    <3>. QED  BY <1>1, <2>0, <3>1, <3>2, <3>3, <3>4
  <2>2. n + 1 \in Run(r) <=> x = k
    <3>1. \A j : j \in (n + 1)..(n + 1) <=> j = n + 1
      BY <1>1
    <3>. QED  BY <1>1, <2>0, <3>1
  <2>3. \A i : i \in 1..(n + 1) <=> i \in 1..n \/ i = n + 1
    BY <1>1
  <2>4. Run(r) \subseteq 1..(n + 1)
    BY <2>0
  <2>5. n + 1 \notin 1..n
    BY <1>1
  <2>. HIDE DEF Run, n
  <2>. QED  BY <1>2, <2>1, <2>2, <2>3, <2>4, <2>5 DEF r
<1>6. ASSUME x # k, x \notin others
      PROVE  Run(Append(s, x)) = {}
  <2>1. \A i \in 1..(n + 1) : n + 1 \in i..(n + 1)
    BY <1>1
  <2>. QED  BY <1>1, <1>6, <2>1
<1>7. n + 1 \notin Run(s)
  BY <1>1, <1>2
<1>. HIDE DEF Run, n
<1>8. Cardinality(Run(s) \cup {n + 1}) = Cardinality(Run(s)) + 1
  BY <1>2, <1>7, FS_AddElement
<1>9. Cardinality({}) = 0
  BY FS_EmptySet
<1>10. x = k => Run(Append(s, x)) = Run(s) \cup {n + 1}
  BY <1>5
<1>11. x # k /\ x \in others => Run(Append(s, x)) = Run(s)
  BY <1>5
<1>. QED  BY <1>2, <1>3, <1>6, <1>8, <1>9, <1>10, <1>11

LEMMA NoStreak ==
    ASSUME NEW s, NEW k, NEW others, \A i \in DOMAIN s : s[i] # k
    PROVE  Streak(s, k, others) = 0
<1>1. {i \in DOMAIN s : s[i] = k /\ \A j \in i..Len(s) : s[j] \in {k} \cup others} = {}
  OBVIOUS
<1>. QED  BY <1>1, FS_EmptySet DEF Streak

LEMMA StreakOfOne ==
    ASSUME NEW x, NEW k, NEW others
    PROVE  Streak(<<x>>, k, others) = IF x = k THEN 1 ELSE 0
<1>1. DOMAIN <<x>> = {1} /\ Len(<<x>>) = 1 /\ <<x>>[1] = x /\ 1..1 = {1}
  OBVIOUS
<1>2. CASE x = k
  <2>1. {i \in DOMAIN <<x>> : <<x>>[i] = k /\ \A j \in i..Len(<<x>>) : <<x>>[j] \in {k} \cup others} = {1}
    BY <1>1, <1>2
  <2>2. Cardinality({1}) = 1
    BY FS_Singleton
  <2>. QED  BY <1>2, <2>1, <2>2 DEF Streak
<1>3. CASE x # k
  <2>1. \A i \in DOMAIN <<x>> : <<x>>[i] # k
    BY <1>1, <1>3
  <2>. QED  BY <1>3, <2>1, NoStreak
<1>. QED  BY <1>2, <1>3

\* Apart from resets, what is remembered is one kind of failure.
Agreed(s) == \E k \in FailureKinds : \A i \in 1..Len(s) : s[i] \in {k, "reset"}

LEMMA AgreedAtFirst == Agreed(<<>>)
<1>1. "failed" \in FailureKinds /\ \A i \in 1..Len(<<>>) : FALSE
  BY DEF FailureKinds
<1>. QED  BY <1>1 DEF Agreed

\* The row counts what the lane's outcomes end in, and a lane of which nothing bad is
\* remembered is not benched.
Told ==
    \A l \in Lanes :
        /\ Agreed(outcomes[l])
        /\ timeouts[l] = Streak(outcomes[l], "timeout", {})
        /\ empties[l] = Streak(outcomes[l], "empty", {"reset"})
        /\ outcomes[l] = <<>> => bench[l] = 0

Followed(l) ==
    IF outcomes'[l] # outcomes[l]
    THEN bench'[l] = Due(outcomes'[l], bench[l])
    ELSE bench'[l] \in {bench[l], Down(bench[l])}

LEMMA FailureTold ==
    ASSUME NEW l \in Lanes, outcomes[l] \in Seq(FailureKinds \cup {"reset"}), Agreed(outcomes[l]),
           NEW k \in FailureKinds
    PROVE  LET s == outcomes[l]
               r == Remember(l, k)
           IN  /\ r # s /\ r # <<>> /\ r[Len(r)] = k
               /\ Agreed(r)
               /\ Streak(r, "timeout", {}) = IF k = "timeout" THEN Streak(s, k, {}) + 1 ELSE 0
               /\ Streak(r, "empty", {"reset"}) = IF k = "empty" THEN Streak(s, k, {"reset"}) + 1 ELSE 0
<1>. DEFINE s == outcomes[l]
            Heard == FailureKinds \cup {"reset"}
            alike == \A i \in DOMAIN s : s[i] \in {k, "reset"}
<1>1. /\ Remember(l, k) = IF alike THEN Append(s, k) ELSE <<k>>
      /\ k # "ok" /\ k # "reset" /\ k \in Heard
      /\ s \in Seq(Heard) /\ Agreed(s)
  BY DEF Remember, FailureKinds
<1>. HIDE DEF s, Heard, alike
<1>2. /\ Len(s) \in Nat /\ DOMAIN s = 1..Len(s)
      /\ Append(s, k) # s /\ Append(s, k) # <<>> /\ Append(s, k)[Len(Append(s, k))] = k
      /\ Len(Append(s, k)) = Len(s) + 1 /\ \A i \in 1..Len(s) : Append(s, k)[i] = s[i]
      /\ Append(s, k)[Len(s) + 1] = k
      /\ <<>> \in Seq(Heard) /\ Append(<<>>, k) = <<k>>
  BY <1>1
<1>3. CASE alike
  <2>1. \A i \in 1..(Len(s) + 1) : i \in 1..Len(s) \/ i = Len(s) + 1
    <3>1. Len(s) \in Nat
      BY <1>2
    <3>. HIDE DEF s
    <3>. QED  BY <3>1
  <2>2. Agreed(Append(s, k))
    BY <1>2, <1>3, <2>1 DEF Agreed, alike
  <2>3. Streak(Append(s, k), "timeout", {}) = IF k = "timeout" THEN Streak(s, k, {}) + 1 ELSE 0
    BY <1>1, StreakLonger
  <2>4. Streak(Append(s, k), "empty", {"reset"}) = IF k = "empty" THEN Streak(s, k, {"reset"}) + 1 ELSE 0
    BY <1>1, StreakLonger
  <2>. QED  BY <1>1, <1>2, <1>3, <2>2, <2>3, <2>4 DEF s
<1>4. CASE ~alike
  <2>1. \A i \in 1..Len(s) : s[i] # k
    BY <1>1, <1>2, <1>4 DEF Agreed, alike
  <2>2. Streak(s, k, {}) = 0 /\ Streak(s, k, {"reset"}) = 0
    BY <1>2, <2>1, NoStreak
  <2>3. /\ <<k>> # <<>> /\ Len(<<k>>) = 1 /\ <<k>>[1] = k
        /\ \A i \in 1..1 : i = 1
    OBVIOUS
  <2>4. <<k>> # s
    <3>1. PICK i \in 1..Len(s) : s[i] \notin {k, "reset"}
      BY <1>2, <1>4 DEF alike
    <3>2. ASSUME <<k>> = s
          PROVE  FALSE
      BY <2>3, <3>1, <3>2
    <3>. QED  BY <3>2
  <2>5. Agreed(<<k>>)
    BY <2>3 DEF Agreed
  <2>6. Streak(<<k>>, "timeout", {}) = IF k = "timeout" THEN Streak(s, k, {}) + 1 ELSE 0
    BY <2>2, StreakOfOne
  <2>7. Streak(<<k>>, "empty", {"reset"}) = IF k = "empty" THEN Streak(s, k, {"reset"}) + 1 ELSE 0
    BY <2>2, StreakOfOne
  <2>. QED  BY <1>1, <1>4, <2>3, <2>4, <2>5, <2>6, <2>7 DEF s
<1>. QED  BY <1>3, <1>4

LEMMA ResetTold ==
    ASSUME NEW s \in Seq(FailureKinds \cup {"reset"}), Agreed(s)
    PROVE  LET r == Append(s, "reset")
           IN  /\ r # s /\ r # <<>> /\ r[Len(r)] = "reset"
               /\ Agreed(r)
               /\ Streak(r, "timeout", {}) = 0
               /\ Streak(r, "empty", {"reset"}) = Streak(s, "empty", {"reset"})
<1>. DEFINE Heard == FailureKinds \cup {"reset"}
            r == Append(s, "reset")
<1>1. s \in Seq(Heard) /\ "reset" \in Heard
  OBVIOUS
<1>. HIDE DEF Heard
<1>2. /\ r # s /\ r # <<>> /\ Len(r) = Len(s) + 1 /\ r[Len(s) + 1] = "reset"
      /\ Len(s) \in Nat /\ \A i \in 1..Len(s) : r[i] = s[i]
  BY <1>1
<1>3. Streak(r, "timeout", {}) = 0
  BY <1>1, StreakLonger
<1>4. Streak(r, "empty", {"reset"}) = Streak(s, "empty", {"reset"})
  BY <1>1, StreakLonger
<1>. HIDE DEF r
<1>5. Agreed(r)
  <2>1. \A i \in 1..(Len(s) + 1) : i \in 1..Len(s) \/ i = Len(s) + 1
    BY <1>2
  <2>. QED  BY <1>2, <2>1 DEF Agreed
<1>. QED  BY <1>2, <1>3, <1>4, <1>5 DEF r

LEMMA AnswerTold ==
    ASSUME Typed, Benched, Noted, Told,
           NEW w \in Workers, NEW k \in Kinds, NEW cost \in 0..MaxCost, Answer(w, k, cost)
    PROVE  Told' /\ \A l \in Lanes : Followed(l)
<1>. DEFINE l == lane[w]
            s == outcomes[l]
            r == Remember(l, k)
            t == IF k = "timeout" THEN timeouts[l] + 1 ELSE 0
            e == IF k = "empty" THEN empties[l] + 1 ELSE 0
            b == IF k = "ok" THEN 0 ELSE BenchAfter(l, k, t, e)
<1>1. /\ timeouts' = [timeouts EXCEPT ![l] = t] /\ empties' = [empties EXCEPT ![l] = e]
      /\ bench' = [bench EXCEPT ![l] = b] /\ outcomes' = [outcomes EXCEPT ![l] = r]
      /\ l \in Lanes
  BY DEF Answer, Record, UpdateLaneState, Typed
<1>2. /\ bench[l] \in Nat /\ timeouts[l] = Streak(s, "timeout", {}) /\ empties[l] = Streak(s, "empty", {"reset"})
      /\ s \in Seq(FailureKinds \cup {"reset"}) /\ Agreed(s) /\ (s = <<>> => bench[l] = 0)
      /\ timeouts[l] \in Nat /\ empties[l] \in Nat
  BY <1>1 DEF Benched, Noted, Told
<1>3. /\ Agreed(r) /\ t = Streak(r, "timeout", {}) /\ e = Streak(r, "empty", {"reset"})
      /\ r = <<>> => b = 0
      /\ IF r # s THEN b = Due(r, bench[l]) ELSE b \in {bench[l], Down(bench[l])}
  <2>1. CASE k = "ok"
    <3>1. r = <<>> /\ b = 0 /\ t = 0 /\ e = 0
      BY <2>1 DEF Remember
    <3>2. /\ Streak(<<>>, "timeout", {}) = 0 /\ Streak(<<>>, "empty", {"reset"}) = 0
          /\ Agreed(<<>>) /\ Due(<<>>, bench[l]) = 0
      BY NoStreak, AgreedAtFirst DEF Due
    <3>. HIDE DEF r, b, t, e
    <3>. QED  BY <1>2, <3>1, <3>2
  <2>2. CASE k # "ok"
    <3>1. k \in FailureKinds /\ b = BenchAfter(l, k, t, e)
      BY <2>2 DEF Kinds
    <3>2. /\ r # s /\ r # <<>> /\ r[Len(r)] = k /\ Agreed(r)
          /\ Streak(r, "timeout", {}) = IF k = "timeout" THEN Streak(s, k, {}) + 1 ELSE 0
          /\ Streak(r, "empty", {"reset"}) = IF k = "empty" THEN Streak(s, k, {"reset"}) + 1 ELSE 0
      BY <1>1, <1>2, <3>1, FailureTold
    <3>3. t = Streak(r, "timeout", {}) /\ e = Streak(r, "empty", {"reset"}) /\ e \in Nat
      BY <1>2, <3>2
    <3>4. e >= 2 => EmptyWait[e] = EmptyBackoff(e)
      BY <3>3, WaitsDouble
    <3>. HIDE DEF r, t, e, b, s
    <3>5. b = Due(r, bench[l])
      BY <3>1, <3>2, <3>3, <3>4
         DEF BenchAfter, Due, CooldownTimeoutThreshold, CooldownEmptyThreshold, FailureKinds
    <3>. QED  BY <3>2, <3>3, <3>5
  <2>. QED  BY <2>1, <2>2
<1>. HIDE DEF r, t, e, b
<1>4. /\ \A m \in Lanes \ {l} : /\ outcomes'[m] = outcomes[m] /\ bench'[m] = bench[m]
                               /\ timeouts'[m] = timeouts[m] /\ empties'[m] = empties[m]
      /\ outcomes'[l] = r /\ bench'[l] = b /\ timeouts'[l] = t /\ empties'[l] = e
  BY <1>1 DEF Benched, Noted
<1>. HIDE DEF l
<1>5. Told'
  BY <1>3, <1>4 DEF Told
<1>6. \A m \in Lanes : Followed(m)
  BY <1>3, <1>4 DEF Followed
<1>. QED  BY <1>5, <1>6

LEMMA ToldStep ==
    ASSUME Typed, Benched, Noted, Told, [Next]_vars
    PROVE  Told' /\ \A l \in Lanes : Followed(l)
<1>1. ASSUME NEW l \in Lanes, ResetLane(l)
      PROVE  Told' /\ \A m \in Lanes : Followed(m)
  <2>. DEFINE r == Append(outcomes[l], "reset")
  <2>1. /\ outcomes' = [outcomes EXCEPT ![l] = r] /\ bench' = [bench EXCEPT ![l] = 0]
        /\ timeouts' = [timeouts EXCEPT ![l] = 0] /\ empties' = empties
    BY <1>1 DEF ResetLane
  <2>2. /\ outcomes[l] \in Seq(FailureKinds \cup {"reset"}) /\ Agreed(outcomes[l])
        /\ empties[l] = Streak(outcomes[l], "empty", {"reset"})
    BY DEF Noted, Told
  <2>3. /\ r # outcomes[l] /\ r # <<>> /\ r[Len(r)] = "reset" /\ Agreed(r)
        /\ Streak(r, "timeout", {}) = 0
        /\ Streak(r, "empty", {"reset"}) = Streak(outcomes[l], "empty", {"reset"})
    BY <2>2, ResetTold
  <2>. HIDE DEF r
  <2>4. Due(r, bench[l]) = 0
    BY <2>3 DEF Due
  <2>5. /\ \A m \in Lanes \ {l} : /\ outcomes'[m] = outcomes[m] /\ bench'[m] = bench[m]
                                 /\ timeouts'[m] = timeouts[m]
        /\ outcomes'[l] = r /\ bench'[l] = 0 /\ timeouts'[l] = 0
    BY <2>1 DEF Benched, Noted
  <2>6. Told'
    BY <2>1, <2>2, <2>3, <2>5 DEF Told
  <2>7. \A m \in Lanes : Followed(m)
    BY <2>3, <2>4, <2>5 DEF Followed
  <2>. QED  BY <2>6, <2>7
<1>2. CASE Tick
  <2>1. UNCHANGED <<outcomes, timeouts, empties>> /\ \A l \in Lanes : bench'[l] = Down(bench[l])
    BY <1>2 DEF Tick
  <2>2. Down(0) = 0
    BY DEF Down
  <2>. QED  BY <2>1, <2>2 DEF Told, Followed
<1>3. CASE UNCHANGED <<outcomes, healthVars>>
  BY <1>3 DEF healthVars, Told, Followed
<1>. QED
  BY AnswerTold, <1>1, <1>2, <1>3
     DEF Next, HostStep, CallStep, Ask, Select, RootsKnown, CallSelected, Paced, FailTransiently, Retry,
         Cancel, Midnight, vars, ghostVars

\* In whatever order the runs of a lane end, and whatever is reset between them, the counters in
\* its row bench it as its outcomes say: BenchFollowsOutcomes (telemetry._update_lane_state).
THEOREM BenchesFollow == Spec => BenchFollowsOutcomes
<1>1. Init => Benched /\ Noted /\ Told
  <2>1. Init => Benched /\ Noted
    BY LaneDispatchAssumption DEF Init, Benched, Noted
  <2>2. /\ Streak(<<>>, "timeout", {}) = 0 /\ Streak(<<>>, "empty", {"reset"}) = 0
        /\ Agreed(<<>>)
    BY NoStreak, AgreedAtFirst
  <2>3. Init => Told
    BY <2>2 DEF Init, Told
  <2>. QED  BY <2>1, <2>3
<1>2. Typed /\ Benched /\ Noted /\ Told /\ [Next]_vars => Typed' /\ Benched' /\ Noted' /\ Told'
  BY StepKinds, BenchedStep, NotedStep, ToldStep
<1>3. Typed /\ Benched /\ Noted /\ Told /\ [Next]_vars =>
        [\A l \in Lanes :
            IF outcomes'[l] # outcomes[l]
               THEN bench'[l] = Due(outcomes'[l], bench[l])
               ELSE bench'[l] \in {bench[l], Down(bench[l])}]_vars
  BY ToldStep DEF Followed
<1>. QED  BY InitTyped, <1>1, <1>2, <1>3, PTL DEF Spec, BenchFollowsOutcomes
=============================================================================
