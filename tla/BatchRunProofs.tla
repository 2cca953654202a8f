--------------------------- MODULE BatchRunProofs ---------------------------
(***************************************************************************)
(* What BatchRun keeps for any number of tasks and invocations, any caps   *)
(* and any width of the semaphore.                                         *)
(***************************************************************************)
EXTENDS BatchRun, FiniteSetTheorems, WellFoundedInduction, TLAPS

\* The types the arguments need.
Typed ==
    /\ state \in [Runs -> {"new", "started", "over"}]
    /\ cached \in [Runs -> SUBSET Keys]
    /\ maxCalls \in [Runs -> Nat]
    /\ calls \in [Runs -> Nat]
    /\ free \in [Runs -> Int]
    /\ pc \in [Runs -> [Tasks -> {"ready", "waiting", "calling", "done"}]]
    /\ attempts \in [Runs -> [Tasks -> Nat]]
    /\ reported \in [Runs -> SUBSET Tasks]
    /\ journal \in [Keys -> {"none", "failed", "done"}]
    /\ overlap \in BOOLEAN
    /\ finished \in SUBSET Tasks
    /\ refused \in SUBSET Keys

LEMMA InitTyped == Init => Typed
<1>. SUFFICES ASSUME Init
              PROVE  Typed
  OBVIOUS
<1>1. state \in [Runs -> {"new", "started", "over"}]
  BY DEF Init
<1>2. /\ cached \in [Runs -> SUBSET Keys] /\ maxCalls \in [Runs -> Nat]
      /\ calls \in [Runs -> Nat] /\ free \in [Runs -> Int]
  BY BatchRunAssumption DEF Init
<1>3. pc \in [Runs -> [Tasks -> {"ready", "waiting", "calling", "done"}]]
  BY DEF Init
<1>4. attempts \in [Runs -> [Tasks -> Nat]]
  BY DEF Init
<1>5. /\ reported \in [Runs -> SUBSET Tasks]
      /\ journal \in [Keys -> {"none", "failed", "done"}]
      /\ overlap \in BOOLEAN /\ finished \in SUBSET Tasks /\ refused \in SUBSET Keys
  BY DEF Init
<1>. QED  BY <1>1, <1>2, <1>3, <1>4, <1>5 DEF Typed

\* What an invocation that ended or died is back to.
Blank(i) ==
    /\ cached'[i] = {} /\ maxCalls'[i] = 0 /\ calls'[i] = 0
    /\ free'[i] = MaxConcurrency
    /\ pc'[i] = [t \in Tasks |-> "ready"]
    /\ attempts'[i] = [t \in Tasks |-> 0]
    /\ reported'[i] = {}

Same(i) ==
    /\ state'[i] = state[i] /\ cached'[i] = cached[i]
    /\ maxCalls'[i] = maxCalls[i] /\ calls'[i] = calls[i] /\ free'[i] = free[i]
    /\ pc'[i] = pc[i] /\ attempts'[i] = attempts[i] /\ reported'[i] = reported[i]

LEMMA LeaveTyped ==
    ASSUME Typed, NEW S, Leave(S), state' \in [Runs -> {"new", "started", "over"}],
           \A i \in Runs \ S : state'[i] = state[i]
    PROVE  Typed' /\ \A i \in Runs : IF i \in S THEN Blank(i) ELSE Same(i)
<1>1. /\ cached' \in [Runs -> SUBSET Keys]
      /\ maxCalls' \in [Runs -> Nat] /\ calls' \in [Runs -> Nat]
      /\ free' \in [Runs -> Int]
  BY BatchRunAssumption DEF Leave, Typed
<1>2. pc' \in [Runs -> [Tasks -> {"ready", "waiting", "calling", "done"}]]
  BY DEF Leave, Typed
<1>3. attempts' \in [Runs -> [Tasks -> Nat]]
  BY DEF Leave, Typed
<1>4. reported' \in [Runs -> SUBSET Tasks]
  BY DEF Leave, Typed
<1>5. Typed'
  BY <1>1, <1>2, <1>3, <1>4 DEF Leave, Typed, ghostVars
<1>6. ASSUME NEW i \in Runs, i \in S
      PROVE  Blank(i)
  BY <1>6 DEF Leave, Blank
<1>7. ASSUME NEW i \in Runs, i \notin S
      PROVE  Same(i)
  BY <1>7 DEF Leave, Same
<1>. QED  BY <1>5, <1>6, <1>7

\* Whose invocations leave: one that is collected or cancelled, all that a restart finds.
LEMMA Leaving ==
    ASSUME Typed, (\E i \in Runs : Collect(i) \/ Cancel(i)) \/ Restart
    PROVE  /\ Typed'
           /\ UNCHANGED <<journal, overlap, finished, refused>>
           /\ \A i \in Runs : Same(i) \/ (Blank(i) /\ state'[i] \in {"over"})
<1>0. UNCHANGED <<journal, overlap, finished, refused>>
  BY DEF Collect, Cancel, Restart, Leave, ghostVars
<1>1. ASSUME NEW i \in Runs, Collect(i) \/ Cancel(i)
      PROVE  /\ Typed'
             /\ \A j \in Runs : Same(j) \/ (Blank(j) /\ state'[j] \in {"over"})
  <2>1. /\ Leave({i})
        /\ state' \in [Runs -> {"new", "started", "over"}]
        /\ \A j \in Runs \ {i} : state'[j] = state[j]
        /\ state'[i] \in {"over"}
    BY <1>1 DEF Collect, Cancel, Typed
  <2>2. Typed' /\ \A j \in Runs : IF j \in {i} THEN Blank(j) ELSE Same(j)
    BY <2>1, LeaveTyped
  <2>3. ASSUME NEW j \in Runs
        PROVE  Same(j) \/ (Blank(j) /\ state'[j] \in {"over"})
    BY <2>1, <2>2
  <2>. QED  BY <2>2, <2>3
<1>2. CASE Restart
  <2>. DEFINE S == {i \in Runs : state[i] = "started"}
  <2>1. /\ Leave(S)
        /\ state' \in [Runs -> {"new", "started", "over"}]
        /\ \A j \in Runs \ S : state'[j] = state[j]
        /\ \A j \in S : state'[j] = "over"
    BY <1>2 DEF Restart, Typed
  <2>2. Typed' /\ \A j \in Runs : IF j \in S THEN Blank(j) ELSE Same(j)
    BY <2>1, LeaveTyped
  <2>3. ASSUME NEW j \in Runs
        PROVE  Same(j) \/ (Blank(j) /\ state'[j] \in {"over"})
    BY <2>1, <2>2
  <2>. QED  BY <1>0, <2>2, <2>3
<1>. QED  BY <1>0, <1>1, <1>2

LEMMA NextTyped ==
    ASSUME Typed, [Next]_vars
    PROVE  Typed'
<1>. USE BatchRunAssumption DEF Typed
<1>1. ASSUME NEW i \in Runs, NEW max \in Budgets, Begin(i, max)
      PROVE  Typed'
  <2>1. max[1] \in Nat
    OBVIOUS
  <2>2. cached' \in [Runs -> SUBSET Keys] /\ refused' \in SUBSET Keys
    <3>. DEFINE done == {k \in Keys : journal[k] = "done"}
    <3>1. \/ cached' = [cached EXCEPT ![i] = done] /\ refused' = refused
          \/ cached' = [cached EXCEPT ![i] = {}] /\ refused' = refused \cup done
      BY <1>1 DEF Begin, BatchGet
    <3>2. done \in SUBSET Keys
      OBVIOUS
    <3>. HIDE DEF done
    <3>. QED  BY <3>1, <3>2
  <2>. QED  BY <1>1, <2>1, <2>2 DEF Begin, taskVars
<1>2. ASSUME NEW i \in Runs, NEW t \in Tasks, TaskStep(i, t)
      PROVE  Typed'
  <2>1. KeyOf[t] \in Keys
    OBVIOUS
  <2>2. CASE Replay(i, t)
    BY <2>2 DEF Replay, Finish, ledgerVars, ghostVars
  <2>3. CASE NoLane(i, t)
    BY <2>1, <2>3 DEF NoLane, Finish, ledgerVars, BatchPut
  <2>4. CASE Skip(i, t)
    BY <2>4 DEF Skip, Finish, ledgerVars, ghostVars
  <2>5. CASE Reserve(i, t)
    <3>1. calls' \in [Runs -> Nat]
      <4>1. CASE calls' = [calls EXCEPT ![i] = @ + 1]
        BY <4>1
      <4>2. CASE calls' = calls
        BY <4>2
      <4>. QED  BY <2>5, <4>1, <4>2 DEF Reserve
    <3>2. free' \in [Runs -> Int]
      <4>1. CASE free' = [free EXCEPT ![i] = @ - 1]
        BY <4>1
      <4>2. CASE free' = free
        BY <4>2
      <4>. QED  BY <2>5, <4>1, <4>2 DEF Reserve
    <3>3. pc' \in [Runs -> [Tasks -> {"ready", "waiting", "calling", "done"}]]
      <4>1. CASE pc' = [pc EXCEPT ![i][t] = "waiting"]
        BY <4>1
      <4>2. CASE pc' = [pc EXCEPT ![i][t] = "calling"]
        BY <4>2
      <4>. QED  BY <2>5, <4>1, <4>2 DEF Reserve
    <3>. QED  BY <2>5, <3>1, <3>2, <3>3 DEF Reserve, ghostVars
  <2>6. CASE GetSlot(i, t)
    <3>1. /\ free' \in [Runs -> Int]
          /\ pc' \in [Runs -> [Tasks -> {"ready", "waiting", "calling", "done"}]]
      BY <2>6 DEF GetSlot
    <3>. QED  BY <2>6, <3>1 DEF GetSlot, ledgerVars, ghostVars
  <2>9. CASE Spawn(i, t)
    <3>1. attempts' \in [Runs -> [Tasks -> Nat]]
      BY <2>9 DEF Spawn
    <3>. QED  BY <2>9, <3>1 DEF Spawn, ledgerVars, ghostVars
  <2>7. CASE Raises(i, t)
    BY <2>7 DEF Raises, FreeSlot, Finish, ledgerVars, ghostVars
  <2>8. ASSUME NEW ok \in BOOLEAN, Answer(i, t, ok)
        PROVE  Typed'
    <3>1. journal' \in [Keys -> {"none", "failed", "done"}] /\ refused' \in SUBSET Keys
      BY <2>1, <2>8 DEF Answer, BatchPut
    <3>2. finished' \in SUBSET Tasks
      BY <2>8 DEF Answer
    <3>. QED  BY <2>8, <3>1, <3>2 DEF Answer, FreeSlot, Finish, ledgerVars
  <2>. QED  BY <1>2, <2>2, <2>3, <2>4, <2>5, <2>6, <2>7, <2>8, <2>9 DEF TaskStep
<1>3. CASE (\E i \in Runs : Collect(i) \/ Cancel(i)) \/ Restart
  BY <1>3, Leaving
<1>4. CASE UNCHANGED vars
  BY <1>4 DEF vars, ledgerVars, taskVars, ghostVars
<1>. QED  BY <1>1, <1>2, <1>3, <1>4 DEF Next, RunStep

-----------------------------------------------------------------------------
(* Counting the tasks of an invocation. *)

LEMMA TasksFinite == IsFiniteSet(Tasks) /\ Cardinality({}) = 0
BY BatchRunAssumption, FS_Interval, FS_EmptySet DEF Tasks

LEMMA TasksCounted ==
    ASSUME NEW S, S \subseteq Tasks
    PROVE  /\ Cardinality(S) \in Nat
           /\ \A T : T \subseteq S => Cardinality(T) <= Cardinality(S)
           /\ \A t \in Tasks \ S : Cardinality(S \cup {t}) = Cardinality(S) + 1
           /\ \A t \in S : Cardinality(S \ {t}) = Cardinality(S) - 1
<1>1. IsFiniteSet(S)
  BY TasksFinite, FS_Subset
<1>. QED
  BY <1>1, FS_CardinalityType, FS_Subset, FS_AddElement, FS_RemoveElement

-----------------------------------------------------------------------------
(* The budget: a task is called only on a reservation of its own. *)

Reserved(i) == {t \in Tasks : pc[i][t] \in {"waiting", "calling"} \/ attempts[i][t] > 0}

BudgetInv ==
    \A i \in Runs :
        /\ state[i] # "started" => calls[i] = 0 /\ Reserved(i) = {}
        /\ maxCalls[i] > 0 => Cardinality(Reserved(i)) <= calls[i] /\ calls[i] <= maxCalls[i]

\* What a step may do to the reservations of one invocation.
Holds(i) ==
    /\ Reserved(i)' \subseteq Reserved(i)
    /\ calls'[i] = calls[i] /\ maxCalls'[i] = maxCalls[i]
    /\ state'[i] = state[i] \/ (state[i] = "new" /\ state'[i] = "started")

Takes(i) ==
    \E t \in Tasks :
        /\ Reserved(i)' \subseteq Reserved(i) \cup {t}
        /\ maxCalls'[i] = maxCalls[i]
        /\ maxCalls[i] > 0 => calls[i] < maxCalls[i] /\ calls'[i] = calls[i] + 1
        /\ state[i] = "started" /\ state'[i] = "started"

Starts(i) ==
    /\ state[i] = "new" /\ state'[i] = "started"
    /\ Reserved(i)' = Reserved(i) /\ calls'[i] = calls[i]

Ends(i) == state'[i] # "started" /\ calls'[i] = 0 /\ Reserved(i)' = {} /\ maxCalls'[i] = 0

LEMMA BudgetSteps ==
    ASSUME Typed, [Next]_vars, NEW i \in Runs
    PROVE  Holds(i) \/ Takes(i) \/ Starts(i) \/ Ends(i)
<1>. USE DEF Typed
<1>1. ASSUME NEW j \in Runs, NEW max \in Budgets, Begin(j, max)
      PROVE  Holds(i) \/ Starts(i)
  <2>1. CASE i = j
    BY <1>1, <2>1 DEF Begin, taskVars, Starts, Reserved
  <2>2. CASE i # j
    BY <1>1, <2>2 DEF Begin, taskVars, Holds, Reserved
  <2>. QED  BY <2>1, <2>2
<1>2. ASSUME NEW j \in Runs, NEW t \in Tasks, TaskStep(j, t)
      PROVE  Holds(i) \/ Takes(i)
  <2>1. CASE Replay(j, t) \/ NoLane(j, t) \/ Skip(j, t) \/ Raises(j, t)
             \/ \E ok \in BOOLEAN : Answer(j, t, ok)
    <3>1. /\ pc' = [pc EXCEPT ![j][t] = "done"]
          /\ UNCHANGED <<attempts, calls, maxCalls, state>>
      BY <2>1 DEF Replay, NoLane, Skip, Raises, Answer, Finish, ledgerVars
    <3>2. Reserved(i)' \subseteq Reserved(i)
      BY <3>1 DEF Reserved
    <3>. QED  BY <3>1, <3>2 DEF Holds
  <2>2. CASE GetSlot(j, t) \/ Spawn(j, t)
    <3>1. Reserved(i)' \subseteq Reserved(i)
      <4>1. CASE GetSlot(j, t)
        BY <4>1 DEF GetSlot, Reserved
      <4>2. CASE Spawn(j, t)
        BY <4>2 DEF Spawn, Reserved
      <4>. QED  BY <2>2, <4>1, <4>2
    <3>. QED  BY <2>2, <3>1 DEF GetSlot, Spawn, ledgerVars, Holds
  <2>3. CASE Reserve(j, t) /\ i # j
    <3>1. Reserved(i)' \subseteq Reserved(i)
      BY <2>3 DEF Reserve, Reserved
    <3>. QED  BY <2>3, <3>1 DEF Reserve, Holds
  <2>4. CASE Reserve(j, t) /\ i = j
    <3>1. Reserved(i)' \subseteq Reserved(i) \cup {t}
      BY <2>4 DEF Reserve, Reserved
    <3>2. /\ maxCalls'[i] = maxCalls[i] /\ state[i] = "started" /\ state'[i] = "started"
          /\ maxCalls[i] > 0 => calls[i] < maxCalls[i] /\ calls'[i] = calls[i] + 1
      BY <2>4 DEF Reserve, IsNext, CanReserve
    <3>. QED  BY <3>1, <3>2 DEF Takes
  <2>. QED  BY <1>2, <2>1, <2>2, <2>3, <2>4 DEF TaskStep
<1>3. CASE (\E j \in Runs : Collect(j) \/ Cancel(j)) \/ Restart
  <2>1. Same(i) \/ (Blank(i) /\ state'[i] \in {"over"})
    BY <1>3, Leaving
  <2>2. CASE Same(i)
    BY <2>2 DEF Same, Holds, Reserved
  <2>3. CASE Blank(i) /\ state'[i] \in {"over"}
    BY <2>3 DEF Blank, Ends, Reserved
  <2>. QED  BY <2>1, <2>2, <2>3
<1>4. CASE UNCHANGED vars
  BY <1>4 DEF vars, ledgerVars, taskVars, Holds, Reserved
<1>. QED  BY <1>1, <1>2, <1>3, <1>4 DEF Next, RunStep

LEMMA BudgetStep ==
    ASSUME Typed, BudgetInv, [Next]_vars
    PROVE  BudgetInv'
<1>. SUFFICES ASSUME NEW i \in Runs
              PROVE  /\ state'[i] # "started" => calls'[i] = 0 /\ Reserved(i)' = {}
                     /\ maxCalls'[i] > 0 => /\ Cardinality(Reserved(i)') <= calls'[i]
                                            /\ calls'[i] <= maxCalls'[i]
  BY DEF BudgetInv
<1>1. /\ state[i] # "started" => calls[i] = 0 /\ Reserved(i) = {}
      /\ maxCalls[i] > 0 => Cardinality(Reserved(i)) <= calls[i] /\ calls[i] <= maxCalls[i]
      /\ calls[i] \in Nat /\ maxCalls[i] \in Nat
      /\ calls'[i] \in Nat /\ maxCalls'[i] \in Nat
  BY NextTyped DEF BudgetInv, Typed
<1>2. Reserved(i) \subseteq Tasks /\ Cardinality(Reserved(i)) \in Nat
  BY TasksCounted DEF Reserved
<1>3. CASE Holds(i)
  <2>1. Cardinality(Reserved(i)') <= Cardinality(Reserved(i)) /\ Cardinality(Reserved(i)') \in Nat
    BY <1>2, <1>3, TasksCounted DEF Holds
  <2>. QED  BY <1>1, <1>2, <1>3, <2>1 DEF Holds
<1>4. CASE Takes(i)
  <2>1. PICK t \in Tasks : Reserved(i)' \subseteq Reserved(i) \cup {t}
    BY <1>4 DEF Takes
  <2>2. /\ Reserved(i) \cup {t} \subseteq Tasks
        /\ Cardinality(Reserved(i) \cup {t}) <= Cardinality(Reserved(i)) + 1
        /\ Cardinality(Reserved(i) \cup {t}) \in Nat
    <3>1. Reserved(i) \cup {t} \subseteq Tasks
      BY <1>2
    <3>2. t \in Reserved(i) => Reserved(i) \cup {t} = Reserved(i)
      OBVIOUS
    <3>. QED  BY <1>2, <3>1, <3>2, TasksCounted
  <2>3. Cardinality(Reserved(i)') <= Cardinality(Reserved(i)) + 1 /\ Cardinality(Reserved(i)') \in Nat
    <3>1. Reserved(i)' \subseteq Tasks
      BY <2>1, <2>2
    <3>2. Cardinality(Reserved(i)') \in Nat
      BY <3>1, TasksCounted
    <3>3. Cardinality(Reserved(i)') <= Cardinality(Reserved(i) \cup {t})
      BY <2>1, <2>2, TasksCounted
    <3>. QED  BY <1>2, <2>2, <3>2, <3>3
  <2>. QED  BY <1>1, <1>2, <1>4, <2>3 DEF Takes
<1>5. CASE Starts(i)
  <2>1. Reserved(i)' = {} /\ Cardinality(Reserved(i)') = 0
    BY <1>1, <1>5, TasksFinite DEF Starts
  <2>. QED  BY <1>1, <1>5, <2>1 DEF Starts
<1>6. CASE Ends(i)
  BY <1>6 DEF Ends
<1>. QED  BY BudgetSteps, <1>3, <1>4, <1>5, <1>6

\* For any number of tasks and any width of the semaphore, an invocation calls run_lane for
\* at most max_calls of them: a reservation is made before the wait and lasts for the call.
THEOREM BudgetIsKept == Spec => []CallsWithinBudget
<1>1. Init => BudgetInv
  <2>. SUFFICES ASSUME Init, NEW i \in Runs
                PROVE  calls[i] = 0 /\ Reserved(i) = {} /\ maxCalls[i] = 0
    BY DEF BudgetInv
  <2>. QED  BY DEF Init, Reserved
<1>2. Typed /\ BudgetInv => CallsWithinBudget
  <2>. SUFFICES ASSUME Typed, BudgetInv, NEW i \in Runs, maxCalls[i] > 0
                PROVE  Cardinality(Called(i)) <= maxCalls[i]
    BY DEF CallsWithinBudget
  <2>1. Called(i) \subseteq Reserved(i) /\ Reserved(i) \subseteq Tasks
    BY DEF Called, Reserved
  <2>2. /\ Cardinality(Called(i)) <= Cardinality(Reserved(i))
        /\ Cardinality(Called(i)) \in Nat /\ Cardinality(Reserved(i)) \in Nat
    <3>1. Called(i) \subseteq Tasks
      BY <2>1
    <3>. QED  BY <2>1, <3>1, TasksCounted
  <2>. QED  BY <2>2 DEF BudgetInv, Typed
<1>3. Typed /\ BudgetInv /\ [Next]_vars => Typed' /\ BudgetInv'
  BY NextTyped, BudgetStep
<1>. QED  BY InitTyped, <1>1, <1>2, <1>3, PTL DEF Spec

-----------------------------------------------------------------------------
(* The semaphore: a slot is free or a call holds it. *)

Calling(i) == {t \in Tasks : pc[i][t] = "calling"}

SlotInv == \A i \in Runs : free[i] + Cardinality(Calling(i)) = MaxConcurrency

\* What a step may do to the slots of one invocation.
KeepsSlots(i) == free'[i] = free[i] /\ Calling(i)' = Calling(i)
TakesSlot(i) == \E t \in Tasks \ Calling(i) :
    free'[i] = free[i] - 1 /\ Calling(i)' = Calling(i) \cup {t}
GivesSlot(i) == \E t \in Calling(i) :
    free'[i] = free[i] + 1 /\ Calling(i)' = Calling(i) \ {t}
HasAllSlots(i) == free'[i] = MaxConcurrency /\ Calling(i)' = {}

LEMMA SlotSteps ==
    ASSUME Typed, [Next]_vars, NEW i \in Runs
    PROVE  KeepsSlots(i) \/ TakesSlot(i) \/ GivesSlot(i) \/ HasAllSlots(i)
<1>. USE DEF Typed
<1>1. ASSUME NEW j \in Runs, NEW max \in Budgets, Begin(j, max)
      PROVE  KeepsSlots(i)
  BY <1>1 DEF Begin, taskVars, KeepsSlots, Calling
<1>2. ASSUME NEW j \in Runs, NEW t \in Tasks, TaskStep(j, t)
      PROVE  KeepsSlots(i) \/ TakesSlot(i) \/ GivesSlot(i)
  <2>1. CASE Replay(j, t) \/ NoLane(j, t) \/ Skip(j, t)
    <3>1. /\ pc' = [pc EXCEPT ![j][t] = "done"] /\ pc[j][t] = "ready"
          /\ UNCHANGED free
      BY <2>1 DEF Replay, NoLane, Skip, IsNext, Finish
    <3>. QED  BY <3>1 DEF KeepsSlots, Calling
  <2>2. CASE Spawn(j, t)
    BY <2>2 DEF Spawn, KeepsSlots, Calling
  <2>3. ASSUME pc[j][t] # "calling", free' = [free EXCEPT ![j] = @ - 1],
               pc' = [pc EXCEPT ![j][t] = "calling"]
        PROVE  KeepsSlots(i) \/ TakesSlot(i)
    <3>1. CASE i = j
      <4>1. t \in Tasks \ Calling(i) /\ free'[i] = free[i] - 1
        BY <2>3, <3>1 DEF Calling
      <4>2. Calling(i)' = Calling(i) \cup {t}
        BY <2>3, <3>1 DEF Calling
      <4>. QED  BY <4>1, <4>2 DEF TakesSlot
    <3>2. CASE i # j
      BY <2>3, <3>2 DEF KeepsSlots, Calling
    <3>. QED  BY <3>1, <3>2
  <2>4. CASE GetSlot(j, t)
    <3>1. /\ pc[j][t] # "calling" /\ free' = [free EXCEPT ![j] = @ - 1]
          /\ pc' = [pc EXCEPT ![j][t] = "calling"]
      BY <2>4 DEF GetSlot
    <3>. QED  BY <2>3, <3>1
  <2>5. CASE Reserve(j, t) /\ free[j] > 0
    <3>1. /\ pc[j][t] # "calling" /\ free' = [free EXCEPT ![j] = @ - 1]
          /\ pc' = [pc EXCEPT ![j][t] = "calling"]
      BY <2>5 DEF Reserve, IsNext
    <3>. QED  BY <2>3, <3>1
  <2>6. CASE Reserve(j, t) /\ ~(free[j] > 0)
    <3>1. /\ pc[j][t] # "calling" /\ UNCHANGED free
          /\ pc' = [pc EXCEPT ![j][t] = "waiting"]
      BY <2>6 DEF Reserve, IsNext
    <3>. QED  BY <3>1 DEF KeepsSlots, Calling
  <2>7. CASE Raises(j, t) \/ \E ok \in BOOLEAN : Answer(j, t, ok)
    <3>1. /\ pc[j][t] = "calling" /\ free' = [free EXCEPT ![j] = @ + 1]
          /\ pc' = [pc EXCEPT ![j][t] = "done"]
      BY <2>7 DEF Raises, Answer, Finish, FreeSlot
    <3>2. CASE i = j
      <4>1. t \in Calling(i) /\ free'[i] = free[i] + 1
        BY <3>1, <3>2 DEF Calling
      <4>2. Calling(i)' = Calling(i) \ {t}
        BY <3>1, <3>2 DEF Calling
      <4>. QED  BY <4>1, <4>2 DEF GivesSlot
    <3>3. CASE i # j
      BY <3>1, <3>3 DEF KeepsSlots, Calling
    <3>. QED  BY <3>2, <3>3
  <2>. QED  BY <1>2, <2>1, <2>2, <2>4, <2>5, <2>6, <2>7 DEF TaskStep
<1>3. CASE (\E j \in Runs : Collect(j) \/ Cancel(j)) \/ Restart
  <2>1. Same(i) \/ Blank(i)
    BY <1>3, Leaving
  <2>2. CASE Same(i)
    BY <2>2 DEF Same, KeepsSlots, Calling
  <2>3. CASE Blank(i)
    BY <2>3 DEF Blank, HasAllSlots, Calling
  <2>. QED  BY <2>1, <2>2, <2>3
<1>4. CASE UNCHANGED vars
  BY <1>4 DEF vars, taskVars, KeepsSlots, Calling
<1>. QED  BY <1>1, <1>2, <1>3, <1>4 DEF Next, RunStep

LEMMA SlotAlways == Spec => [](Typed /\ SlotInv)
<1>1. Init => SlotInv
  <2>. SUFFICES ASSUME Init, NEW i \in Runs
                PROVE  free[i] = MaxConcurrency /\ Calling(i) = {}
    BY TasksFinite, BatchRunAssumption DEF SlotInv
  <2>. QED  BY DEF Init, Calling
<1>2. Typed /\ SlotInv /\ [Next]_vars => Typed' /\ SlotInv'
  <2>. SUFFICES ASSUME Typed, SlotInv, [Next]_vars, NEW i \in Runs
                PROVE  free'[i] + Cardinality(Calling(i)') = MaxConcurrency
    BY NextTyped DEF SlotInv
  <2>1. /\ free[i] \in Int /\ Calling(i) \subseteq Tasks /\ Cardinality(Calling(i)) \in Nat
        /\ free[i] + Cardinality(Calling(i)) = MaxConcurrency
        /\ MaxConcurrency \in Nat
    <3>1. Calling(i) \subseteq Tasks
      BY DEF Calling
    <3>. QED  BY <3>1, TasksCounted, BatchRunAssumption DEF Typed, SlotInv
  <2>2. CASE KeepsSlots(i)
    BY <2>1, <2>2 DEF KeepsSlots
  <2>3. CASE TakesSlot(i)
    <3>1. /\ free'[i] = free[i] - 1
          /\ Cardinality(Calling(i)') = Cardinality(Calling(i)) + 1
      BY <2>1, <2>3, TasksCounted DEF TakesSlot
    <3>. QED  BY <2>1, <3>1
  <2>4. CASE GivesSlot(i)
    <3>1. /\ free'[i] = free[i] + 1
          /\ Cardinality(Calling(i)') = Cardinality(Calling(i)) - 1
      BY <2>1, <2>4, TasksCounted DEF GivesSlot
    <3>. QED  BY <2>1, <3>1
  <2>5. CASE HasAllSlots(i)
    BY <2>1, <2>5, TasksFinite DEF HasAllSlots
  <2>. QED  BY <2>2, <2>3, <2>4, <2>5, SlotSteps
<1>. QED  BY InitTyped, <1>1, <1>2, PTL DEF Spec

\* Whatever the tasks do, and whoever is cancelled: a task waits only while a slot is free
\* or a call that holds one is still to end.
THEOREM WaitersServed == Spec => []WaitersAreServed
<1>1. Typed /\ SlotInv => WaitersAreServed
  <2>. SUFFICES ASSUME Typed, SlotInv, NEW i \in Runs, ~(free[i] > 0)
                PROVE  \E t \in Tasks : pc[i][t] = "calling"
    BY DEF WaitersAreServed
  <2>1. free[i] \in Int /\ Calling(i) \subseteq Tasks
    BY DEF Typed, Calling
  <2>2. Cardinality(Calling(i)) \in Nat
    BY <2>1, TasksCounted
  <2>3. Cardinality(Calling(i)) # 0
    BY <2>1, <2>2, BatchRunAssumption DEF SlotInv
  <2>4. Calling(i) # {}
    BY <2>3, TasksFinite
  <2>. QED  BY <2>4 DEF Calling
<1>. QED  BY SlotAlways, <1>1, PTL

-----------------------------------------------------------------------------
(* The types, with the bounds that TypeOK puts on the slots and the spawns. *)

Bounded ==
    /\ maxCredits \in [Runs -> Nat]
    /\ credits \in [Runs -> Nat]
    /\ \A i \in Runs : free[i] >= 0
    /\ \A i \in Runs, t \in Tasks : attempts[i][t] <= Retries + 1

LEMMA BoundedStep ==
    ASSUME Typed, Bounded, [Next]_vars
    PROVE  Bounded'
<1>. USE BatchRunAssumption DEF Typed, Bounded
<1>1. ASSUME NEW i \in Runs, NEW max \in Budgets, Begin(i, max)
      PROVE  Bounded'
  <2>1. max[2] \in Nat
    OBVIOUS
  <2>. QED  BY <1>1, <2>1 DEF Begin, taskVars
<1>2. ASSUME NEW i \in Runs, NEW t \in Tasks, TaskStep(i, t)
      PROVE  Bounded'
  <2>1. CASE Replay(i, t) \/ NoLane(i, t) \/ Skip(i, t)
    BY <2>1 DEF Replay, NoLane, Skip, ledgerVars
  <2>4. CASE Raises(i, t) \/ \E ok \in BOOLEAN : Answer(i, t, ok)
    <3>1. free' = [free EXCEPT ![i] = @ + 1] /\ UNCHANGED <<ledgerVars, attempts>>
      BY <2>4 DEF Raises, Answer, FreeSlot
    <3>2. \A j \in Runs : free'[j] >= 0
      BY <3>1
    <3>. QED  BY <3>1, <3>2 DEF ledgerVars
  <2>5. ASSUME free[i] > 0, free' = [free EXCEPT ![i] = @ - 1]
        PROVE  \A j \in Runs : free'[j] >= 0
    BY <2>5
  <2>6. CASE GetSlot(i, t)
    BY <2>5, <2>6 DEF GetSlot, ledgerVars
  <2>2. CASE Reserve(i, t)
    <3>1. credits' \in [Runs -> Nat]
      <4>1. CASE credits' = [credits EXCEPT ![i] = @ + Cost[t]]
        BY <4>1
      <4>2. CASE UNCHANGED credits
        BY <4>2
      <4>. QED  BY <2>2, <4>1, <4>2 DEF Reserve
    <3>2. \A j \in Runs : free'[j] >= 0
      <4>1. CASE free[i] > 0
        BY <2>2, <2>5, <4>1 DEF Reserve
      <4>2. CASE ~(free[i] > 0)
        BY <2>2, <4>2 DEF Reserve
      <4>. QED  BY <4>1, <4>2
    <3>. QED  BY <2>2, <3>1, <3>2 DEF Reserve
  <2>3. CASE Spawn(i, t)
    <3>1. attempts' = [attempts EXCEPT ![i][t] = @ + 1] /\ attempts[i][t] <= Retries
      BY <2>3 DEF Spawn, MaySpawn
    <3>2. \A j \in Runs, u \in Tasks : attempts'[j][u] <= Retries + 1
      BY <3>1
    <3>. QED  BY <2>3, <3>2 DEF Spawn, ledgerVars
  <2>. QED  BY <1>2, <2>1, <2>2, <2>3, <2>4, <2>6 DEF TaskStep
<1>3. CASE (\E i \in Runs : Collect(i) \/ Cancel(i)) \/ Restart
  <2>1. PICK S : Leave(S)
    BY <1>3 DEF Collect, Cancel, Restart
  <2>2. maxCredits' \in [Runs -> Nat] /\ credits' \in [Runs -> Nat]
    BY <2>1 DEF Leave
  <2>3. \A i \in Runs, t \in Tasks : attempts'[i][t] = 0 \/ attempts'[i][t] = attempts[i][t]
    BY <2>1 DEF Leave
  <2>4. \A i \in Runs : free'[i] = MaxConcurrency \/ free'[i] = free[i]
    BY <2>1 DEF Leave
  <2>5. ASSUME NEW i \in Runs, NEW t \in Tasks
        PROVE  attempts'[i][t] <= Retries + 1
    <3>1. attempts[i][t] <= Retries + 1
      BY DEF Bounded
    <3>2. 0 <= Retries + 1
      BY BatchRunAssumption
    <3>3. attempts'[i][t] = 0 \/ attempts'[i][t] = attempts[i][t]
      BY <2>3
    <3>. QED  BY <3>1, <3>2, <3>3
  <2>6. ASSUME NEW i \in Runs
        PROVE  free'[i] >= 0
    <3>1. CASE free'[i] = MaxConcurrency
      BY <3>1
    <3>2. CASE free'[i] = free[i]
      BY <3>2
    <3>. QED  BY <2>4, <3>1, <3>2
  <2>. QED  BY <2>2, <2>5, <2>6
<1>4. CASE UNCHANGED vars
  BY <1>4 DEF vars, ledgerVars, taskVars
<1>. QED  BY <1>1, <1>2, <1>3, <1>4 DEF Next, RunStep

\* An invocation has between none and all of its slots free, whatever raises or is cancelled
\* (that each is free or held is SlotInv), and a task spawns at most Retries + 1 times.
THEOREM Typing == Spec => []TypeOK
<1>1. Init => Bounded
  BY BatchRunAssumption DEF Init, Bounded
<1>2. Typed /\ SlotInv /\ Bounded => TypeOK
  <2>. SUFFICES ASSUME Typed, SlotInv, Bounded
                PROVE  TypeOK
    OBVIOUS
  <2>1. ASSUME NEW i \in Runs
        PROVE  free[i] \in 0..MaxConcurrency
    <3>1. Calling(i) \subseteq Tasks
      BY DEF Calling
    <3>2. Cardinality(Calling(i)) \in Nat
      BY <3>1, TasksCounted
    <3>3. free[i] + Cardinality(Calling(i)) = MaxConcurrency /\ free[i] \in Int
      BY DEF SlotInv, Typed
    <3>. QED  BY <3>2, <3>3, BatchRunAssumption DEF Bounded
  <2>2. free \in [Runs -> 0..MaxConcurrency]
    BY <2>1 DEF Typed
  <2>3. attempts \in [Runs -> [Tasks -> 0..(Retries + 1)]]
    BY BatchRunAssumption DEF Typed, Bounded
  <2>. QED  BY <2>2, <2>3 DEF Typed, Bounded, TypeOK
<1>3. Typed /\ Bounded /\ [Next]_vars => Bounded'
  BY BoundedStep
<1>. QED  BY SlotAlways, <1>1, <1>2, <1>3, PTL DEF Spec

-----------------------------------------------------------------------------
(* Adding up the credits of tasks, one at a time, in whatever order CHOOSE takes them. *)

Credits(S) == MapThenSumSet(LAMBDA t : Cost[t], S)
First(S) == CHOOSE t \in S : TRUE

LEMMA LeastNumber ==
    ASSUME NEW S, S \subseteq Nat, S # {}
    PROVE  \E x \in S : \A y \in S : x <= y
<1>1. PICK x \in S : \A y \in S : <<y, x>> \notin OpToRel(<, Nat)
  BY NatLessThanWellFounded, WFMin
<1>2. \A y \in S : ~(y < x)
  BY <1>1 DEF OpToRel
<1>. QED  BY <1>2

LEMMA WithoutFirst ==
    ASSUME NEW S \in SUBSET Tasks, S # {}
    PROVE  /\ First(S) \in S /\ Cost[First(S)] \in Nat
           /\ S \ {First(S)} \in SUBSET Tasks
           /\ Cardinality(S \ {First(S)}) = Cardinality(S) - 1
<1>1. First(S) \in S
  BY DEF First
<1>2. Cardinality(S \ {First(S)}) = Cardinality(S) - 1
  BY <1>1, TasksCounted
<1>. QED  BY <1>1, <1>2, BatchRunAssumption

\* There is a sum for every set of tasks: else there is a least number of tasks without one.
LEMMA SumsExist ==
    \E F \in [SUBSET Tasks -> Nat] :
        \A S \in SUBSET Tasks : F[S] = IF S = {} THEN 0 ELSE Cost[First(S)] + F[S \ {First(S)}]
<1>. DEFINE Small(n) == {S \in SUBSET Tasks : Cardinality(S) <= n}
            Added(f, S) == IF S = {} THEN 0 ELSE Cost[First(S)] + f[S \ {First(S)}]
            Sums(f, n) == f \in [Small(n) -> Nat] /\ \A S \in Small(n) : f[S] = Added(f, S)
            NoSums == {n \in Nat : ~\E f : Sums(f, n)}
<1>1. NoSums = {}
  <2>. SUFFICES ASSUME NoSums # {}
                PROVE  FALSE
    OBVIOUS
  <2>0. NoSums \subseteq Nat
    OBVIOUS
  <2>1. PICK n \in NoSums : \A m \in NoSums : n <= m
    <3>. HIDE DEF NoSums
    <3>. QED  BY <2>0, LeastNumber
  <2>2. CASE n = 0
    <3>1. \A S \in Small(0) : S = {}
      <4>. SUFFICES ASSUME NEW S \in Small(0), S # {}
                    PROVE  FALSE
        OBVIOUS
      <4>1. Cardinality(S \ {First(S)}) = Cardinality(S) - 1 /\ Cardinality(S) \in Nat
        BY WithoutFirst, TasksCounted
      <4>2. Cardinality(S \ {First(S)}) \in Nat
        BY TasksCounted
      <4>. QED  BY <4>1, <4>2
    <3>2. Sums([S \in Small(0) |-> 0], 0)
      BY <3>1
    <3>. QED  BY <2>1, <2>2, <3>2
  <2>3. CASE n # 0
    <3>1. n \in Nat /\ n - 1 \in Nat /\ n - 1 \notin NoSums
      <4>. HIDE DEF NoSums
      <4>. QED  BY <2>0, <2>1, <2>3
    <3>2. PICK f : Sums(f, n - 1)
      BY <3>1
    <3>. DEFINE g == [S \in Small(n) |-> Added(f, S)]
    <3>3. ASSUME NEW S \in Small(n), S # {}
          PROVE  /\ S \ {First(S)} \in Small(n - 1) /\ S \ {First(S)} \in Small(n)
                 /\ Cost[First(S)] \in Nat
      <4>1. Cardinality(S) \in Nat /\ Cardinality(S) <= n
        BY <3>3, TasksCounted
      <4>. QED  BY <3>1, <3>3, <4>1, WithoutFirst
    <3>4. g \in [Small(n) -> Nat]
      <4>1. ASSUME NEW S \in Small(n)
            PROVE  Added(f, S) \in Nat
        BY <3>2, <3>3
      <4>. HIDE DEF Added, Small
      <4>. QED  BY <4>1
    <3>5. ASSUME NEW S \in Small(n)
          PROVE  g[S] = Added(g, S)
      <4>1. CASE S = {}
        BY <4>1
      <4>2. CASE S # {}
        <5>. DEFINE R == S \ {First(S)}
        <5>1. R \in Small(n - 1) /\ R \in Small(n)
          BY <3>3, <4>2
        <5>2. f[R] = Added(f, R)
          BY <3>2, <5>1
        <5>3. g[R] = Added(f, R)
          <6>. HIDE DEF Added, Small, R
          <6>. QED  BY <5>1
        <5>4. g[S] = Added(f, S)
          <6>. HIDE DEF Added, Small
          <6>. QED  OBVIOUS
        <5>5. Added(f, S) = Cost[First(S)] + f[R] /\ Added(g, S) = Cost[First(S)] + g[R]
          <6>. HIDE DEF g
          <6>. QED  BY <4>2
        <5>. HIDE DEF g, Added, R
        <5>. QED  BY <5>2, <5>3, <5>4, <5>5
      <4>. QED  BY <4>1, <4>2
    <3>6. Sums(g, n)
      <4>. HIDE DEF g, Added, Small
      <4>. QED  BY <3>4, <3>5
    <3>. QED  BY <2>1, <3>6
  <2>. QED  BY <2>2, <2>3
<1>. DEFINE n == Cardinality(Tasks)
<1>2. n \in Nat /\ \A S \in SUBSET Tasks : Cardinality(S) <= n
  BY TasksCounted
<1>3. Small(n) = SUBSET Tasks
  BY <1>2
<1>4. PICK f : Sums(f, n)
  BY <1>1, <1>2
<1>. QED  BY <1>3, <1>4

LEMMA CreditsOfFirst ==
    /\ \A S \in SUBSET Tasks : Credits(S) \in Nat
    /\ Credits({}) = 0
    /\ \A S \in SUBSET Tasks : S # {} => Credits(S) = Cost[First(S)] + Credits(S \ {First(S)})
<1>1. PICK F \in [SUBSET Tasks -> Nat] :
        \A S \in SUBSET Tasks : F[S] = IF S = {} THEN 0 ELSE Cost[First(S)] + F[S \ {First(S)}]
  BY SumsExist
<1>2. ASSUME NEW S \in SUBSET Tasks
      PROVE  Credits(S) = F[S]
  <2>. DEFINE IsSum(f) == f = [s \in SUBSET S |-> IF s = {} THEN 0 ELSE Cost[First(s)] + f[s \ {First(s)}]]
              sum == CHOOSE f : IsSum(f)
  <2>1. IsSum([s \in SUBSET S |-> F[s]])
    <3>1. ASSUME NEW s \in SUBSET S
          PROVE  F[s] = IF s = {} THEN 0 ELSE Cost[First(s)] + [r \in SUBSET S |-> F[r]][s \ {First(s)}]
      BY <1>1
    <3>. QED  BY <3>1
  <2>2. IsSum(sum)
    <3>. HIDE DEF IsSum
    <3>. QED  BY <2>1
  <2>3. Credits(S) = sum[S]
    BY DEF Credits, MapThenSumSet, MapThenFoldSet, First
  <2>. HIDE DEF sum
  <2>. DEFINE Wrong == {k \in Nat : \E s \in SUBSET S : Cardinality(s) = k /\ sum[s] # F[s]}
  <2>4. Wrong = {}
    <3>. SUFFICES ASSUME Wrong # {}
                  PROVE  FALSE
      OBVIOUS
    <3>0. Wrong \subseteq Nat
      OBVIOUS
    <3>1. PICK k \in Wrong : \A m \in Wrong : k <= m
      <4>. HIDE DEF Wrong
      <4>. QED  BY <3>0, LeastNumber
    <3>2. PICK s \in SUBSET S : Cardinality(s) = k /\ sum[s] # F[s]
      BY <3>1
    <3>3. s # {}
      BY <1>1, <2>2, <3>2
    <3>. DEFINE r == s \ {First(s)}
    <3>4. r \in SUBSET S /\ Cardinality(r) = k - 1 /\ Cardinality(r) \in Nat
      BY <3>2, <3>3, WithoutFirst, TasksCounted
    <3>5. sum[r] = F[r]
      BY <3>0, <3>1, <3>4
    <3>6. sum[s] = Cost[First(s)] + sum[r] /\ F[s] = Cost[First(s)] + F[r]
      BY <1>1, <2>2, <3>3
    <3>. QED  BY <3>2, <3>5, <3>6
  <2>5. Cardinality(S) \in Nat
    BY TasksCounted
  <2>. QED  BY <2>3, <2>4, <2>5
<1>. QED  BY <1>1, <1>2

\* The order does not matter: else there is a smallest set where it does.
LEMMA CreditsOfOneMore ==
    ASSUME NEW S \in SUBSET Tasks, NEW t \in Tasks \ S
    PROVE  Credits(S \cup {t}) = Credits(S) + Cost[t]
<1>. DEFINE Wrong == {k \in Nat : \E R \in SUBSET Tasks : \E u \in Tasks \ R :
                          Cardinality(R) = k /\ Credits(R \cup {u}) # Credits(R) + Cost[u]}
<1>1. Wrong = {}
  <2>. SUFFICES ASSUME Wrong # {}
                PROVE  FALSE
    OBVIOUS
  <2>0. Wrong \subseteq Nat
    OBVIOUS
  <2>1. PICK k \in Wrong : \A m \in Wrong : k <= m
    <3>. HIDE DEF Wrong
    <3>. QED  BY <2>0, LeastNumber
  <2>2. PICK R \in SUBSET Tasks, u \in Tasks :
          u \notin R /\ Cardinality(R) = k /\ Credits(R \cup {u}) # Credits(R) + Cost[u]
    BY <2>1
  <2>. DEFINE p == First(R \cup {u})
              Q == R \ {p}
  <2>3. /\ R \cup {u} \in SUBSET Tasks /\ p \in R \cup {u}
        /\ Credits(R \cup {u}) = Cost[p] + Credits((R \cup {u}) \ {p})
    BY CreditsOfFirst, WithoutFirst
  <2>4. p # u
    <3>. SUFFICES ASSUME p = u
                  PROVE  FALSE
      OBVIOUS
    <3>1. (R \cup {u}) \ {p} = R
      BY <2>2
    <3>2. Credits(R) \in Nat /\ Cost[u] \in Nat
      BY CreditsOfFirst, BatchRunAssumption
    <3>3. Credits(R \cup {u}) = Cost[u] + Credits(R)
      BY <2>3, <3>1
    <3>. QED  BY <2>2, <3>2, <3>3
  <2>. HIDE DEF p
  <2>5. /\ p \in R /\ p \in Tasks \ Q /\ u \in Tasks \ Q /\ Q \in SUBSET Tasks
        /\ (R \cup {u}) \ {p} = Q \cup {u} /\ Q \cup {p} = R
    BY <2>2, <2>3, <2>4
  <2>6. Cardinality(Q) = k - 1 /\ Cardinality(Q) \in Nat /\ k - 1 \in Nat /\ k - 1 \notin Wrong
    <3>1. Cardinality(Q) = k - 1 /\ Cardinality(Q) \in Nat
      BY <2>2, <2>5, TasksCounted
    <3>. QED  BY <2>0, <2>1, <3>1
  <2>7. Credits(Q \cup {u}) = Credits(Q) + Cost[u] /\ Credits(Q \cup {p}) = Credits(Q) + Cost[p]
    BY <2>5, <2>6
  <2>8. Credits(Q) \in Nat /\ Cost[u] \in Nat /\ Cost[p] \in Nat
    BY <2>5, CreditsOfFirst, BatchRunAssumption
  <2>. HIDE DEF Q
  <2>. QED  BY <2>2, <2>3, <2>5, <2>7, <2>8
<1>2. Cardinality(S) \in Nat
  BY TasksCounted
<1>. QED  BY <1>1, <1>2

LEMMA CreditsOfFewer ==
    ASSUME NEW S \in SUBSET Tasks, NEW R \in SUBSET S
    PROVE  Credits(R) <= Credits(S)
<1>. DEFINE Wrong == {k \in Nat : \E Q \in SUBSET S : R \subseteq Q /\ Cardinality(Q) = k /\ ~(Credits(R) <= Credits(Q))}
<1>1. Wrong = {}
  <2>. SUFFICES ASSUME Wrong # {}
                PROVE  FALSE
    OBVIOUS
  <2>0. Wrong \subseteq Nat
    OBVIOUS
  <2>1. PICK k \in Wrong : \A m \in Wrong : k <= m
    <3>. HIDE DEF Wrong
    <3>. QED  BY <2>0, LeastNumber
  <2>2. PICK Q \in SUBSET S : R \subseteq Q /\ Cardinality(Q) = k /\ ~(Credits(R) <= Credits(Q))
    BY <2>1
  <2>3. PICK t \in Q : t \notin R
    <3>1. Credits(R) \in Nat
      BY CreditsOfFirst
    <3>. QED  BY <2>2, <3>1
  <2>4. Q \ {t} \in SUBSET Tasks /\ t \in Tasks \ (Q \ {t}) /\ (Q \ {t}) \cup {t} = Q
    BY <2>3
  <2>5. Cardinality(Q \ {t}) = k - 1 /\ k - 1 \in Nat /\ k - 1 \notin Wrong
    <3>1. Cardinality(Q \ {t}) = k - 1 /\ Cardinality(Q \ {t}) \in Nat
      BY <2>2, <2>3, <2>4, TasksCounted
    <3>. QED  BY <2>0, <2>1, <3>1
  <2>6. Credits(R) <= Credits(Q \ {t})
    BY <2>2, <2>3, <2>5
  <2>7. Credits(Q) = Credits(Q \ {t}) + Cost[t]
    BY <2>4, CreditsOfOneMore
  <2>8. Credits(R) \in Nat /\ Credits(Q \ {t}) \in Nat /\ Cost[t] \in Nat
    BY <2>4, CreditsOfFirst, BatchRunAssumption
  <2>. QED  BY <2>2, <2>6, <2>7, <2>8
<1>2. Cardinality(S) \in Nat
  BY TasksCounted
<1>. QED  BY <1>1, <1>2

-----------------------------------------------------------------------------
(* The credits, reserved with the call and for as long. *)

CreditInv ==
    \A i \in Runs :
        /\ state[i] # "started" => credits[i] = 0 /\ Reserved(i) = {}
        /\ maxCredits[i] > 0 => Credits(Reserved(i)) <= credits[i] /\ credits[i] <= maxCredits[i]

HoldsCredits(i) ==
    /\ Reserved(i)' \subseteq Reserved(i)
    /\ credits'[i] = credits[i] /\ maxCredits'[i] = maxCredits[i]
    /\ state'[i] = state[i]

TakesCredits(i) ==
    \E t \in Tasks :
        /\ Reserved(i)' \subseteq Reserved(i) \cup {t}
        /\ maxCredits'[i] = maxCredits[i]
        /\ maxCredits[i] > 0 =>
              credits[i] + Cost[t] <= maxCredits[i] /\ credits'[i] = credits[i] + Cost[t]
        /\ state'[i] = "started"

StartsCredits(i) ==
    /\ state[i] = "new"
    /\ Reserved(i)' = Reserved(i) /\ credits'[i] = credits[i]

EndsCredits(i) ==
    state'[i] # "started" /\ Reserved(i)' = {} /\ credits'[i] = 0 /\ maxCredits'[i] = 0

LEMMA CreditSteps ==
    ASSUME Typed, Bounded, [Next]_vars, NEW i \in Runs
    PROVE  HoldsCredits(i) \/ TakesCredits(i) \/ StartsCredits(i) \/ EndsCredits(i)
<1>. USE DEF Typed, Bounded
<1>1. ASSUME NEW j \in Runs, NEW max \in Budgets, Begin(j, max)
      PROVE  HoldsCredits(i) \/ StartsCredits(i)
  <2>1. CASE i = j
    BY <1>1, <2>1 DEF Begin, taskVars, StartsCredits, Reserved
  <2>2. CASE i # j
    BY <1>1, <2>2 DEF Begin, taskVars, HoldsCredits, Reserved
  <2>. QED  BY <2>1, <2>2
<1>2. ASSUME NEW j \in Runs, NEW t \in Tasks, TaskStep(j, t)
      PROVE  HoldsCredits(i) \/ TakesCredits(i)
  <2>1. CASE Replay(j, t) \/ NoLane(j, t) \/ Skip(j, t) \/ Raises(j, t)
             \/ \E ok \in BOOLEAN : Answer(j, t, ok)
    <3>1. /\ pc' = [pc EXCEPT ![j][t] = "done"]
          /\ UNCHANGED <<attempts, credits, maxCredits, state>>
      BY <2>1 DEF Replay, NoLane, Skip, Raises, Answer, Finish, ledgerVars
    <3>2. Reserved(i)' \subseteq Reserved(i)
      BY <3>1 DEF Reserved
    <3>. QED  BY <3>1, <3>2 DEF HoldsCredits
  <2>2. CASE GetSlot(j, t) \/ Spawn(j, t)
    <3>1. Reserved(i)' \subseteq Reserved(i)
      <4>1. CASE GetSlot(j, t)
        BY <4>1 DEF GetSlot, Reserved
      <4>2. CASE Spawn(j, t)
        BY <4>2 DEF Spawn, Reserved
      <4>. QED  BY <2>2, <4>1, <4>2
    <3>. QED  BY <2>2, <3>1 DEF GetSlot, Spawn, ledgerVars, HoldsCredits
  <2>3. CASE Reserve(j, t) /\ i # j
    <3>1. Reserved(i)' \subseteq Reserved(i)
      BY <2>3 DEF Reserve, Reserved
    <3>. QED  BY <2>3, <3>1 DEF Reserve, HoldsCredits
  <2>4. CASE Reserve(j, t) /\ i = j
    <3>1. Reserved(i)' \subseteq Reserved(i) \cup {t}
      BY <2>4 DEF Reserve, Reserved
    <3>2. /\ maxCredits'[i] = maxCredits[i] /\ state'[i] = "started"
          /\ maxCredits[i] > 0 => credits[i] + Cost[t] <= maxCredits[i] /\ credits'[i] = credits[i] + Cost[t]
      BY <2>4 DEF Reserve, IsNext, CanReserve
    <3>. QED  BY <3>1, <3>2 DEF TakesCredits
  <2>. QED  BY <1>2, <2>1, <2>2, <2>3, <2>4 DEF TaskStep
<1>3. CASE (\E j \in Runs : Collect(j) \/ Cancel(j)) \/ Restart
  <2>1. PICK S : Leave(S) /\ (i \in S => state'[i] # "started") /\ (i \notin S => state'[i] = state[i])
    <3>1. ASSUME NEW j \in Runs, Collect(j) \/ Cancel(j)
          PROVE  Leave({j}) /\ (i \in {j} => state'[i] # "started") /\ (i \notin {j} => state'[i] = state[i])
      BY <3>1 DEF Collect, Cancel
    <3>2. CASE Restart
      BY <3>2 DEF Restart
    <3>. QED  BY <1>3, <3>1, <3>2
  <2>2. CASE i \notin S
    BY <2>1, <2>2 DEF Leave, HoldsCredits, Reserved
  <2>3. CASE i \in S
    BY <2>1, <2>3 DEF Leave, EndsCredits, Reserved
  <2>. QED  BY <2>2, <2>3
<1>4. CASE UNCHANGED vars
  BY <1>4 DEF vars, ledgerVars, taskVars, HoldsCredits, Reserved
<1>. QED  BY <1>1, <1>2, <1>3, <1>4 DEF Next, RunStep

LEMMA CreditStep ==
    ASSUME Typed, Bounded, CreditInv, [Next]_vars
    PROVE  CreditInv'
<1>. SUFFICES ASSUME NEW i \in Runs
              PROVE  /\ state'[i] # "started" => credits'[i] = 0 /\ Reserved(i)' = {}
                     /\ maxCredits'[i] > 0 => /\ Credits(Reserved(i)') <= credits'[i]
                                              /\ credits'[i] <= maxCredits'[i]
  BY DEF CreditInv, Credits, MapThenSumSet, MapThenFoldSet
<1>1. /\ state[i] # "started" => credits[i] = 0 /\ Reserved(i) = {}
      /\ maxCredits[i] > 0 => Credits(Reserved(i)) <= credits[i] /\ credits[i] <= maxCredits[i]
      /\ credits[i] \in Nat /\ maxCredits[i] \in Nat
      /\ credits'[i] \in Nat /\ maxCredits'[i] \in Nat
  BY BoundedStep DEF CreditInv, Bounded
<1>2. Reserved(i) \in SUBSET Tasks /\ Reserved(i)' \in SUBSET Tasks
  BY DEF Reserved
<1>3. Credits(Reserved(i)) \in Nat /\ Credits(Reserved(i)') \in Nat
  BY <1>2, CreditsOfFirst
<1>4. CASE HoldsCredits(i)
  <2>1. Credits(Reserved(i)') <= Credits(Reserved(i))
    BY <1>2, <1>4, CreditsOfFewer DEF HoldsCredits
  <2>. QED  BY <1>1, <1>3, <1>4, <2>1 DEF HoldsCredits
<1>5. CASE TakesCredits(i)
  <2>1. PICK t \in Tasks :
          /\ Reserved(i)' \subseteq Reserved(i) \cup {t}
          /\ maxCredits'[i] = maxCredits[i]
          /\ maxCredits[i] > 0 =>
                credits[i] + Cost[t] <= maxCredits[i] /\ credits'[i] = credits[i] + Cost[t]
          /\ state'[i] = "started"
    BY <1>5 DEF TakesCredits
  <2>2. /\ Cost[t] \in Nat /\ Credits(Reserved(i) \cup {t}) \in Nat
        /\ Credits(Reserved(i)') <= Credits(Reserved(i) \cup {t})
    <3>1. Reserved(i) \cup {t} \in SUBSET Tasks
      BY <1>2
    <3>. QED  BY <2>1, <3>1, BatchRunAssumption, CreditsOfFirst, CreditsOfFewer
  <2>3. Credits(Reserved(i) \cup {t}) <= Credits(Reserved(i)) + Cost[t]
    <3>1. CASE t \in Reserved(i)
      <4>1. Reserved(i) \cup {t} = Reserved(i)
        BY <3>1
      <4>2. Credits(Reserved(i) \cup {t}) = Credits(Reserved(i))
        BY <4>1
      <4>. QED  BY <1>3, <2>2, <4>2
    <3>2. CASE t \notin Reserved(i)
      <4>1. Credits(Reserved(i) \cup {t}) = Credits(Reserved(i)) + Cost[t]
        BY <1>2, <3>2, CreditsOfOneMore
      <4>. QED  BY <2>2, <4>1
    <3>. QED  BY <3>1, <3>2
  <2>. QED  BY <1>1, <1>3, <2>1, <2>2, <2>3
<1>6. CASE StartsCredits(i)
  <2>1. Reserved(i)' = {}
    BY <1>1, <1>6 DEF StartsCredits
  <2>2. Credits(Reserved(i)') = 0
    BY <2>1, CreditsOfFirst
  <2>. QED  BY <1>1, <1>6, <2>1, <2>2 DEF StartsCredits
<1>7. CASE EndsCredits(i)
  BY <1>7 DEF EndsCredits
<1>. QED  BY CreditSteps, <1>4, <1>5, <1>6, <1>7

\* For any costs of any number of tasks, the tasks an invocation calls run_lane for cost no more
\* than max_credits together: _BudgetLedger.try_reserve decides and spends between two awaits.
THEOREM CreditsAreKept == Spec => []CreditsWithinBudget
<1>1. Init => Bounded /\ CreditInv
  <2>1. Init => Bounded
    BY BatchRunAssumption DEF Init, Bounded
  <2>2. ASSUME Init, NEW i \in Runs
        PROVE  credits[i] = 0 /\ Reserved(i) = {} /\ maxCredits[i] = 0
    BY <2>2 DEF Init, Reserved
  <2>. QED  BY <2>1, <2>2 DEF CreditInv
<1>2. Bounded /\ CreditInv => CreditsWithinBudget
  <2>. SUFFICES ASSUME Bounded, CreditInv, NEW i \in Runs, maxCredits[i] > 0
                PROVE  Credits(Called(i)) <= maxCredits[i]
    BY DEF CreditsWithinBudget, Credits
  <2>1. Reserved(i) \in SUBSET Tasks /\ Called(i) \in SUBSET Reserved(i)
    BY DEF Called, Reserved
  <2>2. /\ Credits(Called(i)) <= Credits(Reserved(i))
        /\ Credits(Called(i)) \in Nat /\ Credits(Reserved(i)) \in Nat
    BY <2>1, CreditsOfFirst, CreditsOfFewer
  <2>3. /\ Credits(Reserved(i)) <= credits[i] /\ credits[i] <= maxCredits[i]
        /\ credits[i] \in Nat /\ maxCredits[i] \in Nat
    BY DEF CreditInv, Bounded
  <2>. QED  BY <2>2, <2>3
<1>3. Typed /\ Bounded /\ CreditInv /\ [Next]_vars => Bounded' /\ CreditInv'
  BY BoundedStep, CreditStep
<1>. QED  BY InitTyped, NextTyped, <1>1, <1>2, <1>3, PTL DEF Spec

-----------------------------------------------------------------------------
(* The journal, when the invocations follow one another. *)

OneAtOnce == \A i, j \in Runs : state[i] = "started" /\ state[j] = "started" => i = j

Journalled(t) ==
    /\ journal[KeyOf[t]] = "done" => t \in finished
    /\ t \in finished => journal[KeyOf[t]] = "done" \/ KeyOf[t] \in refused

\* What an invocation knows of a task. That a task is not called again rests on the second
\* conjunct: what batch_get told when the invocation began is still true when the task starts.
Knows(i, t) ==
    /\ state[i] # "started" => pc[i][t] = "ready"
    /\ state[i] = "started" /\ pc[i][t] = "ready" =>
          /\ KeyOf[t] \in cached[i] => t \in finished
          /\ t \in finished => KeyOf[t] \in cached[i] \/ KeyOf[t] \in refused
    /\ pc[i][t] \in {"waiting", "calling"} => t \notin finished \/ KeyOf[t] \in refused
    /\ t \in reported[i] => t \in finished

KeptInv ==
    ~overlap =>
        /\ OneAtOnce
        /\ \A t \in Tasks : Unique(t) => Journalled(t) /\ \A i \in Runs : Knows(i, t)

LEMMA OneAtOnceStep ==
    ASSUME Typed, OneAtOnce, [Next]_vars, ~overlap'
    PROVE  OneAtOnce'
<1>. USE DEF Typed
<1>1. ASSUME NEW k \in Runs, NEW max \in Budgets, Begin(k, max)
      PROVE  OneAtOnce'
  <2>1. /\ \A j \in Runs : state[j] # "started"
        /\ state' = [state EXCEPT ![k] = "started"]
    BY <1>1 DEF Begin
  <2>. QED  BY <2>1 DEF OneAtOnce
<1>2. ASSUME NEW k \in Runs, NEW t \in Tasks, TaskStep(k, t)
      PROVE  OneAtOnce'
  <2>1. UNCHANGED state
    BY <1>2 DEF TaskStep, Replay, NoLane, Skip, Reserve, GetSlot, Spawn, Raises, Answer
  <2>. QED  BY <2>1 DEF OneAtOnce
<1>3. CASE (\E k \in Runs : Collect(k) \/ Cancel(k)) \/ Restart
  <2>1. \A j \in Runs : state'[j] = state[j] \/ state'[j] \in {"over"}
    BY <1>3, Leaving DEF Same
  <2>. QED  BY <2>1 DEF OneAtOnce
<1>4. CASE UNCHANGED vars
  BY <1>4 DEF vars, OneAtOnce
<1>. QED  BY <1>1, <1>2, <1>3, <1>4 DEF Next, RunStep

\* A step of one task leaves alone what is known of another that is alone with its key.
LEMMA OtherTaskStep ==
    ASSUME Typed, NEW t \in Tasks, Unique(t), Journalled(t), NEW i \in Runs, Knows(i, t),
           NEW j \in Runs, NEW u \in Tasks, u # t, TaskStep(j, u)
    PROVE  Journalled(t)' /\ Knows(i, t)'
<1>. USE DEF Typed
<1>1. KeyOf[u] # KeyOf[t] /\ KeyOf[u] \in Keys /\ KeyOf[t] \in Keys
  BY BatchRunAssumption DEF Unique
<1>2. UNCHANGED <<state, cached>>
  BY DEF TaskStep, Replay, NoLane, Skip, Reserve, GetSlot, Spawn, Raises, Answer
<1>3. pc'[i][t] = pc[i][t]
  <2>1. \/ UNCHANGED pc
        \/ \E w \in {"waiting", "calling", "done"} : pc' = [pc EXCEPT ![j][u] = w]
    BY DEF TaskStep, Replay, NoLane, Skip, Reserve, GetSlot, Spawn, Raises, Answer, Finish
  <2>2. ASSUME NEW w \in {"waiting", "calling", "done"}, pc' = [pc EXCEPT ![j][u] = w]
        PROVE  pc'[i][t] = pc[i][t]
    <3>1. CASE i = j
      BY <2>2, <3>1
    <3>2. CASE i # j
      BY <2>2, <3>2
    <3>. QED  BY <3>1, <3>2
  <2>. QED  BY <2>1, <2>2
<1>4. t \in reported'[i] <=> t \in reported[i]
  <2>1. UNCHANGED reported \/ reported' = [reported EXCEPT ![j] = @ \cup {u}]
    BY DEF TaskStep, Replay, NoLane, Skip, Reserve, GetSlot, Spawn, Raises, Answer, Finish
  <2>2. ASSUME reported' = [reported EXCEPT ![j] = @ \cup {u}]
        PROVE  t \in reported'[i] <=> t \in reported[i]
    <3>1. CASE i = j
      BY <2>2, <3>1
    <3>2. CASE i # j
      BY <2>2, <3>2
    <3>. QED  BY <3>1, <3>2
  <2>. QED  BY <2>1, <2>2
<1>5. /\ journal'[KeyOf[t]] = journal[KeyOf[t]]
      /\ KeyOf[t] \in refused' <=> KeyOf[t] \in refused
  <2>1. \/ UNCHANGED <<journal, refused>>
        \/ \E w \in {"failed", "done"} : BatchPut(KeyOf[u], w)
    BY DEF TaskStep, Replay, NoLane, Skip, Reserve, GetSlot, Spawn, Raises, Answer, ghostVars
  <2>. QED  BY <1>1, <2>1 DEF BatchPut
<1>6. t \in finished' <=> t \in finished
  BY DEF TaskStep, Replay, NoLane, Skip, Reserve, GetSlot, Spawn, Raises, Answer, ghostVars
<1>. QED  BY <1>2, <1>3, <1>4, <1>5, <1>6 DEF Journalled, Knows

LEMMA SameTaskStep ==
    ASSUME Typed, OneAtOnce, NEW t \in Tasks, Journalled(t), \A i \in Runs : Knows(i, t),
           NEW j \in Runs, TaskStep(j, t)
    PROVE  Journalled(t)' /\ \A i \in Runs : Knows(i, t)'
<1>. USE DEF Typed
<1>1. KeyOf[t] \in Keys
  BY BatchRunAssumption
<1>2. UNCHANGED <<state, cached>> /\ state[j] = "started"
  BY DEF TaskStep, Replay, NoLane, Skip, Reserve, GetSlot, Spawn, Raises, Answer, IsNext
<1>3. \A i \in Runs : i # j => state[i] # "started"
  BY <1>2 DEF OneAtOnce
<1>4. CASE Replay(j, t)
  <2>1. /\ t \in finished /\ UNCHANGED <<journal, finished, refused>>
        /\ pc' = [pc EXCEPT ![j][t] = "done"]
        /\ reported' = [reported EXCEPT ![j] = @ \cup {t}]
    BY <1>4 DEF Replay, IsNext, Hit, Finish, ghostVars, Knows
  <2>. QED  BY <1>2, <2>1 DEF Journalled, Knows
<1>5. CASE NoLane(j, t)
  <2>1. /\ t \notin finished \/ KeyOf[t] \in refused
        /\ UNCHANGED <<finished, reported, refused>>
        /\ pc' = [pc EXCEPT ![j][t] = "done"]
        /\ journal'[KeyOf[t]] = "failed" \/ UNCHANGED journal
    BY <1>1, <1>5 DEF NoLane, IsNext, Hit, Finish, Knows, BatchPut
  <2>. QED  BY <1>2, <2>1 DEF Journalled, Knows
<1>10. CASE Skip(j, t)
  <2>1. /\ UNCHANGED <<finished, reported, refused, journal>>
        /\ pc' = [pc EXCEPT ![j][t] = "done"]
    BY <1>10 DEF Skip, Finish, ghostVars
  <2>. QED  BY <1>2, <2>1 DEF Journalled, Knows
<1>6. CASE Reserve(j, t) \/ GetSlot(j, t)
  <2>1. /\ t \notin finished \/ KeyOf[t] \in refused
        /\ UNCHANGED <<finished, reported, refused, journal>>
        /\ \E w \in {"waiting", "calling"} : pc' = [pc EXCEPT ![j][t] = w]
    BY <1>6 DEF Reserve, GetSlot, IsNext, Hit, ghostVars, Knows
  <2>. QED  BY <1>2, <2>1 DEF Journalled, Knows
<1>7. CASE Spawn(j, t)
  BY <1>2, <1>7 DEF Spawn, ghostVars, Journalled, Knows
<1>8. CASE Raises(j, t)
  <2>1. /\ UNCHANGED <<finished, reported, refused, journal>>
        /\ pc' = [pc EXCEPT ![j][t] = "done"]
    BY <1>8 DEF Raises, Finish, ghostVars
  <2>. QED  BY <1>2, <2>1 DEF Journalled, Knows
<1>9. ASSUME NEW ok \in BOOLEAN, Answer(j, t, ok)
      PROVE  Journalled(t)' /\ \A i \in Runs : Knows(i, t)'
  <2>1. /\ t \notin finished \/ KeyOf[t] \in refused
        /\ pc' = [pc EXCEPT ![j][t] = "done"]
    BY <1>9 DEF Answer, Finish, Knows
  <2>2. CASE ok
    <3>1. /\ finished' = finished \cup {t}
          /\ reported' = [reported EXCEPT ![j] = @ \cup {t}]
          /\ \/ journal'[KeyOf[t]] = "done" /\ UNCHANGED refused
             \/ KeyOf[t] \in refused' /\ UNCHANGED journal
      BY <1>1, <1>9, <2>2 DEF Answer, Finish, BatchPut
    <3>. QED  BY <1>2, <1>3, <2>1, <3>1 DEF Journalled, Knows
  <2>3. CASE ~ok
    <3>1. /\ UNCHANGED <<finished, reported, refused>>
          /\ journal'[KeyOf[t]] = "failed" \/ UNCHANGED journal
      BY <1>1, <1>9, <2>3 DEF Answer, Finish, BatchPut
    <3>. QED  BY <1>2, <2>1, <3>1 DEF Journalled, Knows
  <2>. QED  BY <2>2, <2>3
<1>. QED  BY <1>4, <1>5, <1>6, <1>7, <1>8, <1>9, <1>10 DEF TaskStep

LEMMA OverlapStays ==
    ASSUME [Next]_vars, overlap
    PROVE  overlap'
<1>1. ASSUME NEW j \in Runs, NEW max \in Budgets, Begin(j, max)
      PROVE  overlap'
  BY <1>1 DEF Begin
<1>2. ASSUME NEW j \in Runs, NEW t \in Tasks, TaskStep(j, t)
      PROVE  overlap'
  <2>1. UNCHANGED overlap
    BY <1>2 DEF TaskStep, Replay, NoLane, Skip, Reserve, GetSlot, Spawn, Raises, Answer, ghostVars
  <2>. QED  BY <2>1
<1>3. CASE (\E j \in Runs : Collect(j) \/ Cancel(j)) \/ Restart
  <2>1. UNCHANGED overlap
    BY <1>3 DEF Collect, Cancel, Restart, Leave, ghostVars
  <2>. QED  BY <2>1
<1>4. CASE UNCHANGED vars
  BY <1>4 DEF vars, ghostVars
<1>. QED  BY <1>1, <1>2, <1>3, <1>4 DEF Next, RunStep

LEMMA TaskKept ==
    ASSUME Typed, KeptInv, [Next]_vars, ~overlap', NEW t \in Tasks, Unique(t)
    PROVE  Journalled(t)' /\ \A i \in Runs : Knows(i, t)'
<1>1. ~overlap /\ OneAtOnce /\ Journalled(t) /\ \A i \in Runs : Knows(i, t)
  BY OverlapStays DEF KeptInv
<1>2. ASSUME NEW k \in Runs, NEW max \in Budgets, Begin(k, max)
      PROVE  Journalled(t)' /\ \A i \in Runs : Knows(i, t)'
  <2>. DEFINE done == {key \in Keys : journal[key] = "done"}
  <2>1. /\ state' = [state EXCEPT ![k] = "started"]
        /\ \/ cached' = [cached EXCEPT ![k] = done] /\ refused' = refused
           \/ cached' = [cached EXCEPT ![k] = {}] /\ refused' = refused \cup done
        /\ UNCHANGED <<pc, reported, journal, finished>>
    BY <1>2 DEF Begin, taskVars, BatchGet
  <2>2. KeyOf[t] \in Keys /\ refused \subseteq refused'
    BY <2>1, BatchRunAssumption
  <2>3. Journalled(t)'
    BY <1>1, <2>1, <2>2 DEF Journalled
  <2>4. Knows(k, t)'
    BY <1>1, <2>1, <2>2 DEF Typed, Journalled, Knows
  <2>5. ASSUME NEW i \in Runs, i # k
        PROVE  Knows(i, t)'
    <3>1. UNCHANGED <<state[i], cached[i]>>
      BY <2>1, <2>5 DEF Typed
    <3>. QED  BY <1>1, <2>1, <2>2, <3>1 DEF Knows
  <2>. QED  BY <2>3, <2>4, <2>5
<1>3. ASSUME NEW j \in Runs, NEW u \in Tasks, TaskStep(j, u)
      PROVE  Journalled(t)' /\ \A i \in Runs : Knows(i, t)'
  BY <1>1, <1>3, OtherTaskStep, SameTaskStep
<1>4. CASE (\E k \in Runs : Collect(k) \/ Cancel(k)) \/ Restart
  <2>1. /\ UNCHANGED <<journal, overlap, finished, refused>>
        /\ \A i \in Runs : Same(i) \/ (Blank(i) /\ state'[i] \in {"over"})
    BY <1>4, Leaving
  <2>2. ASSUME NEW i \in Runs
        PROVE  Knows(i, t)'
    <3>1. CASE Same(i)
      BY <1>1, <2>1, <3>1 DEF Same, Knows
    <3>2. CASE Blank(i) /\ state'[i] \in {"over"}
      BY <3>2 DEF Blank, Knows
    <3>. QED  BY <2>1, <3>1, <3>2
  <2>. QED  BY <1>1, <2>1, <2>2 DEF Journalled
<1>5. CASE UNCHANGED vars
  BY <1>1, <1>5 DEF vars, taskVars, ghostVars, Journalled, Knows
<1>. QED  BY <1>2, <1>3, <1>4, <1>5 DEF Next, RunStep

LEMMA KeptStep ==
    ASSUME Typed, KeptInv, [Next]_vars
    PROVE  KeptInv'
<1>1. ASSUME ~overlap'
      PROVE  OneAtOnce'
  BY <1>1, OneAtOnceStep, OverlapStays DEF KeptInv
<1>2. ASSUME ~overlap', NEW t \in Tasks, Unique(t)
      PROVE  Journalled(t)' /\ \A i \in Runs : Knows(i, t)'
  BY <1>2, TaskKept
<1>. QED  BY <1>1, <1>2 DEF KeptInv, Unique

LEMMA KeptAlways == Spec => [](Typed /\ KeptInv)
<1>1. Init => KeptInv
  <2>. SUFFICES ASSUME Init, NEW t \in Tasks
                PROVE  OneAtOnce /\ Journalled(t) /\ \A i \in Runs : Knows(i, t)
    BY DEF KeptInv, Init, OneAtOnce
  <2>1. KeyOf[t] \in Keys
    BY BatchRunAssumption
  <2>. QED  BY <2>1 DEF Init, OneAtOnce, Journalled, Knows
<1>2. Typed /\ KeptInv /\ [Next]_vars => Typed' /\ KeptInv'
  BY NextTyped, KeptStep
<1>. QED  BY InitTyped, <1>1, <1>2, PTL DEF Spec

\* Invocations that follow one another, each cancelled, killed or finished anywhere, journal
\* and report as done only what was answered ok, and keep all of it but what sqlite refused
\* to write or to read, if no other task has the key: whatever sqlite refuses, and when.
THEOREM FinishedKept == Spec => []FinishedIsKept
<1>1. Typed /\ KeptInv => FinishedIsKept
  BY DEF KeptInv, FinishedIsKept, Journalled, Knows
<1>. QED  BY KeptAlways, <1>1, PTL

\* They never call run_lane again for such a task, unless sqlite refused its row.
THEOREM NotCalledAgain == Spec => FinishedNotCalledAgain
<1>1. ASSUME Typed, KeptInv, [Next]_vars,
             NEW i \in Runs, NEW t \in Tasks, Unique(t), ~overlap,
             pc[i][t] # "calling", pc'[i][t] = "calling"
      PROVE  t \notin finished \/ KeyOf[t] \in refused
  <2>1. Journalled(t) /\ Knows(i, t)
    BY <1>1 DEF KeptInv
  <2>2. t \notin finished \/ KeyOf[t] \in refused
    <3>1. ASSUME NEW j \in Runs, NEW max \in Budgets, Begin(j, max)
          PROVE  FALSE
      BY <1>1, <3>1 DEF Begin, taskVars
    <3>2. ASSUME NEW j \in Runs, NEW u \in Tasks, TaskStep(j, u)
          PROVE  t \notin finished \/ KeyOf[t] \in refused
      <4>1. ASSUME pc' = [pc EXCEPT ![j][u] = "done"]
            PROVE  FALSE
        BY <1>1, <4>1 DEF Typed
      <4>2. CASE \/ Replay(j, u) \/ NoLane(j, u) \/ Skip(j, u) \/ Raises(j, u)
                 \/ \E ok \in BOOLEAN : Answer(j, u, ok)
        BY <4>1, <4>2 DEF Replay, NoLane, Skip, Raises, Answer, Finish
      <4>3. CASE Spawn(j, u)
        BY <1>1, <4>3 DEF Spawn
      <4>4. CASE Reserve(j, u) \/ GetSlot(j, u)
        <5>1. \E w \in {"waiting", "calling"} : pc' = [pc EXCEPT ![j][u] = w]
          BY <4>4 DEF Reserve, GetSlot
        <5>2. i = j /\ t = u
          BY <1>1, <5>1 DEF Typed
        <5>. QED  BY <2>1, <4>4, <5>2 DEF Reserve, GetSlot, IsNext, Hit, Knows
      <4>. QED  BY <3>2, <4>2, <4>3, <4>4 DEF TaskStep
    <3>3. CASE (\E j \in Runs : Collect(j) \/ Cancel(j)) \/ Restart
      <4>1. Same(i) \/ Blank(i)
        BY <1>1, <3>3, Leaving
      <4>. QED  BY <1>1, <4>1 DEF Same, Blank
    <3>4. CASE UNCHANGED vars
      BY <1>1, <3>4 DEF vars, taskVars
    <3>. QED  BY <1>1, <3>1, <3>2, <3>3, <3>4 DEF Next, RunStep
  <2>. QED  BY <2>2
<1>2. Typed /\ KeptInv /\ [Next]_vars =>
        [\A i \in Runs, t \in Tasks :
            Unique(t) /\ ~overlap /\ pc[i][t] # "calling" /\ pc'[i][t] = "calling"
                => t \notin finished \/ KeyOf[t] \in refused]_vars
  BY <1>1
<1>. QED  BY KeptAlways, <1>2, PTL DEF Spec, FinishedNotCalledAgain

=============================================================================
