-------------------------- MODULE BuildLoopProofs --------------------------
(* Theorems of BuildLoop, for any number of builds, any zones and any bounds. *)
EXTENDS BuildLoop, SequenceTheorems, TLAPS

(***************************************************************************)
(* Types. The bound of consecutiveFails is not inductive by itself: a      *)
(* build that is not over may fail its Definition of Done once more.       *)
(***************************************************************************)

RetriesLeft == \A b \in Builds : pc[b] # "settled" => consecutiveFails[b] < MaxFailRetries

TypeInv == TypeOK /\ RetriesLeft

\* What the two ends of a segment of the loop do to the variables they assign.
LEMMA LoopTopTypes ==
    ASSUME TypeInv, NEW b \in Builds, NEW q \in Seq(Nat),
           NEW s \in {"succeeded", "failed", "cancelled"}, NEW o \in Outcomes,
           LoopTop(b, q) \/ Settle(b, s, o, q)
    PROVE  /\ pc' \in [Builds -> Places]
           /\ status' \in [Builds -> Statuses]
           /\ outcome' \in [Builds -> Outcomes]
           /\ turn' \in [Builds -> 0..MaxTurns]
           /\ steerQ' \in [Builds -> Seq(Nat)]
           /\ turnTask' \in [Builds -> {"none"} \cup ActiveTurn \cup EndedTurn]
           /\ locked' \in [LockKeys -> BOOLEAN]
           /\ applied' \in [Builds -> Seq(Nat)]
           /\ \A c \in Builds \ {b} : pc'[c] = pc[c]
           /\ pc[b] # "settled" => \A c \in Builds : pc'[c] # "settled" => pc[c] # "settled"
<1> USE DEF TypeInv, TypeOK
<1>1. CASE turn[b] < MaxTurns /\ BeginTurn(b, q)
  <2>1. applied[b] \o q \in Seq(Nat)
    BY ConcatProperties
  <2>2. turn' \in [Builds -> 0..MaxTurns]
    BY <1>1, BuildLoopAssumption DEF BeginTurn, Compose
  <2>3. locked' \in [LockKeys -> BOOLEAN]
    BY <1>1 DEF BeginTurn, Compose, LockKeys
  <2> QED
    BY <1>1, <2>1, <2>2, <2>3 DEF BeginTurn, Compose, Places, ActiveTurn
<1>2. ASSUME NEW t \in {"succeeded", "failed", "cancelled"}, NEW p \in Outcomes,
             Settle(b, t, p, q)
      PROVE  /\ pc' \in [Builds -> Places]
             /\ status' \in [Builds -> Statuses]
             /\ outcome' \in [Builds -> Outcomes]
             /\ turn' \in [Builds -> 0..MaxTurns]
             /\ steerQ' \in [Builds -> Seq(Nat)]
             /\ turnTask' \in [Builds -> {"none"} \cup ActiveTurn \cup EndedTurn]
             /\ locked' \in [LockKeys -> BOOLEAN]
             /\ applied' \in [Builds -> Seq(Nat)]
             /\ \A c \in Builds \ {b} : pc'[c] = pc[c]
             /\ pc[b] # "settled" => \A c \in Builds : pc'[c] # "settled" => pc[c] # "settled"
  <2>1. locked' \in [LockKeys -> BOOLEAN]
    <3>1. (locked[LockKey(b)] /\ ~Inside(b)) \in BOOLEAN
      OBVIOUS
    <3> QED
      BY <1>2, <3>1 DEF Settle, Report, ReleaseZone, LockKeys
  <2> QED
    BY <1>2, <2>1 DEF Settle, Report, ReleaseZone, Places, Statuses, ActiveTurn
<1> QED
  BY <1>1, <1>2 DEF LoopTop, Outcomes

LEMMA InitTypes == Init => TypeInv
<1> SUFFICES ASSUME Init PROVE TypeInv
  OBVIOUS
<1>0. /\ 0 \in 0..MaxTurns /\ 0 \in 0..MaxFailRetries /\ 0 \in Nat
      /\ 0 \in 0..MaxInterrupts /\ 0 \in 0..MaxCancels
      /\ 0 < MaxFailRetries
  BY BuildLoopAssumption
<1> USE DEF Init
<1>1. <<>> \in Seq(Nat) /\ <<>> \in Seq(Builds)
  BY EmptySeq
<1>2. /\ pc \in [Builds -> Places]
      /\ status \in [Builds -> Statuses]
      /\ outcome \in [Builds -> Outcomes]
      /\ turnTask \in [Builds -> {"none"} \cup ActiveTurn \cup EndedTurn]
  BY DEF Places, Statuses, Outcomes
<1>3. /\ steerQ \in [Builds -> Seq(Nat)]
      /\ applied \in [Builds -> Seq(Nat)]
      /\ waiters \in [LockKeys -> Seq(Builds)]
  BY <1>1
<1>4. /\ turn \in [Builds -> 0..MaxTurns]
      /\ consecutiveFails \in [Builds -> 0..MaxFailRetries]
      /\ posted \in [Builds -> Nat]
      /\ interrupts \in [Builds -> 0..MaxInterrupts]
      /\ cancels \in [Builds -> 0..MaxCancels]
      /\ RetriesLeft
  BY <1>0 DEF RetriesLeft
<1>5. /\ mustCancel \in [Builds -> BOOLEAN]
      /\ interruptRequested \in [Builds -> BOOLEAN]
      /\ delegate \in [Builds -> {"none", "up", "termed"}]
      /\ orphan \in [Builds -> BOOLEAN]
      /\ work \in [Builds -> BOOLEAN]
      /\ locked \in [LockKeys -> BOOLEAN]
      /\ briefed \in [Builds -> BOOLEAN]
      /\ overran \in [Builds -> BOOLEAN]
  OBVIOUS
<1> HIDE DEF Init
<1> QED
  BY <1>2, <1>3, <1>4, <1>5 DEF TypeInv, TypeOK

\* The steps that end a segment of the loop.
LEMMA LoopStepTypes ==
    ASSUME TypeInv, NEW b \in Builds, LoopStep(b)
    PROVE  TypeInv'
<1> DEFINE LoopTyped ==
      /\ pc' \in [Builds -> Places]
      /\ status' \in [Builds -> Statuses]
      /\ outcome' \in [Builds -> Outcomes]
      /\ turn' \in [Builds -> 0..MaxTurns]
      /\ steerQ' \in [Builds -> Seq(Nat)]
      /\ turnTask' \in [Builds -> {"none"} \cup ActiveTurn \cup EndedTurn]
      /\ locked' \in [LockKeys -> BOOLEAN]
      /\ applied' \in [Builds -> Seq(Nat)]
      /\ \A c \in Builds \ {b} : pc'[c] = pc[c]
      /\ \A c \in Builds : pc'[c] # "settled" => pc[c] # "settled"
<1>1. ASSUME NEW q \in Seq(Nat), NEW s \in {"succeeded", "failed", "cancelled"},
             NEW o \in Outcomes, pc[b] # "settled",
             LoopTop(b, q) \/ Settle(b, s, o, q)
      PROVE  LoopTyped
  BY <1>1, LoopTopTypes
<1>2. /\ steerQ[b] \in Seq(Nat)
      /\ "" \in Outcomes /\ "built" \in Outcomes /\ "done" \in Outcomes
      /\ "dod_failed" \in Outcomes /\ "zone_violation" \in Outcomes
  BY DEF TypeInv, TypeOK, Outcomes
<1>3. CASE RefuseBuild(b)
  <2>1. LoopTyped
    BY <1>1, <1>2, <1>3 DEF RefuseBuild
  <2> QED
    BY <2>1, <1>3 DEF RefuseBuild, TypeInv, TypeOK, RetriesLeft
<1>4. CASE TakeFreeZone(b)
  <2>1. LoopTyped
    BY <1>1, <1>2, <1>4 DEF TakeFreeZone, EnterZone
  <2> QED
    BY <2>1, <1>4 DEF TakeFreeZone, EnterZone, TypeInv, TypeOK, RetriesLeft
<1>5. CASE QueueForZone(b)
  <2>1. waiters' \in [LockKeys -> Seq(Builds)]
    BY <1>5, AppendProperties DEF QueueForZone, TypeInv, TypeOK, LockKeys
  <2>2. pc' \in [Builds -> Places] /\ \A c \in Builds : pc'[c] # "settled" => pc[c] # "settled"
    BY <1>5 DEF QueueForZone, TypeInv, TypeOK, Places
  <2> QED
    BY <2>1, <2>2, <1>5
       DEF QueueForZone, TypeInv, TypeOK, RetriesLeft, loopVars, turnVars, ghostVars
<1>6. CASE GetZone(b)
  <2>1. LoopTyped
    BY <1>1, <1>2, <1>6 DEF GetZone, EnterZone
  <2>2. waiters' \in [LockKeys -> Seq(Builds)]
    BY <1>6, HeadTailProperties DEF GetZone, TypeInv, TypeOK, LockKeys
  <2> QED
    BY <2>1, <2>2, <1>6 DEF GetZone, EnterZone, TypeInv, TypeOK, RetriesLeft
<1>7. CASE CancelledInQueue(b)
  <2>1. LoopTyped
    BY <1>1, <1>2, <1>7 DEF CancelledInQueue
  <2>2. PICK i \in DOMAIN waiters[LockKey(b)] :
          waiters' = [waiters EXCEPT ![LockKey(b)] =
                        SubSeq(@, 1, i - 1) \o SubSeq(@, i + 1, Len(@))]
    BY <1>7 DEF CancelledInQueue
  <2>3. waiters' \in [LockKeys -> Seq(Builds)]
    <3> DEFINE w == waiters[LockKey(b)]
    <3>0. LockKey(b) \in LockKeys /\ waiters \in [LockKeys -> Seq(Builds)]
      BY DEF TypeInv, TypeOK, LockKeys
    <3>1. w \in Seq(Builds) /\ i \in 1..Len(w) /\ Len(w) \in Nat
      <4>1. w \in Seq(Builds)
        BY <3>0
      <4> QED
        BY <2>2, <4>1, LenProperties
    <3>2. \A j \in 1..Len(w) : w[j] \in Builds
      BY <3>1, ElementOfSeq
    <3> HIDE DEF w
    <3>3. SubSeq(w, 1, i - 1) \in Seq(Builds)
      BY <3>1, <3>2, SubSeqProperties
    <3>4. SubSeq(w, i + 1, Len(w)) \in Seq(Builds)
      BY <3>1, <3>2, SubSeqProperties
    <3>5. SubSeq(w, 1, i - 1) \o SubSeq(w, i + 1, Len(w)) \in Seq(Builds)
      BY <3>3, <3>4, ConcatProperties
    <3> QED
      BY <2>2, <3>0, <3>5 DEF w
  <2> QED
    BY <2>1, <2>3, <1>7 DEF CancelledInQueue, TypeInv, TypeOK, RetriesLeft
<1>8. CASE InterruptTaken(b)
  <2>1. LoopTyped
    BY <1>1, <1>2, <1>8 DEF InterruptTaken, SawCancel
  <2> QED
    BY <2>1, <1>8 DEF InterruptTaken, TypeInv, TypeOK, RetriesLeft
<1>9. CASE CancelTaken(b)
  <2>1. LoopTyped
    BY <1>1, <1>2, <1>9 DEF CancelTaken, SawCancel
  <2> QED
    BY <2>1, <1>9 DEF CancelTaken, TypeInv, TypeOK, RetriesLeft
<1>10. CASE TurnFailed(b)
  <2>1. LoopTyped
    BY <1>1, <1>2, <1>10 DEF TurnFailed
  <2> QED
    BY <2>1, <1>10 DEF TurnFailed, TypeInv, TypeOK, RetriesLeft
<1>11. CASE ZoneViolated(b)
  <2>1. LoopTyped
    BY <1>1, <1>2, <1>11 DEF ZoneViolated, SawResult
  <2> QED
    BY <2>1, <1>11 DEF ZoneViolated, RevertZone, TypeInv, TypeOK, RetriesLeft
<1>12. CASE DoDPasses(b)
  <2>1. LoopTyped
    BY <1>1, <1>2, <1>12 DEF DoDPasses, SawResult
  <2> QED
    BY <2>1, <1>12 DEF DoDPasses, TypeInv, TypeOK, RetriesLeft
<1>13. CASE DoDFails(b)
  <2>1. Append(steerQ[b], posted[b] + 1) \in Seq(Nat)
    <3>1. posted[b] + 1 \in Nat
      BY DEF TypeInv, TypeOK
    <3> QED
      BY <1>2, <3>1, AppendProperties
  <2>2. LoopTyped
    BY <1>1, <1>2, <1>13, <2>1 DEF DoDFails, SawResult
  <2>3. /\ consecutiveFails' \in [Builds -> 0..MaxFailRetries]
        /\ RetriesLeft'
        /\ posted' \in [Builds -> Nat]
    <3>1. consecutiveFails[b] < MaxFailRetries
      BY <1>13 DEF DoDFails, SawResult, TypeInv, RetriesLeft
    <3>2. /\ consecutiveFails' \in [Builds -> 0..MaxFailRetries]
          /\ posted' \in [Builds -> Nat]
      <4>1. /\ consecutiveFails \in [Builds -> 0..MaxFailRetries] /\ MaxFailRetries \in Nat
            /\ posted \in [Builds -> Nat]
        BY BuildLoopAssumption DEF TypeInv, TypeOK
      <4>2. consecutiveFails[b] + 1 \in 0..MaxFailRetries
        BY <3>1, <4>1
      <4>3. posted[b] + 1 \in Nat
        BY <4>1
      <4> QED
        BY <1>13, <4>1, <4>2, <4>3 DEF DoDFails
    <3>3. pc'[b] # "settled" => consecutiveFails[b] + 1 < MaxFailRetries
      BY <1>13 DEF DoDFails, Settle, Report, ReleaseZone, TypeInv, TypeOK
    <3> QED
      BY <1>13, <2>2, <3>2, <3>3 DEF DoDFails, TypeInv, TypeOK, RetriesLeft
  <2> QED
    BY <2>2, <2>3, <1>13 DEF DoDFails, TypeInv, TypeOK
<1>14. CASE NoDoDTurnEnds(b)
  <2>1. consecutiveFails' \in [Builds -> 0..MaxFailRetries]
        /\ \A c \in Builds : consecutiveFails'[c] <= consecutiveFails[c]
    BY <1>14, BuildLoopAssumption DEF NoDoDTurnEnds, TypeInv, TypeOK
  <2>2. LoopTyped
    <3>1. CASE steerQ[b] # <<>>
      BY <1>1, <1>2, <1>14, <3>1 DEF NoDoDTurnEnds, SawResult
    <3>2. CASE steerQ[b] = <<>>
      BY <1>14, <3>2 DEF NoDoDTurnEnds, SawResult, TypeInv, TypeOK, Places
    <3> QED
      BY <3>1, <3>2
  <2>3. RetriesLeft'
    <3>1. SUFFICES ASSUME NEW c \in Builds, pc'[c] # "settled"
                   PROVE  consecutiveFails'[c] < MaxFailRetries
      BY DEF RetriesLeft
    <3>2. consecutiveFails[c] < MaxFailRetries
      BY <2>2, <3>1 DEF TypeInv, RetriesLeft
    <3>3. /\ consecutiveFails[c] \in 0..MaxFailRetries /\ consecutiveFails'[c] \in 0..MaxFailRetries
          /\ MaxFailRetries \in Nat
      BY <2>1, BuildLoopAssumption DEF TypeInv, TypeOK
    <3> QED
      BY <2>1, <3>2, <3>3
  <2> QED
    BY <2>1, <2>2, <2>3, <1>14 DEF NoDoDTurnEnds, TypeInv, TypeOK
<1>15. CASE GraceEnds(b)
  <2>1. LoopTyped
    BY <1>1, <1>2, <1>15 DEF GraceEnds
  <2> QED
    BY <2>1, <1>15 DEF GraceEnds, TypeInv, TypeOK, RetriesLeft
<1>16. CASE CancelledInGrace(b)
  <2>1. LoopTyped
    BY <1>1, <1>2, <1>16 DEF CancelledInGrace
  <2> QED
    BY <2>1, <1>16 DEF CancelledInGrace, TypeInv, TypeOK, RetriesLeft
<1> QED
  BY <1>3, <1>4, <1>5, <1>6, <1>7, <1>8, <1>9, <1>10, <1>11, <1>12, <1>13, <1>14, <1>15,
     <1>16 DEF LoopStep

LEMMA TurnStepTypes ==
    ASSUME TypeInv, NEW b \in Builds, TurnStep(b) \/ DelegateObeys(b) \/ Write(b)
    PROVE  TypeInv'
<1> USE DEF TypeInv, TypeOK, RetriesLeft, jobVars, loopVars, lockVars, ghostVars
<1>1. CASE Spawn(b)
  BY <1>1 DEF Spawn
<1>2. CASE TurnReturns(b)
  BY <1>2 DEF TurnReturns, EndedTurn
<1>3. CASE TurnRaises(b)
  BY <1>3 DEF TurnRaises, EndedTurn
<1>4. CASE TimeOut(b)
  BY <1>4 DEF TimeOut, ActiveTurn
<1>5. CASE CancelArrives(b)
  BY <1>5 DEF CancelArrives, ActiveTurn, EndedTurn
<1>6. CASE Terminated(b)
  BY <1>6 DEF Terminated, EndedTurn
<1>7. CASE DelegateObeys(b)
  BY <1>7 DEF DelegateObeys
<1>8. CASE Write(b)
  BY <1>8 DEF Write
<1> QED
  BY <1>1, <1>2, <1>3, <1>4, <1>5, <1>6, <1>7, <1>8 DEF TurnStep

LEMMA HostStepTypes ==
    ASSUME TypeInv, NEW b \in Builds, HostStep(b)
    PROVE  TypeInv'
<1> USE DEF TypeInv, TypeOK, RetriesLeft, jobVars, loopVars, turnVars, lockVars, ghostVars
<1>1. CASE StartJob(b)
  BY <1>1 DEF StartJob, Places, Statuses
<1>2. Signal(turnTask[b]) \in {"none"} \cup ActiveTurn \cup EndedTurn
  BY DEF Signal, ActiveTurn, EndedTurn
<1>3. CASE Interrupt(b)
  <2>1. interrupts' \in [Builds -> 0..MaxInterrupts]
    BY <1>3, BuildLoopAssumption DEF Interrupt
  <2> QED
    BY <1>2, <1>3, <2>1 DEF Interrupt
<1>4. CASE Cancel(b)
  <2>1. cancels' \in [Builds -> 0..MaxCancels]
    BY <1>4, BuildLoopAssumption DEF Cancel
  <2>2. /\ turnTask' \in [Builds -> {"none"} \cup ActiveTurn \cup EndedTurn]
        /\ mustCancel' \in [Builds -> BOOLEAN]
    BY <1>2, <1>4 DEF Cancel
  <2> QED
    BY <1>4, <2>1, <2>2 DEF Cancel
<1>5. ASSUME NEW i \in BOOLEAN, Steer(b, i)
      PROVE  TypeInv'
  <2>1. posted[b] + 1 \in Nat
    OBVIOUS
  <2>2. Append(steerQ[b], posted[b] + 1) \in Seq(Nat)
    BY <2>1, AppendProperties
  <2>3. /\ interrupts' \in [Builds -> 0..MaxInterrupts]
        /\ posted' \in [Builds -> Nat]
    BY <1>5, <2>1, BuildLoopAssumption DEF Steer
  <2>4. /\ steerQ' \in [Builds -> Seq(Nat)]
        /\ interruptRequested' \in [Builds -> BOOLEAN]
        /\ turnTask' \in [Builds -> {"none"} \cup ActiveTurn \cup EndedTurn]
    BY <1>2, <1>5, <2>2 DEF Steer
  <2> QED
    BY <1>5, <2>3, <2>4 DEF Steer
<1> QED
  BY <1>1, <1>3, <1>4, <1>5 DEF HostStep

LEMMA NextTypes == TypeInv /\ [Next]_vars => TypeInv'
<1>1. SUFFICES ASSUME TypeInv, [Next]_vars PROVE TypeInv'
  OBVIOUS
<1>2. CASE UNCHANGED vars
  BY <1>1, <1>2 DEF TypeInv, TypeOK, RetriesLeft, vars, jobVars, loopVars, turnVars,
                    lockVars, ghostVars
<1> QED
  BY <1>1, <1>2, LoopStepTypes, TurnStepTypes, HostStepTypes DEF Next

\* The types, and the retry counter's bound, hold of every build at all times: the
\* counter of consecutive DoD failures never passes max_fail_retries and no build
\* starts more than max_turns turns, whatever the host does meanwhile.
THEOREM Typing == Spec => []TypeOK
<1>1. TypeInv => TypeOK
  BY DEF TypeInv
<1> QED
  BY <1>1, InitTypes, NextTypes, PTL DEF Spec
(***************************************************************************)
(* Control: what the place of a job task says of its status, its turn, its *)
(* delegate, and of the cancel requests and interrupts on their way to it. *)
(* It is one predicate per build, and a step of one build leaves that of   *)
(* the others alone.                                                       *)
(***************************************************************************)

CutTurn == {"signalled", "cut", "cancelling", "cancelled"}

Control(b) ==
    /\ status[b] = "absent" <=> pc[b] = "idle"
    /\ status[b] = "running" <=> pc[b] \notin {"idle", "settled"}
    /\ turnTask[b] # "none" <=> pc[b] = "turn"
    /\ delegate[b] # "none" => turnTask[b] \in ActiveTurn
    \* every cut has a cause that is still on record
    /\ mustCancel[b] => cancels[b] > 0 /\ turnTask[b] \notin ActiveTurn
    /\ interruptRequested[b] => interrupts[b] > 0
    /\ turnTask[b] \in CutTurn => cancels[b] > 0 \/ interruptRequested[b]
    \* a cancel request is on its way until the job ends
    /\ pc[b] \in {"idle", "created"} => cancels[b] = 0
    /\ pc[b] \notin {"idle", "settled"} /\ cancels[b] > 0 /\ interrupts[b] = 0 =>
          mustCancel[b] \/ turnTask[b] \in CutTurn
    /\ status[b] = "cancelled" => cancels[b] > 0
    /\ status[b] \in {"succeeded", "failed"} /\ interrupts[b] = 0 => cancels[b] = 0

ControlInv == \A b \in Builds : Control(b)

BuildStep(b) ==
    LoopStep(b) \/ TurnStep(b) \/ HostStep(b) \/ DelegateObeys(b) \/ Write(b)

\* The part of a build's state that Control and the lock are about.
Same(c) ==
    /\ pc'[c] = pc[c] /\ status'[c] = status[c] /\ mustCancel'[c] = mustCancel[c]
    /\ interruptRequested'[c] = interruptRequested[c]
    /\ turnTask'[c] = turnTask[c] /\ delegate'[c] = delegate[c] /\ orphan'[c] = orphan[c]
    /\ interrupts'[c] = interrupts[c] /\ cancels'[c] = cancels[c] /\ overran'[c] = overran[c]

LEMMA OthersUnchanged ==
    ASSUME TypeInv, NEW b \in Builds, NEW c \in Builds \ {b}, BuildStep(b)
    PROVE  Same(c)
<1> USE DEF TypeInv, TypeOK, Same, jobVars, loopVars, turnVars, lockVars, ghostVars
<1>1. ASSUME NEW q, LoopTop(b, q)
      PROVE  pc'[c] = pc[c] /\ status'[c] = status[c] /\ turnTask'[c] = turnTask[c]
  BY <1>1 DEF LoopTop, BeginTurn, Compose, Settle, Report, ReleaseZone
<1>2. ASSUME NEW q, NEW t, NEW o, Settle(b, t, o, q)
      PROVE  pc'[c] = pc[c] /\ status'[c] = status[c] /\ turnTask'[c] = turnTask[c]
  BY <1>2 DEF Settle, Report, ReleaseZone
<1>3. CASE RefuseBuild(b) \/ TakeFreeZone(b) \/ QueueForZone(b) \/ GetZone(b) \/ CancelledInQueue(b)
  BY <1>1, <1>2, <1>3
     DEF RefuseBuild, TakeFreeZone, QueueForZone, GetZone, EnterZone, CancelledInQueue
<1>4. CASE InterruptTaken(b) \/ CancelTaken(b) \/ TurnFailed(b) \/ ZoneViolated(b) \/ DoDPasses(b)
  BY <1>1, <1>2, <1>4 DEF InterruptTaken, CancelTaken, TurnFailed, ZoneViolated, DoDPasses
<1>5. CASE DoDFails(b) \/ NoDoDTurnEnds(b) \/ GraceEnds(b) \/ CancelledInGrace(b)
  BY <1>1, <1>2, <1>5 DEF DoDFails, NoDoDTurnEnds, GraceEnds, CancelledInGrace
<1>6. CASE TurnStep(b)
  BY <1>6 DEF TurnStep, Spawn, TurnReturns, TurnRaises, TimeOut, CancelArrives, Terminated
<1>7. CASE DelegateObeys(b) \/ Write(b)
  BY <1>7 DEF DelegateObeys, Write
<1>8. CASE HostStep(b)
  BY <1>8 DEF HostStep, StartJob, Interrupt, Cancel, Steer
<1> QED
  BY <1>3, <1>4, <1>5, <1>6, <1>7, <1>8 DEF BuildStep, LoopStep

\* The two ends of a segment of the loop, from a place where no delegate runs and nothing
\* is pending, keep Control.
LEMMA LoopTopControl ==
    ASSUME TypeInv, NEW b \in Builds, Control(b), NEW q,
           pc[b] \notin {"idle", "settled"}, delegate[b] = "none",
           UNCHANGED <<delegate, orphan, interrupts, cancels>>,
           ~mustCancel'[b], interruptRequested'[b] => interruptRequested[b],
           interrupts[b] = 0 => cancels[b] = 0,
           LoopTop(b, q)
    PROVE  Control(b)'
<1> USE DEF TypeInv, TypeOK, Control, CutTurn
<1>1. CASE BeginTurn(b, q)
  BY <1>1 DEF BeginTurn, Compose, ActiveTurn
<1>2. CASE Settle(b, "succeeded", "max_turns", q)
  BY <1>2 DEF Settle, Report, ReleaseZone
<1> QED
  BY <1>1, <1>2 DEF LoopTop

LEMMA SettleControl ==
    ASSUME TypeInv, NEW b \in Builds, Control(b), NEW q, NEW o,
           NEW s \in {"succeeded", "failed", "cancelled"},
           pc[b] \notin {"idle", "settled"}, delegate[b] = "none",
           UNCHANGED <<delegate, orphan, interrupts, cancels>>,
           ~mustCancel'[b], interruptRequested'[b] => interruptRequested[b],
           s = "cancelled" => cancels[b] > 0,
           s # "cancelled" /\ interrupts[b] = 0 => cancels[b] = 0,
           Settle(b, s, o, q)
    PROVE  Control(b)'
BY DEF TypeInv, TypeOK, Control, CutTurn, Settle, Report, ReleaseZone

LEMMA CountersAreNaturals ==
    ASSUME TypeInv, NEW b \in Builds
    PROVE  interrupts[b] \in Nat /\ cancels[b] \in Nat
BY BuildLoopAssumption DEF TypeInv, TypeOK

\* Before the lock no turn exists, and nothing but a cancel can be on its way.
LEMMA BeforeTheLock ==
    ASSUME TypeInv, NEW b \in Builds, Control(b), pc[b] \in {"created", "locking"}
    PROVE  /\ turnTask[b] = "none" /\ delegate[b] = "none"
           /\ ~mustCancel[b] /\ interrupts[b] = 0 => cancels[b] = 0
           /\ pc[b] = "created" => ~mustCancel[b] /\ cancels[b] = 0
<1>1. turnTask[b] = "none" /\ delegate[b] = "none"
  BY DEF Control, TypeInv, TypeOK, ActiveTurn
<1>2. cancels[b] \in Nat
  BY CountersAreNaturals
<1> QED
  BY <1>1, <1>2 DEF Control, CutTurn, TypeInv, TypeOK

LEMMA LoopStepControl ==
    ASSUME TypeInv, NEW b \in Builds, Control(b), LoopStep(b)
    PROVE  Control(b)'
<1>1. CASE RefuseBuild(b)
  <2>1. /\ pc[b] \notin {"idle", "settled"} /\ delegate[b] = "none"
        /\ cancels[b] = 0 /\ ~mustCancel[b] /\ ~mustCancel'[b]
        /\ interruptRequested'[b] => interruptRequested[b]
        /\ UNCHANGED <<delegate, orphan, interrupts, cancels>>
    BY <1>1, BeforeTheLock DEF RefuseBuild
  <2> QED
    BY <1>1, <2>1, SettleControl DEF RefuseBuild
<1>2. ASSUME EnterZone(b), pc[b] \in {"created", "locking"}, ~mustCancel[b]
      PROVE  Control(b)'
  <2>1. /\ delegate[b] = "none" /\ ~mustCancel'[b]
        /\ interrupts[b] = 0 => cancels[b] = 0
        /\ interruptRequested'[b] => interruptRequested[b]
        /\ UNCHANGED <<delegate, orphan, interrupts, cancels>>
    BY <1>2, BeforeTheLock DEF EnterZone
  <2> QED
    BY <1>2, <2>1, SettleControl, LoopTopControl DEF EnterZone
<1>3. CASE TakeFreeZone(b)
  <2>1. ~mustCancel[b]
    BY <1>3, BeforeTheLock DEF TakeFreeZone
  <2> QED
    BY <1>2, <1>3, <2>1 DEF TakeFreeZone
<1>4. CASE QueueForZone(b)
  BY <1>4 DEF QueueForZone, Control, TypeInv, TypeOK, CutTurn, loopVars, turnVars, ghostVars
<1>5. CASE GetZone(b)
  BY <1>2, <1>5 DEF GetZone
<1>6. CASE CancelledInQueue(b) \/ CancelledInGrace(b)
  <2>1. /\ pc[b] \notin {"idle", "settled"} /\ delegate[b] = "none"
        /\ cancels[b] > 0 /\ ~mustCancel'[b]
        /\ interruptRequested'[b] => interruptRequested[b]
        /\ UNCHANGED <<delegate, orphan, interrupts, cancels>>
    BY <1>6 DEF CancelledInQueue, CancelledInGrace, Control, TypeInv, TypeOK, ActiveTurn
  <2> QED
    BY <1>6, <2>1, SettleControl DEF CancelledInQueue, CancelledInGrace
<1>7. CASE InterruptTaken(b)
  <2>1. /\ pc[b] \notin {"idle", "settled"} /\ delegate[b] = "none"
        /\ interrupts[b] # 0 /\ ~mustCancel'[b]
        /\ interruptRequested'[b] => interruptRequested[b]
        /\ UNCHANGED <<delegate, orphan, interrupts, cancels>>
    BY <1>7 DEF InterruptTaken, SawCancel, Control, TypeInv, TypeOK, ActiveTurn
  <2> QED
    BY <1>7, <2>1, LoopTopControl DEF InterruptTaken
<1>8. CASE CancelTaken(b)
  <2>1. /\ pc[b] \notin {"idle", "settled"} /\ delegate[b] = "none"
        /\ cancels[b] > 0 /\ ~mustCancel'[b]
        /\ interruptRequested'[b] => interruptRequested[b]
        /\ UNCHANGED <<delegate, orphan, interrupts, cancels>>
    BY <1>8 DEF CancelTaken, SawCancel, Control, TypeInv, TypeOK, ActiveTurn, CutTurn
  <2> QED
    BY <1>8, <2>1, SettleControl DEF CancelTaken
<1>9. ASSUME pc[b] \in {"turn", "grace"}, turnTask[b] \in {"none", "result", "raised"},
             ~mustCancel[b]
      PROVE  /\ delegate[b] = "none"
             /\ interrupts[b] = 0 => cancels[b] = 0
  BY <1>9 DEF Control, TypeInv, TypeOK, ActiveTurn, CutTurn
<1>10. CASE TurnFailed(b) \/ ZoneViolated(b) \/ DoDPasses(b)
  <2>1. /\ pc[b] = "turn" /\ turnTask[b] \in {"result", "raised"}
        /\ ~mustCancel[b] /\ ~mustCancel'[b]
        /\ interruptRequested'[b] => interruptRequested[b]
        /\ UNCHANGED <<delegate, orphan, interrupts, cancels>>
    BY <1>10 DEF TurnFailed, ZoneViolated, DoDPasses, SawResult
  <2> QED
    BY <1>9, <1>10, <2>1, SettleControl DEF TurnFailed, ZoneViolated, DoDPasses
<1>11. CASE DoDFails(b)
  <2>1. /\ pc[b] = "turn" /\ turnTask[b] = "result" /\ ~mustCancel[b] /\ ~mustCancel'[b]
        /\ interruptRequested'[b] => interruptRequested[b]
        /\ UNCHANGED <<delegate, orphan, interrupts, cancels>>
    BY <1>11 DEF DoDFails, SawResult
  <2> QED
    BY <1>9, <1>11, <2>1, SettleControl, LoopTopControl DEF DoDFails
<1>12. CASE NoDoDTurnEnds(b)
  <2>1. /\ pc[b] = "turn" /\ turnTask[b] = "result" /\ ~mustCancel[b] /\ ~mustCancel'[b]
        /\ interruptRequested'[b] => interruptRequested[b]
        /\ UNCHANGED <<delegate, orphan, interrupts, cancels>>
    BY <1>12 DEF NoDoDTurnEnds, SawResult
  <2>2. CASE steerQ[b] # <<>>
    BY <1>9, <1>12, <2>1, <2>2, LoopTopControl DEF NoDoDTurnEnds
  <2>3. CASE steerQ[b] = <<>>
    BY <1>9, <1>12, <2>1, <2>3 DEF NoDoDTurnEnds, Control, TypeInv, TypeOK, CutTurn, ActiveTurn
  <2> QED
    BY <2>2, <2>3
<1>13. CASE GraceEnds(b)
  <2>1. /\ pc[b] = "grace" /\ ~mustCancel[b] /\ ~mustCancel'[b]
        /\ interruptRequested'[b] => interruptRequested[b]
        /\ UNCHANGED <<delegate, orphan, interrupts, cancels>>
    BY <1>13 DEF GraceEnds
  <2>2. turnTask[b] = "none"
    BY <2>1 DEF Control
  <2> QED
    BY <1>9, <1>13, <2>1, <2>2, SettleControl, LoopTopControl DEF GraceEnds
<1> QED
  BY <1>1, <1>3, <1>4, <1>5, <1>6, <1>7, <1>8, <1>10, <1>11, <1>12, <1>13 DEF LoopStep

LEMMA OtherStepControl ==
    ASSUME TypeInv, NEW b \in Builds, Control(b),
           TurnStep(b) \/ HostStep(b) \/ DelegateObeys(b) \/ Write(b)
    PROVE  Control(b)'
<1> USE DEF TypeInv, TypeOK, Control, CutTurn, ActiveTurn, jobVars, loopVars, turnVars,
            lockVars, ghostVars
<1>1. CASE Spawn(b)
  BY <1>1 DEF Spawn
<1>2. CASE TurnReturns(b) \/ TurnRaises(b) \/ TimeOut(b)
  BY <1>2 DEF TurnReturns, TurnRaises, TimeOut
<1>3. CASE CancelArrives(b)
  BY <1>3 DEF CancelArrives
<1>4. CASE Terminated(b)
  BY <1>4 DEF Terminated
<1>5. CASE DelegateObeys(b) \/ Write(b)
  BY <1>5 DEF DelegateObeys, Write
<1>6. CASE StartJob(b)
  BY <1>6 DEF StartJob
<1>10. interrupts[b] \in Nat /\ cancels[b] \in Nat
  BY CountersAreNaturals
<1>7. CASE Interrupt(b)
  <2>1. interrupts'[b] = interrupts[b] + 1 /\ interrupts'[b] # 0 /\ interrupts'[b] > 0
    BY <1>7, <1>10 DEF Interrupt
  <2> QED
    BY <1>7, <1>10, <2>1 DEF Interrupt, Known, Signal
<1>8. CASE Cancel(b)
  <2>1. cancels'[b] = cancels[b] + 1 /\ cancels'[b] # 0 /\ cancels'[b] > 0
    BY <1>8, <1>10 DEF Cancel
  <2>2. /\ pc[b] \notin {"idle", "created", "settled"} /\ status[b] = "running"
        /\ UNCHANGED <<pc, status, interruptRequested, delegate, orphan, interrupts>>
    BY <1>8 DEF Cancel, Known
  <2>3. CASE turnTask[b] \in ActiveTurn
    <3>1. turnTask'[b] \in {"signalled", "cut"} /\ UNCHANGED mustCancel
      BY <1>8, <2>3 DEF Cancel, Signal
    <3> QED
      BY <2>1, <2>2, <2>3, <3>1
  <2>4. CASE turnTask[b] \notin ActiveTurn
    <3>1. UNCHANGED turnTask /\ mustCancel'[b]
      BY <1>8, <2>4 DEF Cancel
    <3> QED
      BY <2>1, <2>2, <2>4, <3>1
  <2> QED
    BY <2>3, <2>4
<1>9. ASSUME NEW i \in BOOLEAN, Steer(b, i)
      PROVE  Control(b)'
  <2>1. CASE i
    <3>1. interrupts'[b] = interrupts[b] + 1 /\ interrupts'[b] # 0 /\ interrupts'[b] > 0
      BY <1>9, <1>10, <2>1 DEF Steer
    <3>2. turnTask'[b] = Signal(turnTask[b]) /\ interruptRequested'[b]
      BY <1>9, <2>1 DEF Steer
    <3>3. UNCHANGED <<pc, status, mustCancel, delegate, orphan, cancels>> /\ Known(b)
      BY <1>9 DEF Steer
    <3> QED
      BY <3>1, <3>2, <3>3 DEF Known, Signal
  <2>2. CASE ~i
    BY <1>9, <2>2 DEF Steer, Known
  <2> QED
    BY <2>1, <2>2
<1> QED
  BY <1>1, <1>2, <1>3, <1>4, <1>5, <1>6, <1>7, <1>8, <1>9 DEF TurnStep, HostStep

LEMMA InitControl == Init => ControlInv
<1> SUFFICES ASSUME Init, NEW b \in Builds
             PROVE  Control(b)
  BY DEF ControlInv
<1>1. /\ pc[b] = "idle" /\ status[b] = "absent" /\ turnTask[b] = "none" /\ delegate[b] = "none"
      /\ ~mustCancel[b] /\ ~interruptRequested[b] /\ ~orphan[b]
      /\ cancels[b] = 0 /\ interrupts[b] = 0
  BY DEF Init
<1>2. ~(cancels[b] > 0)
  BY <1>1
<1> QED
  BY <1>1, <1>2 DEF Control, CutTurn, ActiveTurn

LEMMA NextControl == TypeInv /\ ControlInv /\ [Next]_vars => ControlInv'
<1> SUFFICES ASSUME TypeInv, ControlInv, [Next]_vars, NEW c \in Builds
             PROVE  Control(c)'
  BY DEF ControlInv
<1>1. Control(c)
  BY DEF ControlInv
<1>2. CASE Next
  <2>1. PICK b \in Builds : BuildStep(b)
    BY <1>2 DEF Next, BuildStep
  <2>2. CASE b = c
    BY <1>1, <2>1, <2>2, LoopStepControl, OtherStepControl DEF BuildStep
  <2>3. CASE b # c
    BY <1>1, <2>1, <2>3, OthersUnchanged DEF Same, Control
  <2> QED
    BY <2>2, <2>3
<1>3. CASE UNCHANGED vars
  BY <1>1, <1>3 DEF vars, jobVars, loopVars, turnVars, lockVars, ghostVars, Control
<1> QED
  BY <1>2, <1>3

LEMMA ControlAlways == Spec => [](TypeInv /\ ControlInv)
<1>1. Init => TypeInv /\ ControlInv
  BY InitTypes, InitControl
<1>2. TypeInv /\ ControlInv /\ [Next]_vars => (TypeInv /\ ControlInv)'
  BY NextTypes, NextControl
<1> QED
  BY <1>1, <1>2, PTL DEF Spec

\* A job ends cancelled only if a cancel request for it was answered "cancelling": an
\* interrupt never ends the job, whenever it comes.
THEOREM InterruptNeverCancels == Spec => []CancelledOnlyIfAsked
<1>1. TypeInv /\ ControlInv => CancelledOnlyIfAsked
  BY DEF ControlInv, Control, CancelledOnlyIfAsked
<1> QED
  BY <1>1, ControlAlways, PTL

\* A build nobody interrupts honours every cancel request answered "cancelling".
THEOREM CancelLandsWithoutInterrupt == Spec => []CancelHonouredWithoutInterrupt
<1>1. TypeInv /\ ControlInv => CancelHonouredWithoutInterrupt
  BY DEF ControlInv, Control, CancelHonouredWithoutInterrupt
<1> QED
  BY <1>1, ControlAlways, PTL

(***************************************************************************)
(* Cuts: what a cut turn, and a delegate that was left behind, say of the  *)
(* interrupts and cancel requests of the build and of its timeouts.        *)
(***************************************************************************)

Cuts(b) ==
    /\ turnTask[b] \in CutTurn => interrupts[b] + cancels[b] >= 1
    /\ turnTask[b] = "timing_out" => overran[b]
    /\ turnTask[b] = "cut" \/ orphan[b] => MayBeCutTwice(b)

CutsInv == \A b \in Builds : Cuts(b)

\* A cut adds to the counters, and cuts a turn being terminated once more.
LEMMA HostCuts ==
    ASSUME TypeInv, NEW b \in Builds, Cuts(b), HostStep(b)
    PROVE  Cuts(b)'
<1> USE DEF TypeInv, TypeOK, Cuts, MayBeCutTwice, CutTurn
<1>0. interrupts[b] \in Nat /\ cancels[b] \in Nat
  BY CountersAreNaturals
<1>1. ASSUME UNCHANGED <<turnTask, orphan, interrupts, cancels, overran>>
      PROVE  Cuts(b)'
  BY <1>1
<1>2. ASSUME turnTask'[b] \in {turnTask[b], Signal(turnTask[b])}, UNCHANGED <<orphan, overran>>,
             interrupts'[b] + cancels'[b] = interrupts[b] + cancels[b] + 1
      PROVE  Cuts(b)'
  BY <1>0, <1>2 DEF Signal
<1>3. CASE StartJob(b)
  BY <1>1, <1>3 DEF StartJob, turnVars, ghostVars
<1>4. CASE Interrupt(b)
  <2>1. interrupts'[b] = interrupts[b] + 1 /\ cancels' = cancels
    BY <1>4 DEF Interrupt
  <2>2. turnTask'[b] = Signal(turnTask[b]) /\ UNCHANGED <<orphan, overran>>
    BY <1>4 DEF Interrupt
  <2> QED
    BY <1>0, <1>2, <2>1, <2>2
<1>5. CASE Cancel(b)
  <2>1. cancels'[b] = cancels[b] + 1 /\ interrupts' = interrupts
    BY <1>5 DEF Cancel
  <2>2. turnTask'[b] \in {turnTask[b], Signal(turnTask[b])} /\ UNCHANGED <<orphan, overran>>
    BY <1>5 DEF Cancel
  <2> QED
    BY <1>0, <1>2, <2>1, <2>2
<1>6. ASSUME NEW i \in BOOLEAN, Steer(b, i)
      PROVE  Cuts(b)'
  <2>1. UNCHANGED <<orphan, cancels, overran>>
    BY <1>6 DEF Steer
  <2>2. CASE i
    <3>1. interrupts'[b] = interrupts[b] + 1 /\ turnTask'[b] = Signal(turnTask[b])
      BY <1>6, <2>2 DEF Steer
    <3> QED
      BY <1>0, <1>2, <2>1, <3>1
  <2>3. CASE ~i
    <3>1. interrupts'[b] = interrupts[b] /\ turnTask'[b] = turnTask[b]
      BY <1>6, <2>3 DEF Steer
    <3> QED
      BY <2>1, <3>1
  <2> QED
    BY <2>2, <2>3
<1> QED
  BY <1>3, <1>4, <1>5, <1>6 DEF HostStep

\* No other step cuts a turn; only a turn that was cut twice leaves its delegate.
LEMMA OtherCuts ==
    ASSUME TypeInv, NEW b \in Builds, Cuts(b),
           LoopStep(b) \/ TurnStep(b) \/ DelegateObeys(b) \/ Write(b)
    PROVE  Cuts(b)'
<1> USE DEF TypeInv, TypeOK, Cuts, MayBeCutTwice, CutTurn
<1>1. ASSUME turnTask'[b] \in {turnTask[b], "none", "running"},
             UNCHANGED <<orphan, interrupts, cancels, overran>>
      PROVE  Cuts(b)'
  BY <1>1
<1>2. ASSUME NEW q, NEW s, NEW o, LoopTop(b, q) \/ Settle(b, s, o, q)
      PROVE  turnTask'[b] \in {"none", "running"}
  BY <1>2 DEF LoopTop, BeginTurn, Settle
<1>3. CASE RefuseBuild(b) \/ TakeFreeZone(b) \/ GetZone(b) \/ CancelledInQueue(b)
  BY <1>1, <1>2, <1>3 DEF RefuseBuild, TakeFreeZone, GetZone, EnterZone, CancelledInQueue
<1>4. CASE QueueForZone(b)
  BY <1>1, <1>4 DEF QueueForZone, turnVars, ghostVars
<1>5. CASE InterruptTaken(b) \/ CancelTaken(b) \/ TurnFailed(b) \/ ZoneViolated(b) \/ DoDPasses(b)
  BY <1>1, <1>2, <1>5 DEF InterruptTaken, CancelTaken, TurnFailed, ZoneViolated, DoDPasses
<1>6. CASE DoDFails(b) \/ NoDoDTurnEnds(b) \/ GraceEnds(b) \/ CancelledInGrace(b)
  BY <1>1, <1>2, <1>6 DEF DoDFails, NoDoDTurnEnds, GraceEnds, CancelledInGrace
<1>7. CASE Spawn(b) \/ Write(b)
  BY <1>1, <1>7 DEF Spawn, Write, ghostVars
<1>8. CASE TurnReturns(b) \/ TurnRaises(b) \/ TimeOut(b) \/ DelegateObeys(b)
  BY <1>8 DEF TurnReturns, TurnRaises, TimeOut, DelegateObeys, ghostVars
<1>9. CASE CancelArrives(b) \/ Terminated(b)
  BY <1>9 DEF CancelArrives, Terminated, ghostVars
<1> QED
  BY <1>3, <1>4, <1>5, <1>6, <1>7, <1>8, <1>9 DEF LoopStep, TurnStep

LEMMA NextCuts == TypeInv /\ CutsInv /\ [Next]_vars => CutsInv'
<1> SUFFICES ASSUME TypeInv, CutsInv, [Next]_vars, NEW c \in Builds
             PROVE  Cuts(c)'
  BY DEF CutsInv
<1>1. Cuts(c)
  BY DEF CutsInv
<1>2. CASE Next
  <2>1. PICK b \in Builds : BuildStep(b)
    BY <1>2 DEF Next, BuildStep
  <2>2. CASE b = c
    BY <1>1, <2>1, <2>2, HostCuts, OtherCuts DEF BuildStep
  <2>3. CASE b # c
    BY <1>1, <2>1, <2>3, OthersUnchanged DEF Same, Cuts, MayBeCutTwice
  <2> QED
    BY <2>2, <2>3
<1>3. CASE UNCHANGED vars
  BY <1>1, <1>3 DEF vars, turnVars, ghostVars, Cuts, MayBeCutTwice
<1> QED
  BY <1>2, <1>3

LEMMA CutsAlways == Spec => []CutsInv
<1>1. Init => CutsInv
  BY DEF Init, CutsInv, Cuts, CutTurn
<1> QED
  BY <1>1, NextCuts, ControlAlways, PTL DEF Spec

\* A delegate survives its turn only if the turn was cut while it was already being
\* terminated: after two cuts, or one and a timeout.
THEOREM OneCutIsClean == Spec => []OneCutLeavesNoDelegate
<1>1. CutsInv => OneCutLeavesNoDelegate
  BY DEF CutsInv, Cuts, OneCutLeavesNoDelegate
<1> QED
  BY <1>1, CutsAlways, PTL

(***************************************************************************)
(* The zone lock: whoever is inside holds it, and nobody else is inside.   *)
(***************************************************************************)

LockInv ==
    /\ \A b \in Builds : Inside(b) => locked[LockKey(b)]
    /\ \A b, c \in Builds : Inside(b) /\ Inside(c) /\ LockKey(b) = LockKey(c) => b = c

\* A step of b leaves every other lock alone, b holds its lock while inside, and it gets
\* inside, or releases the lock, only if nobody else had it.
LEMMA LockStep ==
    ASSUME TypeInv, NEW b \in Builds, BuildStep(b), Inside(b) => locked[LockKey(b)]
    PROVE  /\ \A k \in LockKeys \ {LockKey(b)} : locked'[k] = locked[k]
           /\ Inside(b)' => locked'[LockKey(b)]
           /\ ~Inside(b) /\ locked[LockKey(b)] => ~Inside(b)' /\ locked'[LockKey(b)]
<1> USE DEF TypeInv, TypeOK, Inside, jobVars, loopVars, turnVars, lockVars, ghostVars
<1> DEFINE Goal == /\ \A k \in LockKeys \ {LockKey(b)} : locked'[k] = locked[k]
                   /\ Inside(b)' => locked'[LockKey(b)]
                   /\ ~Inside(b) /\ locked[LockKey(b)] => ~Inside(b)' /\ locked'[LockKey(b)]
<1>0. LockKey(b) \in LockKeys
  BY DEF LockKeys
<1>1. ASSUME NEW q, NEW s, NEW o, Settle(b, s, o, q)
      PROVE  Goal
  BY <1>0, <1>1 DEF Settle, Report, ReleaseZone
<1>2. ASSUME NEW q, LoopTop(b, q), Inside(b) \/ ~locked[LockKey(b)]
      PROVE  Goal
  <2>1. CASE BeginTurn(b, q)
    BY <1>0, <1>2, <2>1 DEF BeginTurn, Compose
  <2> QED
    BY <1>1, <1>2, <2>1 DEF LoopTop
<1>3. ASSUME UNCHANGED locked,
             pc'[b] = pc[b] \/ (~Inside(b) /\ ~Inside(b)') \/ (Inside(b) /\ Inside(b)')
      PROVE  Goal
  BY <1>3
<1>4. CASE TakeFreeZone(b) \/ GetZone(b)
  BY <1>1, <1>2, <1>4 DEF TakeFreeZone, GetZone, EnterZone
<1>5. CASE RefuseBuild(b) \/ CancelledInQueue(b) \/ CancelTaken(b) \/ TurnFailed(b)
           \/ ZoneViolated(b) \/ DoDPasses(b) \/ CancelledInGrace(b)
  BY <1>1, <1>5
     DEF RefuseBuild, CancelledInQueue, CancelTaken, TurnFailed, ZoneViolated, DoDPasses,
         CancelledInGrace
<1>6. CASE InterruptTaken(b) \/ DoDFails(b) \/ GraceEnds(b)
  BY <1>1, <1>2, <1>6 DEF InterruptTaken, DoDFails, GraceEnds, SawCancel, SawResult
<1>7. CASE NoDoDTurnEnds(b)
  <2>1. CASE steerQ[b] # <<>>
    BY <1>2, <1>7, <2>1 DEF NoDoDTurnEnds, SawResult
  <2>2. CASE steerQ[b] = <<>>
    BY <1>3, <1>7, <2>2 DEF NoDoDTurnEnds, SawResult
  <2> QED
    BY <2>1, <2>2
<1>8. CASE QueueForZone(b)
  BY <1>3, <1>8 DEF QueueForZone
<1>9. CASE TurnStep(b) \/ DelegateObeys(b) \/ Write(b)
  BY <1>3, <1>9
     DEF TurnStep, Spawn, TurnReturns, TurnRaises, TimeOut, CancelArrives, Terminated,
         DelegateObeys, Write
<1>10. CASE HostStep(b)
  BY <1>3, <1>10 DEF HostStep, StartJob, Interrupt, Cancel, Steer
<1> QED
  BY <1>4, <1>5, <1>6, <1>7, <1>8, <1>9, <1>10 DEF BuildStep, LoopStep

LEMMA NextLock == TypeInv /\ LockInv /\ [Next]_vars => LockInv'
<1> SUFFICES ASSUME TypeInv, LockInv, [Next]_vars PROVE LockInv'
  OBVIOUS
<1>1. CASE UNCHANGED vars
  BY <1>1 DEF vars, jobVars, lockVars, LockInv, Inside
<1>2. CASE Next
  <2>1. PICK b \in Builds : BuildStep(b)
    BY <1>2 DEF Next, BuildStep
  <2>2. \A c \in Builds \ {b} : Inside(c)' = Inside(c)
    BY <2>1, OthersUnchanged DEF Same, Inside
  <2>3. /\ \A k \in LockKeys \ {LockKey(b)} : locked'[k] = locked[k]
        /\ Inside(b)' => locked'[LockKey(b)]
        /\ ~Inside(b) /\ locked[LockKey(b)] => ~Inside(b)' /\ locked'[LockKey(b)]
    BY <2>1, LockStep DEF LockInv
  <2>4. \A c \in Builds : LockKey(c)' = LockKey(c) /\ LockKey(c) \in LockKeys
    BY DEF LockKey, LockKeys
  <2>5. ASSUME NEW c \in Builds, Inside(c)'
        PROVE  locked'[LockKey(c)]
    <3>1. CASE c = b
      BY <2>3, <2>5, <3>1
    <3>2. CASE c # b
      <4>1. Inside(c) /\ locked[LockKey(c)]
        BY <2>2, <2>5, <3>2 DEF LockInv
      <4>2. CASE LockKey(c) = LockKey(b)
        BY <2>3, <3>2, <4>1, <4>2 DEF LockInv
      <4>3. CASE LockKey(c) # LockKey(b)
        BY <2>3, <2>4, <4>1, <4>3
      <4> QED
        BY <4>2, <4>3
    <3> QED
      BY <3>1, <3>2
  <2>6. ASSUME NEW c \in Builds, NEW d \in Builds, Inside(c)', Inside(d)',
               LockKey(c) = LockKey(d), c # d
        PROVE  FALSE
    <3>1. ASSUME NEW e \in Builds \ {b}, Inside(e)', LockKey(e) = LockKey(b), Inside(b)'
          PROVE  FALSE
      BY <2>2, <2>3, <3>1 DEF LockInv
    <3> QED
      BY <2>2, <2>6, <3>1 DEF LockInv
  <2> QED
    BY <2>4, <2>5, <2>6 DEF LockInv
<1> QED
  BY <1>1, <1>2

\* Builds that look up the same zone lock have delegates running at the same time, those
\* left behind included, only after a turn of one of them was cut while it was already
\* being terminated; builds of one zone reached through two target directories do not look
\* up the same lock, and nothing is claimed of them.
THEOREM ZoneLockSerialisesDelegates == Spec => []OneDelegatePerLock
<1>1. Init => LockInv
  BY DEF Init, LockInv, Inside
<1>2. TypeInv /\ ControlInv /\ CutsInv /\ LockInv => OneDelegatePerLock
  <2> SUFFICES ASSUME TypeInv, ControlInv, CutsInv, LockInv, NEW b \in Builds, NEW c \in Builds,
                      b # c, LockKey(b) = LockKey(c), Runs(b), Runs(c),
                      ~MayBeCutTwice(b), ~MayBeCutTwice(c)
               PROVE  FALSE
    BY DEF OneDelegatePerLock
  <2>1. delegate[b] # "none" /\ delegate[c] # "none"
    BY DEF CutsInv, Cuts, Runs
  <2>2. Inside(b) /\ Inside(c)
    BY <2>1 DEF ControlInv, Control, ActiveTurn, Inside
  <2> QED
    BY <2>2 DEF LockInv
<1> QED
  BY <1>1, <1>2, NextLock, ControlAlways, CutsAlways, PTL DEF Spec

(***************************************************************************)
(* A build job is a job: it keeps the promise of JobLifecycle.             *)
(***************************************************************************)

\* Whatever the host and the delegates do, the job's status goes from absent to running
\* to one final status, "cancelled" only after a cancel request.
THEOREM BuildIsAJob == Spec => JobLifecycleSpec
<1> DEFINE asked == {b \in Builds : cancels[b] > 0}
<1>1. Init => Job!Init
  <2> SUFFICES ASSUME Init PROVE Job!Init
    OBVIOUS
  <2>1. status = [b \in Builds |-> "absent"] /\ \A b \in Builds : cancels[b] = 0
    BY DEF Init
  <2>2. \A b \in Builds : ~(cancels[b] > 0)
    <3> SUFFICES ASSUME NEW b \in Builds PROVE ~(cancels[b] > 0)
      OBVIOUS
    <3>1. cancels[b] = 0
      BY <2>1
    <3> HIDE DEF asked
    <3> QED
      BY <3>1, SMT
  <2> QED
    BY <2>1, <2>2 DEF Job!Init
<1>2. TypeInv /\ ControlInv /\ TypeInv' /\ ControlInv' /\ [Next]_vars => [Job!Next]_(Job!vars)
  <2> SUFFICES ASSUME TypeInv, ControlInv, TypeInv', ControlInv', [Next]_vars
               PROVE  [Job!Next]_(Job!vars)
    OBVIOUS
  <2>1. CASE UNCHANGED vars
    BY <2>1 DEF vars, jobVars, ghostVars, Job!vars
  <2>2. CASE Next
    <3>1. PICK b \in Builds : BuildStep(b)
      BY <2>2 DEF Next, BuildStep
    <3>2. \A c \in Builds \ {b} : status'[c] = status[c] /\ cancels'[c] = cancels[c]
      BY <3>1, OthersUnchanged DEF Same
    <3>3. CASE StartJob(b)
      <4>1. Job!Start(b)
        BY <3>3 DEF StartJob, Job!Start, ghostVars, Control, ControlInv, TypeInv, TypeOK
      <4> QED
        BY <4>1 DEF Job!Next
    <3>4. CASE Cancel(b)
      <4>1. cancels[b] \in Nat
        BY CountersAreNaturals
      <4>2. cancels'[b] = cancels[b] + 1 /\ cancels'[b] > 0
        BY <3>4, <4>1 DEF Cancel, TypeInv, TypeOK
      <4>3. asked' = asked \cup {b}
        BY <3>2, <4>2
      <4>4. Job!Ask(b)
        BY <3>4, <4>3 DEF Cancel, Job!Ask
      <4> QED
        BY <4>4 DEF Job!Next
    <3>5. CASE UNCHANGED <<status, cancels>>
      BY <3>5 DEF Job!vars
    <3>6. ASSUME NEW s \in {"succeeded", "failed", "cancelled"}, NEW o, NEW q,
                 Settle(b, s, o, q), UNCHANGED cancels, pc[b] \notin {"idle", "settled"}
          PROVE  [Job!Next]_(Job!vars)
      <4>1. status[b] = "running"
        BY <3>6 DEF ControlInv, Control
      <4>2. s = "cancelled" => cancels[b] > 0
        <5>1. status'[b] = s
          BY <3>6 DEF Settle, Report, ReleaseZone, TypeInv, TypeOK
        <5> QED
          BY <3>6, <5>1 DEF ControlInv, Control
      <4>3. Job!Finish(b)
        BY <3>6, <4>1, <4>2 DEF Settle, Report, ReleaseZone, Job!Finish
      <4> QED
        BY <4>3 DEF Job!Next
    <3>7. ASSUME NEW q, LoopTop(b, q), UNCHANGED cancels, pc[b] \notin {"idle", "settled"}
          PROVE  [Job!Next]_(Job!vars)
      BY <3>5, <3>6, <3>7 DEF LoopTop, BeginTurn, Compose
    <3>8. CASE LoopStep(b)
      <4>1. CASE RefuseBuild(b) \/ TakeFreeZone(b) \/ GetZone(b) \/ CancelledInQueue(b)
        BY <3>6, <3>7, <4>1 DEF RefuseBuild, TakeFreeZone, GetZone, EnterZone, CancelledInQueue
      <4>2. CASE QueueForZone(b)
        BY <3>5, <4>2 DEF QueueForZone, ghostVars
      <4>3. CASE InterruptTaken(b) \/ CancelTaken(b) \/ TurnFailed(b) \/ ZoneViolated(b)
                 \/ DoDPasses(b) \/ DoDFails(b)
        BY <3>6, <3>7, <4>3
           DEF InterruptTaken, CancelTaken, TurnFailed, ZoneViolated, DoDPasses, DoDFails,
               SawCancel, SawResult
      <4>4. CASE NoDoDTurnEnds(b)
        BY <3>5, <3>7, <4>4 DEF NoDoDTurnEnds, SawResult
      <4>5. CASE GraceEnds(b) \/ CancelledInGrace(b)
        BY <3>6, <3>7, <4>5 DEF GraceEnds, CancelledInGrace
      <4> QED
        BY <3>8, <4>1, <4>2, <4>3, <4>4, <4>5 DEF LoopStep
    <3>9. CASE TurnStep(b) \/ DelegateObeys(b) \/ Write(b)
      BY <3>5, <3>9
         DEF TurnStep, Spawn, TurnReturns, TurnRaises, TimeOut, CancelArrives, Terminated,
             DelegateObeys, Write, jobVars, ghostVars
    <3>10. CASE Interrupt(b) \/ \E i \in BOOLEAN : Steer(b, i)
      BY <3>5, <3>10 DEF Interrupt, Steer, jobVars
    <3> QED
      BY <3>1, <3>3, <3>4, <3>8, <3>9, <3>10 DEF BuildStep, HostStep
  <2> QED
    BY <2>1, <2>2
<1> QED
  BY <1>1, <1>2, ControlAlways, PTL DEF Spec, JobLifecycleSpec, Job!Spec

(***************************************************************************)
(* Steering: what was applied, followed by what is queued, is everything   *)
(* that was ever queued.                                                   *)
(***************************************************************************)

History(c) == applied[c] \o steerQ[c]
Posted(n) == [i \in 1..n |-> i]

LEMMA PostedAppend ==
    ASSUME NEW n \in Nat
    PROVE  Posted(n) \in Seq(Nat) /\ Append(Posted(n), n + 1) = Posted(n + 1)
<1>1. Posted(n) \in Seq(Nat) /\ Len(Posted(n)) = n /\ Posted(n + 1) \in Seq(Nat) /\ Len(Posted(n + 1)) = n + 1
  BY DEF Posted
<1>2. /\ Append(Posted(n), n + 1) \in Seq(Nat)
      /\ Len(Append(Posted(n), n + 1)) = n + 1
      /\ \A i \in 1..n : Append(Posted(n), n + 1)[i] = Posted(n)[i]
      /\ Append(Posted(n), n + 1)[n + 1] = n + 1
  BY <1>1, AppendProperties
<1>3. ASSUME NEW i \in 1..n + 1
      PROVE  Append(Posted(n), n + 1)[i] = Posted(n + 1)[i]
  BY <1>2 DEF Posted
<1> QED
  BY <1>1, <1>2, <1>3, SeqEqual

\* Appending to the queue appends to the history.
LEMMA AppendToHistory ==
    ASSUME NEW s \in Seq(Nat), NEW t \in Seq(Nat), NEW n \in Nat
    PROVE  s \o Append(t, n) = Append(s \o t, n)
<1>1. <<n>> \in Seq(Nat) /\ s \o t \in Seq(Nat)
  BY ConcatProperties
<1>2. s \o Append(t, n) = s \o (t \o <<n>>)
  BY AppendIsConcat
<1>3. @ = (s \o t) \o <<n>>
  BY <1>1, ConcatAssociative
<1>4. @ = Append(s \o t, n)
  BY <1>1, AppendIsConcat
<1> QED
  BY <1>2, <1>3, <1>4

\* A prompt takes the queue as it is, the end of the job leaves it.
LEMMA SegmentEndHistory ==
    ASSUME TypeInv, NEW b \in Builds, NEW q \in Seq(Nat), NEW s, NEW o,
           LoopTop(b, q) \/ Settle(b, s, o, q)
    PROVE  /\ History(b)' = applied[b] \o q
           /\ \A c \in Builds \ {b} : applied'[c] = applied[c] /\ steerQ'[c] = steerQ[c]
<1> USE DEF TypeInv, TypeOK, History
<1>1. CASE BeginTurn(b, q)
  <2>1. applied'[b] = applied[b] \o q /\ steerQ'[b] = <<>>
    BY <1>1 DEF BeginTurn, Compose
  <2>2. applied[b] \o q \in Seq(Nat)
    BY ConcatProperties
  <2>3. (applied[b] \o q) \o <<>> = applied[b] \o q
    BY <2>2, ConcatEmptySeq
  <2> QED
    BY <1>1, <2>1, <2>3 DEF BeginTurn, Compose
<1>2. ASSUME NEW t, NEW p, Settle(b, t, p, q)
      PROVE  /\ History(b)' = applied[b] \o q
             /\ \A c \in Builds \ {b} : applied'[c] = applied[c] /\ steerQ'[c] = steerQ[c]
  BY <1>2 DEF Settle, Report
<1> QED
  BY <1>1, <1>2 DEF LoopTop

\* A step of b leaves the histories of the others alone and its own too, unless it queues
\* one more instruction at its end.
LEMMA HistoryStep ==
    ASSUME TypeInv, NEW b \in Builds, BuildStep(b)
    PROVE  /\ \A c \in Builds \ {b} :
                 applied'[c] = applied[c] /\ steerQ'[c] = steerQ[c] /\ posted'[c] = posted[c]
           /\ \/ History(b)' = History(b) /\ posted'[b] = posted[b]
              \/ /\ History(b)' = applied[b] \o Append(steerQ[b], posted[b] + 1)
                 /\ posted'[b] = posted[b] + 1
<1> DEFINE Others == \A c \in Builds \ {b} :
                        applied'[c] = applied[c] /\ steerQ'[c] = steerQ[c] /\ posted'[c] = posted[c]
           Same2 == History(b)' = History(b) /\ posted'[b] = posted[b]
           More == /\ History(b)' = applied[b] \o Append(steerQ[b], posted[b] + 1)
                   /\ posted'[b] = posted[b] + 1
<1>0. /\ steerQ[b] \in Seq(Nat) /\ applied[b] \in Seq(Nat) /\ posted[b] \in Nat
      /\ Append(steerQ[b], posted[b] + 1) \in Seq(Nat)
  BY AppendProperties DEF TypeInv, TypeOK
<1>1. ASSUME NEW s, NEW o, LoopTop(b, steerQ[b]) \/ Settle(b, s, o, steerQ[b]), UNCHANGED posted
      PROVE  Others /\ Same2
  BY <1>0, <1>1, SegmentEndHistory DEF History
<1>2. ASSUME UNCHANGED <<applied, steerQ, posted>>
      PROVE  Others /\ Same2
  BY <1>2 DEF History
<1>3. CASE RefuseBuild(b) \/ TakeFreeZone(b) \/ GetZone(b) \/ CancelledInQueue(b)
  BY <1>1, <1>3 DEF RefuseBuild, TakeFreeZone, GetZone, EnterZone, CancelledInQueue
<1>4. CASE QueueForZone(b)
  BY <1>2, <1>4 DEF QueueForZone, loopVars, ghostVars
<1>5. CASE InterruptTaken(b) \/ CancelTaken(b) \/ TurnFailed(b) \/ ZoneViolated(b) \/ DoDPasses(b)
  BY <1>1, <1>5 DEF InterruptTaken, CancelTaken, TurnFailed, ZoneViolated, DoDPasses
<1>6. CASE DoDFails(b)
  <2>1. CASE Settle(b, "succeeded", "dod_failed", steerQ[b]) /\ UNCHANGED posted
    BY <1>1, <2>1
  <2>2. CASE /\ LoopTop(b, Append(steerQ[b], posted[b] + 1))
             /\ posted' = [posted EXCEPT ![b] = @ + 1]
    <3>1. /\ posted'[b] = posted[b] + 1
          /\ \A c \in Builds \ {b} : posted'[c] = posted[c]
      BY <2>2 DEF TypeInv, TypeOK
    <3> QED
      BY <1>0, <2>2, <3>1, SegmentEndHistory
  <2> QED
    BY <1>6, <2>1, <2>2 DEF DoDFails
<1>7. CASE NoDoDTurnEnds(b)
  <2>1. CASE LoopTop(b, steerQ[b])
    BY <1>1, <1>7, <2>1 DEF NoDoDTurnEnds
  <2>2. CASE UNCHANGED <<steerQ, applied>>
    BY <1>2, <1>7, <2>2 DEF NoDoDTurnEnds
  <2> QED
    BY <1>7, <2>1, <2>2 DEF NoDoDTurnEnds
<1>8. CASE GraceEnds(b) \/ CancelledInGrace(b)
  BY <1>1, <1>8 DEF GraceEnds, CancelledInGrace
<1>9. CASE TurnStep(b) \/ DelegateObeys(b) \/ Write(b)
  BY <1>2, <1>9
     DEF TurnStep, Spawn, TurnReturns, TurnRaises, TimeOut, CancelArrives, Terminated,
         DelegateObeys, Write, loopVars, ghostVars
<1>10. CASE StartJob(b) \/ Interrupt(b) \/ Cancel(b)
  BY <1>2, <1>10 DEF StartJob, Interrupt, Cancel, loopVars, ghostVars
<1>11. ASSUME NEW i \in BOOLEAN, Steer(b, i)
       PROVE  Others /\ More
  <2>1. /\ posted' = [posted EXCEPT ![b] = @ + 1]
        /\ steerQ' = [steerQ EXCEPT ![b] = Append(@, posted[b] + 1)]
        /\ UNCHANGED applied
    BY <1>11 DEF Steer
  <2> QED
    BY <2>1 DEF History, TypeInv, TypeOK
<1> QED
  BY <1>3, <1>4, <1>5, <1>6, <1>7, <1>8, <1>9, <1>10, <1>11 DEF BuildStep, LoopStep, HostStep

\* Every instruction is folded into at most one prompt, in the order it was queued, or
\* still waits in the queue: none is lost, applied twice or overtaken.
THEOREM SteeringIsExact == Spec => []SteeringOnceInOrder
<1>1. Init => SteeringOnceInOrder
  <2> SUFFICES ASSUME Init, NEW b \in Builds
               PROVE  applied[b] \o steerQ[b] = [i \in 1..posted[b] |-> i]
    BY DEF SteeringOnceInOrder
  <2>1. applied[b] = <<>> /\ steerQ[b] = <<>> /\ posted[b] = 0
    BY DEF Init
  <2>2. <<>> \in Seq(Nat) /\ <<>> \o <<>> = <<>>
    BY ConcatEmptySeq, EmptySeq
  <2>3. [i \in 1..0 |-> i] = <<>>
    <3>1. [i \in 1..0 |-> i] \in Seq(Nat) /\ Len([i \in 1..0 |-> i]) = 0
      OBVIOUS
    <3> QED
      BY <3>1, EmptySeq
  <2> QED
    BY <2>1, <2>2, <2>3
<1>2. TypeInv /\ SteeringOnceInOrder /\ [Next]_vars => SteeringOnceInOrder'
  <2> SUFFICES ASSUME TypeInv, SteeringOnceInOrder, [Next]_vars, NEW c \in Builds
               PROVE  History(c)' = Posted(posted'[c])
    BY DEF SteeringOnceInOrder, History, Posted
  <2>1. History(c) = Posted(posted[c])
    BY DEF SteeringOnceInOrder, History, Posted
  <2>2. CASE UNCHANGED vars
    BY <2>1, <2>2 DEF vars, loopVars, ghostVars, History
  <2>3. CASE Next
    <3>1. PICK b \in Builds : BuildStep(b)
      BY <2>3 DEF Next, BuildStep
    <3>2. CASE c # b \/ (History(c)' = History(c) /\ posted'[c] = posted[c])
      BY <2>1, <3>1, <3>2, HistoryStep DEF History
    <3>3. CASE /\ History(c)' = applied[c] \o Append(steerQ[c], posted[c] + 1)
               /\ posted'[c] = posted[c] + 1
      <4>1. /\ applied[c] \in Seq(Nat) /\ steerQ[c] \in Seq(Nat)
            /\ posted[c] \in Nat /\ posted[c] + 1 \in Nat
        BY DEF TypeInv, TypeOK
      <4>2. History(c)' = Append(History(c), posted[c] + 1)
        BY <3>3, <4>1, AppendToHistory DEF History
      <4> QED
        BY <2>1, <3>3, <4>1, <4>2, PostedAppend
    <3> QED
      BY <3>1, <3>2, <3>3, HistoryStep
  <2> QED
    BY <2>2, <2>3
<1> QED
  BY <1>1, <1>2, ControlAlways, PTL DEF Spec

(***************************************************************************)
(* Turns: while nobody interrupts, each turn after the first holds at      *)
(* least one instruction of its own.                                       *)
(***************************************************************************)

Asked(b) ==
    /\ pc[b] \in {"idle", "created", "locking"} => turn[b] = 0
    /\ interrupts[b] = 0 => turn[b] <= 1 + Len(applied[b])

\* A turn on a queue that is not empty adds one to both sides.
LEMMA TurnOnInstructions ==
    ASSUME TypeInv, NEW b \in Builds, Asked(b), NEW q \in Seq(Nat), LoopTop(b, q),
           pc[b] \notin {"idle", "settled"}, UNCHANGED interrupts,
           turn[b] = 0 \/ q # <<>> \/ interrupts[b] # 0
    PROVE  Asked(b)'
<1> USE DEF TypeInv, TypeOK, Asked
<1>1. applied[b] \in Seq(Nat) /\ Len(applied[b]) \in Nat
  BY LenProperties
<1>2. Len(q) \in Nat /\ (q # <<>> => Len(q) > 0)
  BY LenProperties, EmptySeq
<1>3. turn[b] \in Nat
  BY BuildLoopAssumption
<1>4. CASE BeginTurn(b, q)
  <2>1. turn'[b] = turn[b] + 1 /\ pc'[b] = "turn"
    BY <1>4 DEF BeginTurn
  <2>2. applied'[b] = applied[b] \o q
    BY <1>4 DEF BeginTurn, Compose
  <2>3. Len(applied[b] \o q) = Len(applied[b]) + Len(q)
    BY <1>1, ConcatProperties
  <2> QED
    BY <1>1, <1>2, <1>3, <2>1, <2>2, <2>3
<1>5. CASE Settle(b, "succeeded", "max_turns", q)
  BY <1>5 DEF Settle
<1> QED
  BY <1>4, <1>5 DEF LoopTop

LEMMA AskedStep ==
    ASSUME TypeInv, NEW b \in Builds, Control(b), Asked(b), BuildStep(b)
    PROVE  Asked(b)'
<1>0. /\ steerQ[b] \in Seq(Nat)
      /\ Append(steerQ[b], posted[b] + 1) \in Seq(Nat)
      /\ Append(steerQ[b], posted[b] + 1) # <<>>
  <2>1. steerQ[b] \in Seq(Nat) /\ posted[b] + 1 \in Nat
    BY DEF TypeInv, TypeOK
  <2> QED
    BY <2>1, AppendProperties
<1>1. ASSUME NEW s, NEW o, NEW q, Settle(b, s, o, q), UNCHANGED interrupts
      PROVE  Asked(b)'
  BY <1>1 DEF Settle, Asked, TypeInv, TypeOK
<1>2. CASE RefuseBuild(b) \/ CancelledInQueue(b) \/ CancelTaken(b) \/ TurnFailed(b)
           \/ ZoneViolated(b) \/ DoDPasses(b) \/ CancelledInGrace(b)
  BY <1>1, <1>2
     DEF RefuseBuild, CancelledInQueue, CancelTaken, TurnFailed, ZoneViolated, DoDPasses,
         CancelledInGrace
<1>3. CASE TakeFreeZone(b) \/ GetZone(b)
  <2>1. EnterZone(b) /\ pc[b] \in {"created", "locking"}
    BY <1>3 DEF TakeFreeZone, GetZone
  <2>2. turn[b] = 0 /\ UNCHANGED interrupts
    BY <2>1 DEF Asked, EnterZone
  <2> QED
    BY <1>0, <1>1, <2>1, <2>2, TurnOnInstructions DEF EnterZone
<1>4. CASE QueueForZone(b)
  BY <1>4 DEF QueueForZone, Asked, TypeInv, TypeOK, loopVars, ghostVars
<1>5. CASE InterruptTaken(b)
  <2>1. pc[b] = "turn" /\ interrupts[b] # 0 /\ UNCHANGED interrupts /\ LoopTop(b, steerQ[b])
    BY <1>5 DEF InterruptTaken, SawCancel, Control, TypeInv, TypeOK
  <2> QED
    BY <1>0, <2>1, TurnOnInstructions
<1>6. CASE DoDFails(b)
  <2>1. pc[b] = "turn" /\ UNCHANGED interrupts
    BY <1>6 DEF DoDFails, SawResult
  <2> QED
    BY <1>0, <1>1, <1>6, <2>1, TurnOnInstructions DEF DoDFails
<1>7. CASE NoDoDTurnEnds(b)
  <2>1. pc[b] = "turn" /\ UNCHANGED interrupts
    BY <1>7 DEF NoDoDTurnEnds, SawResult
  <2>2. CASE steerQ[b] # <<>>
    BY <1>0, <1>7, <2>1, <2>2, TurnOnInstructions DEF NoDoDTurnEnds
  <2>3. CASE steerQ[b] = <<>>
    BY <1>7, <2>1, <2>3 DEF NoDoDTurnEnds, Asked, TypeInv, TypeOK
  <2> QED
    BY <2>2, <2>3
<1>8. CASE GraceEnds(b)
  <2>1. pc[b] = "grace" /\ UNCHANGED interrupts
    BY <1>8 DEF GraceEnds
  <2>2. SomethingCame(b) => steerQ[b] # <<>> \/ interrupts[b] # 0
    BY DEF SomethingCame, Control, TypeInv, TypeOK
  <2> QED
    BY <1>0, <1>1, <1>8, <2>1, <2>2, TurnOnInstructions DEF GraceEnds
<1>9. CASE TurnStep(b) \/ DelegateObeys(b) \/ Write(b)
  BY <1>9
     DEF TurnStep, Spawn, TurnReturns, TurnRaises, TimeOut, CancelArrives, Terminated,
         DelegateObeys, Write, jobVars, loopVars, ghostVars, Asked
<1>10. CASE HostStep(b)
  <2>1. /\ turn' = turn /\ applied' = applied
        /\ pc'[b] \in {pc[b], "created"} /\ (pc'[b] # pc[b] => pc[b] = "idle")
        /\ interrupts'[b] = 0 => interrupts[b] = 0
    <3>1. interrupts[b] \in Nat
      BY CountersAreNaturals
    <3>2. interrupts[b] + 1 # 0
      BY <3>1
    <3> QED
      BY <1>10, <3>2
         DEF HostStep, StartJob, Interrupt, Cancel, Steer, loopVars, jobVars, ghostVars, TypeInv,
             TypeOK
  <2> QED
    BY <2>1 DEF Asked
<1> QED
  BY <1>2, <1>3, <1>4, <1>5, <1>6, <1>7, <1>8, <1>9, <1>10 DEF BuildStep, LoopStep

\* The turns and prompts of the other builds stay as they are.
LEMMA AskedOthers ==
    ASSUME TypeInv, NEW b \in Builds, NEW c \in Builds \ {b}, BuildStep(b), Asked(c)
    PROVE  Asked(c)'
<1>1. pc'[c] = pc[c] /\ interrupts'[c] = interrupts[c]
  BY OthersUnchanged DEF Same
<1>2. applied'[c] = applied[c]
  BY HistoryStep
<1>3. turn'[c] = turn[c]
  <2> USE DEF TypeInv, TypeOK
  <2>1. ASSUME NEW q, NEW s, NEW o, LoopTop(b, q) \/ Settle(b, s, o, q)
        PROVE  turn'[c] = turn[c]
    BY <2>1 DEF LoopTop, BeginTurn, Settle
  <2>2. CASE LoopStep(b)
    BY <2>1, <2>2
       DEF LoopStep, RefuseBuild, TakeFreeZone, QueueForZone, GetZone, EnterZone,
           CancelledInQueue, InterruptTaken, CancelTaken, TurnFailed, ZoneViolated, DoDPasses,
           DoDFails, NoDoDTurnEnds, GraceEnds, CancelledInGrace, loopVars
  <2>3. CASE TurnStep(b) \/ HostStep(b) \/ DelegateObeys(b) \/ Write(b)
    BY <2>3
       DEF TurnStep, Spawn, TurnReturns, TurnRaises, TimeOut, CancelArrives, Terminated,
           HostStep, StartJob, Interrupt, Cancel, Steer, DelegateObeys, Write, loopVars
  <2> QED
    BY <2>2, <2>3 DEF BuildStep
<1> QED
  BY <1>1, <1>2, <1>3 DEF Asked

\* A build nobody interrupts runs no turn after its first that nobody asked for: each
\* holds an instruction of the host or a failure of the Definition of Done.
THEOREM NoUnaskedTurn == Spec => []TurnsAnswerInstructions
<1> DEFINE AskedInv == \A b \in Builds : Asked(b)
<1>1. Init => AskedInv
  <2> SUFFICES ASSUME Init, NEW b \in Builds
               PROVE  Asked(b)
    OBVIOUS
  <2>1. turn[b] = 0 /\ applied[b] = <<>>
    BY DEF Init
  <2>2. Len(<<>>) \in Nat
    BY EmptySeq
  <2> QED
    BY <2>1, <2>2 DEF Asked
<1>2. TypeInv /\ ControlInv /\ AskedInv /\ [Next]_vars => AskedInv'
  <2> SUFFICES ASSUME TypeInv, ControlInv, AskedInv, [Next]_vars, NEW c \in Builds
               PROVE  Asked(c)'
    OBVIOUS
  <2>1. Asked(c) /\ Control(c)
    BY DEF ControlInv
  <2>2. CASE UNCHANGED vars
    BY <2>1, <2>2 DEF vars, jobVars, loopVars, ghostVars, Asked
  <2>3. CASE Next
    <3>1. PICK b \in Builds : BuildStep(b)
      BY <2>3 DEF Next, BuildStep
    <3> QED
      BY <2>1, <3>1, AskedStep, AskedOthers
  <2> QED
    BY <2>2, <2>3
<1>3. AskedInv => TurnsAnswerInstructions
  BY DEF Asked, TurnsAnswerInstructions
<1> QED
  BY <1>1, <1>2, <1>3, ControlAlways, PTL DEF Spec

(***************************************************************************)
(* What one step may not do.                                               *)
(***************************************************************************)

\* Only a zone violation takes a delegate's files back, and only those of its own zone.
THEOREM OnlyViolationsRevert == Spec => WorkLostOnlyToViolation
<1> DEFINE Reverts(b) == /\ pc[b] = "turn" /\ outcome'[b] = "zone_violation"
<1>1. TypeInv /\ [Next]_vars =>
        [\A b \in Builds : work[b] /\ ~work'[b] =>
            \E c \in Builds : /\ ZoneRel[c] = ZoneRel[b]
                              /\ pc[c] = "turn" /\ outcome'[c] = "zone_violation"]_vars
  <2> SUFFICES ASSUME TypeInv, Next, NEW b \in Builds, work[b], ~work'[b]
               PROVE  \E c \in Builds : ZoneRel[c] = ZoneRel[b] /\ Reverts(c)
    OBVIOUS
  <2> USE DEF TypeInv, TypeOK
  <2>1. PICK c \in Builds : BuildStep(c)
    BY DEF Next, BuildStep
  <2>2. CASE ZoneViolated(c)
    <3>1. pc[c] = "turn" /\ outcome'[c] = "zone_violation"
      BY <2>2 DEF ZoneViolated, SawResult, Settle, Report
    <3>2. ZoneRel[c] = ZoneRel[b]
      BY <2>2 DEF ZoneViolated, RevertZone
    <3> QED
      BY <3>1, <3>2
  <2>3. CASE UNCHANGED work
    BY <2>3
  <2>4. CASE Write(c)
    BY <2>4 DEF Write
  <2>5. CASE LoopStep(c) /\ ~ZoneViolated(c)
    BY <2>3, <2>5
       DEF LoopStep, RefuseBuild, TakeFreeZone, QueueForZone, GetZone, EnterZone,
           CancelledInQueue, InterruptTaken, CancelTaken, TurnFailed, DoDPasses, DoDFails,
           NoDoDTurnEnds, GraceEnds, CancelledInGrace, turnVars
  <2>6. CASE TurnStep(c) \/ HostStep(c) \/ DelegateObeys(c)
    BY <2>3, <2>6
       DEF TurnStep, Spawn, TurnReturns, TurnRaises, TimeOut, CancelArrives, Terminated,
           HostStep, StartJob, Interrupt, Cancel, Steer, DelegateObeys, turnVars
  <2> QED
    BY <2>1, <2>2, <2>4, <2>5, <2>6 DEF BuildStep
<1> QED
  BY <1>1, ControlAlways, PTL DEF Spec, WorkLostOnlyToViolation

=============================================================================
