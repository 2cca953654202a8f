-------------------------- MODULE RoundTableProofs --------------------------
(***************************************************************************)
(* What the two parts of the round table promise, for any number of        *)
(* processes, threads, lanes, rounds and issues.                           *)
(*                                                                         *)
(* Conversations: the rows of a thread, and the calls that number, insert  *)
(* and fold them. A turn that was recorded is covered by some row, because *)
(* the plan of a fold carries every turn up to the number it folds to and  *)
(* spares two rows behind it; an exchange stays in one piece, because a    *)
(* thread nobody else writes ends in the question until the answer is in.  *)
(*                                                                         *)
(* Converge: who sits in the panel, what becomes of the issues raised, and *)
(* what stands behind a plan that converged.                               *)
(*                                                                         *)
(* Both compute on data: the largest number, the sequence without some of  *)
(* its members. What those are worth is proved by a least counterexample.  *)
(***************************************************************************)
EXTENDS Conversations, Converge, FiniteSetTheorems, WellFoundedInduction, TLAPS

LEMMA LeastNumber ==
  ASSUME NEW T, T \subseteq Nat, T # {}
  PROVE  \E x \in T : \A y \in T : x <= y
<1>1. PICK x \in T : \A y \in T : <<y, x>> \notin OpToRel(<, Nat)
  BY NatLessThanWellFounded, WFMin
<1>2. \A y \in T : ~(y < x)
  BY <1>1 DEF OpToRel
<1>. QED  BY <1>2

\* A finite set of integers has a largest one: else there is a smallest set that has none.
LEMMA LargestOne ==
  ASSUME NEW S, IsFiniteSet(S), S \subseteq Int, S # {}
  PROVE  Max(S) \in S /\ \A y \in S : y <= Max(S)
<1>. DEFINE HasLargest(T) == \E x \in T : \A y \in T : y <= x
            Bad == {n \in Nat : \E T \in SUBSET S : T # {} /\ Cardinality(T) = n /\ ~HasLargest(T)}
<1>. HIDE DEF HasLargest
<1>1. Bad = {}
  <2>. SUFFICES ASSUME Bad # {}
                PROVE  FALSE
    OBVIOUS
  <2>1. PICK n \in Bad : \A m \in Bad : n <= m
    BY LeastNumber
  <2>2. PICK T \in SUBSET S : T # {} /\ Cardinality(T) = n /\ ~HasLargest(T)
    BY <2>1
  <2>3. PICK x \in T : TRUE
    BY <2>2
  <2>4. IsFiniteSet(T) /\ IsFiniteSet(T \ {x}) /\ Cardinality(T \ {x}) = n - 1
    BY <2>2, <2>3, FS_Subset, FS_RemoveElement
  <2>5. Cardinality(T \ {x}) \in Nat
    BY <2>4, FS_CardinalityType
  <2>6. T \ {x} = {} \/ HasLargest(T \ {x})
    <3>1. n - 1 \notin Bad
      BY <2>1, <2>4, <2>5
    <3>. QED  BY <2>4, <2>5, <3>1
  <2>7. HasLargest(T)
    <3>1. CASE T \ {x} = {}
      BY <2>3, <3>1 DEF HasLargest
    <3>2. CASE HasLargest(T \ {x})
      <4>1. PICK m \in T \ {x} : \A y \in T \ {x} : y <= m
        BY <3>2 DEF HasLargest
      <4>2. CASE x <= m
        BY <2>3, <4>1, <4>2 DEF HasLargest
      <4>3. CASE m < x
        BY <2>3, <4>1, <4>3 DEF HasLargest
      <4>. QED  BY <2>3, <4>1, <4>2, <4>3
    <3>. QED  BY <2>6, <3>1, <3>2
  <2>. QED  BY <2>2, <2>7
<1>2. Cardinality(S) \in Nat
  BY FS_CardinalityType
<1>3. HasLargest(S)
  BY <1>1, <1>2
<1>. QED  BY <1>3 DEF HasLargest, Max

LEMMA LastOne ==
  ASSUME NEW rows \in SUBSET Rows, IsFiniteSet(rows)
  PROVE  /\ LastNumber(rows) \in Nat
         /\ \A r \in rows : r.n <= LastNumber(rows)
         /\ rows # {} => \E r \in rows : r.n = LastNumber(rows)
<1>1. CASE rows = {}
  BY <1>1 DEF LastNumber
<1>2. CASE rows # {}
  <2>. DEFINE ns == {r.n : r \in rows}
  <2>1. ns \subseteq Nat /\ ns # {} /\ ns \subseteq Int
    BY <1>2 DEF Rows
  <2>2. IsFiniteSet(ns)
    <3>1. [r \in rows |-> r.n] \in Surjection(rows, ns)
      BY DEF Surjection
    <3>. QED  BY <3>1, FS_Surjection
  <2>3. Max(ns) \in ns /\ \A y \in ns : y <= Max(ns)
    BY <2>1, <2>2, LargestOne
  <2>4. LastNumber(rows) = Max(ns)
    BY <1>2 DEF LastNumber
  <2>. QED  BY <2>1, <2>3, <2>4
<1>. QED  BY <1>1, <1>2

LEMMA TwoAtLeast ==
  ASSUME NEW S, IsFiniteSet(S)
  PROVE  Cardinality(S) >= 2 <=> \E x, y \in S : x # y
<1>1. ASSUME Cardinality(S) >= 2
      PROVE  \E x, y \in S : x # y
  <2>1. S # {}
    BY <1>1, FS_EmptySet
  <2>2. PICK x \in S : TRUE
    BY <2>1
  <2>3. S # {x}
    BY <1>1, FS_Singleton
  <2>. QED  BY <2>2, <2>3
<1>2. ASSUME NEW x \in S, NEW y \in S, x # y
      PROVE  Cardinality(S) >= 2
  <2>1. IsFiniteSet({x, y}) /\ Cardinality({x, y}) = 2
    <3>1. IsFiniteSet({x}) /\ Cardinality({x}) = 1
      BY FS_Singleton
    <3>2. {x} \cup {y} = {x, y} /\ y \notin {x}
      BY <1>2
    <3>. QED  BY <3>1, <3>2, FS_AddElement
  <2>2. Cardinality({x, y}) <= Cardinality(S)
    BY <1>2, FS_Subset
  <2>. QED  BY <2>1, <2>2, FS_CardinalityType
<1>. QED  BY <1>1, <1>2

\* What is older than an old row is old, two rows are newer than any old one.
LEMMA OldOnes ==
  ASSUME NEW rows \in SUBSET Rows, IsFiniteSet(rows)
  PROVE  /\ Old(rows) \subseteq rows /\ IsFiniteSet(Old(rows))
         /\ \A r \in Old(rows), q \in rows : q.n < r.n => q \in Old(rows)
         /\ \A r \in Old(rows) : \E x, y \in rows : x # y /\ Before(r, x) /\ Before(r, y)
<1>1. Old(rows) \subseteq rows /\ IsFiniteSet(Old(rows))
  BY FS_Subset DEF Old
<1>2. ASSUME NEW r \in Old(rows), NEW q \in rows, q.n < r.n
      PROVE  q \in Old(rows)
  <2>1. PICK p \in rows : ~Before(p, r) /\ Length(Since(rows, p)) > MaxChars \div 2
    BY <1>2 DEF Old
  <2>2. r \in rows
    BY <1>1
  <2>3. ~Before(p, q)
    BY <1>2, <2>1, <2>2 DEF Before, Rows
  <2>4. After(rows, r) \subseteq After(rows, q)
    BY <1>2, <2>2 DEF After, Before, Rows
  <2>5. IsFiniteSet(After(rows, q)) /\ IsFiniteSet(After(rows, r))
    BY FS_Subset DEF After
  <2>6. Cardinality(After(rows, r)) <= Cardinality(After(rows, q))
    BY <2>4, <2>5, FS_Subset
  <2>7. Cardinality(After(rows, q)) >= 2
    BY <1>2, <2>5, <2>6, FS_CardinalityType DEF Old
  <2>. QED  BY <2>1, <2>3, <2>7 DEF Old
<1>3. ASSUME NEW r \in Old(rows)
      PROVE  \E x, y \in rows : x # y /\ Before(r, x) /\ Before(r, y)
  <2>1. IsFiniteSet(After(rows, r)) /\ Cardinality(After(rows, r)) >= 2
    BY FS_Subset DEF Old, After
  <2>2. PICK x, y \in After(rows, r) : x # y
    BY <2>1, TwoAtLeast
  <2>. QED  BY <2>2 DEF After
<1>. QED  BY <1>1, <1>2, <1>3

-----------------------------------------------------------------------------
(* What the calls and the table hold. *)

Stages == {"idle", "asking", "folding"} \cup Recording

\* TypeOK of the calls, and of the rest.
CallTypes ==
    /\ pc \in [Workers -> Stages]
    /\ thread \in [Workers -> Threads \cup {NoThread}]
    /\ number \in [Workers -> Nat]
    /\ upto \in [Workers -> Nat]
    /\ carried \in [Workers -> SUBSET Turns]

TableTypes ==
    /\ store \in [Threads -> SUBSET Rows]
    /\ \A t \in Threads : IsFiniteSet(store[t])
    /\ clock \in Nat
    /\ recorded \in [Threads -> SUBSET Turns]
    /\ spoiled \subseteq Threads /\ torn \subseteq Threads

OtherTypes ==
    /\ minted \subseteq Threads
    /\ failed \subseteq Processes \X Threads
    /\ asks \in 0..MaxAsks

\* A call that records or folds knows its thread; a turn about to be inserted has a number.
Placed ==
    \A w \in Workers :
        /\ pc[w] \in Recording \cup {"folding"} => thread[w] \in Threads
        /\ pc[w] \in {"userNumbered", "assistantNumbered"} => number[w] # 0
        /\ pc[w] = "folding" => upto[w] # 0

Types == CallTypes /\ TableTypes /\ OtherTypes /\ Placed

LEMMA InitTypes == Init => Types
<1>. SUFFICES ASSUME Init
              PROVE  Types
  OBVIOUS
<1>. USE ConversationsAssumption DEF Init
<1>1. CallTypes
  BY DEF CallTypes, Stages
<1>2. TableTypes
  BY FS_EmptySet DEF TableTypes
<1>3. OtherTypes /\ Placed
  BY DEF OtherTypes, Placed, Recording
<1>. QED  BY <1>1, <1>2, <1>3 DEF Types

\* A call that goes on without recording or folding: the actions of which only this matters.
LEMMA ReturnTypes ==
  ASSUME Types, NEW w \in Workers, Return(w)
  PROVE  /\ CallTypes /\ number' \in [Workers -> Nat] => CallTypes'
         /\ pc'[w] = "idle" /\ carried'[w] = {}
         /\ \A v \in Workers \ {w} : /\ pc'[v] = pc[v] /\ thread'[v] = thread[v]
                                     /\ upto'[v] = upto[v] /\ carried'[v] = carried[v]
  BY DEF Types, CallTypes, Stages, Return, Go

LEMMA GoFoldTypes ==
  ASSUME Types, NEW w \in Workers, thread[w] \in Threads,
         NEW rows \in SUBSET Rows, IsFiniteSet(rows), GoFold(w, rows),
         number' \in [Workers -> Nat]
  PROVE  /\ CallTypes'
         /\ \A v \in Workers \ {w} : /\ pc'[v] = pc[v] /\ thread'[v] = thread[v]
                                     /\ upto'[v] = upto[v] /\ carried'[v] = carried[v]
         /\ \/ pc'[w] = "idle" /\ carried'[w] = {}
            \/ /\ pc'[w] = "folding" /\ thread'[w] = thread[w]
               /\ PlansFold(rows) /\ upto'[w] # 0
               /\ upto'[w] = LastNumber(Old(rows)) /\ carried'[w] = Covered(Old(rows))
<1>1. CASE Return(w)
  BY <1>1, ReturnTypes DEF Types
<1>2. CASE ~Return(w)
  <2>1. /\ PlansFold(rows)
        /\ pc' = [pc EXCEPT ![w] = "folding"]
        /\ upto' = [upto EXCEPT ![w] = LastNumber(Old(rows))]
        /\ carried' = [carried EXCEPT ![w] = Covered(Old(rows))]
        /\ thread' = thread
    BY <1>2 DEF GoFold, Go
  <2>2. IsFiniteSet(Old(rows)) /\ Old(rows) \in SUBSET Rows /\ Old(rows) # {}
    BY <2>1, OldOnes, FS_EmptySet DEF PlansFold
  <2>3. LastNumber(Old(rows)) \in Nat /\ LastNumber(Old(rows)) # 0
    BY <2>2, LastOne DEF Rows
  <2>4. Covered(Old(rows)) \in SUBSET Turns
    BY <2>2 DEF Covered, Rows
  <2>. QED  BY <2>1, <2>3, <2>4 DEF Types, CallTypes, Stages
<1>. QED  BY <1>1, <1>2

\* Nothing of a call but its stage and its thread.
LEMMA AskingTypes ==
  ASSUME Types, NEW w \in Workers,
         \/ \E t \in Threads \cup {NoThread} : Ask(w, t)
         \/ \E t \in Threads : Answer(w, t)
         \/ Fail(w)
         \/ NoFold(w)
  PROVE  Types'
<1>1. TableTypes'
  BY DEF Ask, Answer, Fail, NoFold, ghostVars, Types, TableTypes
<1>2. CallTypes'
  BY ReturnTypes DEF Ask, Answer, Fail, NoFold, Go, Types, CallTypes, Stages, Recording
<1>3. OtherTypes'
  <2>1. CASE NoFold(w)
    <3>1. <<Process[w], thread[w]>> \in Processes \X Threads
      BY <2>1 DEF NoFold, Types, Placed, Processes
    <3>. QED  BY <2>1, <3>1 DEF NoFold, Types, OtherTypes
  <2>2. CASE \E t \in Threads \cup {NoThread} : Ask(w, t)
    BY <2>2, ConversationsAssumption DEF Ask, Types, OtherTypes
  <2>3. CASE Fail(w) \/ \E t \in Threads : Answer(w, t)
    BY <2>3 DEF Fail, Answer, Types, OtherTypes
  <2>. QED  BY <2>1, <2>2, <2>3
<1>4. Placed'
  <2>1. /\ \A v \in Workers \ {w} : /\ pc'[v] = pc[v] /\ thread'[v] = thread[v]
                                    /\ upto'[v] = upto[v] /\ number'[v] = number[v]
        /\ \/ pc'[w] \in {"idle", "asking"}
           \/ pc'[w] = "user" /\ thread'[w] \in Threads
    BY ReturnTypes DEF Ask, Answer, Fail, NoFold, Go, Types, CallTypes
  <2>. QED  BY <2>1 DEF Types, Placed, Recording
<1>. QED  BY <1>1, <1>2, <1>3, <1>4 DEF Types

LEMMA NumberTypes ==
  ASSUME Types, NEW w \in Workers, Number(w)
  PROVE  Types'
<1>1. thread[w] \in Threads
  BY DEF Number, Types, Placed, Recording
<1>2. LastNumber(store[thread[w]]) \in Nat
  BY <1>1, LastOne DEF Types, TableTypes
<1>3. CallTypes'
  BY <1>2 DEF Number, Go, Types, CallTypes, Stages, Recording
<1>4. Placed'
  <2>1. /\ thread' = thread /\ upto' = upto
        /\ pc'[w] \in {"userNumbered", "assistantNumbered"} /\ number'[w] # 0
        /\ \A v \in Workers \ {w} : number'[v] = number[v] /\ pc'[v] = pc[v]
    BY <1>2 DEF Number, Go, Types, CallTypes
  <2>. QED  BY <1>1, <2>1 DEF Types, Placed
<1>. QED  BY <1>3, <1>4 DEF Number, ghostVars, Types, TableTypes, OtherTypes

\* The row of a new turn, and the table with it.
NewTurn(w) == <<number[w], clock + 1>>
NewRow(w, size) ==
    [n |-> number[w], at |-> clock + 1,
     role |-> IF pc[w] = "userNumbered" THEN "user" ELSE "assistant",
     size |-> size, turns |-> {NewTurn(w)}]

LEMMA NewRowType ==
  ASSUME Types, NEW w \in Workers, NEW size \in Sizes,
         pc[w] \in {"userNumbered", "assistantNumbered"}
  PROVE  thread[w] \in Threads /\ NewTurn(w) \in Turns /\ NewRow(w, size) \in Rows
<1>1. thread[w] \in Threads /\ number[w] \in Nat \ {0} /\ clock + 1 \in Nat
  BY DEF Types, Placed, Recording, CallTypes, TableTypes
<1>2. NewTurn(w) \in Turns
  BY <1>1 DEF NewTurn, Turns
<1>3. NewRow(w, size) \in Rows
  BY <1>1, <1>2, ConversationsAssumption DEF NewRow, Rows
<1>. QED  BY <1>1, <1>2, <1>3

\* What an insertion does to the table: the other threads may be pruned by it.
LEMMA Inserted ==
  ASSUME Types, NEW w \in Workers, NEW size \in Sizes, Insert(w, size)
  PROVE  /\ \A t \in Threads :
              \/ store'[t] = {} /\ recorded'[t] = {}
              \/ /\ t = thread[w] /\ store'[t] = store[t] \cup {NewRow(w, size)}
                 /\ recorded'[t] = recorded[t] \cup {NewTurn(w)}
              \/ /\ t # thread[w] /\ store'[t] = store[t] /\ recorded'[t] = recorded[t]
         /\ clock' = clock + 1
         /\ store' = [t \in Threads |-> store'[t]] /\ recorded' = [t \in Threads |-> recorded'[t]]
         /\ \/ /\ pc[w] = "userNumbered" /\ pc' = [pc EXCEPT ![w] = "assistant"]
               /\ UNCHANGED <<thread, upto, carried>>
            \/ pc[w] = "assistantNumbered" /\ GoFold(w, store'[thread[w]])
<1>. DEFINE t0 == thread[w]
            s0 == [store EXCEPT ![t0] = @ \cup {NewRow(w, size)}]
<1>1. t0 \in Threads
  BY NewRowType DEF Insert
<1>2. store' = Prune(s0)
  BY DEF Insert, NewRow, NewTurn
<1>3. \A t \in Threads : store'[t] = s0[t] \/ store'[t] = {}
  BY <1>2 DEF Prune
<1>4. \A t \in Threads : s0[t] = IF t = t0 THEN store[t] \cup {NewRow(w, size)} ELSE store[t]
  BY <1>1 DEF Types, TableTypes
<1>5. \A t \in Threads :
          recorded'[t] = IF store'[t] = {} THEN {}
                         ELSE recorded[t] \cup IF t = t0 THEN {NewTurn(w)} ELSE {}
  BY DEF Insert, NewTurn
<1>6. \A t \in Threads : store'[t] = {} => recorded'[t] = {}
  BY <1>5
<1>7. ASSUME NEW t \in Threads
      PROVE  \/ store'[t] = {} /\ recorded'[t] = {}
             \/ /\ t = t0 /\ store'[t] = store[t] \cup {NewRow(w, size)}
                /\ recorded'[t] = recorded[t] \cup {NewTurn(w)}
             \/ /\ t # t0 /\ store'[t] = store[t] /\ recorded'[t] = recorded[t]
  <2>1. CASE store'[t] = {}
    BY <1>6, <2>1
  <2>2. CASE store'[t] # {}
    <3>1. /\ store'[t] = IF t = t0 THEN store[t] \cup {NewRow(w, size)} ELSE store[t]
          /\ recorded'[t] = recorded[t] \cup IF t = t0 THEN {NewTurn(w)} ELSE {}
      BY <1>3, <1>4, <1>5, <2>2
    <3>. QED  BY <3>1
  <2>. QED  BY <2>1, <2>2
<1>8. /\ clock' = clock + 1
      /\ store' = [t \in Threads |-> store'[t]] /\ recorded' = [t \in Threads |-> recorded'[t]]
  <2>1. /\ recorded' = [u \in Threads |->
                          IF store'[u] = {} THEN {}
                          ELSE recorded[u] \cup IF u = t0 THEN {NewTurn(w)} ELSE {}]
    BY DEF Insert, NewTurn
  <2>2. recorded' = [t \in Threads |-> recorded'[t]]
    BY <2>1
  <2>3. store' = [t \in Threads |-> store'[t]]
    BY <1>2 DEF Prune
  <2>. QED  BY <2>2, <2>3 DEF Insert
<1>9. \/ /\ pc[w] = "userNumbered" /\ pc' = [pc EXCEPT ![w] = "assistant"]
         /\ UNCHANGED <<thread, upto, carried>>
      \/ pc[w] = "assistantNumbered" /\ GoFold(w, store'[t0])
  BY DEF Insert, Go
<1>. QED  BY <1>7, <1>8, <1>9

LEMMA InsertTypes ==
  ASSUME Types, NEW w \in Workers, NEW size \in Sizes, Insert(w, size)
  PROVE  Types'
<1>1. thread[w] \in Threads /\ NewTurn(w) \in Turns /\ NewRow(w, size) \in Rows
  BY NewRowType DEF Insert
<1>2. ASSUME NEW t \in Threads
      PROVE  store'[t] \in SUBSET Rows /\ IsFiniteSet(store'[t]) /\ recorded'[t] \in SUBSET Turns
  <2>1. store[t] \in SUBSET Rows /\ IsFiniteSet(store[t]) /\ recorded[t] \in SUBSET Turns
    BY DEF Types, TableTypes
  <2>2. \/ store'[t] = {} /\ recorded'[t] = {}
        \/ /\ store'[t] = store[t] \cup {NewRow(w, size)}
           /\ recorded'[t] = recorded[t] \cup {NewTurn(w)}
        \/ store'[t] = store[t] /\ recorded'[t] = recorded[t]
    BY Inserted
  <2>3. IsFiniteSet({}) /\ IsFiniteSet(store[t] \cup {NewRow(w, size)})
    BY <2>1, FS_AddElement, FS_EmptySet
  <2>. QED  BY <1>1, <2>1, <2>2, <2>3
<1>3. TableTypes'
  <2>1. /\ store' = [t \in Threads |-> store'[t]] /\ recorded' = [t \in Threads |-> recorded'[t]]
    BY Inserted
  <2>2. spoiled' \subseteq Threads /\ torn' \subseteq Threads /\ clock' \in Nat
    BY DEF Insert, Spoils, Types, TableTypes
  <2>3. store' \in [Threads -> SUBSET Rows] /\ recorded' \in [Threads -> SUBSET Turns]
    BY <1>2, <2>1
  <2>. QED  BY <1>2, <2>2, <2>3 DEF TableTypes
<1>4. number' \in [Workers -> Nat] /\ \A v \in Workers \ {w} : number'[v] = number[v]
  BY DEF Insert, Types, CallTypes
<1>5. CASE pc' = [pc EXCEPT ![w] = "assistant"] /\ UNCHANGED <<thread, upto, carried>>
  <2>1. CallTypes'
    BY <1>4, <1>5 DEF Types, CallTypes, Stages, Recording
  <2>2. Placed'
    BY <1>1, <1>4, <1>5 DEF Types, CallTypes, Placed, Recording
  <2>. QED  BY <1>3, <2>1, <2>2 DEF Insert, Types, OtherTypes
<1>6. CASE GoFold(w, store'[thread[w]])
  <2>1. CallTypes' /\ Placed'
    BY <1>1, <1>2, <1>4, <1>6, GoFoldTypes DEF Types, CallTypes, Placed, Recording
  <2>. QED  BY <1>3, <2>1 DEF Insert, Types, OtherTypes
<1>. QED  BY <1>5, <1>6, Inserted

LEMMA InsertFailsTypes ==
  ASSUME Types, NEW w \in Workers, InsertFails(w)
  PROVE  Types'
<1>1. thread[w] \in Threads
  BY DEF InsertFails, Types, Placed, Recording
<1>2. TableTypes' /\ OtherTypes'
  BY <1>1 DEF InsertFails, Types, TableTypes, OtherTypes
<1>3. number' \in [Workers -> Nat] /\ \A v \in Workers \ {w} : number'[v] = number[v]
  BY DEF InsertFails, Types, CallTypes
<1>4. CASE pc' = [pc EXCEPT ![w] = "assistant"] /\ UNCHANGED <<thread, upto, carried>>
  <2>1. CallTypes'
    BY <1>3, <1>4 DEF Types, CallTypes, Stages, Recording
  <2>2. Placed'
    BY <1>1, <1>3, <1>4 DEF Types, CallTypes, Placed, Recording
  <2>. QED  BY <1>2, <2>1, <2>2 DEF Types
<1>5. CASE GoFold(w, store[thread[w]])
  <2>1. store[thread[w]] \in SUBSET Rows /\ IsFiniteSet(store[thread[w]])
    BY <1>1 DEF Types, TableTypes
  <2>2. CallTypes' /\ Placed'
    BY <1>1, <1>3, <1>5, <2>1, GoFoldTypes DEF Types, CallTypes, Placed, Recording
  <2>. QED  BY <1>2, <2>2 DEF Types
<1>. QED  BY <1>4, <1>5 DEF InsertFails, Go

LEMMA FoldTypes ==
  ASSUME Types, NEW w \in Workers, NEW size \in Sizes, Fold(w, size)
  PROVE  Types'
<1>. DEFINE t0 == thread[w]
            sum == [n |-> upto[w], at |-> clock + 1, role |-> "summary", size |-> size,
                    turns |-> carried[w]]
<1>1. t0 \in Threads /\ upto[w] \in Nat \ {0} /\ carried[w] \in SUBSET Turns /\ clock + 1 \in Nat
  BY DEF Fold, Types, Placed, CallTypes, TableTypes
<1>2. sum \in Rows
  BY <1>1, ConversationsAssumption DEF Rows
<1>3. store' = [store EXCEPT ![t0] = {r \in store[t0] : r.n > upto[w]} \cup {sum}]
  BY DEF Fold, Compacted
<1>4. IsFiniteSet({r \in store[t0] : r.n > upto[w]} \cup {sum})
  BY <1>1, FS_Subset, FS_AddElement DEF Types, TableTypes
<1>5. store' \in [Threads -> SUBSET Rows] /\ \A t \in Threads : IsFiniteSet(store'[t])
  BY <1>1, <1>2, <1>3, <1>4 DEF Types, TableTypes
<1>6. TableTypes' /\ OtherTypes'
  BY <1>1, <1>5 DEF Fold, ghostVars, Types, TableTypes, OtherTypes
<1>7. CallTypes' /\ Placed'
  BY ReturnTypes DEF Fold, Types, CallTypes, Placed, Recording
<1>. QED  BY <1>6, <1>7 DEF Types

LEMMA RestartTypes ==
  ASSUME Types, NEW p \in Processes, Restart(p)
  PROVE  Types'
<1>1. CallTypes'
  BY DEF Restart, Types, CallTypes, Stages
<1>2. \A w \in Workers : pc[w] \in Recording => thread[w] \in Threads
  BY DEF Types, Placed
<1>3. torn' \subseteq Threads
  BY <1>2 DEF Restart, Types, TableTypes
<1>4. TableTypes' /\ OtherTypes'
  BY <1>3 DEF Restart, Types, TableTypes, OtherTypes
<1>5. Placed'
  BY DEF Restart, Types, Placed, Recording
<1>. QED  BY <1>1, <1>4, <1>5 DEF Types

LEMMA NextTypes ==
  ASSUME Types, [Next]_vars
  PROVE  Types'
<1>1. ASSUME NEW p \in Processes, NEW t \in Threads, RetryFold(p, t)
      PROVE  Types'
  BY <1>1 DEF RetryFold, callVars, ghostVars, Types, CallTypes, TableTypes, OtherTypes, Placed
<1>2. CASE UNCHANGED vars
  BY <1>2 DEF vars, callVars, ghostVars, Types, CallTypes, TableTypes, OtherTypes, Placed
<1>. QED  BY <1>1, <1>2, AskingTypes, NumberTypes, InsertTypes, InsertFailsTypes, FoldTypes,
             RestartTypes DEF Next, Step

\* Whatever calls, folds and processes meet in a thread: TypeOK (server._run_lane_maybe_convo,
\* telemetry.convo_append, convo_compact). Turns are numbered from 1, also the summaries.
THEOREM ThreadsTyped == Spec => []TypeOK
<1>1. Types => TypeOK
  BY DEF Types, CallTypes, Stages, TableTypes, OtherTypes, TypeOK
<1>. QED  BY InitTypes, NextTypes, <1>1, PTL DEF Spec

-----------------------------------------------------------------------------
(* Nothing is forgotten. *)

\* No turn is in a row, or in the plan of a fold, that is numbered below it.
Within ==
    /\ \A t \in Threads : \A r \in store[t] : \A x \in r.turns : x[1] <= r.n
    /\ \A w \in Workers : \A x \in carried[w] : x[1] <= upto[w]

Numbered(t) == \A q, r \in store[t] : q.n = r.n => q = r

\* A turn is in a row, and one that is numbered no later than a row is in that row or before it.
Held(t) ==
    /\ \A x \in recorded[t] : \E r \in store[t] : x[1] <= r.n
    /\ \A x \in recorded[t], r \in store[t] :
          x[1] <= r.n => \E q \in store[t] : q.n <= r.n /\ x \in q.turns

\* A fold carries every turn it will delete, whatever was recorded or folded since it was planned,
\* and there are two rows it will not delete.
Carries(w, t) == \A x \in recorded[t] : x[1] <= upto[w] => x \in carried[w]
Spares(w, t) == \E q, r \in store[t] : q # r /\ q.n > upto[w] /\ r.n > upto[w]
Planned(t) ==
    \A w \in Workers : pc[w] = "folding" /\ thread[w] = t => Carries(w, t) /\ Spares(w, t)

Reliable == \A t \in Threads \ spoiled : Numbered(t) /\ Held(t) /\ Planned(t)

LEMMA InitReliable == Init => Within /\ Reliable
  BY DEF Init, Within, Reliable, Numbered, Held, Planned

\* A step that leaves the rows alone and plans no fold.
LEMMA Untouched ==
  ASSUME Within, Reliable, UNCHANGED <<store, recorded>>, spoiled \subseteq spoiled',
         \A w \in Workers :
            \/ pc'[w] # "folding" /\ carried'[w] = {}
            \/ /\ pc'[w] = "folding" => pc[w] = "folding"
               /\ thread'[w] = thread[w] \/ pc'[w] # "folding"
               /\ upto'[w] = upto[w] /\ carried'[w] = carried[w]
  PROVE  Within' /\ Reliable'
<1>1. Within'
  BY DEF Within
<1>2. ASSUME NEW t \in Threads \ spoiled'
      PROVE  Numbered(t)' /\ Held(t)' /\ Planned(t)'
  <2>1. Numbered(t) /\ Held(t) /\ Planned(t)
    BY <1>2 DEF Reliable
  <2>2. Numbered(t)' /\ Held(t)'
    BY <2>1 DEF Numbered, Held
  <2>3. ASSUME NEW w \in Workers, pc'[w] = "folding", thread'[w] = t
        PROVE  Carries(w, t)' /\ Spares(w, t)'
    <3>1. pc[w] = "folding" /\ thread[w] = t /\ upto'[w] = upto[w] /\ carried'[w] = carried[w]
      BY <2>3
    <3>. QED  BY <2>1, <3>1 DEF Planned, Carries, Spares
  <2>. QED  BY <2>2, <2>3 DEF Planned
<1>. QED  BY <1>1, <1>2 DEF Reliable

\* The plan of a fold covers what it deletes and spares two rows, for any rows that are reliable.
LEMMA GoodPlan ==
  ASSUME NEW rows \in SUBSET Rows, IsFiniteSet(rows), PlansFold(rows),
         NEW turns \in SUBSET Turns,
         \A q, r \in rows : q.n = r.n => q = r,
         \A x \in turns, r \in rows : x[1] <= r.n => \E q \in rows : q.n <= r.n /\ x \in q.turns
  PROVE  /\ \A x \in turns : x[1] <= LastNumber(Old(rows)) => x \in Covered(Old(rows))
         /\ \E q, r \in rows : q # r /\ q.n > LastNumber(Old(rows)) /\ r.n > LastNumber(Old(rows))
<1>1. Old(rows) \in SUBSET Rows /\ IsFiniteSet(Old(rows)) /\ Old(rows) # {} /\ Old(rows) \subseteq rows
  BY OldOnes, FS_EmptySet DEF PlansFold
<1>2. PICK o \in Old(rows) : o.n = LastNumber(Old(rows))
  BY <1>1, LastOne
<1>3. ASSUME NEW x \in turns, x[1] <= o.n
      PROVE  x \in Covered(Old(rows))
  <2>1. PICK q \in rows : q.n <= o.n /\ x \in q.turns
    BY <1>1, <1>3
  <2>2. q.n < o.n \/ q.n = o.n
    BY <2>1, <1>1 DEF Rows
  <2>3. q \in Old(rows)
    BY <1>1, <2>2, OldOnes
  <2>. QED  BY <2>1, <2>3 DEF Covered
<1>4. \E q, r \in rows : q # r /\ q.n > o.n /\ r.n > o.n
  <2>1. PICK q, r \in rows : q # r /\ Before(o, q) /\ Before(o, r)
    BY OldOnes
  <2>2. o \in rows /\ o # q /\ o # r
    BY <1>1, <2>1 DEF Before, Rows
  <2>3. q.n > o.n /\ r.n > o.n
    BY <1>1, <2>1, <2>2 DEF Before, Rows
  <2>. QED  BY <2>1, <2>3
<1>. QED  BY <1>2, <1>3, <1>4

LEMMA GoFoldReliable ==
  ASSUME Types, NEW w \in Workers, NEW t \in Threads, t = thread[w],
         NEW rows \in SUBSET Rows, IsFiniteSet(rows), GoFold(w, rows),
         number' \in [Workers -> Nat],
         rows = store'[t], recorded'[t] \in SUBSET Turns,
         Within, \A r \in rows : \A x \in r.turns : x[1] <= r.n
  PROVE  /\ \A v \in Workers : \A x \in carried'[v] : x[1] <= upto'[v]
         /\ Numbered(t)' /\ Held(t)' /\ pc'[w] = "folding"
               => Carries(w, t)' /\ Spares(w, t)'
<1>. DEFINE o == LastNumber(Old(rows))
<1>1. /\ \A v \in Workers \ {w} : upto'[v] = upto[v] /\ carried'[v] = carried[v]
      /\ \/ pc'[w] = "idle" /\ carried'[w] = {}
         \/ /\ pc'[w] = "folding" /\ thread'[w] = t /\ PlansFold(rows)
            /\ upto'[w] = o /\ carried'[w] = Covered(Old(rows))
  BY GoFoldTypes
<1>2. ASSUME NEW x \in Covered(Old(rows))
      PROVE  x[1] <= o
  <2>1. PICK r \in Old(rows) : x \in r.turns
    BY <1>2 DEF Covered
  <2>2. Old(rows) \in SUBSET Rows /\ IsFiniteSet(Old(rows)) /\ r \in rows
    BY OldOnes
  <2>3. r.n <= o /\ o \in Nat
    BY <2>2, LastOne
  <2>4. x[1] <= r.n /\ x[1] \in Nat /\ r.n \in Nat
    BY <2>1, <2>2 DEF Rows, Turns
  <2>. QED  BY <2>3, <2>4
<1>3. \A v \in Workers : \A x \in carried'[v] : x[1] <= upto'[v]
  BY <1>1, <1>2 DEF Within
<1>4. ASSUME Numbered(t)', Held(t)', pc'[w] = "folding"
      PROVE  Carries(w, t)' /\ Spares(w, t)'
  <2>1. /\ \A q, r \in rows : q.n = r.n => q = r
        /\ \A x \in recorded'[t], r \in rows :
              x[1] <= r.n => \E q \in rows : q.n <= r.n /\ x \in q.turns
    BY <1>4 DEF Numbered, Held
  <2>2. /\ \A x \in recorded'[t] : x[1] <= o => x \in Covered(Old(rows))
        /\ \E q, r \in rows : q # r /\ q.n > o /\ r.n > o
    BY <1>1, <1>4, <2>1, GoodPlan
  <2>3. upto'[w] = o /\ carried'[w] = Covered(Old(rows))
    BY <1>1, <1>4
  <2>4. Carries(w, t)'
    BY <2>2, <2>3 DEF Carries
  <2>5. Spares(w, t)'
    BY <2>2, <2>3 DEF Spares
  <2>. QED  BY <2>4, <2>5
<1>. QED  BY <1>3, <1>4

\* A row with the next number changes nothing of the rows before it.
LEMMA RowAdded ==
  ASSUME Types, NEW w \in Workers, NEW size \in Sizes, Insert(w, size),
         NEW t \in Threads, t = thread[w], number[w] = LastNumber(store[t]) + 1,
         store'[t] = store[t] \cup {NewRow(w, size)},
         recorded'[t] = recorded[t] \cup {NewTurn(w)},
         Numbered(t), Held(t)
  PROVE  /\ \A r \in store[t] : r.n < NewRow(w, size).n
         /\ Numbered(t)' /\ Held(t)'
         /\ \A v \in Workers : Carries(v, t) /\ Spares(v, t) =>
               /\ \A x \in recorded'[t] : x[1] <= upto[v] => x \in carried[v]
               /\ \E q, r \in store'[t] : q # r /\ q.n > upto[v] /\ r.n > upto[v]
<1>. DEFINE row == NewRow(w, size)
<1>1. /\ store[t] \in SUBSET Rows /\ IsFiniteSet(store[t]) /\ recorded[t] \in SUBSET Turns
      /\ LastNumber(store[t]) \in Nat
      /\ row.n = number[w] /\ row.turns = {NewTurn(w)} /\ NewTurn(w)[1] = number[w]
      /\ row \in Rows /\ number[w] \in Nat
  BY LastOne, NewRowType DEF Insert, Types, TableTypes, CallTypes, NewRow, NewTurn
<1>2. \A r \in store[t] : r.n < row.n /\ r.n \in Nat
  BY <1>1, LastOne DEF Rows
<1>3. Numbered(t)'
  BY <1>1, <1>2 DEF Numbered
<1>4. ASSUME NEW x \in recorded'[t]
      PROVE  \E r \in store'[t] : x[1] <= r.n
  BY <1>1, <1>4 DEF Held
<1>5. ASSUME NEW x \in recorded'[t], NEW r \in store'[t], x[1] <= r.n
      PROVE  \E q \in store'[t] : q.n <= r.n /\ x \in q.turns
  <2>1. CASE x = NewTurn(w)
    <3>1. r = row
      BY <1>1, <1>2, <1>5, <2>1
    <3>. QED  BY <1>1, <2>1, <3>1
  <2>2. CASE x \in recorded[t]
    <3>1. CASE r \in store[t]
      BY <1>5, <2>2, <3>1 DEF Held
    <3>2. CASE r = row
      <4>1. PICK r1 \in store[t] : x[1] <= r1.n
        BY <2>2 DEF Held
      <4>2. PICK q \in store[t] : q.n <= r1.n /\ x \in q.turns
        BY <2>2, <4>1 DEF Held
      <4>3. q.n <= row.n
        BY <1>1, <1>2
      <4>. QED  BY <3>2, <4>2, <4>3
    <3>. QED  BY <3>1, <3>2
  <2>. QED  BY <2>1, <2>2
<1>6. Held(t)'
  BY <1>4, <1>5 DEF Held
<1>7. ASSUME NEW v \in Workers, Carries(v, t), Spares(v, t)
      PROVE  /\ \A x \in recorded'[t] : x[1] <= upto[v] => x \in carried[v]
             /\ \E q, r \in store'[t] : q # r /\ q.n > upto[v] /\ r.n > upto[v]
  <2>1. PICK q, r \in store[t] : q # r /\ q.n > upto[v] /\ r.n > upto[v]
    BY <1>7 DEF Spares
  <2>2. NewTurn(w)[1] > upto[v]
    <3>1. upto[v] \in Nat
      BY DEF Types, CallTypes
    <3>. QED  BY <1>1, <1>2, <2>1, <3>1
  <2>3. \A x \in recorded'[t] : x[1] <= upto[v] => x \in carried[v]
    <3>1. upto[v] \in Nat
      BY DEF Types, CallTypes
    <3>. QED  BY <1>1, <1>7, <2>2, <3>1 DEF Carries
  <2>. QED  BY <2>1, <2>3
<1>. QED  BY <1>2, <1>3, <1>6, <1>7

LEMMA InsertReliable ==
  ASSUME Types, Within, Reliable, NEW w \in Workers, NEW size \in Sizes, Insert(w, size)
  PROVE  Within' /\ Reliable'
<1>. DEFINE t0 == thread[w]
<1>1. t0 \in Threads /\ NewRow(w, size) \in Rows /\ Types'
  BY NewRowType, InsertTypes DEF Insert
<1>2. \A t \in Threads : \A r \in store'[t] : \A x \in r.turns : x[1] <= r.n
  <2>1. \A x \in NewRow(w, size).turns : x[1] <= NewRow(w, size).n
    BY NewRowType DEF Insert, NewRow, NewTurn, Rows
  <2>2. ASSUME NEW t \in Threads, NEW r \in store'[t]
        PROVE  r \in store[t] \/ r = NewRow(w, size)
    BY <2>2, Inserted
  <2>. QED  BY <2>1, <2>2 DEF Within
<1>3. /\ \A v \in Workers \ {w} : /\ pc'[v] = pc[v] /\ thread'[v] = thread[v]
                                  /\ upto'[v] = upto[v] /\ carried'[v] = carried[v]
      /\ thread'[w] # t0 => pc'[w] # "folding"
      /\ number' \in [Workers -> Nat]
      /\ store'[t0] \in SUBSET Rows /\ IsFiniteSet(store'[t0]) /\ recorded'[t0] \in SUBSET Turns
  <2>1. number' \in [Workers -> Nat] /\ store'[t0] \in SUBSET Rows /\ IsFiniteSet(store'[t0])
        /\ recorded'[t0] \in SUBSET Turns
    BY <1>1 DEF Types, CallTypes, TableTypes
  <2>2. CASE pc' = [pc EXCEPT ![w] = "assistant"] /\ UNCHANGED <<thread, upto, carried>>
    BY <2>1, <2>2 DEF Types, CallTypes
  <2>3. CASE GoFold(w, store'[t0])
    BY <1>1, <2>1, <2>3, GoFoldTypes
  <2>. QED  BY <2>2, <2>3, Inserted
<1>4. Within'
  <2>1. CASE pc' = [pc EXCEPT ![w] = "assistant"] /\ UNCHANGED <<thread, upto, carried>>
    BY <1>2, <2>1 DEF Within
  <2>2. CASE GoFold(w, store'[t0])
    BY <1>1, <1>2, <1>3, <2>2, GoFoldReliable DEF Within
  <2>. QED  BY <2>1, <2>2, Inserted
<1>5. ASSUME NEW t \in Threads \ spoiled'
      PROVE  Numbered(t)' /\ Held(t)' /\ Planned(t)'
  <2>1. /\ t \notin spoiled /\ Numbered(t) /\ Held(t) /\ Planned(t)
        /\ t = t0 => number[w] = LastNumber(store[t]) + 1
        /\ store[t] # {} /\ store'[t] = {} =>
              \A v \in Workers \ {w} : ~(pc[v] = "folding" /\ thread[v] = t)
    <3>1. t \notin spoiled /\ t \notin Spoils(w, store')
      BY <1>5 DEF Insert
    <3>. QED  BY <3>1 DEF Reliable, Spoils
  <2>2. pc[w] # "folding"
    BY DEF Insert
  <2>3. /\ Numbered(t)' /\ Held(t)'
        /\ \A v \in Workers \ {w} : pc[v] = "folding" /\ thread[v] = t =>
              /\ \A x \in recorded'[t] : x[1] <= upto[v] => x \in carried[v]
              /\ \E q, r \in store'[t] : q # r /\ q.n > upto[v] /\ r.n > upto[v]
    <3>1. CASE store'[t] = {} /\ recorded'[t] = {}
      <4>1. \A v \in Workers : pc[v] = "folding" /\ thread[v] = t => store[t] # {}
        BY <2>1 DEF Planned, Spares
      <4>. QED  BY <2>1, <3>1, <4>1 DEF Numbered, Held
    <3>2. CASE /\ t = t0 /\ store'[t] = store[t] \cup {NewRow(w, size)}
               /\ recorded'[t] = recorded[t] \cup {NewTurn(w)}
      BY <2>1, <3>2, RowAdded DEF Planned
    <3>3. CASE store'[t] = store[t] /\ recorded'[t] = recorded[t]
      BY <2>1, <3>3 DEF Numbered, Held, Planned, Carries, Spares
    <3>. QED  BY <3>1, <3>2, <3>3, Inserted
  <2>4. ASSUME NEW v \in Workers, pc'[v] = "folding", thread'[v] = t
        PROVE  Carries(v, t)' /\ Spares(v, t)'
    <3>1. CASE v # w
      BY <1>3, <2>3, <2>4, <3>1 DEF Carries, Spares
    <3>2. CASE v = w
      <4>1. t = t0 /\ GoFold(w, store'[t0])
        <5>1. pc' # [pc EXCEPT ![w] = "assistant"]
          BY <2>4, <3>2 DEF Types, CallTypes
        <5>. QED  BY <1>3, <2>4, <3>2, <5>1, Inserted
      <4>. QED  BY <1>1, <1>2, <1>3, <2>3, <2>4, <3>2, <4>1, GoFoldReliable
    <3>. QED  BY <3>1, <3>2
  <2>. QED  BY <2>3, <2>4 DEF Planned
<1>. QED  BY <1>4, <1>5 DEF Reliable

LEMMA InsertFailsReliable ==
  ASSUME Types, Within, Reliable, NEW w \in Workers, InsertFails(w)
  PROVE  Within' /\ Reliable'
<1>1. CASE pc' = [pc EXCEPT ![w] = "assistant"] /\ UNCHANGED <<thread, upto, carried>>
  BY <1>1, Untouched DEF InsertFails, Types, CallTypes
<1>2. CASE GoFold(w, store[thread[w]])
  <2>. DEFINE t0 == thread[w]
  <2>1. /\ t0 \in Threads /\ store[t0] \in SUBSET Rows /\ IsFiniteSet(store[t0])
        /\ recorded[t0] \in SUBSET Turns /\ number' \in [Workers -> Nat]
        /\ UNCHANGED <<store, recorded, spoiled>>
    BY DEF InsertFails, Types, Placed, Recording, TableTypes, CallTypes
  <2>2. \A v \in Workers \ {w} : /\ pc'[v] = pc[v] /\ thread'[v] = thread[v]
                                 /\ upto'[v] = upto[v] /\ carried'[v] = carried[v]
    BY <1>2, <2>1, GoFoldTypes
  <2>3. Within'
    BY <1>2, <2>1, GoFoldReliable DEF Within
  <2>4. ASSUME NEW t \in Threads \ spoiled'
        PROVE  Numbered(t)' /\ Held(t)' /\ Planned(t)'
    <3>1. Numbered(t) /\ Held(t) /\ Planned(t)
      BY <2>1, <2>4 DEF Reliable
    <3>2. Numbered(t)' /\ Held(t)'
      BY <2>1, <3>1 DEF Numbered, Held
    <3>3. ASSUME NEW v \in Workers, pc'[v] = "folding", thread'[v] = t
          PROVE  Carries(v, t)' /\ Spares(v, t)'
      <4>1. CASE v # w
        BY <2>1, <2>2, <3>1, <3>3, <4>1 DEF Planned, Carries, Spares
      <4>2. CASE v = w
        <5>1. t = t0
          BY <1>2, <2>1, <3>3, <4>2, GoFoldTypes
        <5>. QED  BY <1>2, <2>1, <3>2, <3>3, <4>2, <5>1, GoFoldReliable DEF Within
      <4>. QED  BY <4>1, <4>2
    <3>. QED  BY <3>2, <3>3 DEF Planned
  <2>. QED  BY <2>3, <2>4 DEF Reliable
<1>. QED  BY <1>1, <1>2 DEF InsertFails, Go

\* What a fold makes of the rows of its thread.
Summary(w, size) ==
    [n |-> upto[w], at |-> clock + 1, role |-> "summary", size |-> size, turns |-> carried[w]]

LEMMA Folded ==
  ASSUME Types, NEW w \in Workers, NEW size \in Sizes, Fold(w, size), NEW t \in Threads
  PROVE  /\ t # thread[w] => store'[t] = store[t]
         /\ t = thread[w] => store'[t] = {r \in store[t] : r.n > upto[w]} \cup {Summary(w, size)}
         /\ Summary(w, size).n = upto[w] /\ Summary(w, size).turns = carried[w]
         /\ Summary(w, size).role = "summary"
         /\ upto[w] \in Nat /\ store[t] \in SUBSET Rows /\ recorded[t] \in SUBSET Turns
         /\ recorded' = recorded /\ spoiled' = spoiled
         /\ pc[w] = "folding" /\ pc'[w] = "idle"
         /\ \A v \in Workers \ {w} : /\ pc'[v] = pc[v] /\ thread'[v] = thread[v]
                                     /\ upto'[v] = upto[v] /\ carried'[v] = carried[v]
<1>1. thread[w] \in Threads
  BY DEF Fold, Types, Placed
<1>2. store' = [store EXCEPT ![thread[w]] = {r \in store[thread[w]] : r.n > upto[w]}
                                                 \cup {Summary(w, size)}]
  BY DEF Fold, Compacted, Summary
<1>3. /\ Summary(w, size).n = upto[w] /\ Summary(w, size).turns = carried[w]
      /\ Summary(w, size).role = "summary"
      /\ upto[w] \in Nat /\ store[t] \in SUBSET Rows /\ recorded[t] \in SUBSET Turns
  BY DEF Summary, Types, CallTypes, TableTypes
<1>4. /\ t # thread[w] => store'[t] = store[t]
      /\ t = thread[w] => store'[t] = {r \in store[t] : r.n > upto[w]} \cup {Summary(w, size)}
  BY <1>1, <1>2 DEF Types, TableTypes
<1>. QED  BY <1>3, <1>4, ReturnTypes DEF Fold, ghostVars

LEMMA FoldReliable ==
  ASSUME Types, Within, Reliable, NEW w \in Workers, NEW size \in Sizes, Fold(w, size)
  PROVE  Within' /\ Reliable'
<1>. DEFINE u == upto[w]
            sum == Summary(w, size)
<1>1. \A t \in Threads : \A r \in store'[t] : \A x \in r.turns : x[1] <= r.n
  BY Folded DEF Within
<1>2. Within'
  <2>1. \A v \in Workers : carried'[v] = {} \/ (carried'[v] = carried[v] /\ upto'[v] = upto[v])
    BY ReturnTypes DEF Fold
  <2>. QED  BY <1>1, <2>1 DEF Within
<1>3. ASSUME NEW t \in Threads \ spoiled'
      PROVE  Numbered(t)' /\ Held(t)' /\ Planned(t)'
  <2>1. Numbered(t) /\ Held(t) /\ Planned(t)
    BY <1>3, Folded DEF Reliable
  <2>2. CASE t # thread[w]
    <3>1. store'[t] = store[t] /\ recorded'[t] = recorded[t]
      BY <2>2, Folded
    <3>. QED  BY <2>1, <3>1, Folded DEF Numbered, Held, Planned, Carries, Spares
  <2>3. CASE t = thread[w]
    <3>1. /\ store'[t] = {r \in store[t] : r.n > u} \cup {sum}
          /\ sum.n = u /\ sum.turns = carried[w] /\ u \in Nat
          /\ recorded'[t] = recorded[t] /\ recorded[t] \in SUBSET Turns
          /\ \A r \in store[t] : r.n \in Nat
      BY <2>3, Folded DEF Rows
    <3>2. Carries(w, t) /\ Spares(w, t)
      BY <2>1, <2>3, Folded DEF Planned
    <3>3. Numbered(t)'
      BY <2>1, <3>1 DEF Numbered
    <3>4. ASSUME NEW x \in recorded[t]
          PROVE  /\ \E r \in store'[t] : x[1] <= r.n
                 /\ \A r \in store'[t] :
                       x[1] <= r.n => \E q \in store'[t] : q.n <= r.n /\ x \in q.turns
      <4>1. x[1] \in Nat
        BY <3>1, <3>4 DEF Turns
      <4>2. \E r \in store'[t] : x[1] <= r.n
        <5>1. PICK r \in store[t] : x[1] <= r.n
          BY <2>1, <3>4 DEF Held
        <5>2. CASE r.n > u
          BY <3>1, <5>1, <5>2
        <5>3. CASE r.n <= u
          BY <3>1, <4>1, <5>1, <5>3
        <5>. QED  BY <3>1, <5>2, <5>3
      <4>3. ASSUME NEW r \in store'[t], x[1] <= r.n
            PROVE  \E q \in store'[t] : q.n <= r.n /\ x \in q.turns
        <5>1. CASE x[1] <= u
          <6>1. sum \in store'[t] /\ x \in sum.turns /\ sum.n <= r.n
            BY <3>1, <3>2, <3>4, <5>1 DEF Carries
          <6>. QED  BY <6>1
        <5>2. CASE x[1] > u
          <6>1. r \in store[t]
            BY <3>1, <4>1, <4>3, <5>2
          <6>2. PICK q \in store[t] : q.n <= r.n /\ x \in q.turns
            BY <2>1, <3>4, <4>3, <6>1 DEF Held
          <6>3. x[1] <= q.n
            BY <6>2 DEF Within
          <6>4. q \in store'[t]
            BY <3>1, <4>1, <5>2, <6>2, <6>3
          <6>. QED  BY <6>2, <6>4
        <5>. QED  BY <3>1, <4>1, <5>1, <5>2
      <4>. QED  BY <4>2, <4>3
    <3>5. Held(t)'
      BY <3>1, <3>4 DEF Held
    <3>6. ASSUME NEW v \in Workers, pc'[v] = "folding", thread'[v] = t
          PROVE  Carries(v, t)' /\ Spares(v, t)'
      <4>1. v # w /\ pc[v] = "folding" /\ thread[v] = t /\ upto'[v] = upto[v] /\ carried'[v] = carried[v]
        BY <3>6, Folded
      <4>2. Carries(v, t) /\ Spares(v, t) /\ upto[v] \in Nat
        BY <2>1, <4>1 DEF Planned, Types, CallTypes
      <4>3. Carries(v, t)'
        BY <3>1, <4>1, <4>2 DEF Carries
      <4>4. Spares(v, t)'
        <5>1. PICK q, r \in store[t] : q # r /\ q.n > upto[v] /\ r.n > upto[v]
          BY <4>2 DEF Spares
        <5>2. PICK q1, r1 \in store[t] : q1 # r1 /\ q1.n > u /\ r1.n > u
          BY <3>2 DEF Spares
        <5>3. CASE q.n > u /\ r.n > u
          BY <3>1, <4>1, <5>1, <5>3 DEF Spares
        <5>4. CASE q.n <= u \/ r.n <= u
          <6>1. upto[v] < u
            BY <3>1, <4>2, <5>1, <5>4
          <6>2. q1.n > upto[v] /\ r1.n > upto[v]
            BY <3>1, <4>2, <5>2, <6>1
          <6>. QED  BY <3>1, <4>1, <5>2, <6>2 DEF Spares
        <5>. QED  BY <3>1, <5>3, <5>4
      <4>. QED  BY <4>3, <4>4
    <3>. QED  BY <3>3, <3>5, <3>6 DEF Planned
  <2>. QED  BY <2>2, <2>3
<1>. QED  BY <1>2, <1>3 DEF Reliable

LEMMA NextReliable ==
  ASSUME Types, Within, Reliable, [Next]_vars
  PROVE  Within' /\ Reliable'
<1>1. ASSUME NEW w \in Workers,
             \/ \E t \in Threads \cup {NoThread} : Ask(w, t)
             \/ \E t \in Threads : Answer(w, t)
             \/ Number(w)
      PROVE  Within' /\ Reliable'
  BY <1>1, Untouched DEF Ask, Answer, Number, Go, ghostVars, Types, CallTypes
<1>2. ASSUME NEW w \in Workers, Fail(w) \/ NoFold(w)
      PROVE  Within' /\ Reliable'
  <2>1. /\ UNCHANGED <<store, recorded, spoiled>> /\ pc'[w] = "idle" /\ carried'[w] = {}
        /\ \A v \in Workers \ {w} : /\ pc'[v] = pc[v] /\ thread'[v] = thread[v]
                                    /\ upto'[v] = upto[v] /\ carried'[v] = carried[v]
    BY <1>2, ReturnTypes DEF Fail, NoFold, ghostVars
  <2>. QED  BY <2>1, Untouched
<1>3. ASSUME NEW p \in Processes, Restart(p)
      PROVE  Within' /\ Reliable'
  <2>1. \A w \in Workers : \/ pc'[w] = "idle" /\ carried'[w] = {}
                           \/ /\ pc'[w] = pc[w] /\ thread'[w] = thread[w]
                              /\ upto'[w] = upto[w] /\ carried'[w] = carried[w]
    BY <1>3 DEF Restart
  <2>. QED  BY <1>3, <2>1, Untouched DEF Restart
<1>4. CASE (\E p \in Processes, t \in Threads : RetryFold(p, t)) \/ UNCHANGED vars
  BY <1>4, Untouched DEF RetryFold, vars, callVars, ghostVars
<1>. QED  BY <1>1, <1>2, <1>3, <1>4, InsertReliable, InsertFailsReliable, FoldReliable DEF Next, Step

LEMMA ReliableInvariant == Spec => [](Types /\ Within /\ Reliable)
<1>1. Types /\ Within /\ Reliable /\ [Next]_vars => (Types /\ Within /\ Reliable)'
  BY NextTypes, NextReliable
<1>. QED  BY InitTypes, InitReliable, <1>1, PTL DEF Spec

\* However folds, new turns, pruning, failures and restarts interleave, for any budget and any
\* number of calls, processes and threads: NothingForgotten (telemetry.convo_compact,
\* conversations.compaction_plan).
THEOREM TurnsAreKept == Spec => []NothingForgotten
<1>1. ASSUME Types, Within, Reliable
      PROVE  NothingForgotten
  <2>1. ASSUME NEW t \in Threads \ spoiled, NEW x \in recorded[t]
        PROVE  x \in Covered(store[t])
    <3>1. Held(t)
      BY <1>1 DEF Reliable
    <3>2. PICK r \in store[t] : x[1] <= r.n
      BY <3>1 DEF Held
    <3>3. PICK q \in store[t] : x \in q.turns
      BY <3>1, <3>2 DEF Held
    <3>. QED  BY <3>3 DEF Covered
  <2>. QED  BY <2>1 DEF NothingForgotten
<1>. QED  BY <1>1, ReliableInvariant, PTL

\* Whatever was recorded or folded since a fold was planned: FoldKeepsNewest (compaction_plan's
\* `len(turns) - 2`, and the await between the plan and apply_compaction).
THEOREM NewestAreKept == Spec => FoldKeepsNewest
<1>1. ASSUME Types, Reliable, NEW w \in Workers, NEW size \in Sizes, Fold(w, size),
             NEW t \in Threads \ spoiled
      PROVE  Newest(store[t]) \subseteq store'[t]
  <2>1. CASE t # thread[w]
    BY <1>1, <2>1, Folded DEF Newest
  <2>2. CASE t = thread[w]
    <3>1. PICK q, r \in store[t] : q # r /\ q.n > upto[w] /\ r.n > upto[w]
      BY <1>1, <2>2, Folded DEF Reliable, Planned, Spares
    <3>2. ASSUME NEW x \in Newest(store[t]), x.n <= upto[w]
          PROVE  FALSE
      <4>1. x \in store[t] /\ Cardinality(After(store[t], x)) < 2
        BY <3>2 DEF Newest
      <4>2. store[t] \in SUBSET Rows /\ IsFiniteSet(store[t]) /\ upto[w] \in Nat
        BY <1>1 DEF Types, TableTypes, CallTypes
      <4>3. {q, r} \subseteq After(store[t], x)
        BY <3>1, <3>2, <4>1, <4>2 DEF After, Before, Rows
      <4>4. IsFiniteSet(After(store[t], x))
        BY <4>2, FS_Subset DEF After
      <4>5. Cardinality(After(store[t], x)) >= 2
        BY <3>1, <4>3, <4>4, TwoAtLeast
      <4>. QED  BY <4>1, <4>4, <4>5, FS_CardinalityType
    <3>3. Newest(store[t]) \subseteq store[t] /\ \A x \in store[t] : x.n \in Nat
      BY <1>1 DEF Newest, Types, TableTypes, Rows
    <3>4. {x \in store[t] : x.n > upto[w]} \subseteq store'[t] /\ upto[w] \in Nat
      BY <1>1, <2>2, Folded
    <3>. QED  BY <3>2, <3>3, <3>4
  <2>. QED  BY <2>1, <2>2
<1>2. ASSUME Types, Reliable, [Next]_vars,
             NEW t \in Threads \ spoiled,
             clock' > clock, recorded'[t] = recorded[t], store'[t] # {}
      PROVE  Newest(store[t]) \subseteq store'[t]
  <2>1. PICK w \in Workers, size \in Sizes : Insert(w, size) \/ Fold(w, size)
    <3>1. clock' # clock
      BY <1>2 DEF Types, TableTypes
    <3>. QED  BY <1>2, <3>1 DEF Next, Step, Ask, Answer, Fail, Number, InsertFails, NoFold, RetryFold,
              Restart, vars
  <2>2. CASE Insert(w, size)
    BY <1>2, <2>2, Inserted DEF Newest
  <2>. QED  BY <1>1, <1>2, <2>1, <2>2
<1>3. Types /\ Reliable /\ [Next]_vars =>
        [\A t \in Threads \ spoiled :
            clock' > clock /\ recorded'[t] = recorded[t] /\ store'[t] # {}
                => Newest(store[t]) \subseteq store'[t]]_vars
  BY <1>2
<1>. QED  BY <1>3, ReliableInvariant, PTL DEF Spec, FoldKeepsNewest

-----------------------------------------------------------------------------
(* Exchanges stay together. *)

Dated == \A t \in Threads : \A r \in store[t] : r.at <= clock

\* In one process, nothing comes between the two appends of an exchange.
Alone ==
    \A v, w \in Workers :
        v # w /\ Process[v] = Process[w] => ~(pc[v] \in Recording /\ pc[w] \in Recording)

Halfway(w, t) == thread[w] = t /\ pc[w] \in {"assistant", "assistantNumbered"}
IsLast(rows, q) == \A r \in rows : r = q \/ r.n < q.n

\* The question of an exchange that is being recorded is the last row.
Asked(t) ==
    \A w \in Workers : Halfway(w, t) => \E q \in store[t] : q.role = "user" /\ IsLast(store[t], q)
Paired(t) ==
    \A q \in store[t] :
        /\ q.role = "user" =>
              \/ \E r \in store[t] : Follows(store[t], r, q) /\ r.role = "assistant"
              \/ IsLast(store[t], q) /\ \E w \in Workers : Halfway(w, t)
        /\ q.role = "assistant" =>
              \A r \in store[t] : Follows(store[t], r, q) => r.role # "assistant"
Together == \A t \in Threads \ (torn \cup spoiled) : Asked(t) /\ Paired(t)

LEMMA InitTogether == Init => Dated /\ Alone /\ Together
  BY DEF Init, Dated, Alone, Recording, Together, Asked, Paired, Halfway

LEMMA NextDated ==
  ASSUME Types, Dated, [Next]_vars
  PROVE  Dated'
<1>0. clock \in Nat
  BY DEF Types, TableTypes
<1>1. ASSUME NEW w \in Workers, NEW size \in Sizes, Insert(w, size)
      PROVE  Dated'
  <2>1. NewRow(w, size).at = clock + 1
    BY DEF NewRow
  <2>2. \A t \in Threads : \A r \in store'[t] : r \in store[t] \/ r = NewRow(w, size)
    BY <1>1, Inserted
  <2>3. \A t \in Threads : \A r \in store[t] : r.at \in Nat
    BY DEF Types, TableTypes, Rows
  <2>4. clock' = clock + 1
    BY <1>1, Inserted
  <2>. QED  BY <1>0, <2>1, <2>2, <2>3, <2>4 DEF Dated
<1>2. ASSUME NEW w \in Workers, NEW size \in Sizes, Fold(w, size)
      PROVE  Dated'
  <2>1. Summary(w, size).at = clock + 1 /\ clock' = clock + 1
    BY <1>2 DEF Summary, Fold
  <2>2. \A t \in Threads : \A r \in store'[t] : r \in store[t] \/ r = Summary(w, size)
    BY <1>2, Folded
  <2>3. \A t \in Threads : \A r \in store[t] : r.at \in Nat
    BY DEF Types, TableTypes, Rows
  <2>. QED  BY <1>0, <2>1, <2>2, <2>3 DEF Dated
<1>3. CASE UNCHANGED <<store, clock>>
  BY <1>3 DEF Dated
<1>. QED  BY <1>1, <1>2, <1>3 DEF Next, Step, Ask, Answer, Fail, Number, InsertFails, NoFold, RetryFold,
              Restart, vars

\* Where a call may go.
LEMMA OwnStage ==
  ASSUME Types, NEW w \in Workers, Step(w)
  PROVE  /\ \A v \in Workers \ {w} : pc'[v] = pc[v] /\ thread'[v] = thread[v]
         /\ pc'[w] \in Recording => pc[w] \in Recording \/ MayRun(w)
<1>1. CASE \/ \E t \in Threads \cup {NoThread} : Ask(w, t)
           \/ \E t \in Threads : Answer(w, t)
  BY <1>1 DEF Ask, Answer, Go, Types, CallTypes
<1>2. CASE Number(w)
  BY <1>2 DEF Number, Go, Types, CallTypes, Recording
<1>3. CASE Fail(w) \/ NoFold(w) \/ \E size \in Sizes : Fold(w, size)
  BY <1>3, ReturnTypes DEF Fail, NoFold, Fold, Recording
<1>4. ASSUME NEW size \in Sizes, Insert(w, size)
      PROVE  \A v \in Workers \ {w} : pc'[v] = pc[v] /\ thread'[v] = thread[v]
  <2>1. CASE pc' = [pc EXCEPT ![w] = "assistant"] /\ UNCHANGED <<thread, upto, carried>>
    BY <2>1 DEF Types, CallTypes
  <2>2. CASE GoFold(w, store'[thread[w]])
    <3>1. /\ thread[w] \in Threads /\ store'[thread[w]] \in SUBSET Rows
          /\ IsFiniteSet(store'[thread[w]]) /\ number' \in [Workers -> Nat]
      BY <1>4, NewRowType, InsertTypes DEF Insert, Types, TableTypes, CallTypes
    <3>. QED  BY <2>2, <3>1, GoFoldTypes
  <2>. QED  BY <1>4, <2>1, <2>2, Inserted
<1>5. ASSUME InsertFails(w)
      PROVE  \A v \in Workers \ {w} : pc'[v] = pc[v] /\ thread'[v] = thread[v]
  <2>1. CASE pc' = [pc EXCEPT ![w] = "assistant"] /\ UNCHANGED <<thread, upto, carried>>
    BY <2>1 DEF Types, CallTypes
  <2>2. CASE GoFold(w, store[thread[w]])
    <3>1. /\ thread[w] \in Threads /\ store[thread[w]] \in SUBSET Rows
          /\ IsFiniteSet(store[thread[w]]) /\ number' \in [Workers -> Nat]
      BY <1>5, InsertFailsTypes DEF InsertFails, Types, Placed, Recording, TableTypes, CallTypes
    <3>. QED  BY <2>2, <3>1, GoFoldTypes
  <2>. QED  BY <1>5, <2>1, <2>2 DEF InsertFails, Go
<1>6. ASSUME InsertFails(w) \/ \E size \in Sizes : Insert(w, size)
      PROVE  pc[w] \in Recording
  BY <1>6 DEF InsertFails, Insert, Recording
<1>. QED  BY <1>1, <1>2, <1>3, <1>4, <1>5, <1>6 DEF Step

LEMMA NextAlone ==
  ASSUME Types, Alone, [Next]_vars
  PROVE  Alone'
<1>1. ASSUME NEW w \in Workers, Step(w)
      PROVE  Alone'
  <2>1. ASSUME NEW v \in Workers \ {w}, Process[v] = Process[w], pc'[w] \in Recording
        PROVE  pc'[v] \notin Recording
    BY <1>1, <2>1, OwnStage DEF Alone, MayRun
  <2>. QED  BY <1>1, <2>1, OwnStage DEF Alone
<1>2. ASSUME NEW p \in Processes, Restart(p)
      PROVE  Alone'
  BY <1>2 DEF Restart, Alone, Recording
<1>3. CASE (\E p \in Processes, t \in Threads : RetryFold(p, t)) \/ UNCHANGED vars
  BY <1>3 DEF RetryFold, vars, callVars, Alone
<1>. QED  BY <1>1, <1>2, <1>3 DEF Next

LEMMA LastActivity ==
  ASSUME NEW rows \in SUBSET Rows, IsFiniteSet(rows), rows # {}
  PROVE  /\ LastActive(rows) \in Nat
         /\ \A r \in rows : r.at <= LastActive(rows)
         /\ \E r \in rows : r.at = LastActive(rows)
<1>. DEFINE ats == {r.at : r \in rows}
<1>1. ats \subseteq Nat /\ ats # {} /\ ats \subseteq Int
  BY DEF Rows
<1>2. IsFiniteSet(ats)
  <2>1. [r \in rows |-> r.at] \in Surjection(rows, ats)
    BY DEF Surjection
  <2>. QED  BY <2>1, FS_Surjection
<1>3. Max(ats) \in ats /\ \A y \in ats : y <= Max(ats)
  BY <1>1, <1>2, LargestOne
<1>. QED  BY <1>1, <1>3 DEF LastActive

\* The thread a turn was just recorded in is the most recently active one.
LEMMA NotPruned ==
  ASSUME Types, Dated, NEW w \in Workers, NEW size \in Sizes, Insert(w, size)
  PROVE  store'[thread[w]] # {}
<1>. DEFINE t0 == thread[w]
            s0 == [store EXCEPT ![t0] = @ \cup {NewRow(w, size)}]
            Ahead == {u \in Threads : s0[u] # {} /\ s0[t0] # {}
                                          /\ LastActive(s0[u]) > LastActive(s0[t0])}
<1>1. t0 \in Threads /\ NewRow(w, size) \in Rows /\ NewRow(w, size).at = clock + 1
  BY NewRowType DEF Insert, NewRow
<1>2. /\ \A t \in Threads : s0[t] = IF t = t0 THEN store[t] \cup {NewRow(w, size)} ELSE store[t]
      /\ \A t \in Threads : store[t] \in SUBSET Rows /\ IsFiniteSet(store[t])
      /\ clock \in Nat
  BY <1>1 DEF Types, TableTypes
<1>3. s0[t0] \in SUBSET Rows /\ IsFiniteSet(s0[t0]) /\ NewRow(w, size) \in s0[t0]
  <2>1. s0[t0] = store[t0] \cup {NewRow(w, size)}
    BY <1>1, <1>2
  <2>2. IsFiniteSet(store[t0] \cup {NewRow(w, size)})
    BY <1>1, <1>2, FS_AddElement
  <2>. QED  BY <1>1, <1>2, <2>1, <2>2
<1>4. LastActive(s0[t0]) >= clock + 1 /\ LastActive(s0[t0]) \in Nat
  BY <1>1, <1>2, <1>3, LastActivity
<1>5. Ahead = {}
  <2>1. ASSUME NEW u \in Threads, s0[u] # {}, LastActive(s0[u]) > LastActive(s0[t0])
        PROVE  FALSE
    <3>1. u # t0
      <4>1. ASSUME u = t0
            PROVE  LastActive(s0[u]) = LastActive(s0[t0])
        BY <4>1
      <4>. QED  BY <1>4, <2>1, <4>1
    <3>2. s0[u] = store[u]
      BY <1>2, <3>1
    <3>3. store[u] \in SUBSET Rows /\ IsFiniteSet(store[u]) /\ store[u] # {}
      BY <1>2, <2>1, <3>2
    <3>4. PICK r \in store[u] : r.at = LastActive(store[u])
      BY <3>3, LastActivity
    <3>5. r.at <= clock /\ r.at \in Nat
      BY <3>3 DEF Dated, Rows
    <3>. QED  BY <1>2, <1>4, <2>1, <3>2, <3>4, <3>5
  <2>. QED  BY <2>1
<1>6. Cardinality(Ahead) < MaxStored
  <2>1. Cardinality({}) < MaxStored
    BY FS_EmptySet, ConversationsAssumption
  <2>. QED  BY <1>5, <2>1
<1>7. store' = Prune(s0)
  BY DEF Insert, NewRow, NewTurn
<1>8. store'[t0] = s0[t0]
  <2>1. Prune(s0)[t0] = IF Cardinality(Ahead) < MaxStored THEN s0[t0] ELSE {}
    BY <1>1 DEF Prune
  <2>. QED  BY <1>6, <1>7, <2>1
<1>. QED  BY <1>3, <1>8

LEMMA SameRows ==
  ASSUME Together, NEW t \in Threads \ (torn \cup spoiled), store'[t] = store[t],
         \A w \in Workers : Halfway(w, t)' <=> Halfway(w, t)
  PROVE  Asked(t)' /\ Paired(t)'
<1>1. Asked(t) /\ Paired(t)
  BY DEF Together
<1>2. Asked(t)'
  BY <1>1 DEF Asked
<1>3. Paired(t)'
  BY <1>1 DEF Paired
<1>. QED  BY <1>2, <1>3

LEMMA InsertTogether ==
  ASSUME Types, Dated, Alone, Reliable, Together,
         NEW w \in Workers, NEW size \in Sizes, Insert(w, size),
         NEW t \in Threads \ (torn' \cup spoiled')
  PROVE  Asked(t)' /\ Paired(t)'
<1>. DEFINE t0 == thread[w]
            row == NewRow(w, size)
<1>1. /\ t0 \in Threads /\ row \in Rows /\ pc[w] \in Recording /\ Step(w)
      /\ row.role = IF pc[w] = "userNumbered" THEN "user" ELSE "assistant"
  BY NewRowType DEF Insert, NewRow, Recording, Step
<1>2. /\ t \notin torn \cup spoiled
      /\ t = t0 => number[w] = LastNumber(store[t]) + 1
      /\ t = t0 \/ store'[t] = {} =>
            \A v \in Workers : Process[v] # Process[w] /\ pc[v] \in Recording => thread[v] # t
  BY DEF Insert, Spoils
<1>3. t = t0 \/ store'[t] = {} => \A v \in Workers \ {w} : ~Halfway(v, t)
  BY <1>1, <1>2 DEF Alone, Halfway, Recording
<1>4. \A v \in Workers \ {w} : Halfway(v, t)' <=> Halfway(v, t)
  BY <1>1, OwnStage DEF Halfway
<1>5. /\ thread'[w] \in {t0, NoThread}
      /\ pc[w] = "userNumbered" => pc'[w] = "assistant" /\ thread'[w] = t0
      /\ pc[w] = "assistantNumbered" => pc'[w] \notin Recording
  <2>1. CASE pc[w] = "userNumbered"
    BY <2>1, Inserted DEF Types, CallTypes
  <2>2. CASE pc[w] = "assistantNumbered"
    <3>1. /\ GoFold(w, store'[t0]) /\ store'[t0] \in SUBSET Rows /\ IsFiniteSet(store'[t0])
          /\ number' \in [Workers -> Nat]
      BY <1>1, <2>2, Inserted, InsertTypes DEF Types, TableTypes, CallTypes
    <3>2. thread'[w] \in {t0, NoThread}
      BY <3>1 DEF GoFold, Return, Types, CallTypes
    <3>3. pc'[w] \in {"idle", "folding"}
      BY <1>1, <3>1, GoFoldTypes
    <3>. QED  BY <2>2, <3>2, <3>3 DEF Recording
  <2>. QED  BY <2>1, <2>2 DEF Insert
<1>6. CASE t # t0
  <2>1. ~Halfway(w, t) /\ ~Halfway(w, t)'
    BY <1>5, <1>6, ConversationsAssumption DEF Halfway
  <2>2. CASE store'[t] = {}
    BY <1>3, <1>4, <2>1, <2>2 DEF Asked, Paired
  <2>3. CASE store'[t] = store[t]
    BY <1>2, <1>4, <2>1, <2>3, SameRows
  <2>. QED  BY <1>6, <2>2, <2>3, Inserted
<1>7. CASE t = t0
  <2>1. /\ store'[t] = store[t] \cup {row}
        /\ \A r \in store[t] : r.n < row.n /\ r.n \in Nat
        /\ row.n \in Nat
    <3>1. store'[t] = store[t] \cup {row} /\ recorded'[t] = recorded[t] \cup {NewTurn(w)}
      BY <1>7, Inserted, NotPruned
    <3>2. Numbered(t) /\ Held(t)
      BY <1>2 DEF Reliable
    <3>3. \A r \in store[t] : r.n < row.n
      BY <1>2, <1>7, <3>1, <3>2, RowAdded
    <3>4. (\A r \in store[t] : r.n \in Nat) /\ row.n \in Nat
      BY <1>1 DEF Types, TableTypes, Rows
    <3>. QED  BY <3>1, <3>3, <3>4
  <2>2. Asked(t) /\ Paired(t)
    BY <1>2 DEF Together
  <2>3. \A q, r \in store[t] : Follows(store[t], r, q) => Follows(store'[t], r, q)
    BY <2>1 DEF Follows, Before
  <2>4. \A q, r \in store[t] : Follows(store'[t], r, q) => Follows(store[t], r, q)
    BY <2>1 DEF Follows
  <2>5. \A r \in store'[t] : ~Before(row, r)
    <3>1. ~Before(row, row)
      BY <1>1 DEF Before, Rows
    <3>2. \A r \in store[t] : ~Before(row, r)
      BY <2>1 DEF Before
    <3>. QED  BY <2>1, <3>1, <3>2
  <2>6. IsLast(store'[t], row)
    BY <2>1 DEF IsLast
  <2>7. CASE pc[w] = "userNumbered"
    <3>1. row.role = "user" /\ Halfway(w, t)' /\ row \in store'[t] /\ ~Halfway(w, t)
      BY <1>1, <1>5, <1>7, <2>1, <2>7 DEF Halfway
    <3>2. Asked(t)'
      BY <2>6, <3>1 DEF Asked
    <3>3. ASSUME NEW q \in store[t], q.role = "user"
          PROVE  \E r \in store'[t] : Follows(store'[t], r, q) /\ r.role = "assistant"
      BY <1>3, <1>7, <2>1, <2>2, <2>3, <3>1, <3>3 DEF Paired
    <3>4. ASSUME NEW q \in store[t], q.role = "assistant", NEW r \in store'[t], Follows(store'[t], r, q)
          PROVE  r.role # "assistant"
      BY <2>1, <2>2, <2>4, <3>1, <3>4 DEF Paired
    <3>5. Paired(t)'
      BY <2>1, <2>6, <3>1, <3>3, <3>4 DEF Paired
    <3>. QED  BY <3>2, <3>5
  <2>8. CASE pc[w] = "assistantNumbered"
    <3>1. row.role = "assistant" /\ Halfway(w, t) /\ row \in store'[t]
      BY <1>1, <1>7, <2>1, <2>8 DEF Halfway
    <3>2. \A v \in Workers : ~Halfway(v, t)'
      BY <1>3, <1>4, <1>5, <1>7, <2>8 DEF Halfway, Recording
    <3>3. PICK uq \in store[t] : uq.role = "user" /\ IsLast(store[t], uq)
      BY <2>2, <3>1 DEF Asked
    <3>4. Follows(store'[t], row, uq)
      <4>1. Before(uq, row)
        BY <2>1 DEF Before
      <4>2. \A x \in store[t] : ~Before(uq, x)
        <5>1. uq.at \in Nat /\ uq.n \in Nat
          BY DEF Types, TableTypes, Rows
        <5>. QED  BY <2>1, <3>3, <5>1 DEF Before, IsLast
      <4>. QED  BY <2>1, <2>5, <4>1, <4>2 DEF Follows
    <3>5. ASSUME NEW q \in store[t], q.role = "user"
          PROVE  \E r \in store'[t] : Follows(store'[t], r, q) /\ r.role = "assistant"
      <4>1. CASE q = uq
        BY <3>1, <3>4, <4>1
      <4>2. CASE q # uq
        <5>1. ~IsLast(store[t], q)
          BY <2>1, <3>3, <4>2 DEF IsLast
        <5>2. PICK r \in store[t] : Follows(store[t], r, q) /\ r.role = "assistant"
          BY <2>2, <3>5, <5>1 DEF Paired
        <5>. QED  BY <2>1, <2>3, <5>2
      <4>. QED  BY <4>1, <4>2
    <3>6. ASSUME NEW q \in store'[t], q.role = "assistant", NEW r \in store'[t], Follows(store'[t], r, q)
          PROVE  r.role # "assistant"
      <4>1. q # row
        BY <2>5, <3>6 DEF Follows
      <4>2. q \in store[t]
        BY <2>1, <4>1
      <4>3. CASE r = row
        <5>1. Before(q, uq) /\ Before(uq, row)
          BY <2>1, <3>3, <3>6, <4>2 DEF IsLast, Before
        <5>. QED  BY <2>1, <3>6, <4>3, <5>1 DEF Follows
      <4>4. CASE r # row
        BY <2>1, <2>2, <2>4, <3>6, <4>2, <4>4 DEF Paired
      <4>. QED  BY <4>3, <4>4
    <3>7. Paired(t)'
      <4>1. \A q \in store'[t] : q.role = "user" => q \in store[t]
        BY <2>1, <3>1
      <4>. QED  BY <3>5, <3>6, <4>1 DEF Paired
    <3>. QED  BY <3>2, <3>7 DEF Asked
  <2>. QED  BY <2>7, <2>8 DEF Insert
<1>. QED  BY <1>6, <1>7

LEMMA FoldTogether ==
  ASSUME Types, Reliable, Together, NEW w \in Workers, NEW size \in Sizes, Fold(w, size),
         NEW t \in Threads \ (torn' \cup spoiled')
  PROVE  Asked(t)' /\ Paired(t)'
<1>1. t \notin torn \cup spoiled
  BY DEF Fold, ghostVars
<1>2. \A v \in Workers : Halfway(v, t)' <=> Halfway(v, t)
  BY Folded DEF Halfway
<1>3. CASE t # thread[w]
  BY <1>1, <1>2, <1>3, Folded, SameRows
<1>4. CASE t = thread[w]
  <2>. DEFINE u == upto[w]
              sum == Summary(w, size)
  <2>1. /\ store'[t] = {r \in store[t] : r.n > u} \cup {sum}
        /\ sum.n = u /\ sum.role = "summary" /\ u \in Nat
        /\ \A r \in store[t] : r.n \in Nat
    BY <1>4, Folded DEF Rows
  <2>2. Asked(t) /\ Paired(t)
    BY <1>1 DEF Together
  <2>3. PICK q1 \in store[t] : q1.n > u
    BY <1>1, <1>4, Folded DEF Reliable, Planned, Spares
  <2>4. \A q \in store[t] : IsLast(store[t], q) => q \in store'[t] /\ IsLast(store'[t], q)
    BY <2>1, <2>3 DEF IsLast
  <2>5. \A q, r \in store[t] : q.n > u /\ Before(q, r) => r.n > u
    BY <2>1 DEF Before
  <2>6. Asked(t)'
    <3>1. ASSUME NEW v \in Workers, Halfway(v, t)'
          PROVE  \E q \in store'[t] : q.role = "user" /\ IsLast(store'[t], q)
      BY <1>2, <2>2, <2>4, <3>1 DEF Asked
    <3>. QED  BY <3>1 DEF Asked
  <2>7. \A q \in store[t] : q.n > u => ~Before(q, sum)
    BY <2>1 DEF Before
  <2>8. \A q, r \in store[t] : q.n > u =>
            (Follows(store'[t], r, q) /\ r \in store'[t] <=> Follows(store[t], r, q))
    BY <2>1, <2>5, <2>7 DEF Follows
  <2>9. Paired(t)'
    <3>1. ASSUME NEW q \in store'[t], q.role = "user"
          PROVE  \/ \E r \in store'[t] : Follows(store'[t], r, q) /\ r.role = "assistant"
                 \/ IsLast(store'[t], q) /\ \E v \in Workers : Halfway(v, t)'
      <4>1. q \in store[t] /\ q.n > u
        BY <2>1, <3>1
      <4>. QED  BY <1>2, <2>2, <2>4, <2>8, <3>1, <4>1 DEF Paired
    <3>2. ASSUME NEW q \in store'[t], q.role = "assistant", NEW r \in store'[t], Follows(store'[t], r, q)
          PROVE  r.role # "assistant"
      <4>1. q \in store[t] /\ q.n > u
        BY <2>1, <3>2
      <4>2. r \in store[t]
        BY <2>1, <2>7, <3>2, <4>1 DEF Follows
      <4>. QED  BY <2>2, <2>8, <3>2, <4>1, <4>2 DEF Paired
    <3>. QED  BY <3>1, <3>2 DEF Paired
  <2>. QED  BY <2>6, <2>9
<1>. QED  BY <1>3, <1>4

LEMMA NextTogether ==
  ASSUME Types, Dated, Alone, Reliable, Together, [Next]_vars
  PROVE  Together'
<1>. SUFFICES ASSUME NEW t \in Threads \ (torn' \cup spoiled')
              PROVE  Asked(t)' /\ Paired(t)'
  BY DEF Together
<1>1. ASSUME NEW w \in Workers,
             \/ \E u \in Threads \cup {NoThread} : Ask(w, u)
             \/ \E u \in Threads : Answer(w, u)
             \/ Number(w)
      PROVE  Asked(t)' /\ Paired(t)'
  <2>1. UNCHANGED <<store, torn, spoiled>>
    BY <1>1 DEF Ask, Answer, Number, ghostVars
  <2>2. \A v \in Workers : Halfway(v, t)' <=> Halfway(v, t)
    BY <1>1 DEF Ask, Answer, Number, Go, Halfway, Types, CallTypes
  <2>. QED  BY <2>1, <2>2, SameRows
<1>2. ASSUME NEW w \in Workers, Fail(w) \/ NoFold(w)
      PROVE  Asked(t)' /\ Paired(t)'
  <2>1. UNCHANGED <<store, torn, spoiled>>
    BY <1>2 DEF Fail, NoFold, ghostVars
  <2>2. \A v \in Workers : Halfway(v, t)' <=> Halfway(v, t)
    BY <1>2, ReturnTypes DEF Fail, NoFold, Halfway
  <2>. QED  BY <2>1, <2>2, SameRows
<1>3. ASSUME NEW w \in Workers, InsertFails(w)
      PROVE  Asked(t)' /\ Paired(t)'
  <2>1. UNCHANGED <<store, spoiled>> /\ t \notin torn /\ thread[w] # t
    BY <1>3 DEF InsertFails
  <2>2. \A v \in Workers \ {w} : Halfway(v, t)' <=> Halfway(v, t)
    BY <1>3, OwnStage DEF Halfway, Step
  <2>3. thread'[w] \in {thread[w], NoThread}
    BY <1>3 DEF InsertFails, GoFold, Return, Types, CallTypes
  <2>4. ~Halfway(w, t)' /\ ~Halfway(w, t)
    BY <2>1, <2>3, ConversationsAssumption DEF Halfway
  <2>. QED  BY <2>1, <2>2, <2>4, SameRows
<1>4. ASSUME NEW p \in Processes, Restart(p)
      PROVE  Asked(t)' /\ Paired(t)'
  <2>1. UNCHANGED <<store, spoiled>> /\ t \notin torn
    BY <1>4 DEF Restart
  <2>2. ASSUME NEW v \in Workers
        PROVE  Halfway(v, t)' <=> Halfway(v, t)
    <3>1. CASE Process[v] # p
      BY <1>4, <3>1 DEF Restart, Halfway
    <3>2. CASE Process[v] = p
      <4>1. pc'[v] = "idle"
        BY <1>4, <3>2 DEF Restart
      <4>2. pc[v] \in Recording => thread[v] # t
        BY <1>4, <3>2 DEF Restart
      <4>. QED  BY <4>1, <4>2 DEF Halfway, Recording
    <3>. QED  BY <3>1, <3>2
  <2>. QED  BY <2>1, <2>2, SameRows
<1>5. CASE (\E p \in Processes, u \in Threads : RetryFold(p, u)) \/ UNCHANGED vars
  BY <1>5, SameRows DEF RetryFold, vars, callVars, ghostVars, Halfway
<1>. QED  BY <1>1, <1>2, <1>3, <1>4, <1>5, InsertTogether, FoldTogether DEF Next, Step

\* However many calls answer in one thread, and whichever of them folds it: ExchangesStayTogether
\* (conversations.record_turn, which no await interrupts).
THEOREM ExchangesPaired == Spec => []ExchangesStayTogether
<1>1. ASSUME Types, Together
      PROVE  ExchangesStayTogether
  <2>. SUFFICES ASSUME NEW t \in Threads \ (torn \cup spoiled), NEW q \in store[t]
                PROVE  /\ q.role = "user" =>
                             \/ \E r \in store[t] : Follows(store[t], r, q) /\ r.role = "assistant"
                             \/ /\ \E w \in Workers : thread[w] = t /\ pc[w] \in Recording
                                /\ \A r \in store[t] : ~Before(q, r)
                       /\ q.role = "assistant" =>
                             \A r \in store[t] : Follows(store[t], r, q) => r.role # "assistant"
    BY DEF ExchangesStayTogether
  <2>1. Paired(t)
    BY <1>1 DEF Together
  <2>2. IsLast(store[t], q) => \A r \in store[t] : ~Before(q, r)
    BY <1>1 DEF IsLast, Before, Types, TableTypes, Rows
  <2>3. \A w \in Workers : Halfway(w, t) => thread[w] = t /\ pc[w] \in Recording
    BY DEF Halfway, Recording
  <2>. QED  BY <2>1, <2>2, <2>3 DEF Paired
<1>2. Types /\ Reliable /\ Dated /\ Alone /\ Together /\ [Next]_vars => Dated' /\ Alone' /\ Together'
  BY NextDated, NextAlone, NextTogether
<1>. QED  BY <1>1, <1>2, InitTogether, ReliableInvariant, PTL DEF Spec

-----------------------------------------------------------------------------
(* Converge: the lanes that are left. *)

\* The recursion of Without has a value, one of the members of S that are not in T.
LEMMA WithoutType ==
  ASSUME NEW S, NEW T, NEW s \in Seq(S)
  PROVE  Without(s, T) \in Seq(S \ T)
<1>. DEFINE Extend(p, k) == IF s[k] \in T THEN p ELSE Append(p, s[k])
            Grows(f, k) == f[k] = IF k = 0 THEN <<>> ELSE Extend(f[k - 1], k)
            Upto(f, n) == f \in [0..n -> Seq(S \ T)] /\ \A k \in 0..n : Grows(f, k)
            NoneUpto == {n \in Nat : n <= Len(s) /\ \A f \in [0..n -> Seq(S \ T)] : ~Upto(f, n)}
<1>0. Len(s) \in Nat /\ \A k \in 1..Len(s) : s[k] \in S
  OBVIOUS
<1>1. \A p \in Seq(S \ T), k \in 1..Len(s) : Extend(p, k) \in Seq(S \ T)
  BY <1>0
<1>. HIDE DEF Extend
<1>2. NoneUpto = {}
  <2>. SUFFICES ASSUME NoneUpto # {}
                PROVE  FALSE
    OBVIOUS
  <2>0. /\ NoneUpto \subseteq Nat
        /\ \A m \in NoneUpto : m <= Len(s) /\ \A f \in [0..m -> Seq(S \ T)] : ~Upto(f, m)
        /\ \A m \in Nat : m <= Len(s) /\ m \notin NoneUpto => \E f \in [0..m -> Seq(S \ T)] : Upto(f, m)
    OBVIOUS
  <2>. HIDE DEF NoneUpto
  <2>1. PICK n \in NoneUpto : \A m \in NoneUpto : n <= m
    BY <2>0, LeastNumber
  <2>2. CASE n = 0
    <3>. DEFINE f == [k \in 0..n |-> <<>>]
    <3>1. Upto(f, n)
      BY <2>2
    <3>. QED  BY <2>0, <2>1, <3>1
  <2>3. CASE n # 0
    <3>. HIDE DEF Upto
    <3>1. n \in Nat /\ n <= Len(s) /\ n - 1 \in Nat /\ n - 1 \notin NoneUpto /\ n - 1 <= Len(s)
      BY <1>0, <2>0, <2>1, <2>3
    <3>2. PICK f \in [0..(n - 1) -> Seq(S \ T)] : Upto(f, n - 1)
      BY <2>0, <3>1
    <3>. USE DEF Upto
    <3>8. f[n - 1] \in Seq(S \ T) /\ n \in 1..Len(s)
      BY <1>0, <2>3, <3>1, <3>2
    <3>9. Extend(f[n - 1], n) \in Seq(S \ T)
      BY <1>1, <3>8
    <3>. DEFINE g == [k \in 0..n |-> IF k = n THEN Extend(f[n - 1], n) ELSE f[k]]
    <3>3. g \in [0..n -> Seq(S \ T)]
      BY <3>1, <3>2, <3>9
    <3>4. ASSUME NEW k \in 0..n
          PROVE  Grows(g, k)
      <4>1. CASE k = n
        BY <3>1, <2>3, <4>1
      <4>2. CASE k # n
        <5>1. k \in 0..(n - 1) /\ Grows(f, k) /\ (k # 0 => k - 1 \in 0..n /\ k - 1 # n)
          BY <3>1, <3>2, <4>2
        <5>. QED  BY <4>2, <5>1
      <4>. QED  BY <4>1, <4>2
    <3>. QED  BY <2>0, <2>1, <3>3, <3>4
  <2>. QED  BY <2>2, <2>3
<1>. DEFINE IsKept(f) == f = [k \in 0..Len(s) |-> IF k = 0 THEN <<>> ELSE Extend(f[k - 1], k)]
            whole == CHOOSE f : IsKept(f)
<1>3. \E f : IsKept(f)
  <2>0. Len(s) \notin NoneUpto /\ Len(s) <= Len(s)
    <3>. HIDE DEF NoneUpto
    <3>. QED  BY <1>0, <1>2
  <2>1. PICK f \in [0..Len(s) -> Seq(S \ T)] : Upto(f, Len(s))
    BY <1>0, <2>0
  <2>. QED  BY <2>1
<1>4. IsKept(whole)
  BY <1>3
<1>5. Without(s, T) = whole[Len(s)]
  BY DEF Without, Extend
<1>. HIDE DEF whole
<1>6. ASSUME NEW n \in 0..Len(s), whole[n] \notin Seq(S \ T)
      PROVE  FALSE
  <2>. DEFINE Bad == {k \in Nat : k <= Len(s) /\ whole[k] \notin Seq(S \ T)}
  <2>0. Bad \subseteq Nat /\ Bad # {}
    BY <1>0, <1>6
  <2>1. PICK k \in Bad : \A m \in Bad : k <= m
    <3>. HIDE DEF Bad
    <3>. QED  BY <2>0, LeastNumber
  <2>2. CASE k = 0
    BY <1>4, <2>1, <2>2
  <2>3. CASE k # 0
    <3>1. k - 1 \in Nat /\ k - 1 \notin Bad
      BY <2>1, <2>3
    <3>2. whole[k - 1] \in Seq(S \ T)
      BY <2>1, <3>1
    <3>3. k \in 1..Len(s) /\ k \in 0..Len(s)
      BY <1>0, <2>1, <2>3
    <3>4. whole[k] = Extend(whole[k - 1], k)
      BY <1>4, <2>3, <3>3
    <3>. QED  BY <1>1, <2>1, <3>2, <3>3, <3>4
  <2>. QED  BY <2>2, <2>3
<1>. QED  BY <1>0, <1>5, <1>6

-----------------------------------------------------------------------------
(* Converge: who sits where, and what the round holds. *)

LEMMA Filtered ==
  /\ \A a : CrossFamilyVerifiers(a) \in Seq(Lanes) /\ Others(a) \in Seq(Lanes)
  /\ \A T : \A s \in Seq(Lanes) : Without(s, T) \in Seq(Lanes \ T)
<1>1. \A T : \A s \in Seq(Lanes) : Without(s, T) \in Seq(Lanes \ T)
  BY WithoutType
<1>2. \A T : Seq(Lanes \ T) \subseteq Seq(Lanes)
  OBVIOUS
<1>3. \A T : Without(DefaultLanes, T) \in Seq(Lanes)
  BY <1>1, <1>2, ConvergeAssumption
<1>. QED  BY <1>1, <1>3 DEF CrossFamilyVerifiers, Others

LEMMA FewerOf ==
  ASSUME NEW S, NEW s \in Seq(S), NEW n \in Nat
  PROVE  AtMost(n, s) \in Seq(S)
<1>1. \A k \in 1..(IF n < Len(s) THEN n ELSE Len(s)) : s[k] \in S
  OBVIOUS
<1>. QED  BY <1>1 DEF AtMost

LEMMA PartsType ==
  ASSUME NEW a \in Arguments, NEW b \in Arguments
  PROVE  /\ Author(a) \in Lanes \cup {Nobody}
         /\ Author(a) # Nobody => Arbiter(b, Author(a)) \in Lanes
<1>1. \A d : \A s \in Seq(Lanes) : FirstOf(s, d) \in Lanes \cup {d}
  BY DEF FirstOf
<1>2. Author(a) \in Lanes \cup {Nobody}
  BY <1>1, ConvergeAssumption DEF Author, Arguments
<1>3. ASSUME NEW c
      PROVE  CrossFamilyVerifiers(c) \o Others(c) \in Seq(Lanes)
  <2>1. CrossFamilyVerifiers(c) \in Seq(Lanes) /\ Others(c) \in Seq(Lanes)
    BY Filtered
  <2>. QED  BY <2>1
<1>4. ASSUME Author(a) # Nobody
      PROVE  Arbiter(b, Author(a)) \in Lanes
  <2>. DEFINE c == Author(a)
  <2>1. c \in Lanes
    BY <1>2, <1>4
  <2>. HIDE DEF c
  <2>2. FirstOf(CrossFamilyVerifiers(c) \o Others(c), c) \in Lanes
    BY <1>1, <1>3, <2>1
  <2>3. Arbiter(b, c) \in Lanes
    BY <2>1, <2>2 DEF Arbiter, Arguments
  <2>. QED  BY <2>3 DEF c
<1>. QED  BY <1>2, <1>4

LEMMA PanelType ==
  ASSUME NEW list \in PeerLists, NEW n \in PeerCounts, NEW a, NEW b
  PROVE  Panel(list, n, a, b) \in Seq(Lanes \ {a, b})
<1>. DEFINE want == IF n > 0 THEN n
                    ELSE IF Len(DefaultLanes) > 3 THEN 3
                    ELSE IF DefaultLanes = <<>> THEN 0 ELSE Len(DefaultLanes) - 1
            least == IF want > 1 THEN want ELSE 1
            verifiers == AtMost(want, Without(CrossFamilyVerifiers(a), {a, b}))
<1>1. want \in Nat /\ least \in Nat
  BY ConvergeAssumption
<1>. HIDE DEF want
<1>2. \A s \in Seq(Lanes) : Without(s, {a, b}) \in Seq(Lanes \ {a, b})
  BY Filtered
<1>3. list \in Seq(Lanes) /\ DefaultLanes \in Seq(Lanes) /\ CrossFamilyVerifiers(a) \in Seq(Lanes)
  BY Filtered, ConvergeAssumption
<1>4. verifiers \in Seq(Lanes \ {a, b})
  BY <1>1, <1>2, <1>3, FewerOf
<1>5. AtMost(least, Without(DefaultLanes, {a, b})) \in Seq(Lanes \ {a, b})
  BY <1>1, <1>2, <1>3, FewerOf
<1>6. Panel(list, n, a, b) =
        IF list # <<>> THEN Without(list, {a, b})
        ELSE IF verifiers # <<>> THEN verifiers ELSE AtMost(least, Without(DefaultLanes, {a, b}))
  BY DEF Panel, want
<1>. QED  BY <1>2, <1>3, <1>4, <1>5, <1>6

Seats ==
    /\ {author, arbiter} \subseteq Lanes \cup {Nobody}
    /\ panel \in Seq(Lanes)
    /\ \A k \in Peers : panel[k] \notin {author, arbiter}
    /\ phase = "args" => panel = <<>>
    /\ phase \notin {"args", "over"} => panel # <<>>

\* The rounds are the versions of the plan, and only a round that is not the last is revised.
Rounds ==
    /\ phase \in {"args", "draft", "blind", "review", "revise", "over"}
    /\ rnd \in 0..MaxRounds /\ plan = rnd
    /\ phase \in {"args", "draft"} => rnd = 0
    /\ phase = "revise" => rnd < MaxRounds
    /\ blind \in [plan : 0..MaxRounds, verdict : Verdicts]
    /\ reply \in [Peers -> Replies]
    /\ outcome \in {"none", "error", "converged", "unresolved"}

\* What is said of an issue is said of one that was raised.
Raised ==
    /\ DOMAIN ruling \subseteq Issues
    /\ \A i \in DOMAIN ruling : ruling[i] \in Rulings \cup {Unruled}
    /\ handed \cup residual \cup unaddressed \subseteq Issues
    /\ phase \in {"args", "draft", "review"} => ruling = <<>> /\ handed = {}
    /\ phase # "over" => residual = {} /\ unaddressed = {}

LEMMA StartTypes == ConvergeInit => Seats /\ Rounds /\ Raised
  BY ConvergeAssumption DEF ConvergeInit, Seats, Rounds, Raised, Peers, Verdicts, Issues

LEMMA SeatsStep ==
  ASSUME Seats, [ConvergeNext]_convergeVars
  PROVE  Seats'
<1>1. ASSUME NEW a \in Arguments, NEW b \in Arguments, NEW l \in PeerLists, NEW n \in PeerCounts, Convene(a, b, l, n)
      PROVE  Seats'
  <2>1. CASE Refused
    <3>1. UNCHANGED <<author, arbiter, panel>> /\ phase' = "over"
      BY <2>1 DEF Refused, councilVars
    <3>. QED  BY <3>1 DEF Seats, Peers
  <2>2. CASE ~Refused
    <3>. DEFINE c == Author(a)
              d == Arbiter(b, c)
              p == Panel(l, n, c, d)
    <3>1. c # Nobody /\ p # <<>> /\ author' = c /\ arbiter' = d /\ panel' = p /\ phase' = "draft"
      BY <1>1, <2>2 DEF Convene
    <3>2. c \in Lanes /\ d \in Lanes
      BY <3>1, PartsType
    <3>3. p \in Seq(Lanes \ {c, d})
      BY PanelType
    <3>. HIDE DEF c, d, p
    <3>4. p \in Seq(Lanes) /\ \A k \in DOMAIN p : p[k] \notin {c, d}
      BY <3>3
    <3>. QED  BY <3>1, <3>2, <3>4 DEF Seats, Peers
  <2>. QED  BY <2>1, <2>2
<1>2. CASE ~\E a, b \in Arguments, l \in PeerLists, n \in PeerCounts : Convene(a, b, l, n)
  <2>1. /\ UNCHANGED <<author, arbiter, panel>>
        /\ phase' \in {phase, "over"} \/ (phase \notin {"args", "over"} /\ phase' # "args")
    BY <1>2 DEF ConvergeNext, Draft, DraftFails, NextRound, Blind, Review, Rule, Report, Revise, ReviseFails, convergeVars, councilVars
  <2>. QED  BY <2>1 DEF Seats, Peers
<1>. QED  BY <1>1, <1>2

LEMMA RoundsStep ==
  ASSUME Rounds, [ConvergeNext]_convergeVars
  PROVE  Rounds'
<1>. NoReply \in Replies
  BY ConvergeAssumption DEF NoReply, Replies, Verdicts
<1>1. ASSUME NEW a \in Arguments, NEW b \in Arguments, NEW l \in PeerLists, NEW n \in PeerCounts, Convene(a, b, l, n)
      PROVE  Rounds'
  <2>1. CASE Refused
    BY <2>1 DEF Refused, councilVars, Rounds, Peers
  <2>2. CASE ~Refused
    BY <1>1, <2>2 DEF Convene, reportVars, Rounds, Peers
  <2>. QED  BY <2>1, <2>2
<1>2. CASE DraftFails \/ Draft
  BY <1>2, ConvergeAssumption DEF DraftFails, Draft, NextRound, councilVars, reportVars, Rounds, Peers
<1>3. ASSUME NEW v \in Verdicts, Blind(v)
      PROVE  Rounds'
  BY <1>3 DEF Blind, councilVars, reportVars, Rounds, Peers
<1>4. ASSUME NEW k \in Peers, NEW ok \in BOOLEAN, NEW v \in Verdicts, NEW n \in 0..MaxIssues, Review(k, ok, v, n)
      PROVE  Rounds'
  <2>1. [plan |-> plan, ok |-> ok, stance |-> v, issues |-> n] \in Replies
    BY DEF Rounds, Replies
  <2>. QED  BY <1>4, <2>1 DEF Review, councilVars, reportVars, Rounds, Peers
<1>5. ASSUME NEW rule \in [Issues -> Rulings \cup {Unruled}], Rule(rule)
      PROVE  Rounds'
  BY <1>5 DEF Rule, Report, councilVars, reportVars, Rounds, Peers
<1>6. CASE Revise \/ ReviseFails
  BY <1>6, ConvergeAssumption DEF Revise, ReviseFails, NextRound, Report, councilVars, reportVars, Rounds, Peers
<1>7. CASE UNCHANGED convergeVars
  BY <1>7 DEF convergeVars, councilVars, reportVars, Rounds, Peers
<1>. QED  BY <1>1, <1>2, <1>3, <1>4, <1>5, <1>6, <1>7 DEF ConvergeNext

LEMMA RaisedStep ==
  ASSUME Seats, Raised, [ConvergeNext]_convergeVars
  PROVE  Raised'
<1>0. DOMAIN <<>> = {}
  OBVIOUS
<1>1. ASSUME phase \in {"args", "draft", "review"}, UNCHANGED <<ruling, handed, residual, unaddressed>>, phase' # "revise"
      PROVE  Raised'
  BY <1>0, <1>1 DEF Raised
<1>2. ASSUME UNCHANGED <<panel, reply, ruling, handed, residual, unaddressed, phase>>
      PROVE  Raised'
  BY <1>2 DEF Raised, Issues, Peers
<1>3. CASE \/ \E a, b \in Arguments, l \in PeerLists, n \in PeerCounts : Convene(a, b, l, n)
           \/ Draft \/ DraftFails
           \/ \E k \in Peers, ok \in BOOLEAN, v \in Verdicts, n \in 0..MaxIssues : Review(k, ok, v, n)
  BY <1>1, <1>3 DEF Convene, Refused, Draft, DraftFails, NextRound, Review, reportVars
<1>4. CASE \E v \in Verdicts : Blind(v)
  BY <1>0, <1>4 DEF Blind, reportVars, Raised
<1>5. ASSUME NEW rule \in [Issues -> Rulings \cup {Unruled}], Rule(rule)
      PROVE  Raised'
  <2>1. Issues' = Issues /\ ruling' = rule /\ phase = "review"
    BY <1>5 DEF Rule, councilVars, Issues, Peers
  <2>2. \A d : Decided(rule, d) \subseteq Issues
    BY DEF Decided
  <2>3. handed' \cup residual' \cup unaddressed' \subseteq Issues
    BY <1>5, <2>2 DEF Rule, Report, reportVars, Raised
  <2>4. phase' \in {"over", "revise"} /\ (phase' # "over" => residual' = {} /\ unaddressed' = {})
    BY <1>5, <2>1 DEF Rule, Report, reportVars, Raised
  <2>. QED  BY <2>1, <2>3, <2>4 DEF Raised
<1>6. CASE Revise
  <2>1. Issues' = Issues
    BY <1>6 DEF Revise, councilVars, Issues, Peers
  <2>. QED  BY <1>6, <2>1 DEF Revise, NextRound, reportVars, Raised
<1>7. CASE ReviseFails
  <2>1. Issues' = Issues /\ phase' = "over" /\ UNCHANGED <<ruling, handed>>
    BY <1>7 DEF ReviseFails, Report, councilVars, Issues, Peers
  <2>2. residual' \cup unaddressed' \subseteq Issues
    BY <1>7 DEF ReviseFails, Report, Decided
  <2>. QED  BY <2>1, <2>2 DEF Raised
<1>8. CASE UNCHANGED convergeVars
  BY <1>2, <1>8 DEF convergeVars, councilVars, reportVars
<1>. QED  BY <1>3, <1>4, <1>5, <1>6, <1>7, <1>8 DEF ConvergeNext

\* ConvergeTypeOK, with what it takes: a lane that is author or arbiter is not in the panel
\* (exclude), and the last round is not revised.
THEOREM RoundsTyped == ConvergeSpec => []ConvergeTypeOK
<1>1. Seats /\ Rounds /\ Raised => ConvergeTypeOK
  BY DEF Seats, Rounds, Raised, ConvergeTypeOK
<1>. QED  BY <1>1, StartTypes, SeatsStep, RoundsStep, RaisedStep, PTL DEF ConvergeSpec

-----------------------------------------------------------------------------
(* Converge: what becomes of the issues. *)

Distinct == \A j, k \in Peers : panel[j] = panel[k] => j = k

\* A review is of the plan it was asked about, and before the first round there is none.
Reviewed ==
    /\ plan \in Nat /\ reply \in [Peers -> [plan : Nat, ok : BOOLEAN, stance : Verdicts, issues : 0..MaxIssues]]
    /\ phase \in {"args", "draft", "blind", "review", "revise", "over"}
    /\ phase = "args" => panel = <<>>
    /\ phase \in {"args", "draft"} => plan = 0 /\ \A k \in Peers : reply[k] = NoReply
    /\ phase \in {"revise", "over"} => \A k \in Peers : reply[k].plan = plan

\* Where the issues of a round are once it is over.
Accounted ==
    /\ phase = "revise" =>
          /\ ruling \in [Issues -> Rulings \cup {Unruled}]
          /\ handed = Decided(ruling, "accept")
    /\ phase = "over" =>
          \/ Issues = {}
          \/ /\ ruling \in [Issues -> Rulings \cup {Unruled}]
             /\ residual = Decided(ruling, "defer")
             /\ Decided(ruling, "accept") \subseteq handed \cup unaddressed

LEMMA OwnLabel ==
  ASSUME Distinct, NEW k \in Peers
  PROVE  Label(k) = k
<1>1. \A l \in Peers : panel[l] = panel[k] <=> l = k
  BY DEF Distinct
<1>. QED  BY <1>1 DEF Label

\* What is ruled on an id that no other issue has is ruled on the issue.
OwnId(i) == Id(i) = i /\ \A j \in Issues : Id(j) = i => j = i

LEMMA OwnRuling ==
  ASSUME NEW rule \in [Issues -> Rulings \cup {Unruled}], NEW i \in Issues, OwnId(i)
  PROVE  /\ Decision(rule, i) \in {"accept", "dismiss", "defer"}
         /\ Decision(rule, i) # "accept" => rule[i].reason /\ rule[i].decision = Decision(rule, i)
<1>1. Id(i) = i /\ \A j \in Issues : Id(j) = i => j = i
  BY DEF OwnId
<1>2. Kept(rule, i) = rule[i]
  <2>. DEFINE same == {j \in DOMAIN rule : Id(j) = Id(i) /\ rule[j] # Unruled}
  <2>1. CASE rule[i] = Unruled
    <3>1. same = {}
      BY <1>1, <2>1
    <3>. QED  BY <2>1, <3>1 DEF Kept
  <2>2. CASE rule[i] # Unruled
    <3>1. same = {i}
      BY <1>1, <2>2
    <3>. QED  BY <3>1 DEF Kept
  <2>. QED  BY <2>1, <2>2
<1>. QED  BY <1>2 DEF Decision, Rulings, Unruled

LEMMA Divided ==
  ASSUME Distinct, NEW rule \in [Issues -> Rulings \cup {Unruled}], NEW i \in Issues,
         i \notin Decided(rule, "accept")
  PROVE  /\ rule[i].reason
         /\ rule[i].decision = "dismiss" \/ (rule[i].decision = "defer" /\ i \in Decided(rule, "defer"))
<1>1. \A j \in Issues : Id(j) = j
  BY OwnLabel DEF Id, Issues
<1>2. OwnId(i)
  BY <1>1 DEF OwnId
<1>. QED  BY <1>2, OwnRuling DEF Decided

LEMMA Start == ConvergeInit => Reviewed /\ Accounted
  BY DEF ConvergeInit, Reviewed, Accounted, Peers, Issues

LEMMA ReviewedStep ==
  ASSUME Reviewed, [ConvergeNext]_convergeVars
  PROVE  Reviewed'
<1>. NoReply \in [plan : Nat, ok : BOOLEAN, stance : Verdicts, issues : 0..MaxIssues] /\ NoReply.plan = 0
  BY ConvergeAssumption DEF NoReply, Verdicts
<1>1. ASSUME NEW a \in Arguments, NEW b \in Arguments, NEW l \in PeerLists, NEW n \in PeerCounts, Convene(a, b, l, n)
      PROVE  Reviewed'
  <2>1. CASE Refused
    BY <1>1, <2>1 DEF Convene, Refused, councilVars, Reviewed, Peers
  <2>2. CASE ~Refused
    BY <1>1, <2>2 DEF Convene, Refused, Reviewed, Peers
  <2>. QED  BY <2>1, <2>2
<1>2. CASE DraftFails \/ Draft
  BY <1>2 DEF DraftFails, Draft, NextRound, councilVars, Reviewed, Peers
<1>3. ASSUME NEW v \in Verdicts, Blind(v)
      PROVE  Reviewed'
  BY <1>3 DEF Blind, councilVars, Reviewed, Peers
<1>4. ASSUME NEW k \in Peers, NEW ok \in BOOLEAN, NEW v \in Verdicts, NEW n \in 0..MaxIssues, Review(k, ok, v, n)
      PROVE  Reviewed'
  BY <1>4 DEF Review, councilVars, Reviewed, Peers
<1>5. ASSUME NEW rule \in [Issues -> Rulings \cup {Unruled}], Rule(rule)
      PROVE  Reviewed'
  BY <1>5 DEF Rule, Waiting, Report, councilVars, Reviewed, Peers
<1>6. CASE Revise \/ ReviseFails
  BY <1>6 DEF Revise, ReviseFails, NextRound, Report, councilVars, Reviewed, Peers
<1>7. CASE UNCHANGED convergeVars
  BY <1>7 DEF convergeVars, councilVars, Reviewed, Peers
<1>. QED  BY <1>1, <1>2, <1>3, <1>4, <1>5, <1>6, <1>7 DEF ConvergeNext

LEMMA AccountedStep ==
  ASSUME Reviewed, Accounted, [ConvergeNext]_convergeVars
  PROVE  Accounted'
<1>1. CASE \/ \E a, b \in Arguments, l \in PeerLists, n \in PeerCounts : Convene(a, b, l, n)
           \/ DraftFails
  <2>1. phase' # "revise" /\ (phase' = "over" => Issues' = {})
    <3>1. CASE phase' = "over"
      <4>1. \A k \in Peers : reply[k].issues = 0
        BY <1>1 DEF Convene, DraftFails, Reviewed, NoReply, Peers
      <4>2. UNCHANGED <<reply, panel>>
        BY <1>1, <3>1 DEF Convene, Refused, DraftFails, councilVars
      <4>3. Issues = {} /\ Issues' = Issues
        BY <4>1, <4>2, ConvergeAssumption DEF Issues, Peers
      <4>. QED  BY <4>3, <1>1 DEF Convene, Refused, DraftFails
    <3>. QED  BY <3>1, <1>1 DEF Convene, Refused, DraftFails
  <2>. QED  BY <2>1 DEF Accounted
<1>2. CASE \/ Draft \/ Revise \/ \E v \in Verdicts : Blind(v)
           \/ \E k \in Peers, ok \in BOOLEAN, v \in Verdicts, n \in 0..MaxIssues : Review(k, ok, v, n)
  BY <1>2 DEF Draft, Revise, NextRound, Blind, Review, Accounted
<1>3. ASSUME NEW rule \in [Issues -> Rulings \cup {Unruled}], Rule(rule)
      PROVE  Accounted'
  <2>1. UNCHANGED <<panel, reply, Issues>> /\ ruling' = rule
    BY <1>3 DEF Rule, councilVars, Issues, Peers
  <2>2. Decided(rule, "accept")' = Decided(rule, "accept") /\ Decided(rule, "defer")' = Decided(rule, "defer")
    BY <2>1 DEF Decided, Decision, Kept, Id, Label, Issues, Peers
  <2>3. Converged(rule) => Decided(rule, "accept") = {}
    BY DEF Converged
  <2>. QED  BY <1>3, <2>1, <2>2, <2>3 DEF Rule, Report, Accounted
<1>4. CASE ReviseFails
  <2>1. UNCHANGED <<panel, reply, Issues, ruling>> /\ phase = "revise"
    BY <1>4 DEF ReviseFails, councilVars, Issues, Peers
  <2>2. Decided(ruling, "accept")' = Decided(ruling, "accept") /\ Decided(ruling, "defer")' = Decided(ruling, "defer")
    BY <2>1 DEF Decided, Decision, Kept, Id, Label, Issues, Peers
  <2>. QED  BY <1>4, <2>1, <2>2 DEF ReviseFails, Report, Accounted
<1>5. CASE UNCHANGED convergeVars
  <2>1. UNCHANGED <<panel, reply, Issues, ruling, handed, residual, unaddressed, phase>>
    BY <1>5 DEF convergeVars, councilVars, reportVars, Issues, Peers
  <2>2. Decided(ruling, "accept")' = Decided(ruling, "accept") /\ Decided(ruling, "defer")' = Decided(ruling, "defer")
    BY <2>1 DEF Decided, Decision, Kept, Id, Label, Issues, Peers
  <2>. QED  BY <2>1, <2>2 DEF Accounted
<1>. QED  BY <1>1, <1>2, <1>3, <1>4, <1>5 DEF ConvergeNext

\* Whatever the peers raise and however the arbiter rules, or fails to: NothingDroppedSilently
\* (_parse_adjudications, and the residual and unaddressed issues of the report).
THEOREM NothingIsDropped == ConvergeSpec => []NothingDroppedSilently
<1>1. ASSUME Reviewed, Accounted
      PROVE  NothingDroppedSilently
  <2>. SUFFICES ASSUME phase \in {"revise", "over"}, Distinct
                PROVE  /\ \A k \in Peers : reply[k].plan = plan
                       /\ \A i \in Issues :
                             \/ i \in handed \cup unaddressed
                             \/ ruling[i].reason /\ ruling[i].decision = "dismiss"
                             \/ ruling[i].reason /\ ruling[i].decision = "defer"
                                    /\ (phase = "over" => i \in residual)
    BY DEF NothingDroppedSilently, Distinct
  <2>1. \A k \in Peers : reply[k].plan = plan
    BY <1>1 DEF Reviewed
  <2>2. ASSUME NEW i \in Issues, i \notin handed \cup unaddressed
        PROVE  /\ ruling[i].reason
               /\ \/ ruling[i].decision = "dismiss"
                  \/ ruling[i].decision = "defer" /\ (phase = "over" => i \in residual)
    <3>1. /\ ruling \in [Issues -> Rulings \cup {Unruled}]
          /\ Decided(ruling, "accept") \subseteq handed \cup unaddressed
          /\ phase = "over" => residual = Decided(ruling, "defer")
      BY <1>1, <2>2 DEF Accounted
    <3>. QED  BY <2>2, <3>1, Divided
  <2>. QED  BY <2>1, <2>2
<1>. QED  BY <1>1, Start, ReviewedStep, AccountedStep, PTL DEF ConvergeSpec

-----------------------------------------------------------------------------
(* Converge: what a plan that converged has behind it. *)

Carried ==
    /\ phase \in {"review", "revise"} => blind.plan = plan
    /\ phase # "over" => outcome # "converged"
    /\ outcome = "converged" =>
          /\ blind.plan = plan
          /\ ruling \in [Issues -> Rulings \cup {Unruled}]
          /\ Converged(ruling)

LEMMA CarriedStep ==
  ASSUME Carried, [ConvergeNext]_convergeVars
  PROVE  Carried'
<1>1. CASE \/ \E a, b \in Arguments, l \in PeerLists, n \in PeerCounts : Convene(a, b, l, n)
           \/ Draft \/ DraftFails \/ Revise \/ ReviseFails
           \/ \E v \in Verdicts : Blind(v)
           \/ \E k \in Peers, ok \in BOOLEAN, v \in Verdicts, n \in 0..MaxIssues : Review(k, ok, v, n)
  BY <1>1 DEF Convene, Refused, Draft, DraftFails, Revise, ReviseFails, NextRound, Blind, Review, Report, reportVars, Carried
<1>2. ASSUME NEW rule \in [Issues -> Rulings \cup {Unruled}], Rule(rule)
      PROVE  Carried'
  <2>1. UNCHANGED <<panel, reply, blind, plan, Issues>> /\ ruling' = rule /\ phase = "review"
    BY <1>2 DEF Rule, councilVars, Issues, Peers
  <2>2. Converged(ruling)' = Converged(rule)
    BY <2>1 DEF Converged, Responders, Decided, Decision, Kept, Id, Label, Issues, Peers
  <2>. QED  BY <1>2, <2>1, <2>2 DEF Rule, Report, reportVars, Carried
<1>3. CASE UNCHANGED convergeVars
  <2>1. UNCHANGED <<panel, reply, blind, plan, ruling, phase, outcome, Issues>>
    BY <1>3 DEF convergeVars, councilVars, reportVars, Issues, Peers
  <2>2. Converged(ruling)' = Converged(ruling)
    BY <2>1 DEF Converged, Responders, Decided, Decision, Kept, Id, Label, Issues, Peers
  <2>. QED  BY <2>1, <2>2 DEF Carried
<1>. QED  BY <1>1, <1>2, <1>3 DEF ConvergeNext

\* Neither the author nor the arbiter carries a plan alone: ConvergedIsCarried (the blind verdict
\* and the test of convergence in converge, on a panel that excludes the two).
THEOREM PlansAreCarried == ConvergeSpec => []ConvergedIsCarried
<1>1. ConvergeInit => Carried
  BY DEF ConvergeInit, Carried
<1>2. ASSUME Seats, Rounds, Reviewed, Carried
      PROVE  ConvergedIsCarried
  <2>. SUFFICES ASSUME outcome = "converged"
                PROVE  /\ blind = [plan |-> plan, verdict |-> "approve"]
                       /\ \E k \in Peers : panel[k] \notin {author, arbiter} /\ reply[k].ok
                       /\ \A k \in Peers : reply[k].plan = plan /\ (reply[k].ok => reply[k].stance = "approve")
                       /\ \A i \in Issues : OwnId(i) =>
                             ruling[i].decision \in {"dismiss", "defer"} /\ ruling[i].reason
    BY DEF ConvergedIsCarried, OwnId
  <2>1. phase = "over" /\ blind.plan = plan /\ Converged(ruling) /\ ruling \in [Issues -> Rulings \cup {Unruled}]
    BY <1>2 DEF Carried
  <2>2. blind = [plan |-> plan, verdict |-> "approve"]
    BY <1>2, <2>1 DEF Rounds, Converged
  <2>3. \E k \in Peers : panel[k] \notin {author, arbiter} /\ reply[k].ok
    BY <1>2, <2>1 DEF Seats, Converged, Responders
  <2>4. \A k \in Peers : reply[k].plan = plan /\ (reply[k].ok => reply[k].stance = "approve")
    BY <1>2, <2>1 DEF Reviewed, Converged, Responders
  <2>5. ASSUME NEW i \in Issues, OwnId(i)
        PROVE  ruling[i].decision \in {"dismiss", "defer"} /\ ruling[i].reason
    BY <2>1, <2>5, OwnRuling DEF Converged, Decided
  <2>. QED  BY <2>2, <2>3, <2>4, <2>5
<1>. QED
  BY <1>1, <1>2, Start, StartTypes, SeatsStep, RoundsStep, ReviewedStep, CarriedStep, PTL DEF ConvergeSpec
=============================================================================
