--------------------------- MODULE CouncilProofs ---------------------------
(***************************************************************************)
(* What Council promises, for any lanes, costs, measures, policies, lists, *)
(* findings and bounds, and for replies that come in any order.            *)
(*                                                                         *)
(* The first part is about the pure rules. Each is a recursive function,   *)
(* a table made row by row (Rows): what holds of the first row and is      *)
(* carried from each to the next holds of the last (Climb). From it follow *)
(* what sorting, keeping, merging and adding up return.                    *)
(*                                                                         *)
(* The second is the inductive invariant. What makes EveryVoiceHeard more  *)
(* than its own consequence is Latest, which says at every moment, also    *)
(* with half a wave in, where the latest answer of a seat is: in its reply *)
(* or in what was held of it before. What makes CostCeiling so is Seated,  *)
(* which ties the seats to the choice that was made when the tool was      *)
(* called, and Agreed, which also speaks of whoever concludes.             *)
(*                                                                         *)
(* The third goes through the steps, action by action.                     *)
(***************************************************************************)
EXTENDS Council, FiniteSetTheorems, WellFoundedInduction, TLAPS

\* Every set of numbers has a least one.
LEMMA LeastNumber ==
    ASSUME NEW S, S \subseteq Nat, S # {}
    PROVE  LowestOf(S) \in S /\ \A j \in S : LowestOf(S) <= j
<1>1. PICK x \in S : \A y \in S : <<y, x>> \notin OpToRel(<, Nat)
  BY NatLessThanWellFounded, WFMin
<1>2. \A y \in S : ~(y < x)
  BY <1>1 DEF OpToRel
<1>3. \A y \in S : x <= y
  BY <1>2
<1>. QED  BY <1>3 DEF LowestOf

\* What holds of 0, and of a number if it does of the one before, holds up to n.
LEMMA Climb ==
    ASSUME NEW n \in Nat, NEW S, 0 \in S, \A k \in 1..n : k - 1 \in S => k \in S
    PROVE  \A k \in 0..n : k \in S
<1>. DEFINE missing == {k \in 0..n : k \notin S}
<1>. SUFFICES ASSUME missing # {}
              PROVE  FALSE
  OBVIOUS
<1>. DEFINE k == LowestOf(missing)
<1>1. k \in missing /\ \A j \in missing : k <= j
  BY LeastNumber
<1>. HIDE DEF k
<1>2. k \in 1..n
  BY <1>1
<1>3. k - 1 \in 0..n /\ ~(k <= k - 1)
  BY <1>2
<1>4. k - 1 \in S
  BY <1>1, <1>3
<1>. QED  BY <1>1, <1>2, <1>4

\* Rows of a table: step[k] makes row k of the row before it.
Closed(step, n, X) == \A k \in 1..n : \A x \in X : step[k][x] \in X
Table(f, n, X, base, step) ==
    /\ f \in [0..n -> X]
    /\ f[0] = base /\ \A k \in 1..n : f[k] = step[k][f[k - 1]]

\* A table made row after row, each from the row before it, can be made to any length.
LEMMA Rows ==
    ASSUME NEW n \in Nat, NEW X, NEW base \in X, NEW step, Closed(step, n, X)
    PROVE  \E f : Table(f, n, X, base, step)
<1>. DEFINE To(m) == \E f \in [0..m -> X] : f[0] = base /\ \A k \in 1..m : f[k] = step[k][f[k - 1]]
            S == {m \in 0..n : To(m)}
<1>1. To(0)
  <2>1. [k \in 0..0 |-> base] \in [0..0 -> X] /\ [k \in 0..0 |-> base][0] = base
    OBVIOUS
  <2>2. 1..0 = {}
    OBVIOUS
  <2>. QED  BY <2>1, <2>2
<1>2. ASSUME NEW m \in 1..n, m - 1 \in S
      PROVE  m \in S
  <2>1. PICK f \in [0..(m - 1) -> X] :
            f[0] = base /\ \A k \in 1..(m - 1) : f[k] = step[k][f[k - 1]]
    BY <1>2
  <2>. DEFINE g == [k \in 0..m |-> IF k = m THEN step[m][f[m - 1]] ELSE f[k]]
  <2>2. f[m - 1] \in X /\ step[m][f[m - 1]] \in X
    BY <2>1 DEF Closed
  <2>3. g \in [0..m -> X]
    <3>1. \A k \in 0..m : k # m => k \in 0..(m - 1)
      OBVIOUS
    <3>. QED  BY <2>1, <2>2, <3>1
  <2>4. g[0] = base
    BY <2>1
  <2>5. ASSUME NEW k \in 1..m
        PROVE  g[k] = step[k][g[k - 1]]
    <3>1. k - 1 \in 0..m /\ k - 1 # m /\ k \in 0..m
      OBVIOUS
    <3>2. g[k - 1] = f[k - 1]
      BY <3>1
    <3>3. CASE k = m
      BY <3>1, <3>2, <3>3
    <3>4. CASE k # m
      <4>1. k \in 1..(m - 1)
        BY <3>4
      <4>. QED  BY <2>1, <3>1, <3>2, <3>4, <4>1
    <3>. QED  BY <3>3, <3>4
  <2>. HIDE DEF g
  <2>. QED  BY <2>3, <2>4, <2>5
<1>3. 0 \in S
  BY <1>1
<1>. HIDE DEF S
<1>4. \A m \in 0..n : m \in S
  BY <1>2, <1>3, Climb
<1>5. n \in S
  BY <1>4
<1>. QED  BY <1>5 DEF S, Table

-----------------------------------------------------------------------------
(* The orders of the lanes and of the answers. *)

\* The keys order S strictly, and any two elements of it.
Ordered(key, S) ==
    \A a, b, c \in S :
        /\ ~Precedes(key[a], key[a])
        /\ a # b => Precedes(key[a], key[b]) \/ Precedes(key[b], key[a])
        /\ Precedes(key[a], key[b]) /\ Precedes(key[b], key[c]) => Precedes(key[a], key[c])

\* Lists of numbers of one length are in order if no two of them are the same.
LEMMA Lexicographic ==
    ASSUME NEW n \in Nat, NEW S, NEW key, \A a \in S : key[a] \in [1..n -> Int],
           \A a, b \in S : key[a] = key[b] => a = b
    PROVE  Ordered(key, S)
<1>1. ASSUME NEW a \in S
      PROVE  ~Precedes(key[a], key[a])
  BY DEF Precedes
<1>2. ASSUME NEW a \in S, NEW b \in S, a # b
      PROVE  Precedes(key[a], key[b]) \/ Precedes(key[b], key[a])
  <2>. DEFINE s == key[a]
              t == key[b]
              differ == {k \in 1..n : s[k] # t[k]}
  <2>1. s \in [1..n -> Int] /\ t \in [1..n -> Int] /\ s # t
    BY <1>2
  <2>. HIDE DEF s, t
  <2>2. differ # {} /\ differ \subseteq Nat
    <3>1. s = [k \in 1..n |-> s[k]] /\ t = [k \in 1..n |-> t[k]]
      BY <2>1
    <3>2. PICK k \in 1..n : s[k] # t[k]
      BY <2>1, <3>1
    <3>3. k \in differ
      BY <3>2
    <3>4. differ \subseteq Nat
      OBVIOUS
    <3>. HIDE DEF differ
    <3>. QED  BY <3>3, <3>4
  <2>3. PICK k \in differ : \A j \in differ : k <= j
    BY <2>2, LeastNumber
  <2>4. \A m \in 1..(k - 1) : s[m] = t[m] /\ t[m] = s[m]
    <3>1. \A m \in 1..(k - 1) : m \in 1..n /\ ~(k <= m)
      BY <2>3
    <3>. QED  BY <2>3, <3>1
  <2>5. s[k] < t[k] \/ t[k] < s[k]
    BY <2>1, <2>3
  <2>6. k \in DOMAIN s /\ k \in DOMAIN t
    BY <2>1, <2>3
  <2>7. Precedes(s, t) \/ Precedes(t, s)
    <3>. HIDE DEF differ
    <3>. QED  BY <2>4, <2>5, <2>6 DEF Precedes
  <2>. QED  BY <2>7 DEF s, t
<1>3. ASSUME NEW a \in S, NEW b \in S, NEW c \in S,
             Precedes(key[a], key[b]), Precedes(key[b], key[c])
      PROVE  Precedes(key[a], key[c])
  <2>. DEFINE r == key[a]
              s == key[b]
              t == key[c]
  <2>0. r \in [1..n -> Int] /\ s \in [1..n -> Int] /\ t \in [1..n -> Int]
    OBVIOUS
  <2>. HIDE DEF r, s, t
  <2>1. PICK i \in 1..n : r[i] < s[i] /\ \A m \in 1..(i - 1) : r[m] = s[m]
    BY <1>3, <2>0 DEF Precedes, r, s
  <2>2. PICK j \in 1..n : s[j] < t[j] /\ \A m \in 1..(j - 1) : s[m] = t[m]
    BY <1>3, <2>0 DEF Precedes, s, t
  <2>3. \E k \in 1..n : r[k] < t[k] /\ \A m \in 1..(k - 1) : r[m] = t[m]
    <3>1. CASE i < j
      <4>1. i \in 1..(j - 1) /\ \A m \in 1..(i - 1) : m \in 1..(j - 1)
        BY <3>1
      <4>. QED  BY <2>1, <2>2, <4>1
    <3>2. CASE j < i
      <4>1. j \in 1..(i - 1) /\ \A m \in 1..(j - 1) : m \in 1..(i - 1)
        BY <3>2
      <4>. QED  BY <2>1, <2>2, <4>1
    <3>3. CASE i = j
      <4>1. r[i] < t[i]
        BY <2>0, <2>1, <2>2, <3>3
      <4>. QED  BY <2>1, <2>2, <3>3, <4>1
    <3>. QED  BY <3>1, <3>2, <3>3
  <2>4. DOMAIN r = 1..n
    BY <2>0
  <2>5. Precedes(r, t)
    BY <2>3, <2>4 DEF Precedes
  <2>. QED  BY <2>5 DEF r, t
<1>. QED  BY <1>1, <1>2, <1>3 DEF Ordered

\* a comes before all others.
IsFirst(a, key, S) == a \in S /\ \A b \in S \ {a} : Precedes(key[a], key[b])

\* In a finite set with an order there is a first.
LEMMA FirstOfOrdered ==
    ASSUME NEW key, NEW S, IsFiniteSet(S), S # {}, Ordered(key, S)
    PROVE  IsFirst(FirstBy(key, S), key, S)
<1>. DEFINE N == Cardinality(S)
            Sizes == {k \in 0..N : \A T \in SUBSET S :
                          T # {} /\ Cardinality(T) = k => \E a : IsFirst(a, key, T)}
<1>1. N \in Nat /\ \A T \in SUBSET S : IsFiniteSet(T)
  BY FS_CardinalityType, FS_Subset
<1>. HIDE DEF N
<1>2. 0 \in Sizes
  <2>1. \A T \in SUBSET S : T # {} => Cardinality(T) # 0
    BY <1>1, FS_EmptySet
  <2>. QED  BY <1>1, <2>1
<1>3. ASSUME NEW k \in 1..N, k - 1 \in Sizes
      PROVE  k \in Sizes
  <2>. SUFFICES ASSUME NEW T \in SUBSET S, T # {}, Cardinality(T) = k
                PROVE  \E a : IsFirst(a, key, T)
    OBVIOUS
  <2>1. PICK x \in T : TRUE
    OBVIOUS
  <2>. DEFINE U == T \ {x}
  <2>2. Cardinality(U) = k - 1 /\ U \in SUBSET S
    BY <1>1, <2>1, FS_RemoveElement
  <2>3. CASE U = {}
    BY <2>1, <2>3 DEF IsFirst
  <2>4. CASE U # {}
    <3>1. PICK a : IsFirst(a, key, U)
      BY <1>3, <2>2, <2>4
    <3>2. a \in T /\ a # x /\ \A b \in T : b = x \/ b = a \/ Precedes(key[a], key[b])
      BY <3>1 DEF IsFirst
    <3>3. CASE Precedes(key[a], key[x])
      BY <3>2, <3>3 DEF IsFirst
    <3>4. CASE Precedes(key[x], key[a])
      <4>1. \A b \in T \ {x} : Precedes(key[x], key[b])
        BY <2>1, <3>2, <3>4 DEF Ordered
      <4>. QED  BY <2>1, <4>1 DEF IsFirst
    <3>. QED  BY <2>1, <3>2, <3>3, <3>4 DEF Ordered
  <2>. QED  BY <2>3, <2>4
<1>. HIDE DEF Sizes
<1>4. \A k \in 0..N : k \in Sizes
  BY <1>1, <1>2, <1>3, Climb
<1>5. \E a : IsFirst(a, key, S)
  BY <1>1, <1>4 DEF Sizes, N
<1>. QED  BY <1>5 DEF FirstBy, IsFirst

\* The list that sorting makes has every element of the set, each before those it precedes.
LEMMA SortingSorts ==
    ASSUME NEW key, NEW S, IsFiniteSet(S), Ordered(key, S)
    PROVE  LET s == SortedBy(key, S)
           IN  /\ s \in Seq(S) /\ Len(s) = Cardinality(S)
               /\ \A a \in S : \E k \in DOMAIN s : s[k] = a
               /\ \A j, k \in DOMAIN s : j < k => Precedes(key[s[j]], key[s[k]])
<1>. DEFINE n == Cardinality(S)
            Left(f) == f = [k \in 0..n |-> IF k = 0 THEN S ELSE AfterFirst(key, f[k - 1])]
            left == CHOOSE f : Left(f)
            s == [k \in 1..n |-> FirstBy(key, left[k - 1])]
<1>0. n \in Nat /\ \A T \in SUBSET S : IsFiniteSet(T)
  BY FS_CardinalityType, FS_Subset
<1>1. SortedBy(key, S) = s
  BY DEF SortedBy
<1>2. Left(left)
  <2>. DEFINE X == SUBSET S
              step == [k \in 1..n |-> [T \in X |-> AfterFirst(key, T)]]
  <2>1. S \in X /\ Closed(step, n, X)
    BY DEF AfterFirst, Closed
  <2>. HIDE DEF n
  <2>2. PICK f : Table(f, n, X, S, step)
    <3>1. n \in Nat
      BY <1>0
    <3>. HIDE DEF step, X
    <3>. QED  BY ONLY <2>1, <3>1, Rows
  <2>. USE DEF Table
  <2>3. ASSUME NEW k \in 1..n
        PROVE  f[k] = AfterFirst(key, f[k - 1])
    <3>1. k - 1 \in 0..n
      BY <1>0
    <3>2. f[k - 1] \in X
      BY <2>2, <3>1
    <3>. QED  BY <2>2, <3>2
  <2>4. ASSUME NEW k \in 0..n
        PROVE  f[k] = IF k = 0 THEN S ELSE AfterFirst(key, f[k - 1])
    <3>1. k = 0 \/ k \in 1..n
      BY <1>0
    <3>. QED  BY <2>2, <2>3, <3>1
  <2>5. Left(f)
    <3>1. f = [k \in 0..n |-> f[k]]
      BY <2>2
    <3>. QED  BY <2>4, <3>1
  <2>. QED  BY <2>5
<1>. HIDE DEF left, n
<1>3. /\ left[0] = S
      /\ \A k \in 1..n : left[k] = AfterFirst(key, left[k - 1])
  <2>1. 0 \in 0..n /\ \A k \in 1..n : k \in 0..n /\ k # 0
    BY <1>0
  <2>. QED  BY <1>2, <2>1
<1>. DEFINE Fewer == {k \in 0..n : left[k] \in SUBSET S /\ Cardinality(left[k]) = n - k}
<1>4. ASSUME NEW k \in 1..n, k - 1 \in Fewer
      PROVE  k \in Fewer /\ IsFirst(FirstBy(key, left[k - 1]), key, left[k - 1])
  <2>. DEFINE T == left[k - 1]
  <2>1. T \in SUBSET S /\ Cardinality(T) = n - (k - 1) /\ IsFiniteSet(T)
    BY <1>0, <1>4
  <2>2. T # {}
    BY <1>0, <2>1, FS_EmptySet
  <2>3. Ordered(key, T)
    BY <2>1 DEF Ordered
  <2>. HIDE DEF T
  <2>4. IsFirst(FirstBy(key, T), key, T)
    BY <2>1, <2>2, <2>3, FirstOfOrdered
  <2>5. Cardinality(T \ {FirstBy(key, T)}) = Cardinality(T) - 1
    BY <2>1, <2>4, FS_RemoveElement DEF IsFirst
  <2>6. left[k] = T \ {FirstBy(key, T)}
    BY <1>3 DEF T, AfterFirst
  <2>7. Cardinality(left[k]) = n - k /\ left[k] \in SUBSET S
    BY <1>0, <2>1, <2>5, <2>6
  <2>. QED  BY <2>4, <2>7 DEF T
<1>5. 0 \in Fewer
  BY <1>0, <1>3 DEF n
<1>6. \A k \in 0..n : k \in Fewer
  <2>. HIDE DEF Fewer
  <2>. QED  BY <1>0, <1>4, <1>5, Climb
<1>7. ASSUME NEW k \in 1..n
      PROVE  /\ s[k] \in left[k - 1] /\ s[k] \in S
             /\ left[k] = left[k - 1] \ {s[k]}
             /\ \A b \in left[k] : Precedes(key[s[k]], key[b])
  <2>1. k - 1 \in 0..n
    BY <1>0
  <2>2. k - 1 \in Fewer
    BY <1>6, <2>1
  <2>3. IsFirst(s[k], key, left[k - 1])
    BY <1>4, <2>2
  <2>4. left[k] = left[k - 1] \ {s[k]}
    BY <1>3 DEF AfterFirst
  <2>. QED  BY <2>2, <2>3, <2>4 DEF IsFirst
<1>. HIDE DEF s
<1>8. s \in [1..n -> S] /\ DOMAIN s = 1..n
  BY <1>7 DEF s
<1>9. s \in Seq(S) /\ Len(s) = n
  BY <1>0, <1>8
<1>10. ASSUME NEW a \in S
       PROVE  \E k \in 1..n : s[k] = a
  <2>. DEFINE Seen == {k \in 0..n : a \in left[k] \/ \E j \in 1..k : s[j] = a}
  <2>1. 0 \in Seen
    BY <1>0, <1>3
  <2>2. ASSUME NEW k \in 1..n, k - 1 \in Seen
        PROVE  k \in Seen
    <3>1. k \in 0..n /\ k \in 1..k /\ \A j \in 1..(k - 1) : j \in 1..k
      BY <1>0
    <3>. QED  BY <1>7, <2>2, <3>1
  <2>. HIDE DEF Seen
  <2>3. \A k \in 0..n : k \in Seen
    BY <1>0, <2>1, <2>2, Climb
  <2>4. n \in Fewer /\ n \in Seen
    BY <1>0, <1>6, <2>3
  <2>5. left[n] = {}
    BY <1>0, <2>4, FS_EmptySet
  <2>. QED  BY <2>4, <2>5 DEF Seen
<1>11. ASSUME NEW j \in 1..n
       PROVE  \A k \in 0..n : j <= k => left[k] \subseteq left[j]
  <2>. DEFINE Within == {k \in 0..n : j <= k => left[k] \subseteq left[j]}
  <2>1. 0 \in Within
    BY <1>0
  <2>2. ASSUME NEW k \in 1..n, k - 1 \in Within
        PROVE  k \in Within
    <3>1. k \in 0..n /\ (j <= k => j = k \/ j <= k - 1)
      BY <1>0
    <3>. QED  BY <1>7, <2>2, <3>1
  <2>. HIDE DEF Within
  <2>3. \A k \in 0..n : k \in Within
    BY <1>0, <2>1, <2>2, Climb
  <2>. QED  BY <2>3 DEF Within
<1>12. ASSUME NEW j \in 1..n, NEW k \in 1..n, j < k
       PROVE  Precedes(key[s[j]], key[s[k]])
  <2>1. k - 1 \in 0..n /\ j <= k - 1
    BY <1>0, <1>12
  <2>2. s[k] \in left[j]
    BY <1>7, <1>11, <2>1
  <2>. QED  BY <1>7, <2>2
<1>. QED  BY <1>1, <1>8, <1>9, <1>10, <1>12 DEF n

-----------------------------------------------------------------------------
(* What is kept of a list. *)

\* What is kept of a list is in the list and in the set.
LEMMA OnlyKeeps ==
    ASSUME NEW s, Len(s) \in Nat, NEW S
    PROVE  Only(s, S) \in Seq({s[k] : k \in 1..Len(s)} \cap S)
<1>. DEFINE n == Len(s)
            X == Seq({s[k] : k \in 1..n} \cap S)
            Kept(f) == f = [k \in 0..n |->
                IF k = 0 THEN <<>>
                ELSE IF s[k] \in S THEN Append(f[k - 1], s[k]) ELSE f[k - 1]]
            kept == CHOOSE f : Kept(f)
            none == <<>>
            step == [k \in 1..n |-> [x \in X |-> IF s[k] \in S THEN Append(x, s[k]) ELSE x]]
<1>1. Only(s, S) = kept[n]
  BY DEF Only
<1>2. none \in X /\ Closed(step, n, X)
  BY DEF Closed
<1>3. PICK f : Table(f, n, X, none, step)
  <2>1. n \in Nat
    OBVIOUS
  <2>. HIDE DEF step, X, n, none
  <2>. QED  BY ONLY <1>2, <2>1, Rows
<1>. USE DEF Table
<1>4. ASSUME NEW k \in 0..n
      PROVE  f[k] = IF k = 0 THEN <<>>
                    ELSE IF s[k] \in S THEN Append(f[k - 1], s[k]) ELSE f[k - 1]
  <2>1. CASE k = 0
    BY <1>3, <2>1
  <2>2. CASE k # 0
    <3>1. k - 1 \in 0..n /\ k \in 1..n
      BY <2>2
    <3>2. f[k - 1] \in X
      BY <1>3, <3>1
    <3>. HIDE DEF X
    <3>. QED  BY <1>3, <2>2, <3>1, <3>2
  <2>. QED  BY <2>1, <2>2
<1>5. Kept(f)
  <2>1. f = [k \in 0..n |-> f[k]]
    BY <1>3
  <2>. QED  BY <1>4, <2>1
<1>6. Kept(kept)
  BY <1>5
<1>. HIDE DEF kept
<1>7. ASSUME NEW k \in 0..n
      PROVE  kept[k] = IF k = 0 THEN <<>>
                       ELSE IF s[k] \in S THEN Append(kept[k - 1], s[k]) ELSE kept[k - 1]
  BY <1>6
<1>. DEFINE Typed == {k \in 0..n : kept[k] \in X}
<1>8. 0 \in Typed
  <2>1. kept[0] = <<>>
    BY <1>7
  <2>. HIDE DEF X
  <2>. QED  BY <1>2, <2>1
<1>9. ASSUME NEW k \in 1..n, k - 1 \in Typed
      PROVE  k \in Typed
  <2>1. k \in 0..n /\ k # 0
    OBVIOUS
  <2>2. CASE s[k] \in S
    <3>1. kept[k] = Append(kept[k - 1], s[k])
      BY <1>7, <2>1, <2>2
    <3>2. kept[k - 1] \in X
      BY <1>9
    <3>3. Append(kept[k - 1], s[k]) \in X
      BY <2>2, <3>2
    <3>. HIDE DEF X
    <3>. QED  BY <2>1, <3>1, <3>3
  <2>3. CASE s[k] \notin S
    <3>1. kept[k] = kept[k - 1]
      BY <1>7, <2>1, <2>3
    <3>. QED  BY <1>9, <2>1, <3>1
  <2>. QED  BY <2>2, <2>3
<1>. HIDE DEF Typed
<1>10. \A k \in 0..n : k \in Typed
  BY <1>8, <1>9, Climb
<1>. QED  BY <1>1, <1>10 DEF Typed

-----------------------------------------------------------------------------
(* Findings. *)

\* What a finding is.
Severities == Nat \ {0}
Finding == [title : Nat, severity : Severities, located : BOOLEAN,
            models : SUBSET (Lanes \cup {Precheck})]

\* Every finding is like one that opens a group, and no two of those are alike.
LEMMA OpenersOpen ==
    ASSUME NEW found \in Seq(Finding)
    PROVE  /\ Openers(found) \subseteq 1..Len(found)
           /\ \A k \in 1..Len(found) : \E m \in Openers(found) : Same(found[m], found[k])
           /\ \A m, k \in Openers(found) : m < k => ~Same(found[m], found[k])
<1>. DEFINE n == Len(found)
            X == SUBSET (1..n)
            With(S, k) == IF \E m \in S : Same(found[m], found[k]) THEN S ELSE S \cup {k}
            Opened(f) == f = [k \in 0..n |->
                IF k = 0 THEN {}
                ELSE IF \E m \in f[k - 1] : Same(found[m], found[k]) THEN f[k - 1]
                ELSE f[k - 1] \cup {k}]
            opened == CHOOSE f : Opened(f)
            none == {}
            step == [k \in 1..n |-> [x \in X |-> With(x, k)]]
<1>0. n \in Nat
  OBVIOUS
<1>1. Openers(found) = opened[n]
  BY DEF Openers
<1>2. none \in X /\ Closed(step, n, X)
  BY DEF Closed
<1>3. PICK f : Table(f, n, X, none, step)
  <2>1. n \in Nat
    BY <1>0
  <2>. HIDE DEF step, X, n, none
  <2>. QED  BY ONLY <1>2, <2>1, Rows
<1>. USE DEF Table
<1>. HIDE DEF n
<1>4. ASSUME NEW k \in 0..n
      PROVE  f[k] = IF k = 0 THEN {} ELSE With(f[k - 1], k)
  <2>1. CASE k = 0
    BY <1>3, <2>1
  <2>2. CASE k # 0
    <3>1. k - 1 \in 0..n /\ k \in 1..n
      BY <1>0, <2>2
    <3>2. f[k - 1] \in X
      BY <1>3, <3>1
    <3>. HIDE DEF X, With
    <3>. QED  BY <1>3, <2>2, <3>1, <3>2
  <2>. QED  BY <2>1, <2>2
<1>5. Opened(f)
  <2>1. f = [k \in 0..n |-> f[k]]
    BY <1>3
  <2>. QED  BY <1>4, <2>1
<1>6. Opened(opened)
  BY <1>5
<1>. HIDE DEF opened
<1>7. opened[0] = {} /\ \A k \in 1..n : opened[k] = With(opened[k - 1], k)
  <2>1. 0 \in 0..n /\ \A k \in 1..n : k \in 0..n /\ k # 0
    BY <1>0
  <2>. QED  BY <1>6, <2>1
<1>. DEFINE Right == {k \in 0..n :
                /\ opened[k] \subseteq 1..k
                /\ \A j \in 1..k : \E m \in opened[k] : Same(found[m], found[j])
                /\ \A m, j \in opened[k] : m < j => ~Same(found[m], found[j])}
<1>8. 0 \in Right
  BY <1>0, <1>7
<1>9. ASSUME NEW k \in 1..n, k - 1 \in Right
      PROVE  k \in Right
  <2>. DEFINE S == opened[k - 1]
  <2>1. /\ S \subseteq 1..(k - 1)
        /\ \A j \in 1..(k - 1) : \E m \in S : Same(found[m], found[j])
        /\ \A m, j \in S : m < j => ~Same(found[m], found[j])
    BY <1>9
  <2>2. /\ k \in 0..n /\ \A m \in 1..(k - 1) : m \in 1..k /\ m < k
        /\ \A j \in 1..k : j = k \/ j \in 1..(k - 1)
    BY <1>0
  <2>3. opened[k] = With(S, k)
    BY <1>7
  <2>. HIDE DEF S
  <2>4. CASE \E m \in S : Same(found[m], found[k])
    <3>1. opened[k] = S
      BY <2>3, <2>4
    <3>. QED  BY <2>1, <2>2, <2>4, <3>1
  <2>5. CASE ~\E m \in S : Same(found[m], found[k])
    <3>1. opened[k] = S \cup {k}
      BY <2>3, <2>5
    <3>2. opened[k] \subseteq 1..k
      BY <2>1, <2>2, <3>1
    <3>3. Same(found[k], found[k])
      BY DEF Same
    <3>4. \A j \in 1..k : \E m \in opened[k] : Same(found[m], found[j])
      BY <2>1, <2>2, <3>1, <3>3
    <3>5. \A m, j \in opened[k] : m < j => ~Same(found[m], found[j])
      <4>. SUFFICES ASSUME NEW m \in opened[k], NEW j \in opened[k], m < j
                    PROVE  ~Same(found[m], found[j])
        OBVIOUS
      <4>1. m # k
        BY <1>0, <3>2
      <4>2. m \in S
        BY <3>1, <4>1
      <4>. QED  BY <2>1, <2>5, <3>1, <4>2
    <3>. QED  BY <2>2, <3>2, <3>4, <3>5
  <2>. QED  BY <2>4, <2>5
<1>10. \A k \in 0..n : k \in Right
  <2>. HIDE DEF Right
  <2>. QED  BY <1>0, <1>8, <1>9, Climb
<1>11. n \in Right
  BY <1>0, <1>10
<1>. QED  BY <1>1, <1>11 DEF n

\* A finding is in the group of the first opener it is like, and the group is as severe as the
\* most severe of its findings.
LEMMA GroupsOfFindings ==
    ASSUME NEW found \in Seq(Finding), NEW g
    PROVE  /\ g \in MergeFindings(found) =>
                /\ \E m \in 1..Len(found) : found[m].title = g.title /\ found[m].located = g.located
                /\ \E k \in 1..Len(found) : Same(g, found[k]) /\ found[k].severity = g.severity
                /\ \A l \in g.models :
                      \E k \in 1..Len(found) : Same(g, found[k]) /\ l \in found[k].models
           /\ \A k \in 1..Len(found) : \E h \in MergeFindings(found) :
                /\ Same(h, found[k]) /\ found[k].models \subseteq h.models
                /\ h.severity <= found[k].severity
<1>. DEFINE n == Len(found)
            Group(m) == {k \in DOMAIN found : Joins(found, k) = m}
            Severity(m) == {found[k].severity : k \in Group(m)}
            Models(m) == UNION {found[k].models : k \in Group(m)}
<1>1. n \in Nat /\ DOMAIN found = 1..n /\ \A k \in 1..n : found[k] \in Finding
  OBVIOUS
<1>2. /\ Openers(found) \subseteq 1..n
      /\ \A k \in 1..n : \E m \in Openers(found) : Same(found[m], found[k])
      /\ \A m, k \in Openers(found) : m < k => ~Same(found[m], found[k])
  BY OpenersOpen
<1>. HIDE DEF n
<1>3. ASSUME NEW k \in 1..n
      PROVE  /\ Joins(found, k) \in Openers(found) /\ Same(found[Joins(found, k)], found[k])
             /\ \A m \in Openers(found) : Same(found[m], found[k]) => Joins(found, k) <= m
  <2>. DEFINE like == {m \in Openers(found) : Same(found[m], found[k])}
  <2>1. like \subseteq Nat /\ like # {}
    BY <1>1, <1>2
  <2>2. LowestOf(like) \in like /\ \A j \in like : LowestOf(like) <= j
    <3>. HIDE DEF like
    <3>. QED  BY <2>1, LeastNumber
  <2>. QED  BY <2>2 DEF Joins
<1>4. ASSUME NEW m \in Openers(found)
      PROVE  m \in Group(m)
  <2>1. m \in 1..n /\ Same(found[m], found[m])
    BY <1>1, <1>2 DEF Same
  <2>2. Joins(found, m) \in Openers(found) /\ Joins(found, m) <= m
        /\ Same(found[Joins(found, m)], found[m])
    BY <1>3, <2>1
  <2>3. ~(Joins(found, m) < m)
    BY <1>2, <2>2
  <2>4. Joins(found, m) \in Int /\ m \in Int
    BY <1>1, <1>2, <2>2
  <2>. QED  BY <1>1, <2>1, <2>2, <2>3, <2>4
<1>5. ASSUME NEW m \in Openers(found)
      PROVE  LowestOf(Severity(m)) \in Severity(m) /\ \A j \in Severity(m) : LowestOf(Severity(m)) <= j
  <2>1. \A k \in Group(m) : found[k].severity \in Nat
    BY <1>1 DEF Finding, Severities
  <2>2. Severity(m) \subseteq Nat /\ Severity(m) # {}
    BY <1>4, <2>1
  <2>. HIDE DEF Severity
  <2>. QED  BY <2>2, LeastNumber
<1>6. ASSUME NEW m \in Openers(found)
      PROVE  LET h == Merged(found, m, Group(m))
             IN  /\ h.title = found[m].title /\ h.located = found[m].located
                 /\ h.models = Models(m) /\ h.severity = LowestOf(Severity(m))
  <2>1. found[m] \in Finding
    BY <1>1, <1>2
  <2>. HIDE DEF Group
  <2>. QED  BY <2>1 DEF Merged, Finding
<1>7. ASSUME NEW m \in Openers(found), NEW k \in Group(m)
      PROVE  k \in 1..n /\ Same(Merged(found, m, Group(m)), found[k])
  <2>1. k \in 1..n /\ Same(found[m], found[k])
    BY <1>1, <1>3
  <2>. HIDE DEF Group
  <2>. QED  BY <1>6, <2>1 DEF Same
<1>8. ASSUME g \in MergeFindings(found)
      PROVE  /\ \E m \in 1..n : found[m].title = g.title /\ found[m].located = g.located
             /\ \E k \in 1..n : Same(g, found[k]) /\ found[k].severity = g.severity
             /\ \A l \in g.models : \E k \in 1..n : Same(g, found[k]) /\ l \in found[k].models
  <2>1. PICK m \in Openers(found) : g = Merged(found, m, Group(m))
    BY <1>8 DEF MergeFindings
  <2>2. /\ g.title = found[m].title /\ g.located = found[m].located
        /\ g.models = Models(m) /\ g.severity = LowestOf(Severity(m))
    BY <1>6, <2>1
  <2>3. \E k \in Group(m) : found[k].severity = g.severity
    BY <1>5, <2>2
  <2>4. \A l \in g.models : \E k \in Group(m) : l \in found[k].models
    BY <2>2
  <2>5. \A k \in Group(m) : k \in 1..n /\ Same(g, found[k])
    BY <1>7, <2>1
  <2>6. m \in 1..n
    BY <1>2
  <2>. HIDE DEF Group
  <2>. QED  BY <2>2, <2>3, <2>4, <2>5, <2>6
<1>9. ASSUME NEW k \in 1..n
      PROVE  \E h \in MergeFindings(found) :
                /\ Same(h, found[k]) /\ found[k].models \subseteq h.models
                /\ h.severity <= found[k].severity
  <2>. DEFINE m == Joins(found, k)
              h == Merged(found, m, Group(m))
  <2>1. m \in Openers(found) /\ k \in Group(m)
    BY <1>1, <1>3
  <2>. HIDE DEF m
  <2>2. h \in MergeFindings(found)
    BY <2>1 DEF MergeFindings
  <2>3. Same(h, found[k])
    BY <1>7, <2>1
  <2>4. found[k].models \subseteq h.models
    BY <1>6, <2>1
  <2>5. h.severity <= found[k].severity
    <3>1. found[k].severity \in Severity(m)
      BY <2>1
    <3>. HIDE DEF Severity
    <3>2. LowestOf(Severity(m)) <= found[k].severity
      BY <1>5, <2>1, <3>1
    <3>. QED  BY <1>6, <2>1, <3>2
  <2>. HIDE DEF h
  <2>. QED  BY <2>2, <2>3, <2>4, <2>5
<1>. QED  BY <1>8, <1>9 DEF n

\* What a report must be, of the findings it was made of.
Faithful(found, floor, merged) ==
    LET raised == ToSet(found)
        counted == {f \in raised : floor = 0 \/ f.severity <= floor}
    IN  /\ Verdict(merged) = Verdict(counted)
        /\ \A f \in counted : \E g \in merged :
              Same(g, f) /\ f.models \subseteq g.models /\ g.severity <= f.severity
        /\ \A g \in merged :
              /\ \E f \in raised : f.title = g.title /\ f.located = g.located
              /\ \E f \in raised : Same(g, f) /\ f.severity = g.severity
              /\ \A m \in g.models : \E f \in raised : Same(g, f) /\ m \in f.models

\* findings.merge_findings with filter_by_severity and verdict, of any list of findings: the merge
\* loses no finding, no reviewer and no severity at or above the floor and invents none, although
\* being similar is no equivalence, and its verdict is that of the findings that went into it.
THEOREM ReportIsFaithful ==
    ASSUME NEW found \in Seq(Finding), NEW floor \in Nat
    PROVE  Faithful(found, floor, FilterBySeverity(MergeFindings(found), floor))
<1>. DEFINE raised == ToSet(found)
            Counts(f) == floor = 0 \/ f.severity <= floor
            counted == {f \in raised : Counts(f)}
            merged == FilterBySeverity(MergeFindings(found), floor)
<1>1. /\ \A f \in raised : \E k \in 1..Len(found) : f = found[k]
      /\ \A k \in 1..Len(found) : found[k] \in raised
      /\ \A f \in raised : f.severity \in Nat \ {0}
  <2>1. DOMAIN found = 1..Len(found)
    OBVIOUS
  <2>2. \A k \in 1..Len(found) : found[k].severity \in Nat \ {0}
    <3>1. \A k \in 1..Len(found) : found[k] \in Finding
      OBVIOUS
    <3>. QED  BY <3>1 DEF Finding, Severities
  <2>. QED  BY <2>1, <2>2 DEF ToSet
<1>2. \A g : g \in merged <=> g \in MergeFindings(found) /\ Counts(g)
  BY DEF FilterBySeverity
<1>. HIDE DEF raised, merged
<1>3. ASSUME NEW g \in merged
      PROVE  /\ \E f \in raised : f.title = g.title /\ f.located = g.located
             /\ \E f \in raised : Same(g, f) /\ f.severity = g.severity
             /\ \A m \in g.models : \E f \in raised : Same(g, f) /\ m \in f.models
  <2>1. g \in MergeFindings(found)
    BY <1>2
  <2>2. /\ \E m \in 1..Len(found) : found[m].title = g.title /\ found[m].located = g.located
        /\ \E k \in 1..Len(found) : Same(g, found[k]) /\ found[k].severity = g.severity
        /\ \A l \in g.models :
                 \E k \in 1..Len(found) : Same(g, found[k]) /\ l \in found[k].models
    BY <2>1, GroupsOfFindings
  <2>. QED  BY <1>1, <2>2
<1>4. ASSUME NEW f \in counted
      PROVE  \E g \in merged :
                Same(g, f) /\ f.models \subseteq g.models /\ g.severity <= f.severity
  <2>1. PICK k \in 1..Len(found) : f = found[k]
    BY <1>1
  <2>2. PICK g \in MergeFindings(found) :
            Same(g, f) /\ f.models \subseteq g.models /\ g.severity <= f.severity
    BY <2>1, GroupsOfFindings
  <2>3. g.severity \in Nat /\ f.severity \in Nat
    <3>1. \E j \in 1..Len(found) : found[j].severity = g.severity
      BY GroupsOfFindings
    <3>. QED  BY <1>1, <3>1
  <2>4. Counts(g)
    BY <2>2, <2>3
  <2>. QED  BY <1>2, <2>2, <2>4
<1>5. ASSUME NEW v \in {1, 2}
      PROVE  /\ (\E g \in merged : g.severity = v) => \E f \in counted : f.severity = v
             /\ (\E f \in counted : f.severity = v) =>
                    \E g \in merged : g.severity \in {1, 2} /\ g.severity <= v
  <2>1. ASSUME NEW g \in merged
        PROVE  \E f \in counted : f.severity = g.severity
    BY <1>2, <1>3
  <2>2. ASSUME NEW f \in counted, f.severity = v
        PROVE  \E g \in merged : g.severity \in {1, 2} /\ g.severity <= v
    <3>1. PICK g \in merged : g.severity <= v
      BY <1>4, <2>2
    <3>2. g.severity \in Nat \ {0}
      BY <1>1, <2>1
    <3>. QED  BY <3>1, <3>2
  <2>. QED  BY <2>1, <2>2
<1>6. merged = {} <=> counted = {}
  BY <1>2, <1>3, <1>4
<1>7. /\ (\E g \in merged : g.severity = 1) <=> (\E f \in counted : f.severity = 1)
      /\ ~(\E g \in merged : g.severity = 1) =>
            ((\E g \in merged : g.severity = 2) <=> (\E f \in counted : f.severity = 2))
  BY <1>5
<1>8. Verdict(merged) = Verdict(counted)
  <2>. HIDE DEF counted
  <2>. QED  BY <1>6, <1>7 DEF Verdict
<1>9. Faithful(found, floor, merged)
  <2>. HIDE DEF merged
  <2>. QED  BY <1>3, <1>4, <1>8 DEF raised, Faithful
<1>. QED  BY <1>9 DEF merged

-----------------------------------------------------------------------------
(* Rankings. *)

\* A place in a ranking, and what it is worth.
LEMMA WorthOfPlaces ==
    ASSUME NEW A, NEW r \in Seq(A), NEW a
    PROVE  /\ Place(r, a) \in 0..Len(r)
           /\ Worth(r, a) \in Nat /\ (Place(r, a) # 0 => Worth(r, a) > 0)
           /\ r = <<>> => Place(r, a) = 0
           /\ Place(r, a) # 0 => Worth(r, a) = Len(r) + 1 - Place(r, a)
<1>1. DOMAIN r = 1..Len(r) /\ Len(r) \in Nat
  OBVIOUS
<1>2. Place(r, a) # 0 => Place(r, a) \in 1..Len(r)
  BY <1>1 DEF Place
<1>3. r = <<>> => DOMAIN r = {}
  OBVIOUS
<1>. QED  BY <1>1, <1>2, <1>3 DEF Worth, Place

\* The points of an answer are added up ranking by ranking.
LEMMA PointsAddUp ==
    ASSUME NEW A, NEW rankings \in Seq(Seq(A)), NEW a
    PROVE  \E f \in [0..Len(rankings) -> Int] :
                /\ f[0] = 0
                /\ \A k \in 1..Len(rankings) : f[k] = f[k - 1] + Worth(rankings[k], a)
                /\ Points(rankings, a) = f[Len(rankings)]
<1>. DEFINE n == Len(rankings)
            Summed(f) == f = [k \in 0..n |->
                IF k = 0 THEN 0 ELSE f[k - 1] + Worth(rankings[k], a)]
            sum == CHOOSE f : Summed(f)
            X == Int
            none == 0
            step == [k \in 1..n |-> [x \in X |-> x + Worth(rankings[k], a)]]
<1>0. n \in Nat /\ \A k \in 1..n : Worth(rankings[k], a) \in Int
  BY WorthOfPlaces
<1>1. Points(rankings, a) = sum[n]
  BY DEF Points
<1>. HIDE DEF n
<1>2. none \in X /\ Closed(step, n, X)
  BY <1>0 DEF Closed
<1>3. PICK f : Table(f, n, X, none, step)
  <2>1. n \in Nat
    BY <1>0
  <2>. HIDE DEF step, X, none
  <2>. QED  BY ONLY <1>2, <2>1, Rows
<1>. USE DEF Table
<1>4. \A k \in 1..n : f[k - 1] \in Int /\ f[k] = f[k - 1] + Worth(rankings[k], a)
  <2>1. \A k \in 1..n : k - 1 \in 0..n
    BY <1>0
  <2>2. \A k \in 1..n : f[k - 1] \in Int
    BY <1>3, <2>1
  <2>. QED  BY <1>3, <2>2
<1>5. Summed(f)
  <2>1. f = [k \in 0..n |-> f[k]]
    BY <1>3
  <2>2. \A k \in 0..n : k # 0 => k \in 1..n
    BY <1>0
  <2>. QED  BY <1>3, <1>4, <2>1, <2>2
<1>6. Summed(sum)
  BY <1>5
<1>. HIDE DEF sum
<1>7. ASSUME NEW k \in 0..n
      PROVE  sum[k] = IF k = 0 THEN 0 ELSE sum[k - 1] + Worth(rankings[k], a)
  BY <1>6
<1>8. \A k \in 0..n : sum[k] = f[k]
  <2>. DEFINE Alike == {k \in 0..n : sum[k] = f[k]}
  <2>1. 0 \in Alike
    BY <1>0, <1>3, <1>7
  <2>2. ASSUME NEW k \in 1..n, k - 1 \in Alike
        PROVE  k \in Alike
    <3>1. k \in 0..n /\ k # 0
      BY <1>0
    <3>. QED  BY <1>4, <1>7, <2>2, <3>1
  <2>3. \A k \in 0..n : k \in Alike
    <3>. HIDE DEF Alike
    <3>. QED  BY <1>0, <2>1, <2>2, Climb
  <2>. QED  BY <2>3
<1>9. Points(rankings, a) = f[n]
  BY <1>0, <1>1, <1>8
<1>. QED  BY <1>3, <1>4, <1>9 DEF n

\* Who is worth as much in every ranking and more in one has more points.
LEMMA MorePoints ==
    ASSUME NEW A, NEW rankings \in Seq(Seq(A)), NEW a, NEW b,
           \A k \in DOMAIN rankings : Worth(rankings[k], a) <= Worth(rankings[k], b),
           \E k \in DOMAIN rankings : Worth(rankings[k], a) < Worth(rankings[k], b)
    PROVE  Points(rankings, a) < Points(rankings, b)
<1>. DEFINE n == Len(rankings)
<1>0. /\ n \in Nat /\ DOMAIN rankings = 1..n
      /\ \A k \in 1..n : Worth(rankings[k], a) \in Int /\ Worth(rankings[k], b) \in Int
  BY WorthOfPlaces
<1>1. PICK f \in [0..n -> Int] :
            /\ f[0] = 0 /\ \A k \in 1..n : f[k] = f[k - 1] + Worth(rankings[k], a)
            /\ Points(rankings, a) = f[n]
  BY PointsAddUp
<1>2. PICK g \in [0..n -> Int] :
            /\ g[0] = 0 /\ \A k \in 1..n : g[k] = g[k - 1] + Worth(rankings[k], b)
            /\ Points(rankings, b) = g[n]
  BY PointsAddUp
<1>3. PICK p \in 1..n : Worth(rankings[p], a) < Worth(rankings[p], b)
  BY <1>0
<1>. HIDE DEF n
<1>. DEFINE Below == {k \in 0..n : f[k] <= g[k] /\ (p <= k => f[k] < g[k])}
<1>4. 0 \in Below
  BY <1>0, <1>1, <1>2
<1>5. ASSUME NEW k \in 1..n, k - 1 \in Below
      PROVE  k \in Below
  <2>1. k \in 0..n /\ k - 1 \in 0..n /\ (p <= k => k = p \/ p <= k - 1)
    BY <1>0
  <2>2. /\ f[k] = f[k - 1] + Worth(rankings[k], a) /\ g[k] = g[k - 1] + Worth(rankings[k], b)
        /\ f[k - 1] \in Int /\ g[k - 1] \in Int
        /\ Worth(rankings[k], a) \in Int /\ Worth(rankings[k], b) \in Int
        /\ Worth(rankings[k], a) <= Worth(rankings[k], b)
    BY <1>0, <1>1, <1>2, <2>1
  <2>3. f[k - 1] <= g[k - 1] /\ (p <= k - 1 => f[k - 1] < g[k - 1])
    BY <1>5
  <2>. QED  BY <1>3, <2>1, <2>2, <2>3
<1>6. \A k \in 0..n : k \in Below
  <2>. HIDE DEF Below
  <2>. QED  BY <1>0, <1>4, <1>5, Climb
<1>7. n \in 0..n /\ p <= n
  BY <1>0
<1>. QED  BY <1>1, <1>2, <1>6, <1>7

\* workflows.aggregate_rankings, of any rankings, incomplete ones included: the winner is one of the
\* answers and no other answer has more points.
THEOREM WinnerHasMost ==
    ASSUME NEW A, NEW rankings \in Seq(Seq(A)),
           NEW answers, answers \subseteq Nat, answers # {}, IsFiniteSet(answers)
    PROVE  /\ BordaWinner(rankings, answers) \in answers
           /\ \A b \in answers : ~(Points(rankings, BordaWinner(rankings, answers)) < Points(rankings, b))
<1>. DEFINE key == [a \in answers |-> <<-Points(rankings, a), -Firsts(rankings, a), a>>]
            w == BordaWinner(rankings, answers)
<1>1. \A a \in answers : Points(rankings, a) \in Int
  <2>. SUFFICES ASSUME NEW a \in answers
                PROVE  Points(rankings, a) \in Int
    OBVIOUS
  <2>1. PICK f \in [0..Len(rankings) -> Int] : Points(rankings, a) = f[Len(rankings)]
    BY PointsAddUp
  <2>2. Len(rankings) \in 0..Len(rankings)
    OBVIOUS
  <2>. QED  BY <2>1, <2>2
<1>2. \A a \in answers : Firsts(rankings, a) \in Int
  <2>. SUFFICES ASSUME NEW a \in answers
                PROVE  Firsts(rankings, a) \in Int
    OBVIOUS
  <2>. DEFINE by == {k \in DOMAIN rankings : Place(rankings[k], a) = 1}
  <2>1. by \subseteq 1..Len(rankings)
    OBVIOUS
  <2>2. IsFiniteSet(1..Len(rankings))
    BY FS_Interval
  <2>3. Cardinality(by) \in Nat
    <3>. HIDE DEF by
    <3>. QED  BY <2>1, <2>2, FS_Subset, FS_CardinalityType
  <2>. QED  BY <2>3 DEF Firsts
<1>3. /\ \A a \in answers : key[a] \in [1..3 -> Int]
      /\ \A a, b \in answers : key[a] = key[b] => a = b
  BY <1>1, <1>2
<1>4. Ordered(key, answers)
  <2>. HIDE DEF key
  <2>. QED  BY <1>3, Lexicographic
<1>5. IsFirst(w, key, answers)
  <2>1. w = FirstBy(key, answers)
    BY DEF BordaWinner
  <2>. HIDE DEF key, w
  <2>. QED  BY <1>4, <2>1, FirstOfOrdered
<1>6. ASSUME NEW b \in answers, Points(rankings, w) < Points(rankings, b)
      PROVE  FALSE
  <2>1. w \in answers
    BY <1>5 DEF IsFirst
  <2>2. w # b
    BY <1>1, <1>6
  <2>3. -Points(rankings, b) < -Points(rankings, w)
    <3>1. \A x, y \in Int : x < y => -y < -x
      OBVIOUS
    <3>2. Points(rankings, w) \in Int /\ Points(rankings, b) \in Int
      BY <1>1, <2>1
    <3>. HIDE DEF w
    <3>. QED  BY <1>6, <3>1, <3>2
  <2>4. Precedes(key[b], key[w])
    <3>1. key[b][1] < key[w][1] /\ 1 \in DOMAIN key[b] /\ 1..(1 - 1) = {}
      BY <2>1, <2>3
    <3>. HIDE DEF key
    <3>. QED  BY <3>1 DEF Precedes
  <2>5. Precedes(key[w], key[b])
    BY <1>5, <2>2 DEF IsFirst
  <2>. HIDE DEF key, w
  <2>. QED  BY <1>4, <2>1, <2>4, <2>5 DEF Ordered
<1>. QED  BY <1>5, <1>6 DEF IsFirst

-----------------------------------------------------------------------------
(* The inductive invariant. *)

\* What a seat's reply says, in the wave it is of.
Ranks == tool = "borda" /\ Cardinality(DOMAIN positions) > 1
Body ==
    IF tool = "review" THEN Seq(Finding)
    ELSE IF Ranks THEN PartialOrders(DOMAIN positions)
    ELSE (1..(MaxRounds + 1)) \X Votes

\* TypeOK, and of which kind replies are.
Typing ==
    /\ TypeOK
    /\ stage # "idle" => tool \in Tools /\ asking \in Askings(tool)
    /\ DOMAIN reply = Seats
    /\ \A i \in Seats : reply[i] = Fail \/ (Ok(reply[i]) /\ reply[i].body \in Body)
    /\ \A i \in waiting : ~Ok(reply[i])

\* What the tools have come to, stage by stage.
Phases ==
    /\ stage \in {"ask", "again", "close"} => seats # <<>>
    /\ stage = "idle" => seats = <<>>
    /\ stage \in {"idle", "ask"} => positions = <<>> /\ rnd = 0 /\ why = "none"
    /\ stage = "again" => tool \in {"research", "borda", "debate"}
    /\ stage = "close" => tool \in {"ask_all", "merge", "borda", "debate"} \cup Pools
    /\ stage = "close" => DOMAIN positions # {}
    /\ stage \in {"again", "close"} /\ tool = "borda" => Cardinality(DOMAIN positions) > 1
    /\ stage = "again" /\ tool = "debate" =>
          /\ DOMAIN positions # {} /\ waiting \cup Answered \subseteq DOMAIN positions
          /\ rnd < asking.rounds
    /\ stage = "ask" /\ tool \in Chains => Answered = {}
    /\ stage \in {"ask", "again"} /\ tool = "debate" => judge \in Lanes

\* While the wave comes in, and after, the latest answer of a seat is its reply or what it held.
Held(i) == IF i \in DOMAIN positions THEN positions[i][1] ELSE 0
Latest ==
    stage # "idle" =>
        \A i \in Seats :
            /\ tool = "review" => said[i] = 0
            /\ stage = "ask" /\ tool # "review" =>
                  said[i] = IF Ok(reply[i]) THEN reply[i].body[1] ELSE 0
            /\ stage = "again" =>
                  said[i] = IF tool = "debate" /\ Ok(reply[i]) THEN reply[i].body[1] ELSE Held(i)
            /\ stage \in {"close", "over"} /\ report.kind # "error"
                  /\ tool \notin Chains \cup {"review"} => said[i] = Held(i)

\* Who sits where was settled by the call; only research_verify moves its seats.
Seated ==
    stage # "idle" /\ (tool = "research" => stage = "ask") => seats = SeatsOf(asking)

\* A lane that is asked or concludes is one that may be.
MayAsk(a) ==
    {l \in Lanes :
        \/ Free(l) \/ l \in {a.named[k] : k \in DOMAIN a.named} \cup {a.judge}
        \/ IF a.shell THEN a.policy[2] = "yes"
           ELSE a.policy[1] # "saver" /\ (a.policy[2] = "yes" \/ a.policy = <<"max", "none">>)}
Agreed ==
    stage # "idle" =>
        /\ \A i \in Seats : seats[i] \in MayAsk(asking)
        /\ judge \in MayAsk(asking) \cup {Nobody}

\* The inductive invariant.
IInv ==
    /\ Typing /\ Phases /\ Latest /\ Seated /\ Agreed
    /\ FindingsKept /\ PeersChoose /\ ErrorsAreReal

-----------------------------------------------------------------------------
(* Who sits where. *)

\* The active lanes are finitely many.
LEMMA ActiveLanes ==
    LET active == {Active[k] : k \in DOMAIN Active}
    IN  active \subseteq Lanes /\ IsFiniteSet(active) /\ DOMAIN Active = 1..Len(Active)
<1>1. Active \in Seq(Lanes)
  BY CouncilAssumption
<1>2. DOMAIN Active = 1..Len(Active) /\ Len(Active) \in Nat /\ \A k \in 1..Len(Active) : Active[k] \in Lanes
  BY <1>1
<1>3. IsFiniteSet(1..Len(Active))
  BY <1>2, FS_Interval
<1>4. IsFiniteSet({Active[k] : k \in 1..Len(Active)})
  <2>1. [k \in 1..Len(Active) |-> Active[k]]
            \in Surjection(1..Len(Active), {Active[k] : k \in 1..Len(Active)})
    BY <1>2 DEF Surjection
  <2>. QED  BY <1>3, <2>1, FS_Surjection
<1>. QED  BY <1>2, <1>4

\* What a call of a tool comes with.
LEMMA AskedWith ==
    ASSUME NEW a, a \in Askings(a.tool)
    PROVE  /\ Len(a.named) \in Nat /\ DOMAIN a.named = 1..Len(a.named)
           /\ Paid(a) => \A l \in Lanes : l \in MayAsk(a)
           /\ a.judge \in (Lanes \cup {Nobody}) /\ (a.judge # Nobody => a.judge \in MayAsk(a))
           /\ a.rounds \in 0..MaxRounds /\ a.floor \in 0..1
           /\ a.option \in BOOLEAN /\ a.checks \in BOOLEAN
           /\ a.mode \in Modes
<1>1. /\ a.policy \in Policies /\ a.named \in LaneLists \cup {<<>>} /\ a.judge \in Judges \cup {Nobody}
      /\ a.rounds \in 0..MaxRounds /\ a.floor \in 0..1
      /\ a.option \in BOOLEAN /\ a.checks \in BOOLEAN /\ a.mode \in Modes
  <2>. a \in Calls(a.tool)
    BY DEF Askings
  <2>1. a.policy \in Policies /\ a.named \in LaneLists \cup {<<>>} /\ a.judge \in Judges \cup {Nobody}
    BY DEF Calls
  <2>2. a.rounds \in 0..MaxRounds
    BY CouncilAssumption DEF Calls
  <2>3. a.floor \in 0..1 /\ a.option \in BOOLEAN /\ a.checks \in BOOLEAN
    <3>1. a.floor \in IF a.tool = "review" THEN 0..1 ELSE {0}
      BY DEF Calls
    <3>2. a.option \in IF a.tool \in {"ask_all", "borda", "debate"} THEN BOOLEAN ELSE {FALSE}
      BY Zenon DEF Calls
    <3>3. a.checks \in IF a.tool = "review" THEN BOOLEAN ELSE {FALSE}
      BY Zenon DEF Calls
    <3>4. a.floor \in 0..1
      BY <3>1
    <3>5. a.option \in BOOLEAN
      BY Zenon, <3>2
    <3>6. a.checks \in BOOLEAN
      BY Zenon, <3>3
    <3>. QED  BY <3>4, <3>5, <3>6
  <2>4. a.mode \in Modes
    BY DEF Calls, Modes
  <2>. QED  BY <2>1, <2>2, <2>3, <2>4
<1>2. Len(a.named) \in Nat /\ DOMAIN a.named = 1..Len(a.named)
  <2>1. Len(<<>>) = 0 /\ DOMAIN <<>> = 1..0
    OBVIOUS
  <2>. QED  BY <1>1, <2>1, CouncilAssumption
<1>3. Paid(a) =>
          IF a.shell THEN a.policy[2] = "yes"
          ELSE a.policy[1] # "saver" /\ (a.policy[2] = "yes" \/ a.policy = <<"max", "none">>)
  <2>1. a.policy = <<a.policy[1], a.policy[2]>>
    BY <1>1, CouncilAssumption
  <2>. QED  BY <2>1 DEF Paid, IncludePaid
<1>4. a.judge \in Lanes \cup {Nobody}
  BY <1>1, CouncilAssumption
<1>. QED  BY <1>1, <1>2, <1>3, <1>4 DEF MayAsk

\* A list cut short, or dealt out to n seats, is a list of the same things.
LEMMA ListsOfLanes ==
    ASSUME NEW M, NEW s \in Seq(M), NEW n \in Nat \ {0}
    PROVE  /\ AtMost(n, s) \in Seq(M) /\ Spread(n, s) \in Seq(M)
           /\ s # <<>> => Len(Spread(n, s)) = n
           /\ s = <<>> => Spread(n, s) = <<>>
<1>1. AtMost(n, s) \in Seq(M)
  BY DEF AtMost
<1>2. CASE s = <<>>
  BY <1>1, <1>2 DEF Spread
<1>3. CASE s # <<>>
  <2>1. Len(s) \in Nat /\ Len(s) > 0
    BY <1>3
  <2>2. \A k \in 1..n : ((k - 1) % Len(s)) + 1 \in 1..Len(s)
    BY <2>1
  <2>3. RoundRobin(n, s) \in [1..n -> M]
    BY <2>2 DEF RoundRobin
  <2>4. RoundRobin(n, s) \in Seq(M) /\ Len(RoundRobin(n, s)) = n
    BY <2>3
  <2>. QED  BY <1>1, <1>3, <2>4 DEF Spread
<1>. QED  BY <1>2, <1>3

\* The keys of the lanes order them, since no two lanes have one name.
LEMMA OrderOfLanes ==
    ASSUME NEW cooled, NEW mode, NEW rated, NEW lanes, lanes \subseteq Lanes
    PROVE  /\ Ordered([l \in lanes |-> Score(l, cooled)], lanes)
           /\ Ordered([l \in lanes |-> ModeKey(mode, l, cooled, rated)], lanes)
<1>1. \A l \in lanes : /\ Cost[l] \in Int /\ Priority[l] \in Int /\ Latency[l] \in Int
                       /\ Failing[l] \in Int /\ Name[l] \in Int
                       /\ Cooled(l, cooled) \in Int /\ QualityBucket(rated[l]) \in Int
  BY CouncilRulesAssumption DEF Cooled, QualityBucket
<1>2. \A l, m \in lanes : Name[l] = Name[m] => l = m
  BY CouncilRulesAssumption
<1>3. Ordered([l \in lanes |-> Score(l, cooled)], lanes)
  <2>. DEFINE key == [l \in lanes |-> Score(l, cooled)]
  <2>1. \A l \in lanes : key[l] \in [1..4 -> Int] /\ key[l][4] = Name[l]
    BY <1>1 DEF Score
  <2>2. \A l, m \in lanes : key[l] = key[m] => l = m
    <3>. HIDE DEF key
    <3>. QED  BY <1>2, <2>1
  <2>. HIDE DEF key
  <2>3. Ordered(key, lanes)
    BY <2>1, <2>2, Lexicographic
  <2>. QED  BY <2>3 DEF key
<1>4. Ordered([l \in lanes |-> ModeKey(mode, l, cooled, rated)], lanes)
  <2>. DEFINE key == [l \in lanes |-> ModeKey(mode, l, cooled, rated)]
              n == CASE mode = "fast" -> 7 [] mode = "cheap" -> 6 [] OTHER -> 7
  <2>1. \A l \in lanes : key[l] \in [1..n -> Int] /\ key[l][n] = Name[l]
    BY <1>1 DEF ModeKey
  <2>2. \A l, m \in lanes : key[l] = key[m] => l = m
    <3>. HIDE DEF key, n
    <3>. QED  BY <1>2, <2>1
  <2>3. n \in Nat
    OBVIOUS
  <2>. HIDE DEF key, n
  <2>4. Ordered(key, lanes)
    BY <2>1, <2>2, <2>3, Lexicographic
  <2>. QED  BY <2>4 DEF key
<1>. QED  BY <1>3, <1>4

\* router.order_lanes and order_for_mode: the answer has every lane that is admitted, once, and a
\* lane comes after another only if its key is the greater, compared field by field: for
\* order_lanes a lane in cooldown after all that are not, then the cheaper first, and so on.
THEOREM RouterOrders ==
    ASSUME NEW lanes, lanes \subseteq Lanes, IsFiniteSet(lanes),
           NEW paid \in BOOLEAN, NEW cooled, NEW mode, NEW rated
    PROVE  /\ LET admitted == {l \in lanes : Free(l) \/ paid}
                  s == OrderLanes(lanes, paid, cooled)
              IN  /\ s \in Seq(admitted) /\ Len(s) = Cardinality(admitted)
                  /\ \A l \in admitted : \E k \in DOMAIN s : s[k] = l
                  /\ \A j, k \in DOMAIN s : j < k => Precedes(Score(s[j], cooled), Score(s[k], cooled))
           /\ LET admitted == {l \in lanes : Free(l) \/ (paid /\ Cost[l] <= ModeCeiling(mode))}
                  s == OrderForMode(lanes, mode, paid, cooled, rated)
              IN  /\ s \in Seq(admitted) /\ Len(s) = Cardinality(admitted)
                  /\ \A l \in admitted : \E k \in DOMAIN s : s[k] = l
                  /\ \A j, k \in DOMAIN s : j < k =>
                        Precedes(ModeKey(mode, s[j], cooled, rated), ModeKey(mode, s[k], cooled, rated))
<1>1. ASSUME NEW key, Ordered(key, lanes), NEW S, S \subseteq lanes
      PROVE  LET s == SortedBy(key, S)
             IN  /\ s \in Seq(S) /\ Len(s) = Cardinality(S)
                 /\ \A l \in S : \E k \in DOMAIN s : s[k] = l
                 /\ \A j, k \in DOMAIN s : s[j] \in lanes /\ s[k] \in lanes
                 /\ \A j, k \in DOMAIN s : j < k => Precedes(key[s[j]], key[s[k]])
  <2>. DEFINE s == SortedBy(key, S)
  <2>1. IsFiniteSet(S) /\ Ordered(key, S)
    BY <1>1, FS_Subset DEF Ordered
  <2>2. /\ s \in Seq(S) /\ Len(s) = Cardinality(S)
        /\ \A l \in S : \E k \in DOMAIN s : s[k] = l
        /\ \A j, k \in DOMAIN s : j < k => Precedes(key[s[j]], key[s[k]])
    BY <2>1, SortingSorts
  <2>. HIDE DEF s
  <2>3. \A j \in DOMAIN s : s[j] \in lanes
    BY <1>1, <2>2
  <2>. QED  BY <2>2, <2>3 DEF s
<1>2. LET admitted == {l \in lanes : Free(l) \/ paid}
          s == OrderLanes(lanes, paid, cooled)
      IN  /\ s \in Seq(admitted) /\ Len(s) = Cardinality(admitted)
          /\ \A l \in admitted : \E k \in DOMAIN s : s[k] = l
          /\ \A j, k \in DOMAIN s : j < k => Precedes(Score(s[j], cooled), Score(s[k], cooled))
  <2>. DEFINE key == [l \in lanes |-> Score(l, cooled)]
              admitted == {l \in lanes : Free(l) \/ paid}
              s == OrderLanes(lanes, paid, cooled)
  <2>1. Ordered(key, lanes) /\ admitted \subseteq lanes /\ s = SortedBy(key, admitted)
    BY OrderOfLanes DEF OrderLanes
  <2>2. \A l \in lanes : key[l] = Score(l, cooled)
    OBVIOUS
  <2>. HIDE DEF key, admitted, s
  <2>3. /\ s \in Seq(admitted) /\ Len(s) = Cardinality(admitted)
        /\ \A l \in admitted : \E k \in DOMAIN s : s[k] = l
        /\ \A j, k \in DOMAIN s : s[j] \in lanes /\ s[k] \in lanes
        /\ \A j, k \in DOMAIN s : j < k => Precedes(key[s[j]], key[s[k]])
    BY <1>1, <2>1
  <2>4. \A j, k \in DOMAIN s : j < k => Precedes(Score(s[j], cooled), Score(s[k], cooled))
    BY <2>2, <2>3
  <2>. QED  BY <2>3, <2>4 DEF s, admitted
<1>3. LET admitted == {l \in lanes : Free(l) \/ (paid /\ Cost[l] <= ModeCeiling(mode))}
          s == OrderForMode(lanes, mode, paid, cooled, rated)
      IN  /\ s \in Seq(admitted) /\ Len(s) = Cardinality(admitted)
          /\ \A l \in admitted : \E k \in DOMAIN s : s[k] = l
          /\ \A j, k \in DOMAIN s : j < k =>
                Precedes(ModeKey(mode, s[j], cooled, rated), ModeKey(mode, s[k], cooled, rated))
  <2>. DEFINE key == [l \in lanes |-> ModeKey(mode, l, cooled, rated)]
              admitted == {l \in lanes : Free(l) \/ (paid /\ Cost[l] <= ModeCeiling(mode))}
              s == OrderForMode(lanes, mode, paid, cooled, rated)
  <2>1. Ordered(key, lanes) /\ admitted \subseteq lanes /\ s = SortedBy(key, admitted)
    BY OrderOfLanes DEF OrderForMode
  <2>2. \A l \in lanes : key[l] = ModeKey(mode, l, cooled, rated)
    OBVIOUS
  <2>. HIDE DEF key, admitted, s
  <2>3. /\ s \in Seq(admitted) /\ Len(s) = Cardinality(admitted)
        /\ \A l \in admitted : \E k \in DOMAIN s : s[k] = l
        /\ \A j, k \in DOMAIN s : s[j] \in lanes /\ s[k] \in lanes
        /\ \A j, k \in DOMAIN s : j < k => Precedes(key[s[j]], key[s[k]])
    BY <1>1, <2>1
  <2>4. \A j, k \in DOMAIN s : j < k =>
            Precedes(ModeKey(mode, s[j], cooled, rated), ModeKey(mode, s[k], cooled, rated))
    BY <2>2, <2>3
  <2>. QED  BY <2>3, <2>4 DEF s, admitted
<1>. QED  BY <1>2, <1>3

\* OnlyKeeps, for a set that has all of what is kept.
LEMMA KeptWithin ==
    ASSUME NEW s, Len(s) \in Nat, NEW S, NEW M, {s[k] : k \in 1..Len(s)} \cap S \subseteq M
    PROVE  Only(s, S) \in Seq(M)
<1>. DEFINE T == {s[k] : k \in 1..Len(s)} \cap S
            kept == Only(s, S)
<1>1. kept \in Seq(T)
  BY OnlyKeeps
<1>2. T \subseteq M
  OBVIOUS
<1>. HIDE DEF T, kept
<1>3. kept \in Seq(M)
  BY <1>1, <1>2
<1>. QED  BY <1>3 DEF kept

\* The judge that is picked is free and one of the targets, or it is the default.
LEMMA JudgePicked ==
    ASSUME NEW M, NEW targets \in Seq(M), NEW default
    PROVE  \/ PickJudge(targets, default) = default
           \/ PickJudge(targets, default) \in M \cap Lanes /\ Free(PickJudge(targets, default))
<1>. DEFINE S == {l \in Lanes : Free(l)} \ Experimental
            kept == Only(targets, S)
<1>1. kept \in Seq(M \cap S)
  <2>1. Len(targets) \in Nat /\ \A k \in 1..Len(targets) : targets[k] \in M
    OBVIOUS
  <2>. HIDE DEF S
  <2>. QED  BY <2>1, KeptWithin
<1>2. PickJudge(targets, default) = IF kept = <<>> THEN default ELSE Head(kept)
  BY DEF PickJudge, FirstOr
<1>3. kept # <<>> => Head(kept) \in M \cap S
  <2>. HIDE DEF kept, S
  <2>. QED  BY <1>1
<1>. QED  BY <1>2, <1>3

\* Whoever a tool finds to ask may be asked.
LEMMA TargetLanes ==
    ASSUME NEW a, a \in Askings(a.tool)
    PROVE  /\ Targets(a) \in Seq(MayAsk(a)) /\ Known(a.named) \in Seq(MayAsk(a))
           /\ Use(a) \in Seq(MayAsk(a))
<1>1. Active \in Seq(Lanes)
  BY CouncilAssumption
<1>2. Targets(a) \in Seq(MayAsk(a))
  <2>. DEFINE S == {l \in Lanes : (Paid(a) \/ Free(l)) /\ l \notin a.cooled}
  <2>1. S \subseteq MayAsk(a)
    BY AskedWith DEF MayAsk
  <2>2. Targets(a) = Only(Active, S) /\ Len(Active) \in Nat
    BY <1>1 DEF Targets, AskAllTargets
  <2>. HIDE DEF S
  <2>. QED  BY <2>1, <2>2, KeptWithin
<1>3. Known(a.named) \in Seq(MayAsk(a))
  <2>1. Len(a.named) \in Nat
    BY AskedWith
  <2>2. {a.named[k] : k \in 1..Len(a.named)} \cap Lanes \subseteq MayAsk(a)
    <3>1. 1..Len(a.named) \subseteq DOMAIN a.named
      BY AskedWith
    <3>. QED  BY <3>1 DEF MayAsk
  <2>. QED  BY <2>1, <2>2, KeptWithin DEF Known
<1>. QED  BY <1>2, <1>3 DEF Use

\* Every seat, and the judge of a debate, is a lane that may be asked.
LEMMA Seating ==
    ASSUME NEW a, a \in Askings(a.tool), a.tool \in Tools
    PROVE  /\ SeatsOf(a) \in Seq(MayAsk(a))
           /\ a.tool = "best" => \A i \in DOMAIN SeatsOf(a) : Cost[SeatsOf(a)[i]] <= ModeCeiling(a.mode)
           /\ a.tool = "debate" /\ SeatsOf(a) # <<>> => DebateJudge(a) \in MayAsk(a)
           /\ a.tool = "research" /\ SeatsOf(a) # <<>> =>
                 Use(a) # <<>> /\ Len(SeatsOf(a)) = Roles
<1>. DEFINE active == {Active[k] : k \in DOMAIN Active}
            M == MayAsk(a)
<1>1. active \subseteq Lanes /\ IsFiniteSet(active)
  BY ActiveLanes
<1>2. Targets(a) \in Seq(M) /\ Known(a.named) \in Seq(M) /\ Use(a) \in Seq(M) /\ M \subseteq Lanes
  BY TargetLanes DEF MayAsk
<1>3. /\ Roles \in Nat \ {0} /\ DebaterCap \in Nat \ {0} /\ PanelCap \in Nat \ {0}
      /\ 1 \in Nat \ {0}
  BY CouncilAssumption
<1>4. ASSUME NEW key, NEW S, S \subseteq active, S \subseteq M, Ordered(key, active)
      PROVE  SortedBy(key, S) \in Seq(M) /\ \A i \in DOMAIN SortedBy(key, S) : SortedBy(key, S)[i] \in S
  <2>1. IsFiniteSet(S)
    BY <1>1, <1>4, FS_Subset
  <2>2. Ordered(key, S)
    BY <1>4 DEF Ordered
  <2>3. SortedBy(key, S) \in Seq(S)
    BY <2>1, <2>2, SortingSorts
  <2>. QED  BY <1>4, <2>3
<1>5. ASSUME a.tool = "cascade"
      PROVE  SeatsOf(a) \in Seq(M)
  <2>. DEFINE S == {l \in active : Free(l) \/ Paid(a)}
              key == [l \in active |-> Score(l, a.cooled)]
  <2>1. S \subseteq active /\ S \subseteq M
    BY <1>1, AskedWith DEF MayAsk
  <2>2. Ordered(key, active)
    BY <1>1, OrderOfLanes
  <2>3. SeatsOf(a) = SortedBy(key, S)
    BY <1>5 DEF SeatsOf, OrderLanes
  <2>. HIDE DEF S, key
  <2>. QED  BY <1>4, <2>1, <2>2, <2>3
<1>6. ASSUME a.tool = "best"
      PROVE  SeatsOf(a) \in Seq(M) /\ \A i \in DOMAIN SeatsOf(a) : Cost[SeatsOf(a)[i]] <= ModeCeiling(a.mode)
  <2>. DEFINE S == {l \in active : Free(l) \/ (Paid(a) /\ Cost[l] <= ModeCeiling(a.mode))}
              key == [l \in active |-> ModeKey(a.mode, l, a.cooled, Rated)]
  <2>1. S \subseteq active /\ S \subseteq M
    BY <1>1, AskedWith DEF MayAsk
  <2>2. Ordered(key, active)
    <3>1. \A lanes : lanes \subseteq Lanes =>
              Ordered([l \in lanes |-> ModeKey(a.mode, l, a.cooled, Rated)], lanes)
      BY OrderOfLanes
    <3>. HIDE DEF active
    <3>. QED  BY <1>1, <3>1
  <2>3. SeatsOf(a) = SortedBy(key, S)
    BY <1>6 DEF SeatsOf, OrderForMode
  <2>4. \A l \in S : Cost[l] <= ModeCeiling(a.mode)
    <3>1. 0 <= ModeCeiling(a.mode)
      BY DEF ModeCeiling
    <3>. QED  BY <3>1 DEF Free
  <2>. HIDE DEF S, key
  <2>. QED  BY <1>4, <2>1, <2>2, <2>3, <2>4
<1>7. ASSUME a.tool = "debate"
      PROVE  SeatsOf(a) \in Seq(M) /\ (SeatsOf(a) # <<>> => DebateJudge(a) \in M)
  <2>. DEFINE S == {l \in Lanes : HeldOut(a) => l # DebateJudge(a)}
              kept == Only(Targets(a), S)
  <2>1. kept \in Seq(M)
    <3>1. Len(Targets(a)) \in Nat /\ \A k \in 1..Len(Targets(a)) : Targets(a)[k] \in M
      BY <1>2
    <3>. HIDE DEF S
    <3>. QED  BY <3>1, KeptWithin
  <2>2. SeatsOf(a) = AtMost(DebaterCap, kept)
    BY <1>7 DEF SeatsOf, Debaters
  <2>3. SeatsOf(a) \in Seq(M)
    <3>. HIDE DEF kept
    <3>. QED  BY <1>3, <2>1, <2>2, ListsOfLanes
  <2>4. ASSUME Targets(a) # <<>>
        PROVE  DebateJudge(a) \in M
    <3>1. Len(Targets(a)) \in 1..Len(Targets(a)) /\ 1 \in 1..Len(Targets(a))
      BY <1>2, <2>4
    <3>2. Last(Targets(a)) \in M /\ Targets(a)[1] \in M
      BY <1>2, <3>1 DEF Last
    <3>. QED  BY <1>2, <3>2, JudgePicked DEF DebateJudge
  <2>5. ASSUME Targets(a) = <<>>
        PROVE  SeatsOf(a) = <<>>
    <3>1. kept \in Seq({})
      <4>1. {Targets(a)[k] : k \in 1..Len(Targets(a))} \cap S \subseteq {} /\ Len(Targets(a)) \in Nat
        BY <2>5
      <4>. HIDE DEF S
      <4>. QED  BY <4>1, KeptWithin
    <3>2. kept = <<>>
      <4>. HIDE DEF kept
      <4>. QED  BY <3>1
    <3>. HIDE DEF kept
    <3>. QED  BY <1>3, <2>2, <3>2 DEF AtMost
  <2>. QED  BY <2>3, <2>4, <2>5
<1>8. ASSUME a.tool \notin {"cascade", "best", "debate"}
      PROVE  SeatsOf(a) \in Seq(M)
  <2>. HIDE DEF M
  <2>1. /\ AtMost(1, Known(a.named)) \in Seq(M) /\ AtMost(1, Use(a)) \in Seq(M)
        /\ AtMost(PanelCap, Targets(a)) \in Seq(M)
    BY <1>2, <1>3, ListsOfLanes
  <2>2. /\ Spread(Roles, Targets(a)) \in Seq(M) /\ Spread(Roles, Use(a)) \in Seq(M)
        /\ Spread(Roles, Reader(a)) \in Seq(M)
    BY <1>2, <1>3, <2>1, ListsOfLanes DEF Reader
  <2>3. Skeptics(a) \in Seq(M)
    BY <1>2, <2>1 DEF Skeptics
  <2>. QED  BY <1>2, <1>8, <2>1, <2>2, <2>3 DEF SeatsOf
<1>9. ASSUME a.tool = "research", SeatsOf(a) # <<>>
      PROVE  Use(a) # <<>> /\ Len(SeatsOf(a)) = Roles
  <2>1. SeatsOf(a) = Spread(Roles, Use(a))
    BY <1>9 DEF SeatsOf
  <2>. HIDE DEF M
  <2>. QED  BY <1>2, <1>3, <1>9, <2>1, ListsOfLanes
<1>. QED  BY <1>5, <1>6, <1>7, <1>8, <1>9

\* A cascade seats a cheaper lane that was not in cooldown before a dearer one.
LEMMA CheaperFirst ==
    ASSUME NEW a, a \in Askings(a.tool), a.tool = "cascade",
           NEW i \in DOMAIN SeatsOf(a), NEW k \in DOMAIN Active,
           Cost[Active[k]] < Cost[SeatsOf(a)[i]], Active[k] \notin a.cooled
    PROVE  \E j \in DOMAIN SeatsOf(a) : j < i /\ SeatsOf(a)[j] = Active[k]
<1>. DEFINE active == {Active[m] : m \in DOMAIN Active}
            S == {l \in active : Free(l) \/ Paid(a)}
            key == [l \in active |-> Score(l, a.cooled)]
            s == SeatsOf(a)
            c == Active[k]
            l == s[i]
<1>1. active \subseteq Lanes /\ IsFiniteSet(active) /\ c \in active
  BY ActiveLanes
<1>2. S \subseteq active /\ IsFiniteSet(S)
  BY <1>1, FS_Subset
<1>3. Ordered(key, S)
  <2>1. Ordered(key, active)
    BY <1>1, OrderOfLanes
  <2>. QED  BY <1>2, <2>1 DEF Ordered
<1>4. s = SortedBy(key, S)
  BY DEF SeatsOf, OrderLanes
<1>5. /\ s \in Seq(S)
      /\ \A b \in S : \E j \in DOMAIN s : s[j] = b
      /\ \A j, m \in DOMAIN s : j < m => Precedes(key[s[j]], key[s[m]])
  <2>. HIDE DEF S, key, s
  <2>. QED  BY <1>2, <1>3, <1>4, SortingSorts
<1>6. l \in S /\ l \in active
  BY <1>2, <1>5
<1>7. Cost[c] \in 0..2 /\ Cost[l] \in 0..2 /\ Cost[c] < Cost[l]
  BY <1>1, <1>6, CouncilRulesAssumption
<1>8. c \in S
  BY <1>1, <1>6, <1>7 DEF Free
<1>9. Precedes(key[c], key[l])
  <2>1. /\ key[c] = <<0, Cost[c], Priority[c], Name[c]>>
        /\ key[l] = <<Cooled(l, a.cooled), Cost[l], Priority[l], Name[l]>>
    BY <1>1, <1>6 DEF Score, Cooled
  <2>2. Cooled(l, a.cooled) = 0 \/ Cooled(l, a.cooled) = 1
    BY DEF Cooled
  <2>. HIDE DEF key, c, l
  <2>3. CASE Cooled(l, a.cooled) = 1
    <3>1. key[c][1] < key[l][1] /\ 1 \in DOMAIN key[c] /\ 1..(1 - 1) = {}
      BY <2>1, <2>3
    <3>. QED  BY <3>1 DEF Precedes
  <2>4. CASE Cooled(l, a.cooled) = 0
    <3>1. key[c][2] < key[l][2] /\ 2 \in DOMAIN key[c] /\ 1..(2 - 1) = {1} /\ key[c][1] = key[l][1]
      BY <1>7, <2>1, <2>4
    <3>. QED  BY <3>1 DEF Precedes
  <2>. QED  BY <2>2, <2>3, <2>4
<1>10. PICK j \in DOMAIN s : s[j] = c
  BY <1>5, <1>8
<1>11. i \in DOMAIN s /\ i \in Int /\ j \in Int
  BY <1>5, <1>10
<1>12. ~(i < j)
  <2>1. i < j => Precedes(key[l], key[c])
    <3>. HIDE DEF key, c
    <3>. QED  BY <1>5, <1>10, <1>11
  <2>. HIDE DEF key, c, l, S
  <2>. QED  BY <1>3, <1>6, <1>8, <1>9, <2>1 DEF Ordered
<1>13. i # j
  BY <1>7, <1>10
<1>. QED  BY <1>10, <1>11, <1>12, <1>13

\* A ranking is a list of the answers that it ranks.
LEMMA RankingsOfAnswers ==
    ASSUME NEW S, IsFiniteSet(S), NEW r \in PartialOrders(S)
    PROVE  r \in Seq(S)
<1>1. PICK T \in SUBSET S : r \in SetToSeqs(T)
  BY DEF PartialOrders
<1>2. Cardinality(T) \in Nat
  BY FS_Subset, FS_CardinalityType
<1>3. r \in [1..Cardinality(T) -> T]
  BY <1>1 DEF SetToSeqs
<1>. QED  BY <1>2, <1>3

\* Seats are finitely many numbers.
LEMMA SeatsAreFinite ==
    ASSUME Len(seats) \in Nat, DOMAIN seats = 1..Len(seats)
    PROVE  IsFiniteSet(Seats) /\ Seats \subseteq Nat
BY FS_Interval DEF Seats

\* What is collected of the replies of a review is a list of findings.
LEMMA FindingsTyped ==
    ASSUME Typing, stage # "idle", tool = "review"
    PROVE  AllFindings \in Seq(Finding)
<1>. DEFINE n == Len(seats)
            X == Seq(Finding)
            first == IF asking.checks THEN <<Prechecked>> ELSE <<>>
            Gathers(f) == f = [i \in 0..n |-> IF i = 0 THEN first ELSE f[i - 1] \o Replied(i)]
            upTo == CHOOSE f : Gathers(f)
            step == [k \in 1..n |-> [x \in X |-> x \o Replied(k)]]
<1>0. n \in Nat /\ Seats = 1..n
  BY DEF Typing, TypeOK, Seats
<1>1. AllFindings = upTo[n]
  BY DEF AllFindings
<1>2. \A k \in 1..n : Replied(k) \in X
  <2>1. \A k \in 1..n : reply[k] = Fail \/ (Ok(reply[k]) /\ reply[k].body \in Seq(Finding))
    BY <1>0 DEF Typing, Body
  <2>. QED  BY <2>1 DEF Replied, Fail, Ok
<1>3. first \in X
  <2>1. Prechecked \in Finding
    BY DEF Prechecked, Finding, Severities
  <2>. QED  BY <2>1
<1>4. Closed(step, n, X)
  BY <1>2 DEF Closed
<1>5. PICK f : Table(f, n, X, first, step)
  <2>1. n \in Nat
    BY <1>0
  <2>. HIDE DEF step, X, n, first
  <2>. QED  BY ONLY <1>3, <1>4, <2>1, Rows
<1>. USE DEF Table
<1>. HIDE DEF n, first
<1>6. Gathers(f)
  <2>1. f = [k \in 0..n |-> f[k]]
    BY <1>5
  <2>2. ASSUME NEW k \in 0..n
        PROVE  f[k] = IF k = 0 THEN first ELSE f[k - 1] \o Replied(k)
    <3>1. k = 0 \/ (k \in 1..n /\ k - 1 \in 0..n)
      BY <1>0
    <3>2. k # 0 => f[k - 1] \in X
      BY <1>5, <3>1
    <3>. HIDE DEF X
    <3>. QED  BY <1>5, <3>1, <3>2
  <2>. QED  BY <2>1, <2>2
<1>7. Gathers(upTo)
  BY <1>6
<1>. HIDE DEF upTo
<1>8. upTo[0] = first /\ \A k \in 1..n : upTo[k] = upTo[k - 1] \o Replied(k)
  <2>1. 0 \in 0..n /\ \A k \in 1..n : k \in 0..n /\ k # 0
    BY <1>0
  <2>. QED  BY <1>7, <2>1
<1>. DEFINE Typed == {k \in 0..n : upTo[k] \in X}
<1>9. 0 \in Typed
  <2>. HIDE DEF X
  <2>. QED  BY <1>0, <1>3, <1>8
<1>10. ASSUME NEW k \in 1..n, k - 1 \in Typed
       PROVE  k \in Typed
  <2>1. upTo[k - 1] \o Replied(k) \in X
    BY <1>2, <1>10
  <2>2. k \in 0..n
    BY <1>0
  <2>. HIDE DEF X
  <2>. QED  BY <1>8, <2>1, <2>2
<1>11. \A k \in 0..n : k \in Typed
  <2>. HIDE DEF Typed
  <2>. QED  BY <1>0, <1>9, <1>10, Climb
<1>12. n \in Typed
  BY <1>0, <1>11
<1>. QED  BY <1>1, <1>12

-----------------------------------------------------------------------------
(* The steps. *)

\* Where there is nothing to report yet, or only answers side by side, three parts of the
\* invariant say nothing.
LEMMA NothingReported ==
    ASSUME report'.kind \notin {"error", "answer", "findings"}
    PROVE  FindingsKept' /\ PeersChoose' /\ ErrorsAreReal'
BY DEF FindingsKept, PeersChoose, ErrorsAreReal

\* There is a report only when the session is over.
LEMMA NoReportYet ==
    ASSUME TypeOK, stage # "over"
    PROVE  report.kind = "none"
BY DEF TypeOK

\* The invariant holds of a server that was not asked yet.
LEMMA InitIInv == Init => IInv
<1>. SUFFICES ASSUME Init
              PROVE  IInv
  OBVIOUS
<1>0. DOMAIN <<>> = {} /\ Len(<<>>) = 0
  OBVIOUS
<1>1. Seats = {} /\ seats = <<>> /\ stage = "idle" /\ asking = Idle
  BY <1>0 DEF Init, Seats
<1>2. TypeOK
  <2>1. <<>> \in Seq(Lanes)
    OBVIOUS
  <2>2. rnd \in 0..MaxRounds
    BY CouncilAssumption DEF Init
  <2>3. said \in [Seats -> 0..(MaxRounds + 1)]
    BY <1>0, <1>1 DEF Init
  <2>. QED  BY <1>0, <1>1, <2>1, <2>2, <2>3 DEF Init, TypeOK, NoReport
<1>3. Typing /\ Phases /\ Latest /\ Seated /\ Agreed
  BY <1>0, <1>1, <1>2 DEF Init, Typing, Phases, Latest, Seated, Agreed
<1>4. FindingsKept /\ PeersChoose /\ ErrorsAreReal
  BY DEF Init, NoReport, FindingsKept, PeersChoose, ErrorsAreReal
<1>. QED  BY <1>3, <1>4 DEF IInv

\* A reply is of the kind the wave is about: findings, a ranking, or an answer and a vote.
LEMMA BodiesTyped ==
    ASSUME Typing, Phases, stage \in {"ask", "again"}, NEW i \in waiting, NEW b \in Bodies(i)
    PROVE  b \in Body
<1>1. /\ tool \in Tools /\ asking \in Askings(tool) /\ i \in Seats /\ MaxRounds \in Nat
      /\ seats[i] \in Lanes /\ said[i] \in 0..(MaxRounds + 1) /\ rnd \in Nat
  BY CouncilAssumption DEF Typing, TypeOK, Seats
<1>2. asking.rounds \in 0..MaxRounds
  <2>1. asking.tool = tool
    BY DEF tool
  <2>. QED  BY <1>1, <2>1, AskedWith
<1>3. <<1, "none">> \in (1..(MaxRounds + 1)) \X Votes
  BY <1>1 DEF Votes
<1>4. tool = "borda" => (Ranks <=> stage = "again")
  <2>1. stage = "ask" => Cardinality(DOMAIN positions) = 0
    <3>1. DOMAIN <<>> = {}
      OBVIOUS
    <3>. QED  BY <3>1, FS_EmptySet DEF Phases
  <2>. QED  BY <2>1 DEF Ranks, Phases
<1>5. CASE tool = "review"
  <2>1. b = <<>> \/ \E f \in Found : b = <<Raised(i, f)>>
    BY <1>5 DEF Bodies
  <2>2. ASSUME NEW f \in Found
        PROVE  Raised(i, f) \in Finding
    <3>1. f[1] \in Nat /\ f[2] \in Nat \ {0} /\ f[3] \in BOOLEAN
      BY CouncilAssumption
    <3>2. {seats[i]} \in SUBSET (Lanes \cup {Precheck})
      BY <1>1
    <3>. QED  BY <3>1, <3>2 DEF Raised, Finding, Severities
  <2>3. b \in Seq(Finding)
    <3>1. <<>> \in Seq(Finding) /\ \A x \in Finding : <<x>> \in Seq(Finding)
      BY <2>2
    <3>2. CASE b = <<>>
      BY <3>1, <3>2
    <3>3. ASSUME NEW f \in Found, b = <<Raised(i, f)>>
          PROVE  b \in Seq(Finding)
      <4>1. <<Raised(i, f)>> \in Seq(Finding)
        BY <2>2, <3>1
      <4>. QED  BY <3>3, <4>1
    <3>. QED  BY <2>1, <3>2, <3>3
  <2>. QED  BY <1>5, <2>3 DEF Body
<1>6. CASE tool = "borda"
  BY <1>3, <1>4, <1>6 DEF Bodies, Body
<1>7. CASE tool = "debate"
  <2>1. rnd + 1 + (IF stage = "again" THEN 1 ELSE 0) \in 1..(MaxRounds + 1)
    BY <1>1, <1>2, <1>7 DEF Phases
  <2>2. b \in (1..(MaxRounds + 1)) \X Votes
    BY <1>1, <1>7, <2>1 DEF Bodies
  <2>. QED  BY <1>7, <2>2 DEF Body, Ranks
<1>8. CASE tool \notin {"review", "borda", "debate"}
  BY <1>3, <1>8 DEF Bodies, Body, Ranks
<1>. QED  BY <1>5, <1>6, <1>7, <1>8

\* One seat of a wave replies.
LEMMA ReplyKeeps ==
    ASSUME IInv, NEW i \in waiting, NEW r,
           r = Fail \/ (Ok(r) /\ r = [ok |-> TRUE, body |-> r.body] /\ r.body \in Bodies(i)),
           Reply(i, r)
    PROVE  IInv'
<1>. USE DEF Reply, askVars, IInv
<1>0. /\ Typing /\ Phases /\ stage \in {"ask", "again"} /\ tool' = tool /\ Seats' = Seats
      /\ i \in Seats /\ asking' = asking /\ tool \in Tools \ Chains
  BY DEF Typing, TypeOK, tool, Seats
<1>1. Body' = Body /\ (Ok(r) => r.body \in Body) /\ r.ok \in BOOLEAN
  <2>1. Ok(r) => r.body \in Body
    BY <1>0, BodiesTyped DEF Fail, Ok
  <2>2. Body' = Body
    BY <1>0 DEF Body, Ranks, PartialOrders
  <2>3. r.ok \in BOOLEAN
    <3>1. r = Fail => r.ok = FALSE
      BY DEF Fail
    <3>2. r = [ok |-> TRUE, body |-> r.body] => r.ok = TRUE
      OBVIOUS
    <3>. QED  BY <3>1, <3>2
  <2>. QED  BY <2>1, <2>2, <2>3
<1>2. /\ DOMAIN reply' = Seats /\ reply'[i] = r /\ \A j \in Seats \ {i} : reply'[j] = reply[j]
  BY <1>0 DEF Typing
<1>3. /\ Ok(r) /\ IsAnswer /\ tool # "review" => r.body[1] \in 1..(MaxRounds + 1)
      /\ IsAnswer => (stage = "ask" \/ tool = "debate")
  <2>1. stage = "ask" => Cardinality(DOMAIN positions) = 0
    <3>1. DOMAIN <<>> = {}
      OBVIOUS
    <3>. QED  BY <1>0, <3>1, FS_EmptySet DEF Phases
  <2>2. IsAnswer /\ tool # "review" => Body = (1..(MaxRounds + 1)) \X Votes
    BY <2>1 DEF IsAnswer, Body, Ranks
  <2>. QED  BY <1>1, <2>2 DEF IsAnswer
<1>4. /\ said' \in [Seats -> 0..(MaxRounds + 1)]
      /\ said'[i] = IF Ok(r) /\ IsAnswer /\ tool # "review" THEN r.body[1] ELSE said[i]
      /\ \A j \in Seats \ {i} : said'[j] = said[j]
  <2>1. said \in [Seats -> 0..(MaxRounds + 1)]
    BY <1>0 DEF Typing, TypeOK
  <2>. QED  BY <1>0, <1>3, <2>1, CouncilAssumption DEF Said
<1>5. report' = report /\ report.kind = "none"
  BY <1>0, NoReportYet DEF Typing
<1>6. TypeOK'
  <2>1. \A j \in Seats : reply'[j].ok \in BOOLEAN
    BY <1>0, <1>1, <1>2 DEF Typing, TypeOK
  <2>. QED  BY <1>0, <1>4, <2>1 DEF Typing, TypeOK
<1>7. Typing'
  <2>1. \A j \in Seats : reply'[j] = Fail \/ (Ok(reply'[j]) /\ reply'[j].body \in Body)
    BY <1>0, <1>1, <1>2 DEF Typing
  <2>2. \A j \in waiting' : ~Ok(reply'[j])
    BY <1>0, <1>2 DEF Typing, TypeOK
  <2>. QED  BY <1>0, <1>1, <1>2, <1>6, <2>1, <2>2 DEF Typing, Ok
<1>8. Phases'
  <2>1. Answered' \subseteq Answered \cup {i}
    BY <1>0, <1>2 DEF Answered, Ok
  <2>. QED  BY <1>0, <2>1 DEF Phases
<1>9. Latest'
  <2>. SUFFICES ASSUME NEW j \in Seats
                PROVE  /\ tool = "review" => said'[j] = 0
                       /\ stage = "ask" /\ tool # "review" =>
                             said'[j] = IF Ok(reply'[j]) THEN reply'[j].body[1] ELSE 0
                       /\ stage = "again" =>
                             said'[j] = IF tool = "debate" /\ Ok(reply'[j]) THEN reply'[j].body[1]
                                        ELSE Held(j)
    BY <1>0 DEF Latest, Ok, Held
  <2>1. /\ tool = "review" => said[j] = 0
        /\ stage = "ask" /\ tool # "review" =>
              said[j] = IF Ok(reply[j]) THEN reply[j].body[1] ELSE 0
        /\ stage = "again" =>
              said[j] = IF tool = "debate" /\ Ok(reply[j]) THEN reply[j].body[1] ELSE Held(j)
    BY <1>0 DEF Latest
  <2>2. CASE j # i
    BY <1>2, <1>4, <2>1, <2>2
  <2>3. CASE j = i
    <3>1. ~Ok(reply[i])
      BY <1>0 DEF Typing
    <3>. QED  BY <1>0, <1>2, <1>4, <2>1, <2>3, <3>1 DEF IsAnswer
  <2>. QED  BY <2>2, <2>3
<1>10. Seated' /\ Agreed'
  BY <1>0 DEF Seated, Agreed
<1>11. FindingsKept' /\ PeersChoose' /\ ErrorsAreReal'
  BY <1>5, NothingReported
<1>. QED  BY <1>7, <1>8, <1>9, <1>10, <1>11

\* Seats are numbered from 1.
LEMMA SeatsNumbered ==
    ASSUME TypeOK
    PROVE  /\ Len(seats) \in Nat /\ Seats = 1..Len(seats) /\ Seats \subseteq Nat /\ 0 \notin Seats
           /\ IsFiniteSet(Seats) /\ \A i \in Seats : seats[i] \in Lanes
<1>1. seats \in Seq(Lanes)
  BY DEF TypeOK
<1>2. Len(seats) \in Nat /\ DOMAIN seats = 1..Len(seats) /\ \A i \in 1..Len(seats) : seats[i] \in Lanes
  BY <1>1
<1>. QED  BY <1>2, SeatsAreFinite DEF Seats

\* One lane of a chain replies.
LEMMA TryNextKeeps ==
    ASSUME IInv, NEW i \in waiting, NEW r,
           r = Fail \/ (Ok(r) /\ r = [ok |-> TRUE, body |-> r.body] /\ r.body \in Bodies(i)),
           TryNext(i, r)
    PROVE  IInv'
<1>. USE DEF TryNext, askVars, IInv
<1>0. /\ Typing /\ Phases /\ stage = "ask" /\ tool' = tool /\ Seats' = Seats /\ DOMAIN <<>> = {}
      /\ i \in Seats /\ i # 0 /\ asking' = asking /\ tool \in Chains /\ positions = <<>>
  <2>1. i \in Seats /\ i # 0
    BY SeatsNumbered DEF Typing, TypeOK
  <2>2. DOMAIN <<>> = {}
    OBVIOUS
  <2>. QED  BY <2>1, <2>2 DEF Typing, tool, Seats, Phases
<1>1. Body' = Body /\ Body = (1..(MaxRounds + 1)) \X Votes /\ (Ok(r) => r.body \in Body) /\ r.ok \in BOOLEAN
  <2>1. Ok(r) => r.body \in Body
    BY <1>0, BodiesTyped DEF Fail, Ok
  <2>2. Body' = Body /\ Body = (1..(MaxRounds + 1)) \X Votes
    BY <1>0 DEF Body, Ranks, Chains
  <2>3. r.ok \in BOOLEAN
    <3>1. r = Fail => r.ok = FALSE
      BY DEF Fail
    <3>2. r = [ok |-> TRUE, body |-> r.body] => r.ok = TRUE
      OBVIOUS
    <3>. QED  BY <3>1, <3>2
  <2>. QED  BY <2>1, <2>2, <2>3
<1>2. /\ DOMAIN reply' = Seats /\ reply'[i] = r /\ \A j \in Seats \ {i} : reply'[j] = reply[j]
  BY <1>0 DEF Typing
<1>3. Ok(r) => r.body[1] \in 1..(MaxRounds + 1)
  BY <1>1
<1>4. /\ said' \in [Seats -> 0..(MaxRounds + 1)]
      /\ said'[i] = IF Ok(r) THEN r.body[1] ELSE said[i]
      /\ \A j \in Seats \ {i} : said'[j] = said[j]
  <2>1. said \in [Seats -> 0..(MaxRounds + 1)]
    BY <1>0 DEF Typing, TypeOK
  <2>. QED  BY <1>0, <1>3, <2>1, CouncilAssumption DEF Said, IsAnswer, Chains
<1>5. /\ report.kind = "none"
      /\ \/ /\ Ok(r) /\ stage' = "over"
            /\ report' = [kind |-> "answer", seat |-> i, findings |-> {}]
         \/ /\ ~Ok(r) /\ waiting' = {} /\ stage' = "over"
            /\ report' = [kind |-> "error", seat |-> 0, findings |-> {}]
         \/ ~Ok(r) /\ stage' = stage /\ report' = report
  BY <1>0, NoReportYet DEF Typing, Over
<1>6. TypeOK'
  <2>1. \A j \in Seats : reply'[j].ok \in BOOLEAN
    BY <1>0, <1>1, <1>2 DEF Typing, TypeOK
  <2>2. report'.kind \in {"none", "error", "answer"} /\ report'.seat \in Seats \cup {0}
    BY <1>0, <1>5 DEF Typing, TypeOK
  <2>3. stage' = "over" <=> report'.kind # "none"
    BY <1>0, <1>5
  <2>4. waiting' \subseteq Seats /\ stage' \in {"ask", "over"}
    BY <1>0, <1>5 DEF Typing, TypeOK
  <2>5. asking' \in Askings(tool) /\ judge' \in Lanes \cup {Nobody} /\ seats' \in Seq(Lanes)
    <3>1. asking \in Askings(tool) /\ judge \in Lanes \cup {Nobody} /\ seats \in Seq(Lanes)
      BY <1>0 DEF Typing, TypeOK
    <3>2. asking' = asking /\ judge' = judge /\ seats' = seats
      OBVIOUS
    <3>. HIDE DEF TryNext
    <3>. QED  BY <3>1, <3>2
  <2>6. rnd' \in 0..MaxRounds /\ positions' = <<>> /\ why' \in {"none", "voted", "unchanged"}
    BY <1>0 DEF Typing, TypeOK
  <2>. HIDE DEF TryNext
  <2>. QED  BY <1>0, <1>4, <2>1, <2>2, <2>3, <2>4, <2>5, <2>6 DEF TypeOK, tool
<1>7. Typing'
  <2>1. \A j \in Seats : reply'[j] = Fail \/ (Ok(reply'[j]) /\ reply'[j].body \in Body)
    BY <1>0, <1>1, <1>2 DEF Typing
  <2>2. \A j \in waiting' : ~Ok(reply'[j])
    BY <1>0, <1>2 DEF Typing, TypeOK
  <2>. QED  BY <1>0, <1>1, <1>2, <1>5, <1>6, <2>1, <2>2 DEF Typing, Ok
<1>8. Phases'
  <2>1. stage' = "ask" => Answered' = {}
    BY <1>0, <1>2, <1>5 DEF Answered, Ok, Phases
  <2>. QED  BY <1>0, <1>5, <2>1 DEF Phases, Chains
<1>9. \A j \in Seats : said[j] = 0
  BY <1>0 DEF Latest, Phases, Answered, Chains
<1>10. Latest'
  <2>1. stage' = "ask" => \A j \in Seats : said'[j] = IF Ok(reply'[j]) THEN reply'[j].body[1] ELSE 0
    BY <1>2, <1>4, <1>5, <1>9, <1>0 DEF Phases, Answered
  <2>. QED  BY <1>0, <1>5, <2>1 DEF Latest, Chains, Ok
<1>11. Seated' /\ Agreed'
  BY <1>0 DEF Seated, Agreed
<1>12. FindingsKept' /\ PeersChoose'
  BY <1>0, <1>5 DEF FindingsKept, PeersChoose, Chains
<1>13. ErrorsAreReal'
  <2>1. report'.kind = "error" => \A j \in Seats : said'[j] = 0
    BY <1>4, <1>5, <1>9
  <2>. QED  BY <1>0, <2>1 DEF ErrorsAreReal, Chains
<1>. QED  BY <1>7, <1>8, <1>10, <1>11, <1>12, <1>13

\* A tool is called.
LEMMA AskKeeps ==
    ASSUME IInv, NEW t \in Tools, NEW a \in Askings(t), Ask(a)
    PROVE  IInv'
<1>. USE DEF Ask, IInv
<1>0. /\ Typing /\ Phases /\ stage = "idle" /\ tool' = t /\ a.tool = t /\ a \in Askings(a.tool)
      /\ asking' = a /\ DOMAIN <<>> = {} /\ positions = <<>> /\ rnd = 0 /\ why = "none"
      /\ report.kind = "none" /\ report.seat \in Seats \cup {0} /\ seats = <<>>
      /\ Seats' = DOMAIN seats'
  <2>1. Typing /\ Phases /\ TypeOK /\ stage = "idle"
    BY DEF Typing
  <2>2. a.tool = t
    BY DEF Askings, Calls
  <2>3. DOMAIN <<>> = {}
    OBVIOUS
  <2>4. report.kind = "none" /\ report.seat \in Seats \cup {0}
    BY <2>1, NoReportYet DEF TypeOK
  <2>. QED  BY <2>1, <2>2, <2>3, <2>4 DEF Phases, tool, Seats
<1>1. /\ seats' \in Seq(MayAsk(a)) /\ MayAsk(a) \subseteq Lanes /\ seats' \in Seq(Lanes)
      /\ t = "debate" /\ seats' # <<>> => DebateJudge(a) \in MayAsk(a)
  <2>1. MayAsk(a) \subseteq Lanes
    BY DEF MayAsk
  <2>. QED  BY <1>0, <2>1, Seating
<1>2. /\ judge' \in MayAsk(a) \cup {Nobody}
      /\ t = "debate" /\ seats' # <<>> => judge' \in Lanes
  BY <1>0, <1>1, AskedWith
<1>3. /\ Len(seats') \in Nat /\ Seats' = 1..Len(seats') /\ (seats' = <<>> => Seats' = {})
      /\ 0 \notin Seats'
  BY <1>0, <1>1 DEF Seats
<1>4. \/ /\ seats' = <<>> /\ waiting' = {} /\ stage' = "over"
         /\ report' = [kind |-> "error", seat |-> 0, findings |-> {}]
      \/ /\ seats' # <<>> /\ waiting' = Seats' /\ stage' = "ask" /\ report' = report
  BY <1>0 DEF Over
<1>5. /\ DOMAIN reply' = Seats' /\ \A i \in Seats' : reply'[i] = Fail /\ ~Ok(reply'[i])
      /\ said' \in [Seats' -> 0..(MaxRounds + 1)] /\ \A i \in Seats' : said'[i] = 0
  BY <1>0, CouncilAssumption DEF Fail, Ok
<1>6. TypeOK'
  <2>1. \A i \in Seats' : reply'[i].ok \in BOOLEAN
    BY <1>5 DEF Fail
  <2>2. report'.seat \in Seats' \cup {0} /\ report'.kind \in {"none", "error"}
        /\ (stage' = "over" <=> report'.kind # "none")
    <3>1. report.seat = 0
      BY <1>0 DEF Seats
    <3>. QED  BY <1>0, <1>4, <3>1
  <2>3. judge' \in Lanes \cup {Nobody} /\ stage' \in {"ask", "over"} /\ waiting' \subseteq Seats'
    BY <1>1, <1>2, <1>4
  <2>4. asking' \in Askings(asking'.tool)
    BY <1>0
  <2>5. rnd' \in 0..MaxRounds /\ positions' = <<>> /\ why' = "none"
    BY <1>0, CouncilAssumption
  <2>6. stage' = "over" => waiting' = {}
    BY <1>4
  <2>. QED  BY <1>0, <1>1, <1>5, <2>1, <2>2, <2>3, <2>4, <2>5, <2>6 DEF TypeOK
<1>7. Typing'
  BY <1>0, <1>4, <1>5, <1>6 DEF Typing, Ok
<1>8. Phases'
  <2>1. Answered' = {}
    BY <1>5 DEF Answered, Ok
  <2>. QED  BY <1>0, <1>2, <1>4, <2>1 DEF Phases
<1>9. Latest'
  BY <1>4, <1>5 DEF Latest, Ok
<1>10. Seated' /\ Agreed'
  BY <1>0, <1>1, <1>2, <1>3 DEF Seated, Agreed
<1>11. FindingsKept' /\ PeersChoose'
  BY <1>0, <1>4 DEF FindingsKept, PeersChoose
<1>12. ErrorsAreReal'
  BY <1>0, <1>3, <1>4 DEF ErrorsAreReal
<1>. QED  BY <1>7, <1>8, <1>9, <1>10, <1>11, <1>12

-----------------------------------------------------------------------------
(* The steps that gather a wave. *)

\* Of which kind answers that are held are.
HeldTypes(held) ==
    /\ DOMAIN held \subseteq Seats
    /\ \A i \in DOMAIN held : held[i] \in (1..(MaxRounds + 1)) \X Votes

\* With the wave in, a seat holds what it answered last.
LEMMA GatheredIsLatest ==
    ASSUME IInv, In, tool \notin Chains \cup {"review"}, stage = "ask" \/ tool = "debate"
    PROVE  /\ DOMAIN Gathered(positions) = Answered \cup DOMAIN positions
           /\ HeldTypes(Gathered(positions))
           /\ Body = (1..(MaxRounds + 1)) \X Votes
           /\ \A i \in Seats :
                 said[i] = IF i \in DOMAIN Gathered(positions) THEN Gathered(positions)[i][1] ELSE 0
<1>. DEFINE held == Gathered(positions)
<1>1. Typing /\ Phases /\ Latest /\ stage # "idle"
  BY DEF IInv, In
<1>2. Body = (1..(MaxRounds + 1)) \X Votes
  <2>1. stage = "ask" => Cardinality(DOMAIN positions) = 0
    <3>1. DOMAIN <<>> = {}
      OBVIOUS
    <3>. QED  BY <1>1, <3>1, FS_EmptySet DEF Phases
  <2>. QED  BY <2>1 DEF Body, Ranks
<1>3. /\ DOMAIN held = Answered \cup DOMAIN positions
      /\ \A i \in DOMAIN held : held[i] = IF i \in Answered THEN reply[i].body ELSE positions[i]
  BY DEF Gathered
<1>4. \A i \in Answered : Ok(reply[i]) /\ reply[i].body \in Body
  BY <1>1 DEF Typing, Answered, Fail, Ok
<1>5. HeldTypes(positions)
  <2>1. TypeOK
    BY <1>1 DEF Typing
  <2>. QED  BY <2>1 DEF TypeOK, HeldTypes
<1>6. HeldTypes(held)
  <2>1. Answered \subseteq Seats
    BY DEF Answered
  <2>. HIDE DEF held
  <2>. QED  BY <1>2, <1>3, <1>4, <1>5, <2>1 DEF HeldTypes
<1>7. ASSUME NEW i \in Seats
      PROVE  said[i] = IF i \in DOMAIN held THEN held[i][1] ELSE 0
  <2>1. i \in Answered <=> Ok(reply[i])
    BY DEF Answered
  <2>2. stage = "ask" => positions = <<>> /\ DOMAIN positions = {}
    <3>1. DOMAIN <<>> = {}
      OBVIOUS
    <3>. QED  BY <1>1, <3>1 DEF Phases
  <2>. HIDE DEF held
  <2>3. CASE stage = "ask"
    BY <1>1, <1>3, <2>1, <2>2, <2>3 DEF Latest
  <2>4. CASE stage = "again" /\ tool = "debate"
    BY <1>1, <1>3, <2>1, <2>4 DEF Latest, Held
  <2>. QED  BY <2>3, <2>4 DEF In
<1>. QED  BY <1>2, <1>3, <1>6, <1>7

\* The session ends.
LEMMA EndKeeps ==
    ASSUME IInv, stage # "idle", waiting = {},
           NEW kind, NEW seat, NEW findings, End(kind, seat, findings),
           asking' = asking, seats' = seats, said' = said,
           kind \in {"error", "answer", "judged", "all", "findings"}, seat \in Seats \cup {0},
           HeldTypes(positions'), Body' = Body, rnd' \in 0..MaxRounds,
           why' \in {"none", "voted", "unchanged"}
    PROVE  /\ Typing' /\ Phases' /\ Seated' /\ Agreed'
           /\ stage' = "over" /\ tool' = tool /\ Seats' = Seats /\ reply' = reply
           /\ report' = [kind |-> kind, seat |-> seat, findings |-> findings]
           /\ report'.kind = kind /\ report'.seat = seat /\ report'.findings = findings
<1>1. /\ Typing /\ Phases /\ Seated /\ Agreed /\ stage # "idle" /\ waiting = {}
      /\ stage' = "over" /\ waiting' = {} /\ reply' = reply /\ judge' = judge
      /\ report' = [kind |-> kind, seat |-> seat, findings |-> findings]
      /\ tool' = tool /\ Seats' = Seats
  BY DEF IInv, End, Over, tool, Seats
<1>2. report'.kind = kind /\ report'.seat = seat /\ report'.findings = findings
  BY <1>1
<1>3. /\ asking \in Askings(tool) /\ tool \in Tools /\ seats \in Seq(Lanes)
      /\ judge \in Lanes \cup {Nobody} /\ said \in [Seats -> 0..(MaxRounds + 1)]
      /\ \A i \in Seats : reply[i].ok \in BOOLEAN
  BY <1>1 DEF Typing, TypeOK
<1>4. TypeOK'
  <2>1. asking' \in Askings(asking'.tool) /\ seats' \in Seq(Lanes)
    BY <1>3 DEF tool
  <2>. QED  BY <1>1, <1>2, <1>3, <2>1 DEF TypeOK, HeldTypes
<1>5. Typing'
  <2>1. \A i \in Seats : reply[i] = Fail \/ (Ok(reply[i]) /\ reply[i].body \in Body)
    BY <1>1 DEF Typing
  <2>2. DOMAIN reply = Seats
    BY <1>1 DEF Typing
  <2>. QED  BY <1>1, <1>3, <1>4, <2>1, <2>2 DEF Typing, Ok
<1>6. Phases'
  BY <1>1 DEF Phases
<1>7. Seated' /\ Agreed'
  BY <1>1 DEF Seated, Agreed
<1>. QED  BY <1>1, <1>2, <1>5, <1>6, <1>7

\* One lane concludes.
LEMMA ConcludeKeeps ==
    ASSUME IInv, In, NEW l \in MayAsk(asking), Conclude(l),
           asking' = asking, seats' = seats, said' = said,
           tool \in {"ask_all", "merge", "borda", "debate"} \cup Pools,
           HeldTypes(positions'), Body' = Body, DOMAIN positions' # {},
           tool = "borda" => Cardinality(DOMAIN positions') > 1,
           rnd' \in 0..MaxRounds, why' \in {"none", "voted", "unchanged"},
           \A i \in Seats : said[i] = IF i \in DOMAIN positions' THEN positions'[i][1] ELSE 0
    PROVE  IInv'
<1>1. /\ Typing /\ Phases /\ Seated /\ Agreed /\ stage \in {"ask", "again"} /\ waiting = {}
      /\ stage' = "close" /\ waiting' = {} /\ reply' = reply /\ judge' = l /\ report' = report
      /\ tool' = tool /\ Seats' = Seats
  BY DEF IInv, In, Conclude, tool, Seats
<1>2. report.kind = "none" /\ report.seat \in Seats \cup {0}
  <2>1. TypeOK
    BY <1>1 DEF Typing
  <2>. QED  BY <1>1, <2>1, NoReportYet DEF TypeOK
<1>3. /\ asking \in Askings(tool) /\ tool \in Tools /\ seats \in Seq(Lanes)
      /\ said \in [Seats -> 0..(MaxRounds + 1)]
      /\ \A i \in Seats : reply[i].ok \in BOOLEAN
  BY <1>1 DEF Typing, TypeOK
<1>4. l \in Lanes /\ l # Nobody
  BY CouncilRulesAssumption DEF MayAsk
<1>5. TypeOK'
  <2>1. asking' \in Askings(asking'.tool) /\ seats' \in Seq(Lanes)
    BY <1>3 DEF tool
  <2>. QED  BY <1>1, <1>2, <1>3, <1>4, <2>1 DEF TypeOK, HeldTypes
<1>6. Typing'
  <2>1. \A i \in Seats : reply[i] = Fail \/ (Ok(reply[i]) /\ reply[i].body \in Body)
    BY <1>1 DEF Typing
  <2>2. DOMAIN reply = Seats
    BY <1>1 DEF Typing
  <2>. QED  BY <1>1, <1>3, <1>5, <2>1, <2>2 DEF Typing, Ok
<1>7. Phases'
  BY <1>1 DEF Phases
<1>8. Seated' /\ Agreed'
  BY <1>1 DEF Seated, Agreed, Pools
<1>9. Latest'
  BY <1>1 DEF Latest, Held, Chains, Pools
<1>. QED  BY <1>1, <1>2, <1>6, <1>7, <1>8, <1>9, NothingReported DEF IInv

\* The first wave is in and nobody answered.
LEMMA NobodyAnsweredKeeps ==
    ASSUME IInv, NobodyAnswered
    PROVE  IInv'
<1>1. /\ In /\ stage = "ask" /\ Answered = {} /\ End("error", 0, {})
      /\ asking' = asking /\ seats' = seats /\ said' = said
      /\ positions' = positions /\ rnd' = rnd /\ why' = why
      /\ tool \notin {"review", "research"} \cup Chains
      /\ Typing /\ Phases /\ TypeOK /\ Latest
  BY DEF NobodyAnswered, IInv, Typing, Pools, Chains
<1>2. HeldTypes(positions) /\ rnd \in 0..MaxRounds /\ why \in {"none", "voted", "unchanged"}
  BY <1>1 DEF TypeOK, HeldTypes
<1>3. Body' = Body
  BY <1>1 DEF Body, Ranks, PartialOrders, tool
<1>4. /\ Typing' /\ Phases' /\ Seated' /\ Agreed' /\ stage' = "over" /\ tool' = tool
      /\ Seats' = Seats /\ report'.kind = "error"
  BY <1>1, <1>2, <1>3, EndKeeps DEF In
<1>5. Latest'
  BY <1>1, <1>4 DEF Latest
<1>6. ErrorsAreReal'
  <2>1. \A i \in Seats : said[i] = 0
    BY <1>1 DEF Latest, Answered
  <2>. QED  BY <1>1, <1>4, <2>1 DEF ErrorsAreReal
<1>. QED  BY <1>4, <1>5, <1>6 DEF IInv, FindingsKept, PeersChoose

\* What a step that gathers the first wave, or a round of a debate, ends with.
LEMMA GatheredEndKeeps ==
    ASSUME IInv, In, tool \notin Chains \cup {"review"}, stage = "ask" \/ tool = "debate",
           NEW kind, NEW seat, End(kind, seat, {}),
           asking' = asking, seats' = seats, said' = said, positions' = Gathered(positions),
           kind \in {"answer", "judged", "all"}, seat \in Seats \cup {0},
           tool = "borda" => Cardinality(Answered) <= 1,
           rnd' \in 0..MaxRounds, why' \in {"none", "voted", "unchanged"}
    PROVE  IInv'
<1>1. Typing /\ Phases /\ TypeOK
  BY DEF IInv, Typing
<1>2. /\ DOMAIN positions' = Answered \cup DOMAIN positions /\ HeldTypes(positions')
      /\ Body = (1..(MaxRounds + 1)) \X Votes
      /\ \A i \in Seats : said[i] = IF i \in DOMAIN positions' THEN positions'[i][1] ELSE 0
  BY GatheredIsLatest
<1>3. tool = "borda" => DOMAIN positions' = Answered /\ Cardinality(Answered) \in Nat
  <2>1. tool = "borda" => DOMAIN positions = {}
    <3>1. DOMAIN <<>> = {}
      OBVIOUS
    <3>. QED  BY <1>1, <3>1 DEF Phases
  <2>2. IsFiniteSet(Answered)
    BY <1>1, SeatsNumbered, FS_Subset DEF Answered
  <2>. QED  BY <1>2, <2>1, <2>2, FS_CardinalityType
<1>4. Body' = Body
  <2>1. tool' = tool
    BY DEF tool
  <2>2. ~(tool = "borda" /\ Cardinality(DOMAIN positions') > 1)
    BY <1>3
  <2>. QED  BY <1>2, <2>1, <2>2 DEF Body, Ranks
<1>5. /\ Typing' /\ Phases' /\ Seated' /\ Agreed' /\ stage' = "over" /\ tool' = tool
      /\ Seats' = Seats /\ report'.kind = kind
  BY <1>2, <1>4, EndKeeps DEF In
<1>6. Latest'
  BY <1>2, <1>5 DEF Latest, Held
<1>7. FindingsKept' /\ ErrorsAreReal'
  BY <1>5 DEF FindingsKept, ErrorsAreReal
<1>8. PeersChoose'
  BY <1>3, <1>5 DEF PeersChoose
<1>. QED  BY <1>5, <1>6, <1>7, <1>8 DEF IInv

\* ask_all: the answers side by side, or a synthesis.
LEMMA GatherAllKeeps ==
    ASSUME IInv, NEW hostSamples \in BOOLEAN, GatherAll(hostSamples)
    PROVE  IInv'
<1>. DEFINE free == PickJudge(seats, Nobody)
<1>1. /\ In /\ tool = "ask_all" /\ positions' = Gathered(positions)
      /\ asking' = asking /\ seats' = seats /\ said' = said /\ rnd' = rnd /\ why' = why
      /\ Typing /\ Phases /\ TypeOK /\ stage = "ask" /\ tool' = tool
      /\ tool \notin Chains \cup {"review"}
  BY DEF GatherAll, IInv, Typing, Phases, In, tool, Chains
<1>2. rnd \in 0..MaxRounds /\ why \in {"none", "voted", "unchanged"} /\ 0 \in Seats \cup {0}
  BY <1>1 DEF TypeOK
<1>3. CASE End("all", 0, {}) \/ End("judged", 0, {})
  BY <1>1, <1>2, <1>3, GatheredEndKeeps
<1>4. CASE Conclude(free) /\ free # Nobody /\ Cardinality(Answered) >= 2
  <2>1. /\ DOMAIN positions' = Answered \cup DOMAIN positions /\ HeldTypes(positions')
        /\ Body = (1..(MaxRounds + 1)) \X Votes
        /\ \A i \in Seats : said[i] = IF i \in DOMAIN positions' THEN positions'[i][1] ELSE 0
    BY <1>1, GatheredIsLatest
  <2>2. Body' = Body
    BY <1>1, <2>1 DEF Body, Ranks
  <2>3. DOMAIN positions' # {}
    <3>1. Answered # {}
      <4>. SUFFICES ASSUME Answered = {}
                    PROVE  FALSE
        OBVIOUS
      <4>1. Cardinality(Answered) = 0
        BY FS_EmptySet
      <4>. QED  BY <1>4, <4>1
    <3>. QED  BY <2>1, <3>1
  <2>4. free \in MayAsk(asking)
    <3>1. seats \in Seq(Lanes)
      BY <1>1 DEF TypeOK
    <3>2. free \in Lanes /\ Free(free)
      BY <1>4, <3>1, JudgePicked
    <3>. QED  BY <3>2 DEF MayAsk
  <2>. HIDE DEF free
  <2>. QED  BY <1>1, <1>2, <1>4, <2>1, <2>2, <2>3, <2>4, ConcludeKeeps
<1>. QED  BY <1>1, <1>3, <1>4 DEF GatherAll

\* premortem and test_plan: one answer, or the first target merges them.
LEMMA GatherToMergeKeeps ==
    ASSUME IInv, GatherToMerge
    PROVE  IInv'
<1>1. /\ In /\ tool = "merge" /\ positions' = Gathered(positions) /\ Answered # {}
      /\ asking' = asking /\ seats' = seats /\ said' = said /\ rnd' = rnd /\ why' = why
      /\ Typing /\ Phases /\ TypeOK /\ stage = "ask" /\ tool' = tool /\ seats # <<>>
      /\ tool \notin Chains \cup {"review"}
  BY DEF GatherToMerge, IInv, Typing, Phases, In, tool, Chains
<1>2. rnd \in 0..MaxRounds /\ why \in {"none", "voted", "unchanged"}
  BY <1>1 DEF TypeOK
<1>3. CASE End("answer", LowestOf(Answered), {})
  <2>1. LowestOf(Answered) \in Seats
    <3>1. Answered \subseteq Seats /\ Answered \subseteq Nat
      BY <1>1, SeatsNumbered DEF Answered
    <3>. QED  BY <1>1, <3>1, LeastNumber
  <2>. QED  BY <1>1, <1>2, <1>3, <2>1, GatheredEndKeeps
<1>4. CASE Conclude(seats[1])
  <2>1. /\ DOMAIN positions' = Answered \cup DOMAIN positions /\ HeldTypes(positions')
        /\ Body = (1..(MaxRounds + 1)) \X Votes
        /\ \A i \in Seats : said[i] = IF i \in DOMAIN positions' THEN positions'[i][1] ELSE 0
    BY <1>1, GatheredIsLatest
  <2>2. Body' = Body
    BY <1>1, <2>1 DEF Body, Ranks
  <2>3. DOMAIN positions' # {}
    BY <1>1, <2>1
  <2>4. seats[1] \in MayAsk(asking)
    <3>1. 1 \in Seats
      <4>1. seats \in Seq(Lanes) /\ Seats = 1..Len(seats)
        BY <1>1, SeatsNumbered DEF TypeOK
      <4>. QED  BY <1>1, <4>1
    <3>. QED  BY <1>1, <3>1 DEF IInv, Agreed
  <2>. QED  BY <1>1, <1>2, <1>4, <2>1, <2>2, <2>3, <2>4, ConcludeKeeps
<1>. QED  BY <1>1, <1>3, <1>4 DEF GatherToMerge

\* The presets over a batch of calls.
LEMMA GatherPoolKeeps ==
    ASSUME IInv, GatherPool
    PROVE  IInv'
<1>1. /\ In /\ tool \in Pools /\ positions' = Gathered(positions)
      /\ asking' = asking /\ seats' = seats /\ said' = said /\ rnd' = rnd /\ why' = why
      /\ Typing /\ Phases /\ TypeOK /\ stage = "ask" /\ tool' = tool
      /\ tool \notin Chains \cup {"review", "borda"}
  BY DEF GatherPool, IInv, Typing, Phases, In, tool, Chains, Pools
<1>2. rnd \in 0..MaxRounds /\ why \in {"none", "voted", "unchanged"} /\ 0 \in Seats \cup {0}
  BY <1>1 DEF TypeOK
<1>3. CASE judge = Nobody /\ End("all", 0, {})
  BY <1>1, <1>2, <1>3, GatheredEndKeeps
<1>4. CASE judge # Nobody /\ Answered # {} /\ Conclude(judge)
  <2>1. /\ DOMAIN positions' = Answered \cup DOMAIN positions /\ HeldTypes(positions')
        /\ Body = (1..(MaxRounds + 1)) \X Votes
        /\ \A i \in Seats : said[i] = IF i \in DOMAIN positions' THEN positions'[i][1] ELSE 0
    BY <1>1, GatheredIsLatest
  <2>2. Body' = Body
    BY <1>1, <2>1 DEF Body, Ranks
  <2>3. DOMAIN positions' # {}
    BY <1>4, <2>1
  <2>4. judge \in MayAsk(asking)
    BY <1>1, <1>4 DEF IInv, Agreed
  <2>. QED  BY <1>1, <1>2, <1>4, <2>1, <2>2, <2>3, <2>4, ConcludeKeeps
<1>. QED  BY <1>1, <1>3, <1>4 DEF GatherPool

\* The lane after the one that answered verifies it: the seats change, and stay as many.
LEMMA ResearchSeats ==
    ASSUME NEW a, a \in Askings(a.tool), a.tool = "research", SeatsOf(a) # <<>>
    PROVE  LET use == Use(a)
               verifiers == Spread(Roles, Tail(use) \o <<Head(use)>>)
           IN  verifiers \in Seq(MayAsk(a)) /\ Len(verifiers) = Len(SeatsOf(a))
<1>. DEFINE M == MayAsk(a)
            use == Use(a)
            turned == Tail(use) \o <<Head(use)>>
<1>1. use \in Seq(M) /\ use # <<>> /\ Len(SeatsOf(a)) = Roles /\ Roles \in Nat \ {0}
  <2>1. a.tool \in Tools
    BY DEF Tools
  <2>. QED  BY <2>1, Seating, TargetLanes, CouncilAssumption
<1>. HIDE DEF M, use
<1>2. Len(use) \in Nat /\ Len(use) > 0 /\ Head(use) \in M /\ Tail(use) \in Seq(M)
  BY <1>1
<1>3. Len(Tail(use)) = Len(use) - 1
  BY <1>1
<1>4. <<Head(use)>> \in Seq(M) /\ Len(<<Head(use)>>) = 1
  BY <1>2
<1>5. turned \in Seq(M) /\ Len(turned) = Len(use)
  BY <1>2, <1>3, <1>4
<1>6. turned # <<>>
  <2>1. Len(<<>>) = 0
    OBVIOUS
  <2>. HIDE DEF turned
  <2>. QED  BY <1>2, <1>5, <2>1
<1>. HIDE DEF turned
<1>7. Spread(Roles, turned) \in Seq(M) /\ Len(Spread(Roles, turned)) = Roles
  BY <1>1, <1>5, <1>6, ListsOfLanes
<1>. QED  BY <1>1, <1>7 DEF turned, use, M

\* research_verify: the answers are handed on, the verdicts are the end.
LEMMA GatherResearchKeeps ==
    ASSUME IInv, GatherResearch
    PROVE  IInv'
<1>. DEFINE verifiers == Spread(Roles, LET use == Use(asking) IN Tail(use) \o <<Head(use)>>)
<1>1. /\ In /\ tool = "research" /\ tool' = tool /\ asking' = asking /\ rnd' = rnd /\ why' = why
      /\ said' = said /\ Typing /\ Phases /\ TypeOK /\ Latest /\ Agreed
      /\ asking \in Askings(asking.tool) /\ asking.tool = "research"
      /\ stage # "idle" /\ tool \notin Chains \cup {"review", "borda"} /\ seats # <<>>
      /\ tool \notin Pools /\ tool # "best"
  BY DEF GatherResearch, IInv, Typing, Phases, In, tool, Chains, Pools
<1>2. rnd \in 0..MaxRounds /\ why \in {"none", "voted", "unchanged"} /\ 0 \in Seats \cup {0}
      /\ HeldTypes(positions)
  BY <1>1 DEF TypeOK, HeldTypes
<1>3. CASE /\ stage = "again" /\ End("all", 0, {}) /\ positions' = positions /\ seats' = seats
  <2>1. Body' = Body
    BY <1>1 DEF Body, Ranks
  <2>2. /\ Typing' /\ Phases' /\ Seated' /\ Agreed' /\ stage' = "over" /\ tool' = tool
        /\ Seats' = Seats /\ report'.kind = "all"
    BY <1>1, <1>2, <1>3, <2>1, EndKeeps DEF In
  <2>3. Latest'
    BY <1>1, <1>3, <2>2 DEF Latest, Held
  <2>. QED  BY <2>2, <2>3, NothingReported DEF IInv
<1>4. CASE /\ stage = "ask" /\ positions' = Gathered(positions) /\ seats' = verifiers
           /\ Wave(Seats) /\ judge' = judge
  <2>1. /\ DOMAIN positions' = Answered \cup DOMAIN positions /\ HeldTypes(positions')
        /\ Body = (1..(MaxRounds + 1)) \X Votes
        /\ \A i \in Seats : said[i] = IF i \in DOMAIN positions' THEN positions'[i][1] ELSE 0
    BY <1>1, <1>4, GatheredIsLatest
  <2>2. /\ verifiers \in Seq(MayAsk(asking)) /\ Len(verifiers) = Len(seats)
    <3>1. seats = SeatsOf(asking)
      BY <1>1, <1>4 DEF IInv, Seated
    <3>. QED  BY <1>1, <3>1, ResearchSeats
  <2>3. /\ Seats' = Seats /\ seats' \in Seq(Lanes) /\ seats' # <<>>
        /\ \A i \in Seats : seats'[i] \in MayAsk(asking)
    <3>. HIDE DEF verifiers
    <3>1. DOMAIN verifiers = 1..Len(verifiers) /\ Seats = 1..Len(seats) /\ Len(seats) \in Nat
      BY <1>1, <2>2, SeatsNumbered
    <3>2. \A i \in 1..Len(verifiers) : verifiers[i] \in MayAsk(asking)
      BY <2>2
    <3>3. MayAsk(asking) \subseteq Lanes
      BY DEF MayAsk
    <3>4. verifiers \in Seq(Lanes)
      BY <2>2, <3>3
    <3>5. verifiers # <<>>
      <4>1. Len(seats) # 0
        <5>1. seats \in Seq(Lanes)
          BY <1>1 DEF TypeOK
        <5>. QED  BY <1>1, <5>1
      <4>. QED  BY <2>2, <4>1
    <3>. QED  BY <1>4, <2>2, <3>1, <3>2, <3>4, <3>5 DEF Seats
  <2>4. /\ stage' = "again" /\ waiting' = Seats /\ report' = report
        /\ DOMAIN reply' = Seats /\ \A i \in Seats : reply'[i] = Fail /\ ~Ok(reply'[i])
    BY <1>4 DEF Wave, Fail, Ok
  <2>5. report.kind = "none" /\ report.seat \in Seats \cup {0}
    BY <1>1, <1>4, NoReportYet DEF TypeOK
  <2>6. TypeOK'
    <3>1. /\ said' \in [Seats -> 0..(MaxRounds + 1)] /\ judge' \in Lanes \cup {Nobody}
          /\ asking' \in Askings(asking'.tool)
      BY <1>1, <1>4 DEF TypeOK
    <3>2. \A i \in Seats : reply'[i].ok \in BOOLEAN
      <4>1. Fail.ok = FALSE
        BY DEF Fail
      <4>2. \A i \in Seats : reply'[i] = Fail
        BY <2>4
      <4>. QED  BY <4>1, <4>2
    <3>. QED  BY <1>1, <1>2, <2>1, <2>3, <2>4, <2>5, <3>1, <3>2 DEF TypeOK, HeldTypes
  <2>7. Typing'
    BY <1>1, <2>3, <2>4, <2>6 DEF Typing, Ok
  <2>8. Phases'
    BY <1>1, <2>3, <2>4 DEF Phases
  <2>9. Latest'
    BY <1>1, <2>1, <2>3, <2>4 DEF Latest, Held, Ok
  <2>10. Seated' /\ Agreed'
    BY <1>1, <1>4, <2>3, <2>4 DEF Seated, Agreed
  <2>. QED  BY <2>4, <2>5, <2>7, <2>8, <2>9, <2>10, NothingReported DEF IInv
<1>. QED  BY <1>1, <1>3, <1>4 DEF GatherResearch

\* review_diff: what was found is merged.
LEMMA GatherReviewKeeps ==
    ASSUME IInv, GatherReview
    PROVE  IInv'
<1>. DEFINE kept == FilterBySeverity(MergeFindings(AllFindings), asking.floor)
<1>1. /\ In /\ tool = "review" /\ tool' = tool /\ asking' = asking /\ seats' = seats
      /\ said' = said /\ positions' = positions /\ rnd' = rnd /\ why' = why
      /\ Typing /\ Phases /\ TypeOK /\ Latest /\ stage # "idle"
      /\ asking \in Askings(asking.tool) /\ asking.tool = "review"
  BY DEF GatherReview, IInv, Typing, In, tool
<1>2. rnd \in 0..MaxRounds /\ why \in {"none", "voted", "unchanged"} /\ 0 \in Seats \cup {0}
      /\ HeldTypes(positions)
  BY <1>1 DEF TypeOK, HeldTypes
<1>3. Body' = Body
  BY <1>1 DEF Body
<1>4. CASE Answered = {} /\ End("error", 0, {})
  <2>1. /\ Typing' /\ Phases' /\ Seated' /\ Agreed' /\ stage' = "over" /\ tool' = tool
        /\ Seats' = Seats /\ report'.kind = "error" /\ reply' = reply
    BY <1>1, <1>2, <1>3, <1>4, EndKeeps DEF In
  <2>2. Latest'
    BY <1>1, <2>1 DEF Latest
  <2>3. ErrorsAreReal'
    <3>1. \A i \in Seats : said[i] = 0 /\ ~Ok(reply[i])
      BY <1>1, <1>4 DEF Latest, Answered
    <3>. QED  BY <1>1, <2>1, <3>1 DEF ErrorsAreReal, Ok
  <2>. QED  BY <2>1, <2>2, <2>3 DEF IInv, FindingsKept, PeersChoose
<1>5. CASE End("findings", 0, kept)
  <2>1. /\ Typing' /\ Phases' /\ Seated' /\ Agreed' /\ stage' = "over" /\ tool' = tool
        /\ Seats' = Seats /\ report'.kind = "findings" /\ reply' = reply
        /\ report'.findings = kept
    <3>. HIDE DEF kept
    <3>. QED  BY <1>1, <1>2, <1>3, <1>5, EndKeeps DEF In
  <2>2. Latest'
    BY <1>1, <2>1 DEF Latest
  <2>3. AllFindings' = AllFindings
    BY <1>1, <2>1 DEF AllFindings, Replied, Ok
  <2>4. FindingsKept'
    <3>1. AllFindings \in Seq(Finding)
      BY <1>1, FindingsTyped
    <3>2. asking.floor \in Nat
      BY <1>1, AskedWith
    <3>3. Faithful(AllFindings, asking.floor, kept)
      <4>. HIDE DEF FilterBySeverity, MergeFindings
      <4>. QED  BY ONLY <3>1, <3>2, ReportIsFaithful
    <3>. HIDE DEF kept
    <3>. QED  BY <1>1, <2>1, <2>3, <3>3 DEF FindingsKept, Faithful
  <2>5. PeersChoose' /\ ErrorsAreReal'
    BY <2>1 DEF PeersChoose, ErrorsAreReal
  <2>. QED  BY <2>1, <2>2, <2>4, <2>5 DEF IInv
<1>. QED  BY <1>1, <1>4, <1>5 DEF GatherReview

\* Everyone who answered is asked again.
LEMMA WaveKeeps ==
    ASSUME IInv, In, Wave(DOMAIN positions'), judge' = judge,
           asking' = asking, seats' = seats, said' = said,
           tool \in {"borda", "debate"}, HeldTypes(positions'), DOMAIN positions' # {},
           tool = "borda" => Cardinality(DOMAIN positions') > 1,
           tool = "debate" => rnd' < asking.rounds,
           rnd' \in 0..MaxRounds, why' \in {"none", "voted", "unchanged"},
           \A i \in Seats : said[i] = IF i \in DOMAIN positions' THEN positions'[i][1] ELSE 0
    PROVE  IInv'
<1>1. /\ Typing /\ Phases /\ Seated /\ Agreed /\ TypeOK /\ stage \in {"ask", "again"}
      /\ tool' = tool /\ Seats' = Seats /\ stage' = "again" /\ waiting' = DOMAIN positions'
      /\ report' = report /\ reply' = [i \in Seats |-> Fail]
  BY DEF IInv, Typing, In, Wave, tool, Seats
<1>2. report.kind = "none" /\ report.seat \in Seats \cup {0}
  BY <1>1, NoReportYet DEF TypeOK
<1>3. /\ asking \in Askings(tool) /\ tool \in Tools /\ seats \in Seq(Lanes)
      /\ judge \in Lanes \cup {Nobody} /\ said \in [Seats -> 0..(MaxRounds + 1)]
  BY <1>1 DEF Typing, TypeOK
<1>4. DOMAIN reply' = Seats /\ \A i \in Seats : reply'[i] = Fail
  BY <1>1
<1>5. Fail.ok = FALSE
  BY DEF Fail
<1>6. \A i \in Seats : ~reply'[i].ok
  BY <1>4, <1>5
<1>7. TypeOK'
  <2>1. asking' \in Askings(asking'.tool) /\ seats' \in Seq(Lanes)
    BY <1>3 DEF tool
  <2>2. \A i \in Seats : reply'[i].ok \in BOOLEAN
    BY <1>4, <1>5
  <2>. QED  BY <1>1, <1>2, <1>3, <2>1, <2>2 DEF TypeOK, HeldTypes
<1>8. Typing'
  BY <1>1, <1>3, <1>4, <1>6, <1>7 DEF Typing, Ok, HeldTypes
<1>9. Phases'
  <2>1. Answered' = {}
    BY <1>1, <1>6 DEF Answered, Ok
  <2>. QED  BY <1>1, <2>1 DEF Phases, Chains
<1>10. Latest'
  BY <1>1, <1>6 DEF Latest, Held, Ok
<1>11. Seated' /\ Agreed'
  BY <1>1 DEF Seated, Agreed
<1>. QED  BY <1>1, <1>2, <1>8, <1>9, <1>10, <1>11, NothingReported DEF IInv

\* Of those who ranked, one at least does not put another answer ahead of the winner.
LEMMA WinnerChosen ==
    ASSUME IInv, tool = "borda", stage # "idle", Cardinality(DOMAIN positions) > 1
    PROVE  /\ Winner \in DOMAIN positions
           /\ RankingsIn # {} =>
                 \A b \in DOMAIN positions \ {Winner} :
                    \E i \in RankingsIn : ~Ahead(reply[i].body, b, Winner)
<1>. DEFINE A == DOMAIN positions
            rankings == [i \in Seats |-> Replied(i)]
            w == BordaWinner(rankings, A)
<1>1. Typing /\ TypeOK
  BY DEF IInv, Typing
<1>2. A \subseteq Seats /\ A \subseteq Nat /\ IsFiniteSet(A)
  <2>1. A \subseteq Seats
    BY <1>1 DEF TypeOK
  <2>. QED  BY <1>1, <2>1, SeatsNumbered, FS_Subset
<1>3. A # {}
  <2>. SUFFICES ASSUME A = {}
                PROVE  FALSE
    OBVIOUS
  <2>1. Cardinality(A) = 0
    BY FS_EmptySet
  <2>. QED  BY <2>1
<1>. HIDE DEF A
<1>4. Cardinality(A) > 1
  BY DEF A
<1>5. \A i \in Seats : Replied(i) \in Seq(A)
  <2>. SUFFICES ASSUME NEW i \in Seats
                PROVE  Replied(i) \in Seq(A)
    OBVIOUS
  <2>1. CASE ~Ok(reply[i])
    BY <2>1 DEF Replied
  <2>2. CASE Ok(reply[i])
    <3>1. reply[i].body \in PartialOrders(A)
      <4>1. Body = PartialOrders(A)
        BY <1>4 DEF Body, Ranks, A
      <4>. QED  BY <1>1, <2>2, <4>1 DEF Typing, Fail, Ok
    <3>2. reply[i].body \in Seq(A)
      BY <1>2, <3>1, RankingsOfAnswers
    <3>. QED  BY <2>2, <3>2 DEF Replied
  <2>. QED  BY <2>1, <2>2
<1>6. rankings \in Seq(Seq(A)) /\ DOMAIN rankings = Seats
  BY <1>1, <1>5, SeatsNumbered
<1>7. w \in A /\ \A b \in A : ~(Points(rankings, w) < Points(rankings, b))
  <2>. HIDE DEF rankings
  <2>. QED  BY <1>2, <1>3, <1>6, WinnerHasMost
<1>8. RankingsIn = {} => Winner \in A
  BY <1>2, <1>3, LeastNumber DEF Winner, A
<1>9. RankingsIn # {} => Winner = w
  BY DEF Winner, A
<1>10. ASSUME RankingsIn # {}, NEW b \in A \ {w}
       PROVE  \E i \in RankingsIn : ~Ahead(reply[i].body, b, w)
  <2>. SUFFICES ASSUME \A i \in RankingsIn : Ahead(reply[i].body, b, w)
                PROVE  FALSE
    OBVIOUS
  <2>. HIDE DEF w
  <2>1. \A k \in Seats : rankings[k] = Replied(k) /\ rankings[k] \in Seq(A)
    BY <1>5
  <2>2. \A k \in Seats : k \in RankingsIn \/ Replied(k) = <<>>
    BY DEF RankingsIn, Answered, Replied
  <2>3. \A k \in RankingsIn : k \in Seats /\ Replied(k) = reply[k].body
    BY DEF RankingsIn, Answered, Replied
  <2>. HIDE DEF rankings
  <2>4. ASSUME NEW k \in RankingsIn
        PROVE  Worth(rankings[k], w) < Worth(rankings[k], b)
    <3>. DEFINE r == rankings[k]
    <3>1. r \in Seq(A) /\ Ahead(r, b, w)
      BY <2>1, <2>3
    <3>. HIDE DEF r
    <3>2. Len(r) \in Nat /\ Place(r, b) \in 0..Len(r) /\ Place(r, w) \in 0..Len(r)
      BY <3>1, WorthOfPlaces
    <3>3. Worth(r, w) < Worth(r, b)
      BY <3>1, <3>2 DEF Ahead, Worth
    <3>. QED  BY <3>3 DEF r
  <2>5. ASSUME NEW k \in Seats, k \notin RankingsIn
        PROVE  Worth(rankings[k], w) = 0 /\ Worth(rankings[k], b) = 0
    <3>1. rankings[k] = <<>>
      BY <2>1, <2>2, <2>5
    <3>2. Place(rankings[k], w) = 0 /\ Place(rankings[k], b) = 0
      BY <2>1, <3>1, WorthOfPlaces
    <3>. QED  BY <3>2 DEF Worth
  <2>6. \A k \in Seats : Worth(rankings[k], w) \in Nat /\ Worth(rankings[k], b) \in Nat
    BY <2>1, WorthOfPlaces
  <2>7. /\ \A k \in DOMAIN rankings : Worth(rankings[k], w) <= Worth(rankings[k], b)
        /\ \E k \in DOMAIN rankings : Worth(rankings[k], w) < Worth(rankings[k], b)
    <3>1. ASSUME NEW k \in Seats
          PROVE  Worth(rankings[k], w) <= Worth(rankings[k], b)
      <4>1. Worth(rankings[k], w) \in Nat /\ Worth(rankings[k], b) \in Nat
        BY <2>6
      <4>2. CASE k \in RankingsIn
        <5>1. Worth(rankings[k], w) < Worth(rankings[k], b)
          BY <2>4, <4>2
        <5>. QED  BY <4>1, <5>1
      <4>3. CASE k \notin RankingsIn
        BY <2>5, <4>3
      <4>. QED  BY <4>2, <4>3
    <3>2. \E k \in Seats : Worth(rankings[k], w) < Worth(rankings[k], b)
      BY <1>10, <2>3, <2>4
    <3>. QED  BY <1>6, <3>1, <3>2
  <2>8. Points(rankings, w) < Points(rankings, b)
    BY <1>6, <2>7, MorePoints
  <2>. QED  BY <1>7, <2>8
<1>11. Winner \in A
  BY <1>7, <1>8, <1>9
<1>. QED  BY <1>9, <1>10, <1>11 DEF A

\* consensus: the panel ranks, and the ranking selects.
LEMMA GatherPanelKeeps ==
    ASSUME IInv, GatherPanel
    PROVE  IInv'
<1>1. /\ In /\ tool = "borda" /\ tool' = tool /\ asking' = asking /\ seats' = seats
      /\ said' = said /\ rnd' = rnd /\ why' = why /\ stage # "idle" /\ waiting = {}
      /\ Typing /\ Phases /\ TypeOK /\ Latest /\ seats # <<>>
      /\ tool \notin Chains \cup {"review"} \cup Pools
      /\ asking \in Askings(asking.tool)
  BY DEF GatherPanel, IInv, Typing, Phases, In, tool, Chains, Pools
<1>2. rnd \in 0..MaxRounds /\ why \in {"none", "voted", "unchanged"} /\ HeldTypes(positions)
  BY <1>1 DEF TypeOK, HeldTypes
<1>3. Answered \subseteq Seats /\ Answered \subseteq Nat /\ Cardinality(Answered) \in Nat
      /\ (Answered # {} => Cardinality(Answered) # 0)
  <2>1. Answered \subseteq Seats
    BY DEF Answered
  <2>2. Answered \subseteq Nat /\ IsFiniteSet(Answered)
    BY <1>1, <2>1, SeatsNumbered, FS_Subset
  <2>. QED  BY <2>1, <2>2, FS_CardinalityType, FS_EmptySet
<1>4. CASE /\ stage = "ask" /\ Answered # {} /\ positions' = Gathered(positions)
           /\ Cardinality(Answered) = 1 /\ End("answer", LowestOf(Answered), {})
  <2>1. LowestOf(Answered) \in Seats
    BY <1>3, <1>4, LeastNumber
  <2>. QED  BY <1>1, <1>2, <1>4, <2>1, GatheredEndKeeps
<1>5. CASE /\ stage = "ask" /\ Answered # {} /\ positions' = Gathered(positions)
           /\ Cardinality(Answered) # 1 /\ Wave(Answered) /\ judge' = judge
  <2>1. /\ DOMAIN positions' = Answered \cup DOMAIN positions /\ HeldTypes(positions')
        /\ \A i \in Seats : said[i] = IF i \in DOMAIN positions' THEN positions'[i][1] ELSE 0
    BY <1>1, <1>5, GatheredIsLatest
  <2>2. DOMAIN positions' = Answered
    <3>1. DOMAIN <<>> = {}
      OBVIOUS
    <3>. QED  BY <1>1, <1>5, <2>1, <3>1 DEF Phases
  <2>3. Cardinality(DOMAIN positions') > 1
    BY <1>3, <1>5, <2>2
  <2>. QED  BY <1>1, <1>2, <1>5, <2>1, <2>2, <2>3, WaveKeeps
<1>6. CASE stage = "again" /\ positions' = positions
  <2>1. /\ Cardinality(DOMAIN positions) > 1
        /\ \A i \in Seats : said[i] = IF i \in DOMAIN positions THEN positions[i][1] ELSE 0
    BY <1>1, <1>6 DEF Phases, Latest, Held
  <2>2. /\ Winner \in DOMAIN positions
        /\ RankingsIn # {} =>
              \A b \in DOMAIN positions \ {Winner} :
                 \E i \in RankingsIn : ~Ahead(reply[i].body, b, Winner)
    BY <1>1, <2>1, WinnerChosen
  <2>3. CASE Conclude(PickJudge(Targets(asking), seats[LowestOf(DOMAIN positions)]))
    <3>. DEFINE l == PickJudge(Targets(asking), seats[LowestOf(DOMAIN positions)])
    <3>1. LowestOf(DOMAIN positions) \in Seats
      <4>1. DOMAIN positions \subseteq Seats
        BY <1>2 DEF HeldTypes
      <4>2. DOMAIN positions \subseteq Nat
        BY <1>1, <4>1, SeatsNumbered
      <4>. QED  BY <2>2, <4>1, <4>2, LeastNumber
    <3>2. seats[LowestOf(DOMAIN positions)] \in MayAsk(asking)
      BY <1>1, <3>1 DEF IInv, Agreed
    <3>3. Targets(asking) \in Seq(MayAsk(asking))
      BY <1>1, TargetLanes
    <3>4. l \in MayAsk(asking)
      BY <3>2, <3>3, JudgePicked
    <3>5. Body' = Body
      BY <1>1, <1>6 DEF Body, Ranks, PartialOrders
    <3>. HIDE DEF l
    <3>. QED  BY <1>1, <1>2, <1>6, <2>1, <2>2, <2>3, <3>4, <3>5, ConcludeKeeps DEF l
  <2>4. CASE End("answer", Winner, {})
    <3>1. Winner \in Seats
      BY <1>2, <2>2 DEF HeldTypes
    <3>2. Body' = Body
      BY <1>1, <1>6 DEF Body, Ranks, PartialOrders
    <3>3. /\ Typing' /\ Phases' /\ Seated' /\ Agreed' /\ stage' = "over" /\ tool' = tool
          /\ Seats' = Seats /\ report'.kind = "answer" /\ report'.seat = Winner /\ reply' = reply
      BY <1>1, <1>2, <1>6, <2>4, <3>1, <3>2, EndKeeps
    <3>4. Latest'
      BY <1>1, <1>6, <2>1, <3>3 DEF Latest, Held
    <3>5. PeersChoose'
      <4>1. RankingsIn' = RankingsIn
        BY <3>3 DEF RankingsIn, Answered, Ok
      <4>. HIDE DEF Winner
      <4>. QED  BY <1>6, <2>2, <3>3, <4>1 DEF PeersChoose, Ahead
    <3>. QED  BY <3>3, <3>4, <3>5 DEF IInv, FindingsKept, ErrorsAreReal
  <2>. QED  BY <1>6, <2>3, <2>4 DEF GatherPanel
<1>. QED  BY <1>4, <1>5, <1>6 DEF GatherPanel

\* debate: another round, or the end of it.
LEMMA GatherDebateKeeps ==
    ASSUME IInv, GatherDebate
    PROVE  IInv'
<1>. DEFINE held == Gathered(positions)
            round == IF stage = "again" THEN rnd + 1 ELSE 0
<1>1. /\ In /\ tool = "debate" /\ tool' = tool /\ asking' = asking /\ seats' = seats
      /\ said' = said /\ (stage = "ask" => Answered # {}) /\ stage \in {"ask", "again"}
      /\ Typing /\ Phases /\ TypeOK /\ Latest /\ tool \notin Chains \cup {"review", "borda"}
      /\ asking \in Askings(asking.tool) /\ positions' = held /\ rnd' = round
  BY DEF GatherDebate, IInv, Typing, In, tool, Chains
<1>2. why' \in {"none", "voted", "unchanged"}
  BY DEF GatherDebate
<1>3. /\ round \in 0..MaxRounds /\ asking.rounds \in 0..MaxRounds
      /\ round # asking.rounds => round < asking.rounds
  <2>1. rnd \in 0..MaxRounds /\ asking.rounds \in 0..MaxRounds /\ MaxRounds \in Nat
    BY <1>1, AskedWith, CouncilAssumption DEF TypeOK
  <2>2. stage = "again" => rnd < asking.rounds
    BY <1>1 DEF Phases
  <2>. QED  BY <1>1, <2>1, <2>2
<1>4. /\ DOMAIN held = Answered \cup DOMAIN positions /\ HeldTypes(held)
      /\ Body = (1..(MaxRounds + 1)) \X Votes
      /\ \A i \in Seats : said[i] = IF i \in DOMAIN held THEN held[i][1] ELSE 0
  BY <1>1, GatheredIsLatest
<1>5. DOMAIN held # {}
  BY <1>1, <1>4 DEF Phases
<1>6. Body' = Body
  BY <1>1, <1>4 DEF Body, Ranks
<1>. HIDE DEF held, round
<1>7. CASE End("answer", LowestOf(DOMAIN held), {})
  <2>1. LowestOf(DOMAIN held) \in Seats
    <3>1. DOMAIN held \subseteq Seats
      BY <1>4 DEF HeldTypes
    <3>2. DOMAIN held \subseteq Nat
      BY <1>1, <3>1, SeatsNumbered
    <3>. QED  BY <1>5, <3>1, <3>2, LeastNumber
  <2>. QED  BY <1>1, <1>2, <1>3, <1>7, <2>1, GatheredEndKeeps DEF held
<1>8. CASE Conclude(judge)
  <2>1. judge \in MayAsk(asking)
    <3>1. judge \in Lanes
      BY <1>1 DEF Phases
    <3>. QED  BY <1>1, <3>1, CouncilRulesAssumption DEF IInv, Agreed
  <2>. QED  BY <1>1, <1>2, <1>3, <1>4, <1>5, <1>6, <1>8, <2>1, ConcludeKeeps
<1>9. CASE round # asking.rounds /\ Wave(DOMAIN held) /\ judge' = judge
  BY <1>1, <1>2, <1>3, <1>4, <1>5, <1>9, WaveKeeps
<1>. QED  BY <1>1, <1>7, <1>8, <1>9 DEF GatherDebate, held, round

\* The lane that concludes has answered, or failed.
LEMMA CloseKeeps ==
    ASSUME IInv, NEW ok \in BOOLEAN, Close(ok)
    PROVE  IInv'
<1>1. /\ stage = "close" /\ waiting = {} /\ asking' = asking /\ seats' = seats /\ judge' = judge
      /\ said' = said /\ positions' = positions /\ rnd' = rnd /\ why' = why
      /\ waiting' = waiting /\ reply' = reply /\ tool' = tool
      /\ Typing /\ Phases /\ TypeOK /\ Latest /\ stage # "idle" /\ report.kind = "none"
      /\ tool \notin Chains \cup {"review"} /\ judge # Nobody /\ stage # "over"
      /\ Seats' = Seats
  <2>1. Typing /\ Phases /\ TypeOK /\ Latest /\ stage = "close" /\ stage # "over"
    BY DEF IInv, Typing, Close
  <2>2. tool \notin Chains \cup {"review"}
    BY <2>1 DEF Phases, Chains, Pools
  <2>3. waiting = {} /\ judge # Nobody
    BY <2>1, <2>2 DEF TypeOK, tool
  <2>. QED  BY <2>1, <2>2, <2>3, NoReportYet DEF Close, askVars, tool, Seats
<1>2. rnd \in 0..MaxRounds /\ why \in {"none", "voted", "unchanged"} /\ HeldTypes(positions)
  BY <1>1 DEF TypeOK, HeldTypes
<1>3. Body' = Body
  BY <1>1 DEF Body, Ranks, PartialOrders
<1>4. \A i \in Seats : said[i] = IF i \in DOMAIN positions THEN positions[i][1] ELSE 0
  BY <1>1 DEF Latest, Held
<1>5. ASSUME NEW kind \in {"error", "answer", "judged", "all"}, NEW seat \in Seats \cup {0},
             Over(kind, seat, {})
      PROVE  /\ Typing' /\ Phases' /\ Seated' /\ Agreed' /\ Latest'
             /\ report'.kind = kind /\ report'.seat = seat /\ FindingsKept'
  <2>1. End(kind, seat, {})
    BY <1>1, <1>5 DEF End
  <2>2. /\ Typing' /\ Phases' /\ Seated' /\ Agreed' /\ stage' = "over"
        /\ report'.kind = kind /\ report'.seat = seat
    BY <1>1, <1>2, <1>3, <2>1, EndKeeps
  <2>3. Latest'
    BY <1>1, <1>4, <2>2 DEF Latest, Held
  <2>4. FindingsKept'
    BY <2>2 DEF FindingsKept
  <2>. QED  BY <2>2, <2>3, <2>4
<1>6. CASE Over("judged", 0, {}) \/ Over("all", 0, {})
  BY <1>5, <1>6, NothingReported DEF IInv
<1>7. CASE tool = "merge" /\ Over("answer", LowestOf(DOMAIN positions), {})
  <2>1. LowestOf(DOMAIN positions) \in Seats
    <3>1. DOMAIN positions \subseteq Seats /\ DOMAIN positions # {}
      BY <1>1, <1>2 DEF HeldTypes, Phases
    <3>2. DOMAIN positions \subseteq Nat
      BY <1>1, <3>1, SeatsNumbered
    <3>. QED  BY <3>1, <3>2, LeastNumber
  <2>2. /\ Typing' /\ Phases' /\ Seated' /\ Agreed' /\ Latest'
        /\ report'.kind = "answer" /\ FindingsKept'
    BY <1>5, <1>7, <2>1
  <2>. QED  BY <1>1, <1>7, <2>2 DEF IInv, PeersChoose, ErrorsAreReal
<1>8. CASE tool = "borda" /\ Over("answer", Winner, {})
  <2>1. /\ Winner \in DOMAIN positions
        /\ RankingsIn # {} =>
              \A b \in DOMAIN positions \ {Winner} :
                 \E i \in RankingsIn : ~Ahead(reply[i].body, b, Winner)
    <3>1. Cardinality(DOMAIN positions) > 1
      BY <1>1, <1>8 DEF Phases
    <3>. QED  BY <1>1, <1>8, <3>1, WinnerChosen
  <2>2. Winner \in Seats
    BY <1>2, <2>1 DEF HeldTypes
  <2>3. /\ Typing' /\ Phases' /\ Seated' /\ Agreed' /\ Latest'
        /\ report'.kind = "answer" /\ report'.seat = Winner /\ FindingsKept'
    BY <1>5, <1>8, <2>2
  <2>4. RankingsIn' = RankingsIn
    BY <1>1 DEF RankingsIn, Answered, Ok
  <2>5. PeersChoose'
    <3>. HIDE DEF Winner
    <3>. QED  BY <1>1, <2>1, <2>3, <2>4 DEF PeersChoose, Ahead
  <2>. QED  BY <2>3, <2>5 DEF IInv, ErrorsAreReal
<1>9. CASE tool \in Pools /\ Over("error", 0, {})
  <2>1. /\ Typing' /\ Phases' /\ Seated' /\ Agreed' /\ Latest'
        /\ report'.kind = "error" /\ FindingsKept'
    BY <1>5, <1>9
  <2>. QED  BY <1>1, <1>9, <2>1 DEF IInv, PeersChoose, ErrorsAreReal
<1>. QED  BY <1>6, <1>7, <1>8, <1>9 DEF Close

\* Nothing happens.
LEMMA StutterKeeps ==
    ASSUME IInv, UNCHANGED vars
    PROVE  IInv'
<1>. USE DEF vars, askVars
<1>1. /\ Seats' = Seats /\ tool' = tool /\ Answered' = Answered /\ RankingsIn' = RankingsIn
      /\ Body' = Body /\ AllFindings' = AllFindings
  BY DEF Seats, tool, Answered, RankingsIn, Ok, Body, Ranks, PartialOrders, AllFindings, Replied
<1>2. Typing'
  BY <1>1 DEF IInv, Typing, TypeOK, Ok
<1>3. Phases' /\ Latest'
  BY <1>1 DEF IInv, Phases, Latest, Held, Ok
<1>4. Seated' /\ Agreed'
  BY <1>1 DEF IInv, Seated, Agreed
<1>5. FindingsKept'
  BY <1>1 DEF IInv, FindingsKept
<1>6. PeersChoose'
  BY <1>1 DEF IInv, PeersChoose
<1>7. ErrorsAreReal'
  BY <1>1 DEF IInv, ErrorsAreReal, Ok
<1>. QED  BY <1>2, <1>3, <1>4, <1>5, <1>6, <1>7 DEF IInv

\* No step of the council breaks the invariant.
LEMMA NextKeeps ==
    ASSUME IInv, [Next]_vars
    PROVE  IInv'
<1>1. ASSUME NEW t \in Tools, NEW a \in Askings(t), Ask(a)
      PROVE  IInv'
  BY <1>1, AskKeeps
<1>2. ASSUME NEW i \in waiting,
             NEW r \in {Fail} \cup {[ok |-> TRUE, body |-> b] : b \in Bodies(i)},
             Reply(i, r) \/ TryNext(i, r)
      PROVE  IInv'
  <2>1. r = Fail \/ (Ok(r) /\ r = [ok |-> TRUE, body |-> r.body] /\ r.body \in Bodies(i))
    BY DEF Ok
  <2>. QED  BY <1>2, <2>1, ReplyKeeps, TryNextKeeps
<1>3. ASSUME Gather
      PROVE  IInv'
  BY <1>3, NobodyAnsweredKeeps, GatherToMergeKeeps, GatherPoolKeeps, GatherResearchKeeps,
     GatherReviewKeeps, GatherPanelKeeps, GatherDebateKeeps, GatherAllKeeps DEF Gather
<1>4. ASSUME NEW ok \in BOOLEAN, Close(ok)
      PROVE  IInv'
  BY <1>4, CloseKeeps
<1>5. CASE UNCHANGED vars
  BY <1>5, StutterKeeps
<1>. QED  BY <1>1, <1>2, <1>3, <1>4, <1>5 DEF Next, Answer

-----------------------------------------------------------------------------
(* What follows from it. *)

\* CostCeiling from the invariant.
LEMMA NobodyOverspends ==
    ASSUME IInv
    PROVE  CostCeiling
<1>. SUFFICES ASSUME stage # "idle"
              PROVE  CostCeiling
  BY DEF CostCeiling
<1>1. /\ Typing /\ Phases /\ TypeOK /\ Seated /\ Agreed
      /\ asking \in Askings(asking.tool) /\ asking.tool = tool /\ tool \in Tools
  BY DEF IInv, Typing, tool
<1>2. ASSUME NEW l \in Called
      PROVE  Free(l) \/ l \in Named \/ Widened
  <2>1. l \in MayAsk(asking)
    BY <1>1 DEF Agreed, Called
  <2>. QED  BY <2>1 DEF MayAsk, Named, Widened, WidenedByHost
<1>3. ASSUME tool = "best", NEW i \in Seats
      PROVE  Cost[seats[i]] <= ModeCeiling(asking.mode)
  <2>1. seats = SeatsOf(asking)
    BY <1>1, <1>3 DEF Seated
  <2>. QED  BY <1>1, <1>3, <2>1, Seating DEF Seats
<1>4. ASSUME tool = "cascade", stage = "ask", NEW i \in Running, NEW k \in DOMAIN Active,
             Cost[Active[k]] < Cost[seats[i]], Active[k] \notin asking.cooled
      PROVE  \E j \in Seats \ waiting : seats[j] = Active[k] /\ ~Ok(reply[j])
  <2>1. seats = SeatsOf(asking)
    BY <1>1, <1>4 DEF Seated
  <2>2. i \in waiting /\ i \in Seats /\ \A j \in waiting : i <= j
    BY <1>1, <1>4 DEF Running, Chains, TypeOK
  <2>3. PICK j \in Seats : j < i /\ seats[j] = Active[k]
    BY <1>1, <1>4, <2>1, <2>2, CheaperFirst DEF Seats
  <2>4. j \notin waiting
    <3>1. i \in Nat /\ j \in Nat
      BY <1>1, <2>2, SeatsNumbered
    <3>. QED  BY <2>2, <2>3, <3>1
  <2>5. ~Ok(reply[j])
    BY <1>1, <1>4 DEF Phases, Chains, Answered
  <2>. QED  BY <2>3, <2>4, <2>5
<1>. QED  BY <1>2, <1>3, <1>4 DEF CostCeiling

\* EveryVoiceHeard from the invariant.
LEMMA NobodyUnheard ==
    ASSUME IInv
    PROVE  EveryVoiceHeard
<1>1. Typing /\ Phases /\ TypeOK /\ Latest
  BY DEF IInv, Typing
<1>2. ASSUME stage \in {"close", "over"}, report.kind # "error", tool \notin Chains \cup {"review"}
      PROVE  /\ DOMAIN positions = {i \in Seats : said[i] # 0}
             /\ \A i \in DOMAIN positions : positions[i][1] = said[i]
  <2>1. \A i \in Seats : said[i] = IF i \in DOMAIN positions THEN positions[i][1] ELSE 0
    BY <1>1, <1>2 DEF Latest, Held
  <2>2. DOMAIN positions \subseteq Seats /\ \A i \in DOMAIN positions : positions[i][1] # 0
    <3>1. \A i \in DOMAIN positions : positions[i] \in (1..(MaxRounds + 1)) \X Votes
      BY <1>1 DEF TypeOK
    <3>2. DOMAIN positions \subseteq Seats
      BY <1>1 DEF TypeOK
    <3>. QED  BY <3>1, <3>2, CouncilAssumption
  <2>. QED  BY <2>1, <2>2
<1>3. NothingLost
  BY <1>2 DEF NothingLost
<1>. QED  BY <1>3 DEF IInv, EveryVoiceHeard

\* The invariant holds throughout.
LEMMA SpecIInv == Spec => []IInv
BY InitIInv, NextKeeps, PTL DEF Spec

\* Whatever lanes there are, whatever they cost and however they are measured, and however the
\* replies interleave: the state of every council tool keeps its types, so that the judge that
\* is to conclude is a lane, a report names a seat of its own council, and a session is over
\* exactly when it has one (workflows.py, server._ask_all_body, orchestrate.py).
THEOREM CouncilTypes == Spec => []TypeOK
<1>1. IInv => TypeOK
  BY DEF IInv, Typing
<1>. QED  BY <1>1, SpecIInv, PTL

\* Nobody spends what was not agreed to: config.include_paid_resolved, router.order_lanes and
\* order_for_mode, server._ask_all_targets, and pick_judge admit a limited or paid lane only
\* where the host named it or widened the council outside the saver profile; a cascade
\* comes to a lane only when every cheaper one that was not in cooldown has failed.
THEOREM CouncilCosts == Spec => []CostCeiling
BY NobodyOverspends, SpecIInv, PTL

\* No answer, revision, finding or ranking that came in is lost on the way to the report, and
\* no error hides one: merge_findings keeps every finding of every reviewer at its severity or
\* above and the verdict as severe as the findings, aggregate_rankings selects no answer that
\* all who ranked put behind another, and a debate concludes from everybody's latest answer.
THEOREM CouncilVoices == Spec => []EveryVoiceHeard
BY NobodyUnheard, SpecIInv, PTL

=============================================================================
