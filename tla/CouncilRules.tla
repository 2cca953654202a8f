---------------------------- MODULE CouncilRules ----------------------------
(***************************************************************************)
(* The pure rules of the council: whom a tool may ask and in which order   *)
(* (router.py, server._ask_all_targets), who judges, how votes, rankings   *)
(* and findings are put together (workflows.py, findings.py).              *)
(*                                                                         *)
(* Measures are ranks, the smaller the better; titles are numbers, similar *)
(* when they are next to each other, which as in the code is no            *)
(* equivalence.                                                            *)
(***************************************************************************)
EXTENDS Integers, FiniteSets, SequencesExt

CONSTANTS
    Lanes,
    Cost,               \* [Lanes -> 0..2]: free, limited, paid
    Experimental,       \* the lanes that are
    Priority,           \* CLI_BRIDGE_<LANE>_PRIORITY
    Latency, Failing,   \* what telemetry measured: the latency and the fail rate's bucket
    Effort,             \* the lanes that take an effort
    Name,               \* [Lanes -> Nat]: the order of the keys
    Nobody

ASSUME CouncilRulesAssumption ==
    /\ Cost \in [Lanes -> 0..2]
    /\ Experimental \subseteq Lanes /\ Effort \subseteq Lanes
    /\ {Priority, Latency, Failing, Name} \subseteq [Lanes -> Nat]
    /\ \A a, b \in Lanes : Name[a] = Name[b] => a = b
    /\ Nobody \notin Lanes

Free(l) == Cost[l] = 0
\* Of a list, the elements of S, in their order.
Only(s, S) ==
    LET kept[k \in 0..Len(s)] ==
            IF k = 0 THEN <<>>
            ELSE IF s[k] \in S THEN Append(kept[k - 1], s[k]) ELSE kept[k - 1]
    IN  kept[Len(s)]
AtMost(n, s) == SubSeq(s, 1, IF n < Len(s) THEN n ELSE Len(s))
RoundRobin(n, s) == [k \in 1..n |-> s[((k - 1) % Len(s)) + 1]]
LowestOf(S) == CHOOSE i \in S : \A j \in S : i <= j
FirstOr(s, default) == IF s = <<>> THEN default ELSE Head(s)

-----------------------------------------------------------------------------
(* Whom to ask. *)

\* config.include_paid_resolved: what the host asked for is a wish, the saver profile a rule.
IncludePaidAsAsked(profile, wish) == IF wish # "none" THEN wish = "yes" ELSE profile = "max"
IncludePaid(profile, wish) ==
    /\ profile # "saver"
    /\ IF wish # "none" THEN wish = "yes" ELSE profile = "max"

AskAllTargets(lanes, paid, cooled) ==
    Only(lanes, {l \in Lanes : (paid \/ Free(l)) /\ l \notin cooled})

Precedes(s, t) ==
    \E k \in DOMAIN s : s[k] < t[k] /\ \A m \in 1..(k - 1) : s[m] = t[m]
FirstBy(key, S) == CHOOSE a \in S : \A b \in S \ {a} : Precedes(key[a], key[b])
AfterFirst(key, S) == S \ {FirstBy(key, S)}
SortedBy(key, S) ==
    LET left[k \in 0..Cardinality(S)] == IF k = 0 THEN S ELSE AfterFirst(key, left[k - 1])
    IN  [k \in 1..Cardinality(S) |-> FirstBy(key, left[k - 1])]

Cooled(l, cooled) == IF l \in cooled THEN 1 ELSE 0
Score(l, cooled) == <<Cooled(l, cooled), Cost[l], Priority[l], Name[l]>>

OrderLanes(lanes, paid, cooled) ==
    SortedBy([l \in lanes |-> Score(l, cooled)], {l \in lanes : Free(l) \/ paid})

\* _MODE_POLICY
Modes == {"fast", "cheap", "deep", "code", "review", "security"}
ModeCeiling(mode) ==
    CASE mode = "cheap" -> 0
      [] mode \in {"fast", "review", "security"} -> 1
      [] OTHER -> 2

\* rated[l]: the number of ratings and their mean, in tenths. Too few count as none.
QualityBucket(r) ==
    IF r.n < 2 THEN 2
    ELSE IF r.avg >= 40 THEN 0
    ELSE IF r.avg >= 30 THEN 1
    ELSE IF r.avg >= 20 THEN 3 ELSE 4

ModeKey(mode, l, cooled, rated) ==
    LET c == Cooled(l, cooled)
        q == QualityBucket(rated[l])
        effort == IF l \in Effort THEN 0 ELSE 1
    IN  CASE mode = "fast" -> <<c, Failing[l], Latency[l], q, Cost[l], Priority[l], Name[l]>>
          [] mode = "cheap" -> <<c, Cost[l], q, Failing[l], Priority[l], Name[l]>>
          [] OTHER -> <<c, q, effort, Failing[l], Cost[l], Priority[l], Name[l]>>

OrderForMode(lanes, mode, paid, cooled, rated) ==
    SortedBy([l \in lanes |-> ModeKey(mode, l, cooled, rated)],
             {l \in lanes : Free(l) \/ (paid /\ Cost[l] <= ModeCeiling(mode))})

PickJudgeFree(targets, default) ==
    FirstOr(Only(targets, {l \in Lanes : Free(l)} \ Experimental), Nobody)
PickJudge(targets, default) ==
    FirstOr(Only(targets, {l \in Lanes : Free(l)} \ Experimental), default)

-----------------------------------------------------------------------------
(* Votes and rankings. *)

AllStop(votes) == votes # {} /\ \A v \in votes : v = "stop"

\* The place of an answer in a ranking, 0 if it is not in it.
Place(r, a) == IF \E k \in DOMAIN r : r[k] = a THEN CHOOSE k \in DOMAIN r : r[k] = a ELSE 0

\* Of a ranking that may leave answers out, and of no ranking at all, which is <<>>.
Worth(r, a) == IF Place(r, a) = 0 THEN 0 ELSE Len(r) + 1 - Place(r, a)
Points(rankings, a) ==
    LET sum[k \in 0..Len(rankings)] ==
            IF k = 0 THEN 0 ELSE sum[k - 1] + Worth(rankings[k], a)
    IN  sum[Len(rankings)]
Firsts(rankings, a) == Cardinality({k \in DOMAIN rankings : Place(rankings[k], a) = 1})

\* aggregate_rankings: the first of its order.
BordaWinner(rankings, answers) ==
    FirstBy([a \in answers |-> <<-Points(rankings, a), -Firsts(rankings, a), a>>], answers)

-----------------------------------------------------------------------------
(* Findings: severity 1 is the strongest; located when they name a file and a line. *)

Same(g, f) ==
    /\ g.located = f.located
    /\ \/ g.title = f.title
       \/ f.located /\ g.title - f.title \in {-1, 1}

\* The first finding of a group gives it its title; the report gets the strongest severity.
MergedFirst(found, first, group) ==
    [found[first] EXCEPT !.models = UNION {found[k].models : k \in group}]
Merged(found, first, group) ==
    [found[first] EXCEPT !.models = UNION {found[k].models : k \in group},
                         !.severity = LowestOf({found[k].severity : k \in group})]

\* A finding joins the first group that has its like, and opens one where there is none.
Openers(found) ==
    LET openers[k \in 0..Len(found)] ==
            IF k = 0 THEN {}
            ELSE IF \E m \in openers[k - 1] : Same(found[m], found[k]) THEN openers[k - 1]
            ELSE openers[k - 1] \cup {k}
    IN  openers[Len(found)]
Joins(found, k) == LowestOf({m \in Openers(found) : Same(found[m], found[k])})

\* The order of the report is layout.
MergeFindings(found) ==
    {Merged(found, m, {k \in DOMAIN found : Joins(found, k) = m}) : m \in Openers(found)}

\* floor 0 is none.
FilterBySeverity(groups, floor) ==
    {g \in groups : floor = 0 \/ g.severity <= floor}

\* The strongest finding decides: blocker, high, or less.
Verdict(found) ==
    IF \E f \in found : f.severity = 1 THEN "block"
    ELSE IF \E f \in found : f.severity = 2 THEN "fix first"
    ELSE IF found = {} THEN "ship" ELSE "ship with nits"
=============================================================================
