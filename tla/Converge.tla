------------------------------ MODULE Converge ------------------------------
(***************************************************************************)
(* The governance loop (orchestrate.converge): an author drafts a plan; in *)
(* each round an arbiter commits a verdict before it is shown anything,    *)
(* the peers review side by side, the arbiter rules on what they raised,   *)
(* and the plan converges, is revised, or stays unresolved.                *)
(*                                                                         *)
(* A plan is the number of its version, a reply what the parsers make of   *)
(* it. No run id is given, so that no review is replayed from the journal. *)
(*                                                                         *)
(* A variant of an operator stands just before it; no specification uses   *)
(* it.                                                                     *)
(***************************************************************************)
EXTENDS Integers, Sequences

CONSTANTS
    Lanes,              \* what resolve_lane knows
    DefaultLanes,       \* default_lanes, a sequence of them
    Family,             \* [Lanes -> ...]: family_of
    Nobody,
    PeerLists,          \* bound: the peer_lanes a host may give, <<>> for none
    PeerCounts,         \* bound: the number of peers it may ask for, 0 for the default
    MaxRounds,
    MaxIssues           \* bound: the issues a peer may raise

ASSUME ConvergeAssumption ==
    /\ DefaultLanes \in Seq(Lanes)
    /\ Nobody \notin Lanes
    /\ PeerLists \subseteq Seq(Lanes)
    /\ PeerCounts \subseteq Nat
    /\ MaxRounds \in Nat \ {0} /\ MaxIssues \in Nat

Verdicts == {"approve", "reject", "abstain"}

VARIABLES
    author, arbiter, panel,
    phase,
    rnd, plan,
    blind,              \* the arbiter's verdict, and the plan it was given on
    reply,              \* for each peer that replied: to which plan, whether at all, its stance, its issues
    ruling,             \* what the arbiter said of each issue
    handed,             \* the issues the author was last told to fix
    outcome, residual, unaddressed      \* the report

councilVars == <<author, arbiter, panel>>
reportVars == <<outcome, residual, unaddressed>>
convergeVars == <<councilVars, phase, rnd, plan, blind, reply, ruling, handed, reportVars>>

Peers == DOMAIN panel
Replies == [plan : 0..MaxRounds, ok : BOOLEAN, stance : Verdicts, issues : 0..MaxIssues]
NoReply == [plan |-> 0, ok |-> FALSE, stance |-> "abstain", issues |-> 0]
Rulings == [decision : {"accept", "dismiss", "defer"}, reason : BOOLEAN]
Unruled == [decision |-> "none", reason |-> FALSE]

\* An issue is a peer's place in the panel and a number.
Issues == {i \in Peers \X (1..MaxIssues) : i[2] <= reply[i[1]].issues}

ConvergeTypeOK ==
    /\ {author, arbiter} \subseteq Lanes \cup {Nobody}
    /\ panel \in Seq(Lanes)
    /\ \A k \in Peers : panel[k] \notin {author, arbiter}
    /\ phase \in {"args", "draft", "blind", "review", "revise", "over"}
    /\ phase \notin {"args", "over"} => panel # <<>>
    /\ rnd \in 0..MaxRounds
    /\ plan \in 0..MaxRounds
    /\ blind \in [plan : 0..MaxRounds, verdict : Verdicts]
    /\ reply \in [Peers -> Replies]
    /\ DOMAIN ruling \subseteq Issues
    /\ \A i \in DOMAIN ruling : ruling[i] \in Rulings \cup {Unruled}
    /\ handed \cup residual \cup unaddressed \subseteq Issues
    /\ outcome \in {"none", "error", "converged", "unresolved"}

ConvergeInit ==
    /\ author = Nobody /\ arbiter = Nobody /\ panel = <<>>
    /\ phase = "args"
    /\ rnd = 0 /\ plan = 0
    /\ blind = [plan |-> 0, verdict |-> "abstain"]
    /\ reply = <<>> /\ ruling = <<>>
    /\ handed = {} /\ residual = {} /\ unaddressed = {}
    /\ outcome = "none"

-----------------------------------------------------------------------------
(* Who takes which part. An argument is a lane, one nobody knows, or none. *)

Arguments == Lanes \cup {"unknown", "none"}

\* s without the members of T.
Without(s, T) ==
    LET kept[k \in 0..Len(s)] ==
            IF k = 0 THEN <<>>
            ELSE IF s[k] \in T THEN kept[k - 1] ELSE Append(kept[k - 1], s[k])
    IN  kept[Len(s)]

Others(a) == Without(DefaultLanes, {a})
CrossFamilyVerifiers(a) == Without(DefaultLanes, {l \in Lanes : Family[l] = Family[a]})
FirstOf(s, default) == IF s = <<>> THEN default ELSE Head(s)
AtMost(n, s) == SubSeq(s, 1, IF n < Len(s) THEN n ELSE Len(s))

Author(arg) ==
    CASE arg = "none" -> FirstOf(DefaultLanes, Nobody)
      [] arg = "unknown" -> Nobody
      [] OTHER -> arg

Arbiter(arg, a) ==
    CASE arg = "none" -> FirstOf(CrossFamilyVerifiers(a) \o Others(a), a)
      [] arg = "unknown" -> a
      [] OTHER -> arg

PanelAsGiven(list, count, a, b) == IF list # <<>> THEN list ELSE Others(a)
Panel(list, count, a, b) ==
    LET outside(s) == Without(s, {a, b})
        want == IF count > 0 THEN count
                ELSE IF Len(DefaultLanes) > 3 THEN 3
                ELSE IF DefaultLanes = <<>> THEN 0 ELSE Len(DefaultLanes) - 1
        verifiers == AtMost(want, outside(CrossFamilyVerifiers(a)))
    IN  IF list # <<>> THEN outside(list)
        ELSE IF verifiers # <<>> THEN verifiers
        ELSE AtMost(IF want > 1 THEN want ELSE 1, outside(DefaultLanes))

Refused ==
    /\ phase' = "over" /\ outcome' = "error"
    /\ UNCHANGED <<councilVars, rnd, plan, blind, reply, ruling, handed, residual, unaddressed>>

Convene(authorArg, arbiterArg, list, count) ==
    /\ phase = "args"
    /\ LET a == Author(authorArg)
           b == Arbiter(arbiterArg, a)
           p == Panel(list, count, a, b)
       IN  IF a = Nobody THEN Refused
           ELSE IF p = <<>> THEN Refused
           ELSE /\ author' = a /\ arbiter' = b /\ panel' = p
                /\ reply' = [k \in DOMAIN p |-> NoReply]
                /\ phase' = "draft"
                /\ UNCHANGED <<rnd, plan, blind, ruling, handed, reportVars>>

-----------------------------------------------------------------------------
(* A round. *)

NextRound ==
    /\ rnd' = rnd + 1
    /\ plan' = plan + 1
    /\ phase' = "blind"

DraftFails ==
    /\ phase = "draft"
    /\ phase' = "over" /\ outcome' = "error"
    /\ UNCHANGED <<councilVars, rnd, plan, blind, reply, ruling, handed, residual, unaddressed>>
Draft ==
    /\ phase = "draft"
    /\ NextRound
    /\ UNCHANGED <<councilVars, blind, reply, ruling, handed, reportVars>>

\* A call that fails, or a verdict that cannot be read, abstains.
Blind(v) ==
    /\ phase = "blind"
    /\ blind' = [plan |-> plan, verdict |-> v]
    /\ reply' = [k \in Peers |-> NoReply]
    /\ ruling' = <<>> /\ handed' = {}
    /\ phase' = "review"
    /\ UNCHANGED <<councilVars, rnd, plan, reportVars>>

Waiting(k) == reply[k].plan # plan

\* The peers reply in any order; one that fails has no stance and no issues.
Review(k, ok, stance, n) ==
    /\ phase = "review" /\ Waiting(k)
    /\ ok \/ (stance = "abstain" /\ n = 0)
    /\ reply' = [reply EXCEPT ![k] = [plan |-> plan, ok |-> ok, stance |-> stance, issues |-> n]]
    /\ UNCHANGED <<councilVars, phase, rnd, plan, blind, ruling, handed, reportVars>>

\* A lane that is twice in the panel has one label, the later one, and the ids are made of labels.
Label(k) == CHOOSE l \in Peers : panel[l] = panel[k] /\ \A m \in Peers \ {l} : panel[m] = panel[k] => m < l
Id(i) == <<Label(i[1]), i[2]>>

\* Of several rulings on an id, the last one is kept.
Kept(rule, i) ==
    LET same == {j \in DOMAIN rule : Id(j) = Id(i) /\ rule[j] # Unruled}
    IN  IF same = {} THEN Unruled
        ELSE rule[CHOOSE j \in same : \A m \in same \ {j} : m[1] < j[1]]

\* _parse_adjudications
DecisionOpen(rule, i) == Kept(rule, i).decision
Decision(rule, i) ==
    LET r == Kept(rule, i)
    IN  IF r = Unruled \/ (r.decision # "accept" /\ ~r.reason) THEN "accept" ELSE r.decision

Decided(rule, d) == {i \in Issues : Decision(rule, i) = d}

Responders == {k \in Peers : reply[k].ok}

ConvergedAlone(rule) ==
    /\ blind.verdict = "approve"
    /\ \A k \in Responders : reply[k].stance = "approve"
    /\ Decided(rule, "accept") = {}
Converged(rule) ==
    /\ blind.verdict = "approve"
    /\ Responders # {}
    /\ \A k \in Responders : reply[k].stance = "approve"
    /\ Decided(rule, "accept") = {}

Report(rule, converged) ==
    /\ outcome' = IF converged THEN "converged" ELSE "unresolved"
    /\ residual' = Decided(rule, "defer")
    /\ unaddressed' = IF converged THEN {} ELSE Decided(rule, "accept")
    /\ phase' = "over"

\* The reviews are in: the arbiter rules on the issues, if there are any. A ruling that fails or
\* cannot be read rules on nothing.
Rule(rule) ==
    /\ phase = "review" /\ \A k \in Peers : ~Waiting(k)
    /\ ruling' = rule
    /\ \/ /\ Converged(rule) \/ rnd = MaxRounds
          /\ Report(rule, Converged(rule))
          /\ UNCHANGED handed
       \/ /\ ~Converged(rule) /\ rnd < MaxRounds
          /\ handed' = Decided(rule, "accept")
          /\ phase' = "revise"
          /\ UNCHANGED reportVars
    /\ UNCHANGED <<councilVars, rnd, plan, blind, reply>>

Revise ==
    /\ phase = "revise"
    /\ NextRound
    /\ UNCHANGED <<councilVars, blind, reply, ruling, handed, reportVars>>
ReviseFails ==
    /\ phase = "revise"
    /\ Report(ruling, FALSE)
    /\ UNCHANGED <<councilVars, rnd, plan, blind, reply, ruling, handed>>

ConvergeNext ==
    \/ \E a, b \in Arguments, list \in PeerLists, n \in PeerCounts : Convene(a, b, list, n)
    \/ Draft \/ DraftFails
    \/ \E v \in Verdicts : Blind(v)
    \/ \E k \in Peers, ok \in BOOLEAN, v \in Verdicts, n \in 0..MaxIssues : Review(k, ok, v, n)
    \/ \E rule \in [Issues -> Rulings \cup {Unruled}] : Rule(rule)
    \/ Revise \/ ReviseFails

ConvergeSpec == ConvergeInit /\ [][ConvergeNext]_convergeVars

-----------------------------------------------------------------------------
(* Properties. *)

\* Neither the author nor the arbiter carries a plan: one that converged was approved by the
\* arbiter, on that very plan and before any review of it, and by a peer who is neither, with no
\* responding peer against it or silent on it, and whatever was raised was found wrong or left
\* for later by the arbiter, in words.
ConvergedIsCarried ==
    outcome = "converged" =>
        /\ blind = [plan |-> plan, verdict |-> "approve"]
        /\ \E k \in Peers : panel[k] \notin {author, arbiter} /\ reply[k].ok
        /\ \A k \in Peers :
              reply[k].plan = plan /\ (reply[k].ok => reply[k].stance = "approve")
        /\ \A i \in Issues :
              Id(i) = i /\ (\A j \in Issues : Id(j) = i => j = i)
                  => ruling[i].decision \in {"dismiss", "defer"} /\ ruling[i].reason

\* No issue is dropped without a word: when the round in which it was raised is over, it was
\* dismissed for a reason, deferred for one, or it is in the author's hands or in the report as
\* unaddressed; and the plan in the report is the one that was reviewed. This is of panels in
\* which nobody sits twice.
NothingDroppedSilently ==
    phase \in {"revise", "over"} /\ (\A j, k \in Peers : panel[j] = panel[k] => j = k) =>
        /\ \A k \in Peers : reply[k].plan = plan
        /\ \A i \in Issues :
              \/ i \in handed \cup unaddressed
              \/ ruling[i].reason /\ ruling[i].decision = "dismiss"
              \/ ruling[i].reason /\ ruling[i].decision = "defer"
                     /\ (phase = "over" => i \in residual)

-----------------------------------------------------------------------------
(* What the documentation says, and the code does not keep. *)

\* docs/TOOLS.md: "an independent arbiter commits a blind verdict".
ArbiterIsIndependent == author # Nobody => arbiter # author
=============================================================================
