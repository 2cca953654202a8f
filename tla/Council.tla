------------------------------ MODULE Council ------------------------------
(***************************************************************************)
(* The tools that ask several lanes: ask_cascade, ask_best and challenge   *)
(* try one after the other; ask_all, premortem and test_plan (merge),      *)
(* review_diff, debate with its votes, debate(vote=borda) and the presets  *)
(* of workflow ask side by side, some in several waves, and let one lane   *)
(* conclude.                                                               *)
(*                                                                         *)
(* A call fails or it answers; what fails, raises or says nothing is one   *)
(* thing to all of these tools. An answer is the number of its version:    *)
(* similar answers are the same answer.                                    *)
(*                                                                         *)
(* A variant of an operator stands just before it; no specification uses   *)
(* it.                                                                     *)
(***************************************************************************)
EXTENDS CouncilRules

CONSTANTS
    Active,             \* the active lanes, in their order
    Rated,              \* [Lanes -> [n, avg]]: the host's ratings
    Policies,           \* bound: the pairs of a profile and an include_paid
    CooledSets,         \* bound: the lanes in cooldown when the tool is called
    LaneLists,          \* bound: the lanes a host may name, <<>> for none
    Judges,             \* bound: the judge_lane it may name
    Found,              \* bound: the findings of a review, without their models
    Width,              \* CLI_BRIDGE_MAX_PARALLEL
    Roles,              \* REVIEW_ROLES, REFINE_ANGLES, the files and the questions: how many
    DebaterCap, PanelCap,       \* DEBATE_MAX_DEBATERS, CONSENSUS_MAX_LANES
    MaxRounds           \* DEBATE_MAX_ROUNDS

ASSUME CouncilAssumption ==
    /\ Active \in Seq(Lanes)
    /\ Judges \subseteq Lanes \cup {Nobody}
    /\ Policies \subseteq STRING \X STRING
    /\ \A list \in LaneLists : Len(list) \in Nat /\ DOMAIN list = 1..Len(list)
    /\ Found \subseteq Nat \X (Nat \ {0}) \X BOOLEAN
    /\ {Width, Roles, DebaterCap, PanelCap} \subseteq Nat \ {0} /\ MaxRounds \in Nat

Chains == {"cascade", "best", "challenge"}
Pools == {"refine", "map", "fanout"}
Tools == Chains \cup Pools \cup {"ask_all", "merge", "review", "debate", "borda", "research"}
Votes == {"stop", "continue", "none"}
Precheck == "static-check"

\* What the shell's review-diff, security-review, test-plan and premortem run.
ShellTools == {"review", "merge"}

\* option is synthesize, or allow_self_judge.
Calls(tool) ==
    [tool : {tool}, policy : Policies, cooled : CooledSets,
     shell : IF tool \in ShellTools THEN BOOLEAN ELSE {FALSE},
     named : IF tool \in Pools \cup {"research", "challenge"} THEN LaneLists ELSE {<<>>},
     judge : IF tool \in Pools THEN Judges ELSE {Nobody},
     option : IF tool \in {"ask_all", "borda", "debate"} THEN BOOLEAN ELSE {FALSE},
     rounds : IF tool = "debate" THEN 0..MaxRounds ELSE {0},
     floor : IF tool = "review" THEN 0..1 ELSE {0},
     checks : IF tool = "review" THEN BOOLEAN ELSE {FALSE},
     mode : IF tool = "best" THEN Modes ELSE {"cheap"}]
\* A shell has no severity_filter.
Askings(tool) == {a \in Calls(tool) : a.shell => a.floor = 0}

VARIABLES
    asking,
    stage,              \* idle, ask, again (revise, rank, verify), close, over
    seats,              \* the lanes that are asked, by seat
    waiting,            \* the seats of this wave that have not replied
    reply,              \* of this wave
    positions,          \* what is held of each seat that answered: its answer and its vote
    judge,
    rnd,
    why,                \* of an early stop
    report              \* its kind, the seat it took its answer from, the findings

askVars == <<asking, seats, judge>>
\* The latest answer of each seat, as it arrived.
VARIABLE said
vars == <<askVars, stage, waiting, reply, positions, rnd, why, report, said>>

Fail == [ok |-> FALSE, body |-> <<>>]
Ok(r) == r.ok
Idle == [tool |-> "none"]
NoReport == [kind |-> "none", seat |-> 0, findings |-> {}]
Seats == DOMAIN seats
Answered == {i \in Seats : Ok(reply[i])}

TypeOK ==
    /\ asking = Idle \/ asking \in Askings(asking.tool)
    /\ stage \in {"idle", "ask", "again", "close", "over"}
    /\ seats \in Seq(Lanes)
    /\ waiting \subseteq Seats
    /\ stage \in {"close", "over"} => waiting = {} \/ asking.tool \in Chains
    /\ \A i \in Seats : reply[i].ok \in BOOLEAN
    /\ DOMAIN positions \subseteq Seats
    /\ \A i \in DOMAIN positions : positions[i] \in (1..(MaxRounds + 1)) \X Votes
    /\ judge \in Lanes \cup {Nobody}
    /\ stage = "close" => judge # Nobody
    /\ rnd \in 0..MaxRounds
    /\ why \in {"none", "voted", "unchanged"}
    /\ report.kind \in {"none", "error", "answer", "judged", "all", "findings"}
    /\ report.seat \in Seats \cup {0}
    /\ stage = "over" <=> report.kind # "none"
    /\ said \in [Seats -> 0..(MaxRounds + 1)]

Init ==
    /\ asking = Idle /\ seats = <<>> /\ judge = Nobody
    /\ stage = "idle"
    /\ waiting = {} /\ reply = <<>> /\ positions = <<>> /\ said = <<>>
    /\ rnd = 0 /\ why = "none"
    /\ report = NoReport

-----------------------------------------------------------------------------
(* Who sits where. *)

\* The shell's flag goes to the targets as it is, past the profile.
Paid(a) ==
    IF a.shell THEN a.policy[2] = "yes" ELSE IncludePaid(a.policy[1], a.policy[2])
Targets(a) == AskAllTargets(Active, Paid(a), a.cooled)
Known(list) == Only(list, Lanes)
Use(a) == IF a.named # <<>> THEN Known(a.named) ELSE Targets(a)

\* A lane by its key, or the default lanes; map_review takes one of them.
Skeptics(a) == IF Known(a.named) # <<>> THEN AtMost(1, Known(a.named)) ELSE Targets(a)
Reader(a) == AtMost(1, Use(a))

\* With three lanes or more, one is held out to judge.
HeldOut(a) == ~a.option /\ Len(Targets(a)) >= 3
DebateJudge(a) == PickJudge(Targets(a), IF HeldOut(a) THEN Last(Targets(a)) ELSE Targets(a)[1])
Debaters(a) ==
    AtMost(DebaterCap,
           Only(Targets(a), {l \in Lanes : HeldOut(a) => l # DebateJudge(a)}))

Spread(n, lanes) == IF lanes = <<>> THEN <<>> ELSE RoundRobin(n, lanes)
SeatsOf(a) ==
    LET active == {Active[k] : k \in DOMAIN Active}
    IN  CASE a.tool = "cascade" -> OrderLanes(active, Paid(a), a.cooled)
          [] a.tool = "best" -> OrderForMode(active, a.mode, Paid(a), a.cooled, Rated)
          [] a.tool = "challenge" -> Skeptics(a)
          [] a.tool = "review" -> Spread(Roles, Targets(a))
          [] a.tool = "debate" -> Debaters(a)
          [] a.tool = "borda" -> AtMost(PanelCap, Targets(a))
          [] a.tool \in {"refine", "research"} -> Spread(Roles, Use(a))
          [] a.tool = "map" -> Spread(Roles, Reader(a))
          [] a.tool = "fanout" -> Use(a)
          [] OTHER -> Targets(a)

Over(kind, seat, findings) ==
    /\ stage' = "over"
    /\ report' = [kind |-> kind, seat |-> seat, findings |-> findings]

Ask(a) ==
    /\ stage = "idle"
    /\ asking' = a
    /\ seats' = SeatsOf(a)
    /\ judge' = IF a.tool = "debate" /\ seats' # <<>> THEN DebateJudge(a) ELSE a.judge
    /\ reply' = [i \in DOMAIN seats' |-> Fail]
    /\ said' = [i \in DOMAIN seats' |-> 0]
    /\ \/ seats' = <<>> /\ waiting' = {} /\ Over("error", 0, {})
       \/ seats' # <<>> /\ waiting' = DOMAIN seats' /\ stage' = "ask" /\ UNCHANGED report
    /\ UNCHANGED <<positions, rnd, why>>

-----------------------------------------------------------------------------
(* A wave: every seat replies, or the chain stops at the first that does. *)

tool == asking.tool

\* The places of the semaphore are given in the order of the seats.
RunningLeaky ==
    IF tool \in Chains THEN {i \in waiting : \A j \in waiting : i <= j}
    ELSE IF tool # "ask_all" THEN waiting
    ELSE {i \in waiting : i <= Width + Cardinality(Answered)}
Running ==
    IF tool \in Chains THEN {i \in waiting : \A j \in waiting : i <= j}
    ELSE IF tool # "ask_all" THEN waiting
    ELSE {i \in waiting : i <= Width + Cardinality(Seats \ waiting)}

PartialOrders(S) == UNION {SetToSeqs(s) : s \in SUBSET S}
Raised(i, f) == [title |-> f[1], severity |-> f[2], located |-> f[3], models |-> {seats[i]}]

\* What seat i may answer: findings, a ranking, or a version of its answer and a vote.
Bodies(i) ==
    CASE tool = "review" -> {<<>>} \cup {<<Raised(i, f)>> : f \in Found}
      [] tool = "borda" /\ stage = "again" -> PartialOrders(DOMAIN positions)
      [] tool = "debate" -> ({said[i], rnd + 1 + (IF stage = "again" THEN 1 ELSE 0)} \ {0}) \X Votes
      [] OTHER -> {<<1, "none">>}

IsAnswer == stage = "ask" \/ tool = "debate"
Said(i, r) == IF Ok(r) /\ IsAnswer /\ tool # "review" THEN [said EXCEPT ![i] = r.body[1]] ELSE said

Reply(i, r) ==
    /\ stage \in {"ask", "again"} /\ tool \notin Chains
    /\ i \in Running
    /\ waiting' = waiting \ {i}
    /\ reply' = [reply EXCEPT ![i] = r]
    /\ said' = Said(i, r)
    /\ UNCHANGED <<askVars, stage, positions, rnd, why, report>>

\* run_chain, challenge
TryNext(i, r) ==
    /\ stage = "ask" /\ tool \in Chains
    /\ i \in Running
    /\ waiting' = waiting \ {i}
    /\ reply' = [reply EXCEPT ![i] = r]
    /\ said' = Said(i, r)
    /\ \/ Ok(r) /\ Over("answer", i, {})
       \/ ~Ok(r) /\ waiting' = {} /\ Over("error", 0, {})
       \/ ~Ok(r) /\ waiting' # {} /\ UNCHANGED <<stage, report>>
    /\ UNCHANGED <<askVars, positions, rnd, why>>

-----------------------------------------------------------------------------
(* The wave is in. *)

Gathered(held) ==
    [i \in Answered \cup DOMAIN held |-> IF i \in Answered THEN reply[i].body ELSE held[i]]

Wave(S) ==
    /\ stage' = "again"
    /\ waiting' = S
    /\ reply' = [i \in Seats |-> Fail]
    /\ UNCHANGED report
Conclude(l) == stage' = "close" /\ judge' = l /\ UNCHANGED <<waiting, reply, report>>
End(kind, seat, findings) == Over(kind, seat, findings) /\ UNCHANGED <<waiting, reply, judge>>
In == stage \in {"ask", "again"} /\ waiting = {}

NobodyAnswered ==
    /\ In /\ stage = "ask" /\ Answered = {}
    /\ tool \in {"merge", "borda", "debate"} \/ (tool \in Pools /\ judge # Nobody)
    /\ End("error", 0, {})
    /\ UNCHANGED <<asking, seats, positions, rnd, why, said>>

\* ask_all_body, synthesize: the host's own model, else a free lane, if there is any.
GatherAll(hostSamples) ==
    /\ In /\ tool = "ask_all"
    /\ positions' = Gathered(positions)
    /\ LET free == PickJudge(seats, Nobody)
           synth == asking.option /\ Cardinality(Answered) >= 2
       IN  IF ~synth \/ (~hostSamples /\ free = Nobody) THEN End("all", 0, {})
           ELSE IF hostSamples THEN End("judged", 0, {})
           ELSE Conclude(free)
    /\ UNCHANGED <<asking, seats, rnd, why, said>>

\* _council_synth: the first target merges, whether it answered or not.
GatherToMerge ==
    /\ In /\ tool = "merge" /\ Answered # {}
    /\ positions' = Gathered(positions)
    /\ IF Cardinality(Answered) >= 2 THEN Conclude(seats[1])
       ELSE End("answer", LowestOf(Answered), {})
    /\ UNCHANGED <<asking, seats, rnd, why, said>>

\* The presets over the batch, with judge_lane or without.
GatherPool ==
    /\ In /\ tool \in Pools
    /\ positions' = Gathered(positions)
    /\ \/ judge = Nobody /\ End("all", 0, {})
       \/ judge # Nobody /\ Answered # {} /\ Conclude(judge)
    /\ UNCHANGED <<asking, seats, rnd, why, said>>

\* research_verify: each answer, failed ones too, goes to the lane after the one that gave it.
GatherResearch ==
    /\ In /\ tool = "research"
    /\ \/ /\ stage = "ask"
          /\ positions' = Gathered(positions)
          /\ seats' = Spread(Roles, LET use == Use(asking) IN Tail(use) \o <<Head(use)>>)
          /\ Wave(Seats) /\ UNCHANGED judge
       \/ /\ stage = "again"
          /\ End("all", 0, {}) /\ UNCHANGED <<positions, seats>>
    /\ UNCHANGED <<asking, rnd, why, said>>

\* _diff_review. The prechecks come first.
Prechecked == [title |-> 2, severity |-> 1, located |-> FALSE, models |-> {Precheck}]
Replied(i) == IF Ok(reply[i]) THEN reply[i].body ELSE <<>>
AllFindings ==
    LET upTo[i \in 0..Len(seats)] ==
            IF i = 0 THEN IF asking.checks THEN <<Prechecked>> ELSE <<>>
            ELSE upTo[i - 1] \o Replied(i)
    IN  upTo[Len(seats)]
GatherReview ==
    /\ In /\ tool = "review"
    /\ IF Answered = {} /\ ~asking.checks THEN End("error", 0, {})
       ELSE End("findings", 0, FilterBySeverity(MergeFindings(AllFindings), asking.floor))
    /\ UNCHANGED <<asking, seats, positions, rnd, why, said>>

\* consensus
RankingsIn == {i \in Answered : reply[i].body # <<>>}
Winner ==
    IF RankingsIn = {} THEN LowestOf(DOMAIN positions)
    ELSE BordaWinner([i \in Seats |-> Replied(i)], DOMAIN positions)
GatherPanel ==
    /\ In /\ tool = "borda"
    /\ \/ /\ stage = "ask" /\ Answered # {}
          /\ positions' = Gathered(positions)
          /\ IF Cardinality(Answered) = 1 THEN End("answer", LowestOf(Answered), {})
             ELSE Wave(Answered) /\ UNCHANGED judge
       \/ /\ stage = "again"
          /\ IF asking.option
             THEN Conclude(PickJudge(Targets(asking), seats[LowestOf(DOMAIN positions)]))
             ELSE End("answer", Winner, {})
          /\ UNCHANGED positions
    /\ UNCHANGED <<asking, seats, rnd, why, said>>

\* debate. The votes are those of the answers held, whatever round they are of.
Cast(held) == {held[i][2] : i \in DOMAIN held} \ {"none"}
Unchanged(old, new) == \A i \in DOMAIN old : new[i][1] = old[i][1]
GatherDebate ==
    /\ In /\ tool = "debate" /\ (stage = "ask" => Answered # {})
    /\ LET held == Gathered(positions)
           round == IF stage = "again" THEN rnd + 1 ELSE 0
           stop == IF stage = "ask" THEN "none"
                   ELSE IF AllStop(Cast(held)) THEN "voted"
                   ELSE IF Unchanged(positions, held) THEN "unchanged" ELSE "none"
       IN  /\ positions' = held
           /\ rnd' = round
           /\ why' = stop
           /\ IF Cardinality(DOMAIN held) < 2
              THEN End("answer", LowestOf(DOMAIN held), {})
              ELSE IF stop # "none" \/ round = asking.rounds THEN Conclude(judge)
              ELSE Wave(DOMAIN held) /\ UNCHANGED judge
    /\ UNCHANGED <<asking, seats, said>>

\* The last word; where it fails, each tool has one of its own.
Close(ok) ==
    /\ stage = "close"
    /\ \/ ok /\ Over("judged", 0, {})
       \/ ~ok /\ tool = "merge" /\ Over("answer", LowestOf(DOMAIN positions), {})
       \/ ~ok /\ tool = "borda" /\ Over("answer", Winner, {})
       \/ ~ok /\ tool \in Pools /\ Over("error", 0, {})
       \/ ~ok /\ tool \in {"ask_all", "debate"} /\ Over("all", 0, {})
    /\ UNCHANGED <<askVars, waiting, reply, positions, rnd, why, said>>

Gather ==
    \/ NobodyAnswered \/ GatherToMerge \/ GatherPool \/ GatherResearch
    \/ GatherReview \/ GatherPanel \/ GatherDebate
    \/ \E host \in BOOLEAN : GatherAll(host)
Answer ==
    \E i \in waiting :
        \E r \in {Fail} \cup {[ok |-> TRUE, body |-> b] : b \in Bodies(i)} :
            Reply(i, r) \/ TryNext(i, r)

Next ==
    \/ \E t \in Tools : \E a \in Askings(t) : Ask(a)
    \/ Answer \/ Gather
    \/ \E ok \in BOOLEAN : Close(ok)

\* A call comes back: the runner ends it at its deadline at the latest. No two of these are ever
\* possible in one state.
Fairness == WF_vars(Answer \/ Gather \/ \E ok \in BOOLEAN : Close(ok))

Spec == Init /\ [][Next]_vars
FairSpec == Spec /\ Fairness

-----------------------------------------------------------------------------
(* Properties. *)

WidenedByHost ==
    asking.policy[1] # "saver" /\ (asking.policy[2] = "yes" \/ asking.policy = <<"max", "none">>)
Widened == IF asking.shell THEN asking.policy[2] = "yes" ELSE WidenedByHost
Called == {seats[i] : i \in Seats} \cup ({judge} \ {Nobody})
Named == {asking.named[k] : k \in DOMAIN asking.named} \cup {asking.judge}

\* Nobody spends what was not agreed to: a limited or paid lane is called, to answer, to rank or
\* to judge, only if it was named, or the council was widened: by a host that does not run the
\* saver profile, or by the flag of a shell command, which no profile holds back (SaverIsFreeOnly,
\* below, is what the code says of it and does not keep). ask_best stays under the ceiling of its
\* mode; and ask_cascade comes to a lane only after every cheaper one that was not in cooldown
\* failed.
CostCeiling ==
    stage # "idle" =>
        /\ \A l \in Called : Free(l) \/ l \in Named \/ Widened
        /\ tool = "best" => \A i \in Seats : Cost[seats[i]] <= ModeCeiling(asking.mode)
        /\ tool = "cascade" /\ stage = "ask" =>
              \A i \in Running, k \in DOMAIN Active :
                  Cost[Active[k]] < Cost[seats[i]] /\ Active[k] \notin asking.cooled
                      => \E j \in Seats \ waiting : seats[j] = Active[k] /\ ~Ok(reply[j])

\* What the last step works from is the latest answer of every seat that ever answered, and of no
\* other, also of a debater whose revision failed.
NothingLost ==
    stage \in {"close", "over"} /\ report.kind # "error" /\ tool \notin Chains \cup {"review"} =>
        /\ DOMAIN positions = {i \in Seats : said[i] # 0}
        /\ \A i \in DOMAIN positions : positions[i][1] = said[i]

\* Every finding at the floor or above is in the merged report, under its reviewer and at least as
\* severe, and the report holds no finding, no reviewer and no severity nobody gave: the merge
\* makes the verdict neither milder nor harsher than the findings it reports.
FindingsKept ==
    report.kind = "findings" =>
        LET raised == ToSet(AllFindings)
            counted == {f \in raised : asking.floor = 0 \/ f.severity <= asking.floor}
            merged == report.findings
        IN  /\ Verdict(merged) = Verdict(counted)
            /\ \A f \in counted : \E g \in merged :
                  Same(g, f) /\ f.models \subseteq g.models /\ g.severity <= f.severity
            /\ \A g \in merged :
                  /\ \E f \in raised : f.title = g.title /\ f.located = g.located
                  /\ \E f \in raised : Same(g, f) /\ f.severity = g.severity
                  /\ \A m \in g.models : \E f \in raised : Same(g, f) /\ m \in f.models

\* The answer selected by its peers is ranked below none of the others by all who ranked.
Ahead(r, a, b) == Place(r, a) # 0 /\ (Place(r, b) = 0 \/ Place(r, a) < Place(r, b))
PeersChoose ==
    report.kind = "answer" /\ tool = "borda" /\ RankingsIn # {} /\ Cardinality(DOMAIN positions) > 1 =>
        \A b \in DOMAIN positions \ {report.seat} :
            \E i \in RankingsIn : ~Ahead(reply[i].body, b, report.seat)

\* An error is reported only when nobody answered, or there was nobody to ask; only the judge of a
\* preset may fail and take the answers with it.
ErrorsAreReal ==
    report.kind = "error" =>
        \/ \A i \in Seats : said[i] = 0 /\ (tool = "review" => ~Ok(reply[i]))
        \/ tool \in Pools /\ judge # Nobody

\* Every voice is heard: no answer, revision, finding or ranking that came in is lost on the way
\* to the report, whatever the other seats did and in whatever order they did it.
EveryVoiceHeard == NothingLost /\ FindingsKept /\ PeersChoose /\ ErrorsAreReal

\* Every session ends with a report: the votes, the rounds and the places of the semaphore never
\* leave it waiting, and no failed call does.
SessionsEnd == (stage # "idle") ~> (stage = "over")

-----------------------------------------------------------------------------
(* What the comments say, and the code does not keep. *)

\* config.py: "saver = free-only fan-out, ENFORCED: include_paid is refused". The shell's
\* --include-paid of a review, a test plan or a premortem is not.
SaverIsFreeOnly ==
    stage # "idle" /\ asking.policy[1] = "saver" => \A l \in Called : Free(l) \/ l \in Named

\* workflows.py: "When everyone votes to stop - or answers stop changing between rounds".
StoppedByAll ==
    why = "voted" /\ stage = "close" =>
        \A i \in DOMAIN positions : Ok(reply[i]) /\ reply[i].body[2] = "stop"
StoppedAsAnswersConverged ==
    why = "unchanged" /\ stage = "close" => \E i \in DOMAIN positions : Ok(reply[i])

\* orchestrate.py: "adversarially verify each answer on a DIFFERENT lane".
VerifiedByAnother ==
    tool = "research" /\ stage = "again" =>
        \A i \in Seats : seats[i] # Spread(Roles, Use(asking))[i]
=============================================================================
