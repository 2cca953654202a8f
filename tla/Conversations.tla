---------------------------- MODULE Conversations ----------------------------
(***************************************************************************)
(* The round-table threads: turns kept in sqlite, an exchange recorded      *)
(* after the delegate answered, the rolling summary that replaces the old  *)
(* turns of a thread, and the pruning of threads. Several calls are under  *)
(* way in one server, and several servers share the file.                  *)
(*                                                                         *)
(* An action of a call is what it does between two awaits, except while    *)
(* it records an exchange: each of the two appends is a SELECT and, in a   *)
(* transaction of its own, an INSERT, and another process may write        *)
(* between any two of them. Calls of the same process may not.             *)
(*                                                                         *)
(* A variant of an operator stands just before it; no specification uses   *)
(* it.                                                                     *)
(***************************************************************************)
EXTENDS Integers, FiniteSets, FiniteSetsExt

CONSTANTS
    Workers, Process,   \* places for calls under way, and the server of each
    Threads, NoThread,
    Sizes,              \* bound: the lengths of a turn
    MaxChars,           \* convo_max_chars
    MaxStored,          \* convo_max_stored
    MaxAsks             \* bound: the calls

Processes == {Process[w] : w \in Workers}

ASSUME ConversationsAssumption ==
    /\ NoThread \notin Threads
    /\ Sizes \subseteq Nat
    /\ MaxChars \in Nat
    /\ MaxStored \in Nat \ {0}
    /\ MaxAsks \in Nat

VARIABLES
    store,      \* conversation_turns: the rows of a thread
    clock,      \* AUTOINCREMENT, and created_at
    minted,     \* the thread ids that are in use
    failed,     \* _COMPACT_FAILED_AT of each process, as long as it counts
    pc,         \* what a call awaits, or which half of an append it is at
    thread, number, upto, carried,    \* locals of a call
    asks

\* What the properties need.
VARIABLES
    recorded,   \* the turns a thread has been given, since it was pruned last
    spoiled,    \* threads whose numbers cannot be relied on: see Insert and Prune
    torn        \* threads where something came between the two halves of an exchange

callVars == <<pc, thread, number, upto, carried>>
ghostVars == <<recorded, spoiled, torn>>
vars == <<store, clock, minted, failed, callVars, asks, ghostVars>>

Recording == {"user", "userNumbered", "assistant", "assistantNumbered"}

\* A turn is known by its number and its row id.
Turns == (Nat \ {0}) \X Nat
Rows == [n : Nat \ {0}, at : Nat, role : {"user", "assistant", "summary"},
         size : Nat, turns : SUBSET Turns]

TypeOK ==
    /\ store \in [Threads -> SUBSET Rows]
    /\ clock \in Nat
    /\ minted \subseteq Threads
    /\ failed \subseteq Processes \X Threads
    /\ pc \in [Workers -> {"idle", "asking", "folding"} \cup Recording]
    /\ thread \in [Workers -> Threads \cup {NoThread}]
    /\ number \in [Workers -> Nat]
    /\ upto \in [Workers -> Nat]
    /\ carried \in [Workers -> SUBSET Turns]
    /\ asks \in 0..MaxAsks
    /\ recorded \in [Threads -> SUBSET Turns]
    /\ spoiled \subseteq Threads /\ torn \subseteq Threads

Init ==
    /\ store = [t \in Threads |-> {}]
    /\ clock = 0
    /\ minted = {}
    /\ failed = {}
    /\ pc = [w \in Workers |-> "idle"]
    /\ thread = [w \in Workers |-> NoThread]
    /\ number = [w \in Workers |-> 0]
    /\ upto = [w \in Workers |-> 0]
    /\ carried = [w \in Workers |-> {}]
    /\ asks = 0
    /\ recorded = [t \in Threads |-> {}]
    /\ spoiled = {}
    /\ torn = {}

Go(w, l) == pc' = [pc EXCEPT ![w] = l]

\* A call that is over leaves none of its locals.
Return(w) ==
    /\ Go(w, "idle")
    /\ thread' = [thread EXCEPT ![w] = NoThread]
    /\ upto' = [upto EXCEPT ![w] = 0]
    /\ carried' = [carried EXCEPT ![w] = {}]

\* Nothing else runs in a process while a call of it records.
MayRunAlways(w) == TRUE
MayRun(w) ==
    \A v \in Workers \ {w} : Process[v] = Process[w] => pc[v] \notin Recording

-----------------------------------------------------------------------------
(* The table. *)

\* ORDER BY turn_number; rows of one number come in the order of their ids.
Before(q, r) == q.n < r.n \/ (q.n = r.n /\ q.at < r.at)
After(rows, r) == {q \in rows : Before(r, q)}
Since(rows, r) == {q \in rows : ~Before(q, r)}

LastNumber(rows) == IF rows = {} THEN 0 ELSE Max({r.n : r \in rows})
LastActive(rows) == Max({r.at : r \in rows})
Length(rows) == MapThenSumSet(LAMBDA r : r.size, rows)
Covered(rows) == UNION {r.turns : r \in rows}

\* _prune_conversations: the threads that are not among the most recently active are deleted.
Prune(s) ==
    [t \in Threads |->
        IF Cardinality({u \in Threads : s[u] # {} /\ s[t] # {}
                            /\ LastActive(s[u]) > LastActive(s[t])}) < MaxStored
        THEN s[t] ELSE {}]

-----------------------------------------------------------------------------
(* The call of a lane. *)

\* A thread the host names, one it wants new, or none: then the exchange gets a fresh one.
Ask(w, t) ==
    /\ pc[w] = "idle" /\ MayRun(w)
    /\ asks < MaxAsks
    /\ asks' = asks + 1
    /\ thread' = [thread EXCEPT ![w] = t]
    /\ minted' = minted \cup ({t} \ {NoThread})
    /\ Go(w, "asking")
    /\ UNCHANGED <<store, clock, failed, number, upto, carried, ghostVars>>

\* Only an answer is recorded.
Answer(w, t) ==
    /\ pc[w] = "asking" /\ MayRun(w)
    /\ \/ thread[w] = t /\ UNCHANGED minted
       \/ thread[w] = NoThread /\ t \notin minted /\ minted' = minted \cup {t}
    /\ thread' = [thread EXCEPT ![w] = t]
    /\ Go(w, "user")
    /\ UNCHANGED <<store, clock, failed, number, upto, carried, asks, ghostVars>>

\* The lane failed, or the call was cancelled while it awaited the lane.
Fail(w) ==
    /\ pc[w] = "asking" /\ MayRun(w)
    /\ Return(w)
    /\ UNCHANGED <<store, clock, minted, failed, number, asks, ghostVars>>

\* SELECT MAX(turn_number).
Number(w) ==
    /\ pc[w] \in {"user", "assistant"}
    /\ number' = [number EXCEPT ![w] = LastNumber(store[thread[w]]) + 1]
    /\ Go(w, IF pc[w] = "user" THEN "userNumbered" ELSE "assistantNumbered")
    /\ UNCHANGED <<store, clock, minted, failed, thread, upto, carried, asks, ghostVars>>

-----------------------------------------------------------------------------
(* The plan of a fold. *)

\* From the newest row back, the rows are old from where they no longer fit in half the budget;
\* the two newest never are.
OldAll(rows) ==
    {r \in rows : \E q \in rows : ~Before(q, r) /\ Length(Since(rows, q)) > MaxChars \div 2}
Old(rows) ==
    {r \in rows :
        /\ \E q \in rows : ~Before(q, r) /\ Length(Since(rows, q)) > MaxChars \div 2
        /\ Cardinality(After(rows, r)) >= 2}

PlansFold(rows) == Length(rows) > MaxChars /\ Cardinality(Old(rows)) >= 2

\* _maybe_compact_convo up to its await, for rows as the exchange left them.
GoFold(w, rows) ==
    IF PlansFold(rows) /\ <<Process[w], thread[w]>> \notin failed
    THEN /\ Go(w, "folding")
         /\ upto' = [upto EXCEPT ![w] = LastNumber(Old(rows))]
         /\ carried' = [carried EXCEPT ![w] = Covered(Old(rows))]
         /\ UNCHANGED thread
    ELSE Return(w)

-----------------------------------------------------------------------------
(* The appends. *)

\* What a thread that was pruned, or given a number that was not the next one, does to the ghosts.
Spoils(w, s) ==
    {t \in Threads :
        \/ t = thread[w] /\ number[w] # LastNumber(store[t]) + 1
        \/ store[t] # {} /\ s[t] = {} /\ \E v \in Workers \ {w} : pc[v] = "folding" /\ thread[v] = t}

\* INSERT, pruning and COMMIT. After the second one, the plan of a fold.
Insert(w, size) ==
    LET t == thread[w]
        turn == <<number[w], clock + 1>>
        role == IF pc[w] = "userNumbered" THEN "user" ELSE "assistant"
        row == [n |-> number[w], at |-> clock + 1, role |-> role, size |-> size, turns |-> {turn}]
        s == Prune([store EXCEPT ![t] = @ \cup {row}])
    IN /\ pc[w] \in {"userNumbered", "assistantNumbered"}
       /\ store' = s
       /\ clock' = clock + 1
       /\ recorded' = [u \in Threads |->
                          IF s[u] = {} THEN {}
                          ELSE recorded[u] \cup IF u = t THEN {turn} ELSE {}]
       /\ spoiled' = spoiled \cup Spoils(w, s)
       /\ torn' = torn \cup {u \in Threads :
                                /\ u = t \/ s[u] = {}
                                /\ \E v \in Workers :
                                      /\ Process[v] # Process[w]
                                      /\ pc[v] \in Recording /\ thread[v] = u}
       /\ IF role = "user"
          THEN Go(w, "assistant") /\ UNCHANGED <<thread, upto, carried>>
          ELSE GoFold(w, s[t])
       /\ number' = [number EXCEPT ![w] = 0]
       /\ UNCHANGED <<minted, failed, asks>>

\* sqlite refuses (the file is locked, the disk full): convo_append returns 0, nobody looks.
InsertFails(w) ==
    /\ pc[w] \in {"userNumbered", "assistantNumbered"}
    /\ torn' = torn \cup {thread[w]}
    /\ IF pc[w] = "userNumbered"
       THEN Go(w, "assistant") /\ UNCHANGED <<thread, upto, carried>>
       ELSE GoFold(w, store[thread[w]])
    /\ number' = [number EXCEPT ![w] = 0]
    /\ UNCHANGED <<store, clock, minted, failed, asks, recorded, spoiled>>

-----------------------------------------------------------------------------
(* The fold. *)

\* convo_compact: what is numbered up to the plan's last turn is deleted, the summary inserted there.
CompactedNext(rows, u, turns, size) ==
    {r \in rows : r.n > u + 1}
        \cup {[n |-> u, at |-> clock + 1, role |-> "summary", size |-> size, turns |-> turns]}
Compacted(rows, u, turns, size) ==
    {r \in rows : r.n > u}
        \cup {[n |-> u, at |-> clock + 1, role |-> "summary", size |-> size, turns |-> turns]}

Fold(w, size) ==
    LET t == thread[w]
    IN /\ pc[w] = "folding" /\ MayRun(w)
       /\ store' = [store EXCEPT ![t] = Compacted(@, upto[w], carried[w], size)]
       /\ clock' = clock + 1
       /\ failed' = failed \ {<<Process[w], t>>}
       /\ Return(w)
       /\ UNCHANGED <<minted, number, asks, ghostVars>>

\* The call is cancelled while it awaits the summariser; sqlite refuses the fold, which is not
\* remembered; or the summariser fails, which is, and keeps the thread from being folded for a while.
NoFold(w) ==
    LET me == <<Process[w], thread[w]>>
    IN /\ pc[w] = "folding" /\ MayRun(w)
       /\ failed' \in {failed, failed \ {me}, failed \cup {me}}
       /\ Return(w)
       /\ UNCHANGED <<store, clock, minted, number, asks, ghostVars>>

\* _COMPACT_RETRY_S is over.
RetryFold(p, t) ==
    /\ <<p, t>> \in failed
    /\ failed' = failed \ {<<p, t>>}
    /\ UNCHANGED <<store, clock, minted, callVars, asks, ghostVars>>

\* A server dies, wherever its calls are, and comes back without its memory.
Restart(p) ==
    LET calls == {w \in Workers : Process[w] = p}
        Drop(f, nothing) == [w \in Workers |-> IF w \in calls THEN nothing ELSE f[w]]
    IN /\ \E w \in calls : pc[w] # "idle"
       /\ pc' = Drop(pc, "idle")
       /\ thread' = Drop(thread, NoThread)
       /\ number' = Drop(number, 0)
       /\ upto' = Drop(upto, 0)
       /\ carried' = Drop(carried, {})
       /\ failed' = {f \in failed : f[1] # p}
       /\ torn' = torn \cup {thread[w] : w \in {v \in calls : pc[v] \in Recording}}
       /\ UNCHANGED <<store, clock, minted, asks, recorded, spoiled>>

Step(w) ==
    \/ \E t \in Threads \cup {NoThread} : Ask(w, t)
    \/ \E t \in Threads : Answer(w, t)
    \/ Fail(w)
    \/ Number(w)
    \/ \E size \in Sizes : Insert(w, size)
    \/ InsertFails(w)
    \/ \E size \in Sizes : Fold(w, size)
    \/ NoFold(w)

Next ==
    \/ \E w \in Workers : Step(w)
    \/ \E p \in Processes, t \in Threads : RetryFold(p, t)
    \/ \E p \in Processes : Restart(p)

Spec == Init /\ [][Next]_vars

-----------------------------------------------------------------------------
(* Properties. *)

\* Every turn a thread has recorded is still in the thread, itself or in a summary that was made
\* from it, however folds, new turns and failures interleave. A thread that was pruned starts
\* anew; one that was pruned under a fold, or whose numbers two processes gave twice, is not
\* spoken of.
NothingForgotten ==
    \A t \in Threads \ spoiled : recorded[t] \subseteq Covered(store[t])

\* A fold never takes the two newest turns of a thread, the answer the host just got and its
\* question, though others may have recorded turns or folded since it was planned.
Newest(rows) == {r \in rows : Cardinality(After(rows, r)) < 2}
FoldKeepsNewest ==
    [][\A t \in Threads \ spoiled :
        clock' > clock /\ recorded'[t] = recorded[t] /\ store'[t] # {}
            => Newest(store[t]) \subseteq store'[t]]_vars

\* However many lanes answer in one thread at once, every question is followed by its answer and
\* every answer preceded by its question, or by a summary; a process that died, an append that was
\* refused and a second process may leave half an exchange.
Follows(rows, r, q) ==
    /\ Before(q, r)
    /\ \A x \in rows : ~(Before(q, x) /\ Before(x, r))
ExchangesStayTogether ==
    \A t \in Threads \ (torn \cup spoiled) :
        LET rows == store[t]
            recordingNow == \E w \in Workers : thread[w] = t /\ pc[w] \in Recording
        IN \A q \in rows :
            /\ q.role = "user" =>
                  \/ \E r \in rows : Follows(rows, r, q) /\ r.role = "assistant"
                  \/ recordingNow /\ \A r \in rows : ~Before(q, r)
            /\ q.role = "assistant" =>
                  \A r \in rows : Follows(rows, r, q) => r.role # "assistant"
=============================================================================
