------------------------------ MODULE ZoneBuild ------------------------------
(***************************************************************************)
(* Builds in a git repository the host works in at the same time. A direct *)
(* build writes into the repository itself; what it wrote outside its zone *)
(* is looked for by comparing two git statuses, and if anything is found   *)
(* its zone is reverted. An isolated build writes into a worktree of its   *)
(* own and leaves a diff, which may be applied.                            *)
(*                                                                         *)
(* The repository is three functions from paths to contents: the last      *)
(* commit, the index and the working tree. An action of a build is what it *)
(* does between two awaits, its git commands included; the host and the    *)
(* delegates act while a build awaits its delegate.                        *)
(*                                                                         *)
(* A variant of an operator stands just before it; no specification uses   *)
(* it.                                                                     *)
(***************************************************************************)
EXTENDS Integers, FiniteSets

CONSTANTS
    Paths,
    Builds,
    Zone,               \* the paths in the zone of a build, if it is direct
    Binary,             \* paths whose content is not text
    Absent, Base, Host, \* a file that is not there, the first commit's, the host's edit
    Committed,          \* the paths in the first commit
    Keep,               \* CLI_BRIDGE_KEEP_WORKTREES
    MaxHostSteps,       \* bound: what the host does to the repository
    MaxWrites           \* bound: the files a delegate writes

ASSUME ZoneBuildAssumption ==
    /\ Paths # {} /\ Zone \in [Builds -> SUBSET Paths]
    /\ Committed \subseteq Paths
    /\ Builds \cap {Absent, Base, Host} = {}
    /\ Keep \in BOOLEAN
    /\ MaxHostSteps \in Nat /\ MaxWrites \in Nat

\* A build's delegate writes one content only: its own.
Contents == {Absent, Base, Host} \cup Builds
Versions == [Paths -> Contents]
NoFiles == [p \in Paths |-> Absent]
Codes == {" ", "A", "M", "D", "?"}

VARIABLES
    head, index, tree,  \* the repository
    pc,
    before,             \* of a direct build: git status when it began
    base, wt,           \* of an isolated one: its worktree's commit and files
    onDisk,             \* the worktrees that exist
    shown,              \* the paths the report of a direct build shows
    hostSteps

\* What the properties need.
VARIABLES
    wrote,              \* the paths the delegate of a direct build wrote or deleted
    usedGit,            \* the delegates of direct builds that staged or committed
    edited,             \* the paths whose file somebody else changed since a build began
    staged,             \* the paths that somebody else staged, unstaged or committed since then
    mine                \* the working tree as the host's edits and applied diffs make it

repoVars == <<head, index, tree>>
isolatedVars == <<base, wt, onDisk>>
ghostVars == <<wrote, usedGit, edited, staged, mine>>
vars == <<repoVars, pc, before, isolatedVars, shown, hostSteps, ghostVars>>

Over == {"refused", "cancelled", "accepted", "rejected", "reported", "applied"}

TypeOK ==
    /\ head \in Versions /\ index \in Versions /\ tree \in Versions
    /\ pc \in [Builds -> {"new", "direct", "planning", "isolated"} \cup Over]
    /\ \A b \in Builds :
          /\ before[b] = <<>> \/ before[b] \in [Paths -> Codes \X Codes]
          /\ pc[b] \in {"direct", "accepted", "rejected"} => before[b] # <<>>
    /\ base \in [Builds -> Versions] /\ wt \in [Builds -> Versions]
    /\ onDisk \subseteq Builds
    /\ shown \in [Builds -> SUBSET Paths]
    /\ hostSteps \in 0..MaxHostSteps
    /\ wrote \in [Builds -> SUBSET Paths]
    /\ usedGit \subseteq Builds
    /\ edited \in [Builds -> SUBSET Paths] /\ staged \in [Builds -> SUBSET Paths]
    /\ mine \in Versions

Init ==
    /\ head = [p \in Paths |-> IF p \in Committed THEN Base ELSE Absent]
    /\ index = head /\ tree = head
    /\ pc = [b \in Builds |-> "new"]
    /\ before = [b \in Builds |-> <<>>]
    /\ base = [b \in Builds |-> NoFiles] /\ wt = base
    /\ onDisk = {}
    /\ shown = [b \in Builds |-> {}]
    /\ hostSteps = 0
    /\ wrote = [b \in Builds |-> {}]
    /\ usedGit = {}
    /\ edited = [b \in Builds |-> {}] /\ staged = edited
    /\ mine = tree

Go(b, l) == pc' = [pc EXCEPT ![b] = l]
ForOthers(b, paths, P) == [c \in Builds |-> IF c # b THEN paths[c] \cup P ELSE paths[c]]
Edits(b, P) == edited' = ForOthers(b, edited, P) /\ staged' = staged
Stages(b, P) == staged' = ForOthers(b, staged, P) /\ edited' = edited

-----------------------------------------------------------------------------
(* git. *)

Differ(x, y) == IF x = y THEN " " ELSE IF x = Absent THEN "A" ELSE IF y = Absent THEN "D" ELSE "M"

\* _porcelain. Of a path that is listed twice, as deleted in the index and as untracked, the
\* second line stays.
Clean == <<" ", " ">>
Untracked == <<"?", "?">>
Status(p) ==
    IF index[p] = Absent /\ tree[p] # Absent THEN Untracked
    ELSE <<Differ(head[p], index[p]), Differ(index[p], tree[p])>>
Porcelain == [p \in Paths |-> Status(p)]

\* _revert_zone: git checkout takes what is in the index, git clean deletes the rest.
RevertAll(b) == index
RevertZone(b) == [p \in Paths |-> IF p \in Zone[b] THEN index[p] ELSE tree[p]]

\* git diff of the zone, with what is untracked intended to be added.
ZoneDiffTracked(b) == {p \in Zone[b] : index[p] # Absent /\ tree[p] # index[p]}
ZoneDiff(b) == {p \in Zone[b] : tree[p] # index[p]}

\* The git reset that takes the intent back takes back all that was staged in the zone.
Unstage(b) == [p \in Paths |-> IF p \in Zone[b] THEN head[p] ELSE index[p]]

-----------------------------------------------------------------------------
(* Direct builds. *)

\* BuildLoop has the lock and its queue.
Locked(b) == \E c \in Builds \ {b} : Zone[c] = Zone[b] /\ pc[c] = "direct"

\* No task, a lane without a build mode, a zone outside the target, builds disabled, no git.
Refuse(b) ==
    /\ pc[b] = "new"
    /\ Go(b, "refused")
    /\ UNCHANGED <<repoVars, before, isolatedVars, shown, hostSteps, ghostVars>>

\* The first step inside the lock.
Dirty(b) == {p \in Zone[b] : Status(p) \notin {Clean, Untracked}}
Snapshot(b) == before' = [before EXCEPT ![b] = Porcelain]
Enter(b, confirmDirty) ==
    /\ pc[b] = "new"
    /\ ~Locked(b)
    /\ Snapshot(b)
    /\ Go(b, IF Dirty(b) # {} /\ ~confirmDirty THEN "refused" ELSE "direct")
    /\ edited' = [edited EXCEPT ![b] = {}] /\ staged' = [staged EXCEPT ![b] = {}]
    /\ UNCHANGED <<repoVars, isolatedVars, shown, hostSteps, wrote, usedGit, mine>>

Changed(b) == {p \in Paths : Status(p) # Clean /\ Status(p) # before[b][p]}
ViolationsUntracked(b) == {p \in Changed(b) \ Zone[b] : Status(p) = Untracked}
Violations(b) == Changed(b) \ Zone[b]

\* _zone_artifacts: reported by path and left out of the diff.
Artifacts(b) == {p \in Changed(b) \cap Zone[b] \cap Binary : tree[p] # Absent}

\* The delegate returned, whether or not it succeeded.
Reject(b) ==
    /\ pc[b] = "direct"
    /\ Violations(b) # {}
    /\ tree' = RevertZone(b)
    /\ Edits(b, {p \in Paths : tree'[p] # tree[p]})
    /\ Go(b, "rejected")
    /\ UNCHANGED <<head, index, before, isolatedVars, shown, hostSteps, wrote, usedGit, mine>>

Accept(b) ==
    /\ pc[b] = "direct"
    /\ Violations(b) = {}
    /\ shown' = [shown EXCEPT ![b] = (ZoneDiff(b) \ Artifacts(b)) \cup Artifacts(b)]
    /\ index' = Unstage(b)
    /\ Stages(b, {p \in Paths : index'[p] # index[p]})
    /\ Go(b, "accepted")
    /\ UNCHANGED <<head, tree, before, isolatedVars, hostSteps, wrote, usedGit, mine>>

-----------------------------------------------------------------------------
(* Isolated builds. *)

\* git worktree add; then the architect, if there is one, or the editor.
AddWorktree(b) ==
    /\ pc[b] = "new"
    /\ base' = [base EXCEPT ![b] = head]
    /\ wt' = [wt EXCEPT ![b] = head]
    /\ onDisk' = onDisk \cup {b}
    /\ Go(b, "planning") \/ Go(b, "isolated")
    /\ UNCHANGED <<repoVars, before, shown, hostSteps, ghostVars>>

\* The plan is there, or the architect failed and the editor builds alone.
Planned(b) ==
    /\ pc[b] = "planning"
    /\ Go(b, "isolated")
    /\ UNCHANGED <<repoVars, before, isolatedVars, shown, hostSteps, ghostVars>>

\* The finally clause.
DiscardUncut(b) ==
    IF Keep \/ pc'[b] = "cancelled" THEN UNCHANGED isolatedVars
    ELSE /\ onDisk' = onDisk \ {b}
         /\ base' = [base EXCEPT ![b] = NoFiles] /\ wt' = [wt EXCEPT ![b] = NoFiles]
Discard(b) ==
    IF Keep THEN UNCHANGED isolatedVars
    ELSE /\ onDisk' = onDisk \ {b}
         /\ base' = [base EXCEPT ![b] = NoFiles] /\ wt' = [wt EXCEPT ![b] = NoFiles]

WorktreeDiff(b) == {p \in Paths : wt[b][p] # base[b][p]}

\* git apply takes a patch whole or not at all; it asks of every file that it is as it was.
Applies(b) == \A p \in WorktreeDiff(b) : tree[p] = base[b][p]

Report(b, apply) ==
    LET applied == apply /\ WorktreeDiff(b) # {} /\ Applies(b)
        patched == [p \in Paths |-> IF p \in WorktreeDiff(b) THEN wt[b][p] ELSE tree[p]]
    IN /\ pc[b] = "isolated"
       /\ Go(b, IF applied THEN "applied" ELSE "reported")
       /\ Discard(b)
       /\ IF applied
          THEN /\ tree' = patched
               /\ Edits(b, WorktreeDiff(b))
               /\ mine' = [p \in Paths |-> IF p \in WorktreeDiff(b) /\ tree[p] = base[b][p]
                                           THEN wt[b][p] ELSE mine[p]]
          ELSE UNCHANGED <<tree, edited, staged, mine>>
       /\ UNCHANGED <<head, index, before, shown, hostSteps, wrote, usedGit>>

-----------------------------------------------------------------------------
(* Either kind. *)

\* CancelledError out of the delegate's call: nothing is checked and nothing undone.
Cancel(b) ==
    /\ pc[b] \in {"direct", "planning", "isolated"}
    /\ Go(b, "cancelled")
    /\ Discard(b)
    /\ UNCHANGED <<repoVars, before, shown, hostSteps, ghostVars>>

\* A delegate writes or deletes a file, once; one of a direct build may write anywhere.
DelegateWrites(b, p, c) ==
    \/ /\ pc[b] = "direct" /\ p \notin wrote[b] /\ Cardinality(wrote[b]) < MaxWrites
       /\ tree[p] # c
       /\ tree' = [tree EXCEPT ![p] = c]
       /\ wrote' = [wrote EXCEPT ![b] = @ \cup {p}]
       /\ Edits(b, {p})
       /\ UNCHANGED <<head, index, pc, before, isolatedVars, shown, hostSteps, usedGit, mine>>
    \/ /\ pc[b] = "isolated" /\ Cardinality(WorktreeDiff(b)) < MaxWrites
       /\ wt[b][p] # c
       /\ wt' = [wt EXCEPT ![b][p] = c]
       /\ UNCHANGED <<repoVars, pc, before, base, onDisk, shown, hostSteps, ghostVars>>

\* It runs git itself: it stages all there is, or commits it too.
DelegateUsesGit(b) ==
    \/ /\ pc[b] = "direct" /\ b \notin usedGit
       /\ usedGit' = usedGit \cup {b}
       /\ index' = tree /\ head' \in {head, tree}
       /\ Stages(b, {p \in Paths : index'[p] # index[p] \/ head'[p] # head[p]})
       /\ UNCHANGED <<tree, pc, before, isolatedVars, shown, hostSteps, wrote, mine>>
    \/ /\ pc[b] = "isolated" /\ base[b] # wt[b]
       /\ base' = [base EXCEPT ![b] = wt[b]]
       /\ UNCHANGED <<repoVars, pc, before, wt, onDisk, shown, hostSteps, ghostVars>>

\* The host edits or deletes a file, stages one, or commits what is staged.
HostActs ==
    /\ hostSteps < MaxHostSteps
    /\ hostSteps' = hostSteps + 1
    /\ \/ \E p \in Paths, c \in {Absent, Host} :
             /\ tree[p] # c
             /\ tree' = [tree EXCEPT ![p] = c]
             /\ mine' = [mine EXCEPT ![p] = c]
             /\ edited' = [b \in Builds |-> edited[b] \cup {p}]
             /\ UNCHANGED <<head, index, staged>>
       \/ \E p \in Paths :
             /\ index[p] # tree[p]
             /\ index' = [index EXCEPT ![p] = tree[p]]
             /\ staged' = [b \in Builds |-> staged[b] \cup {p}]
             /\ UNCHANGED <<head, tree, edited, mine>>
       \/ /\ head # index /\ head' = index
          /\ staged' = [b \in Builds |-> staged[b] \cup {p \in Paths : head[p] # index[p]}]
          /\ UNCHANGED <<index, tree, edited, mine>>
    /\ UNCHANGED <<pc, before, isolatedVars, shown, wrote, usedGit>>

Next ==
    \/ \E b \in Builds :
          \/ \E confirmDirty \in BOOLEAN : Enter(b, confirmDirty)
          \/ Refuse(b) \/ Reject(b) \/ Accept(b)
          \/ AddWorktree(b) \/ Planned(b)
          \/ \E apply \in BOOLEAN : Report(b, apply)
          \/ Cancel(b)
          \/ \E p \in Paths, c \in {Absent, b} : DelegateWrites(b, p, c)
          \/ DelegateUsesGit(b)
    \/ HostActs

Spec == Init /\ [][Next]_vars

-----------------------------------------------------------------------------
(* Properties. *)

\* Whatever builds, checks, reverts and applied diffs do: a file is as the host left it, unless
\* the delegate of a direct build wrote that very file, or it lies in a zone that was reverted. An
\* applied diff never lands on an edit of the host's.
HostWorkKept ==
    \A p \in Paths :
        tree[p] # mine[p] =>
            \E b \in Builds : p \in wrote[b] \/ (pc[b] = "rejected" /\ p \in Zone[b])

\* A direct build that was accepted wrote nothing outside its zone, but for files that git already
\* reported when it began, and files that somebody else edited, staged or committed meanwhile. A
\* build whose own delegate stages or commits is not spoken of.
EscapesCaught ==
    \A b \in Builds :
        pc[b] = "accepted" /\ b \notin usedGit =>
            wrote[b] \ Zone[b] \subseteq
                edited[b] \cup staged[b] \cup {p \in Paths : before[b][p] # Clean}

\* The report of a build, when it is accepted, shows the files its delegate wrote in its zone,
\* whatever the host had staged or left untracked there before. It does not show:
\*   - a file that somebody staged or committed while the delegate worked (git diff compares with
\*     the index, which then has it), nor anything of a delegate that stages or commits itself;
\*   - a file over which somebody else wrote something that git already has;
\*   - an untracked file that the delegate deleted.
AcceptedIsShown ==
    [][\A b \in Builds :
          pc[b] = "direct" /\ pc'[b] = "accepted" /\ b \notin usedGit =>
              \A p \in wrote[b] \cap Zone[b] :
                  \/ p \in shown'[b] \cup staged[b]
                  \/ p \in edited[b] /\ tree[p] # b
                  \/ before[b][p] = Untracked /\ tree[p] = Absent]_vars

\* However an isolated build ends, a cancel in either of its two calls included, its worktree goes.
WorktreesDiscarded ==
    Keep \/ \A b \in onDisk : pc[b] \in {"planning", "isolated"}

\* What the docstring says of two builds, or a build and the host, in one repository: only what
\* the delegate wrote outside its zone counts against it. The code cannot tell: a finding.
HonestBuildIsKept ==
    \A b \in Builds : pc[b] = "rejected" => wrote[b] \ Zone[b] # {}

\* What the docstring of _zone_diff says: showing a build leaves the host's index untouched. The
\* reset drops what the host had staged in the zone.
HostIndexKept ==
    [][\A b \in Builds :
          pc[b] = "direct" /\ pc'[b] = "accepted" /\ usedGit = {} => index' = index]_vars
=============================================================================
