---------------------------- MODULE DelegateProofs ----------------------------
(***************************************************************************)
(* What a delegate may leave behind: in the repository it was given        *)
(* (ZoneBuild), and among the processes of the machine (Runner).           *)
(*                                                                         *)
(* ZoneBuild, of any repository, any zones, overlapping ones included, and *)
(* any number of builds and of steps of the host. What makes the           *)
(* comparison of two git statuses meaningful is that nothing but the       *)
(* delegate of a build ever produces that build's content: before the      *)
(* build begins it is nowhere (Unseen), and a path that nobody else edited *)
(* or staged since then either is as it was, or is what its delegate made  *)
(* of it (Sound).                                                          *)
(*                                                                         *)
(* Runner, of every process group, pipe and deadline. The argument is      *)
(* about the moments the call changes hands. While arun reads, no cancel   *)
(* has arrived, and a SIGTERM can only have come from the stall guard,     *)
(* which says so (stalled). Once both pipes are at their end nobody holds  *)
(* them and everything written was read, which no later step undoes. And   *)
(* SIGTERM, when it finds the group, leaves only those deaf to it, for     *)
(* processes end and never start.                                          *)
(***************************************************************************)
EXTENDS ZoneBuild, Runner, TLAPS

-----------------------------------------------------------------------------
(* ZoneBuild. *)


\* TypeOK, and of which kind before is.
Types ==
    /\ head \in Versions /\ index \in Versions /\ tree \in Versions /\ mine \in Versions
    /\ pc \in [Builds -> {"new", "direct", "planning", "isolated"} \cup Over]
    /\ before \in [Builds -> {<<>>} \cup [Paths -> Codes \X Codes]]
    /\ \A b \in Builds : pc[b] \in {"direct", "accepted", "rejected"} => before[b] # <<>>
    /\ base \in [Builds -> Versions] /\ wt \in [Builds -> Versions]
    /\ onDisk \subseteq Builds
    /\ shown \in [Builds -> SUBSET Paths]
    /\ hostSteps \in 0..MaxHostSteps
    /\ wrote \in [Builds -> SUBSET Paths]
    /\ usedGit \subseteq Builds
    /\ edited \in [Builds -> SUBSET Paths] /\ staged \in [Builds -> SUBSET Paths]

LEMMA InitTypes == Init => Types
  BY ZoneBuildAssumption DEF Init, Types, Versions, Contents, NoFiles, Over

LEMMA GitTypes == Porcelain \in [Paths -> Codes \X Codes] /\ Porcelain # <<>>
<1>1. \A p \in Paths : Status(p) \in Codes \X Codes
  BY DEF Status, Untracked, Differ, Codes
<1>2. PICK p \in Paths : TRUE
  BY ZoneBuildAssumption
<1>3. DOMAIN Porcelain = Paths
  BY DEF Porcelain
<1>. QED  BY <1>1, <1>2, <1>3 DEF Porcelain

LEMMA Rewritten ==
  ASSUME NEW f \in Versions, NEW p \in Paths, NEW c \in Contents
  PROVE  [f EXCEPT ![p] = c] \in Versions
  BY DEF Versions

LEMMA DiscardTypes ==
  ASSUME Types, NEW b \in Builds, Discard(b)
  PROVE  /\ base' \in [Builds -> Versions] /\ wt' \in [Builds -> Versions]
         /\ onDisk' \subseteq onDisk /\ (Keep \/ b \notin onDisk')
         /\ \A c \in Builds \ {b} : wt'[c] = wt[c]
         /\ \A p \in Paths : wt'[b][p] \in {Absent, wt[b][p]}
<1>1. NoFiles \in Versions
  BY DEF NoFiles, Versions, Contents
<1>2. CASE Keep
  BY <1>2 DEF Discard, isolatedVars, Types
<1>3. CASE ~Keep
  <2>1. /\ base' \in [Builds -> Versions] /\ wt' \in [Builds -> Versions]
        /\ wt'[b] = NoFiles /\ \A c \in Builds \ {b} : wt'[c] = wt[c]
        /\ onDisk' = onDisk \ {b}
    BY <1>1, <1>3 DEF Discard, Types
  <2>. QED  BY <2>1 DEF NoFiles
<1>. QED  BY <1>2, <1>3

LEMMA StepTypes ==
  ASSUME Types, [Next]_vars
  PROVE  Types'
<1>. \A b \in Builds : b \in Contents
  BY DEF Contents
<1>1. ASSUME NEW b \in Builds, NEW confirmDirty \in BOOLEAN, Enter(b, confirmDirty)
      PROVE  Types'
  <2>1. /\ before' \in [Builds -> {<<>>} \cup [Paths -> Codes \X Codes]]
        /\ before'[b] # <<>> /\ \A c \in Builds \ {b} : before'[c] = before[c]
    BY <1>1, GitTypes DEF Enter, Snapshot, Types
  <2>2. /\ pc' \in [Builds -> {"new", "direct", "planning", "isolated"} \cup Over]
        /\ \A c \in Builds \ {b} : pc'[c] = pc[c]
    BY <1>1 DEF Enter, Go, Over, Types
  <2>. QED  BY <1>1, <2>1, <2>2 DEF Enter, repoVars, isolatedVars, Types
<1>2. ASSUME NEW b \in Builds, Refuse(b) \/ Planned(b)
      PROVE  Types'
  BY <1>2 DEF Refuse, Planned, Go, repoVars, isolatedVars, ghostVars, Over, Types
<1>3. ASSUME NEW b \in Builds, Reject(b)
      PROVE  Types'
  <2>1. tree' \in Versions
    BY <1>3 DEF Reject, RevertZone, Versions, Types
  <2>2. edited' \in [Builds -> SUBSET Paths] /\ staged' \in [Builds -> SUBSET Paths]
    BY <1>3 DEF Reject, Edits, ForOthers, Types
  <2>. QED  BY <1>3, <2>1, <2>2 DEF Reject, Go, isolatedVars, Over, Types
<1>4. ASSUME NEW b \in Builds, Accept(b)
      PROVE  Types'
  <2>1. index' \in Versions
    BY <1>4 DEF Accept, Unstage, Versions, Types
  <2>2. edited' \in [Builds -> SUBSET Paths] /\ staged' \in [Builds -> SUBSET Paths]
    BY <1>4 DEF Accept, Stages, ForOthers, Types
  <2>3. shown' \in [Builds -> SUBSET Paths]
    BY <1>4, ZoneBuildAssumption DEF Accept, ZoneDiff, Artifacts, Types
  <2>. QED  BY <1>4, <2>1, <2>2, <2>3 DEF Accept, Go, isolatedVars, Over, Types
<1>5. ASSUME NEW b \in Builds, AddWorktree(b)
      PROVE  Types'
  BY <1>5 DEF AddWorktree, Go, repoVars, ghostVars, Over, Types
<1>6. ASSUME NEW b \in Builds, NEW apply \in BOOLEAN, Report(b, apply)
      PROVE  Types'
  <2>1. /\ tree' \in Versions /\ mine' \in Versions
        /\ edited' \in [Builds -> SUBSET Paths] /\ staged' \in [Builds -> SUBSET Paths]
    <3>. DEFINE landed == {p \in Paths : p \in WorktreeDiff(b) /\ tree[p] = base[b][p]}
    <3>1. CASE UNCHANGED <<tree, edited, staged, mine>>
      BY <3>1 DEF Types
    <3>2. CASE /\ tree' = [p \in Paths |-> IF p \in WorktreeDiff(b) THEN wt[b][p] ELSE tree[p]]
               /\ Edits(b, WorktreeDiff(b))
               /\ mine' = [p \in Paths |-> IF p \in WorktreeDiff(b) /\ tree[p] = base[b][p]
                                           THEN wt[b][p] ELSE mine[p]]
      <4>1. tree' \in Versions
        <5>. wt[b] \in Versions /\ tree \in Versions
          BY DEF Types
        <5>. QED  BY <3>2 DEF Versions
      <4>2. mine' = [p \in Paths |-> IF p \in landed THEN wt[b][p] ELSE mine[p]]
        BY <3>2
      <4>3. mine' \in Versions
        <5>. wt[b] \in Versions /\ mine \in Versions
          BY DEF Types
        <5>. QED  BY <4>2 DEF Versions
      <4>4. edited' \in [Builds -> SUBSET Paths] /\ staged' \in [Builds -> SUBSET Paths]
        BY <3>2 DEF Edits, ForOthers, WorktreeDiff, Types
      <4>. QED  BY <4>1, <4>3, <4>4
    <3>. QED  BY <1>6, <3>1, <3>2 DEF Report
  <2>2. Discard(b) /\ \E l \in {"applied", "reported"} : Go(b, l)
    BY <1>6 DEF Report
  <2>. QED  BY <1>6, <2>1, <2>2, DiscardTypes DEF Report, Go, Over, Types
<1>7. ASSUME NEW b \in Builds, Cancel(b)
      PROVE  Types'
  <2>1. Discard(b) /\ Go(b, "cancelled")
    BY <1>7 DEF Cancel
  <2>. QED  BY <1>7, <2>1, DiscardTypes DEF Cancel, Go, repoVars, ghostVars, Over, Types
<1>8. ASSUME NEW b \in Builds, NEW p \in Paths, NEW c \in {Absent, b}, DelegateWrites(b, p, c)
      PROVE  Types'
  <2>. c \in Contents
    BY DEF Contents
  <2>1. CASE pc[b] = "direct"
    <3>1. /\ tree' \in Versions /\ wrote' \in [Builds -> SUBSET Paths]
          /\ edited' \in [Builds -> SUBSET Paths] /\ staged' \in [Builds -> SUBSET Paths]
      <4>1. /\ tree' = [tree EXCEPT ![p] = c] /\ Edits(b, {p})
            /\ wrote' = [wrote EXCEPT ![b] = @ \cup {p}]
        BY <1>8, <2>1 DEF DelegateWrites
      <4>2. tree' \in Versions
        BY <4>1, Rewritten DEF Types
      <4>3. edited' \in [Builds -> SUBSET Paths] /\ staged' \in [Builds -> SUBSET Paths]
        BY <4>1 DEF Edits, ForOthers, Types
      <4>. QED  BY <4>1, <4>2, <4>3 DEF Types
    <3>. QED  BY <1>8, <2>1, <3>1 DEF DelegateWrites, isolatedVars, Types
  <2>2. CASE pc[b] = "isolated"
    <3>1. wt' \in [Builds -> Versions]
      <4>1. wt' = [wt EXCEPT ![b] = [wt[b] EXCEPT ![p] = c]]
        BY <1>8, <2>2 DEF DelegateWrites
      <4>2. [wt[b] EXCEPT ![p] = c] \in Versions
        BY Rewritten DEF Types
      <4>. QED  BY <4>1, <4>2 DEF Types
    <3>. QED  BY <1>8, <2>2, <3>1 DEF DelegateWrites, repoVars, ghostVars, Types
  <2>. QED  BY <1>8, <2>1, <2>2 DEF DelegateWrites
<1>9. ASSUME NEW b \in Builds, DelegateUsesGit(b)
      PROVE  Types'
  <2>1. CASE pc[b] = "direct"
    <3>1. edited' \in [Builds -> SUBSET Paths] /\ staged' \in [Builds -> SUBSET Paths]
      BY <1>9, <2>1 DEF DelegateUsesGit, Stages, ForOthers, Types
    <3>2. head' \in Versions /\ index' \in Versions
      BY <1>9, <2>1 DEF DelegateUsesGit, Types
    <3>. QED  BY <1>9, <2>1, <3>1, <3>2 DEF DelegateUsesGit, isolatedVars, Types
  <2>2. CASE pc[b] = "isolated"
    BY <1>9, <2>2 DEF DelegateUsesGit, repoVars, ghostVars, Types
  <2>. QED  BY <1>9, <2>1, <2>2 DEF DelegateUsesGit
<1>10. ASSUME HostActs
       PROVE  Types'
  <2>1. hostSteps' \in 0..MaxHostSteps
    BY <1>10, ZoneBuildAssumption DEF HostActs, Types
  <2>2. /\ head' \in Versions /\ index' \in Versions /\ tree' \in Versions /\ mine' \in Versions
        /\ edited' \in [Builds -> SUBSET Paths] /\ staged' \in [Builds -> SUBSET Paths]
    <3>1. ASSUME NEW p \in Paths, NEW c \in {Absent, Host},
                 tree' = [tree EXCEPT ![p] = c], mine' = [mine EXCEPT ![p] = c],
                 edited' = [b \in Builds |-> edited[b] \cup {p}], UNCHANGED <<head, index, staged>>
          PROVE  /\ head' \in Versions /\ index' \in Versions /\ tree' \in Versions /\ mine' \in Versions
                 /\ edited' \in [Builds -> SUBSET Paths] /\ staged' \in [Builds -> SUBSET Paths]
      <4>1. c \in Contents
        BY DEF Contents
      <4>. QED  BY <3>1, <4>1, Rewritten DEF Types
    <3>2. ASSUME NEW p \in Paths, index' = [index EXCEPT ![p] = tree[p]],
                 staged' = [b \in Builds |-> staged[b] \cup {p}], UNCHANGED <<head, tree, edited, mine>>
          PROVE  /\ head' \in Versions /\ index' \in Versions /\ tree' \in Versions /\ mine' \in Versions
                 /\ edited' \in [Builds -> SUBSET Paths] /\ staged' \in [Builds -> SUBSET Paths]
      <4>1. tree[p] \in Contents
        BY DEF Types, Versions
      <4>. QED  BY <3>2, <4>1, Rewritten DEF Types
    <3>3. ASSUME head' = index, UNCHANGED <<index, tree, edited, mine>>,
                 staged' = [b \in Builds |-> staged[b] \cup {p \in Paths : head[p] # index[p]}]
          PROVE  /\ head' \in Versions /\ index' \in Versions /\ tree' \in Versions /\ mine' \in Versions
                 /\ edited' \in [Builds -> SUBSET Paths] /\ staged' \in [Builds -> SUBSET Paths]
      BY <3>3 DEF Types
    <3>. QED  BY <1>10, <3>1, <3>2, <3>3 DEF HostActs
  <2>. QED  BY <1>10, <2>1, <2>2 DEF HostActs, isolatedVars, Types
<1>11. CASE UNCHANGED vars
  BY <1>11 DEF vars, repoVars, isolatedVars, ghostVars, Types
<1>. QED  BY <1>1, <1>2, <1>3, <1>4, <1>5, <1>6, <1>7, <1>8, <1>9, <1>10, <1>11 DEF Next

LEMMA TypesAlways == Spec => []Types
  BY InitTypes, StepTypes, PTL DEF Spec

\* Of every repository, its builds and their worktrees: TypeOK.
THEOREM Typing == Spec => []TypeOK
<1>1. Types => TypeOK
  BY DEF Types, TypeOK
<1>. QED  BY <1>1, TypesAlways, PTL
-----------------------------------------------------------------------------
(* Where the content of a build can be. *)

Unseen ==
    \A b \in Builds : pc[b] = "new" =>
        /\ wrote[b] = {}
        /\ \A p \in Paths : head[p] # b /\ index[p] # b /\ tree[p] # b
        /\ \A c \in Builds, p \in Paths : wt[c][p] # b

LEMMA InitUnseen == Init => Unseen
  BY ZoneBuildAssumption DEF Init, Unseen, NoFiles

LEMMA UnseenStep ==
  ASSUME Types, Unseen, [Next]_vars
  PROVE  Unseen'
<1>1. ASSUME NEW c \in Builds, NEW confirmDirty \in BOOLEAN, Enter(c, confirmDirty)
      PROVE  Unseen'
  BY <1>1 DEF Enter, Go, repoVars, isolatedVars, Types, Unseen
<1>2. ASSUME NEW c \in Builds, Refuse(c) \/ Planned(c)
      PROVE  Unseen'
  BY <1>2 DEF Refuse, Planned, Go, repoVars, isolatedVars, ghostVars, Types, Unseen
<1>3. ASSUME NEW c \in Builds, Reject(c)
      PROVE  Unseen'
  BY <1>3 DEF Reject, RevertZone, Go, isolatedVars, Types, Unseen
<1>4. ASSUME NEW c \in Builds, Accept(c)
      PROVE  Unseen'
  BY <1>4 DEF Accept, Unstage, Go, isolatedVars, Types, Unseen
<1>5. ASSUME NEW c \in Builds, AddWorktree(c)
      PROVE  Unseen'
  BY <1>5 DEF AddWorktree, Go, repoVars, ghostVars, Types, Unseen
<1>6. ASSUME NEW c \in Builds, NEW apply \in BOOLEAN, Report(c, apply)
      PROVE  Unseen'
  <2>1. /\ \A b \in Builds : pc'[b] = "new" => pc[b] = "new"
        /\ UNCHANGED <<head, index, wrote>>
    BY <1>6 DEF Report, Go, Types
  <2>2. \A p \in Paths : tree'[p] \in {tree[p], wt[c][p]}
    BY <1>6 DEF Report
  <2>3. \A d \in Builds, p \in Paths : wt'[d][p] \in {Absent, wt[d][p]}
    BY <1>6, DiscardTypes DEF Report
  <2>4. \A b \in Builds : b # Absent
    BY ZoneBuildAssumption
  <2>. QED  BY <2>1, <2>2, <2>3, <2>4 DEF Unseen
<1>7. ASSUME NEW c \in Builds, Cancel(c)
      PROVE  Unseen'
  <2>1. /\ \A b \in Builds : pc'[b] = "new" => pc[b] = "new"
        /\ UNCHANGED <<head, index, tree, wrote>>
    BY <1>7 DEF Cancel, Go, repoVars, ghostVars, Types
  <2>2. \A d \in Builds, p \in Paths : wt'[d][p] \in {Absent, wt[d][p]}
    BY <1>7, DiscardTypes DEF Cancel
  <2>3. \A b \in Builds : b # Absent
    BY ZoneBuildAssumption
  <2>. QED  BY <2>1, <2>2, <2>3 DEF Unseen
<1>8. ASSUME NEW c \in Builds, NEW q \in Paths, NEW w \in {Absent, c}, DelegateWrites(c, q, w)
      PROVE  Unseen'
  <2>1. /\ pc' = pc /\ pc[c] # "new" /\ UNCHANGED <<head, index>>
        /\ \A b \in Builds \ {c} : wrote'[b] = wrote[b]
    BY <1>8 DEF DelegateWrites, repoVars, ghostVars, Types
  <2>2. \A p \in Paths : tree'[p] \in {tree[p], w}
    BY <1>8 DEF DelegateWrites, repoVars, Types, Versions
  <2>3. \A d \in Builds, p \in Paths : wt'[d][p] \in {wt[d][p], w}
    <3>1. CASE wt' = wt
      BY <3>1
    <3>2. CASE wt' = [wt EXCEPT ![c] = [wt[c] EXCEPT ![q] = w]]
      <4>. wt \in [Builds -> Versions] /\ wt[c] \in [Paths -> Contents]
        BY DEF Types, Versions
      <4>1. wt'[c] = [wt[c] EXCEPT ![q] = w] /\ \A d \in Builds \ {c} : wt'[d] = wt[d]
        BY <3>2
      <4>2. \A p \in Paths : wt'[c][p] \in {wt[c][p], w}
        BY <4>1
      <4>. QED  BY <4>1, <4>2
    <3>. QED  BY <1>8, <3>1, <3>2 DEF DelegateWrites, isolatedVars
  <2>4. \A b \in Builds \ {c} : b # w
    BY ZoneBuildAssumption
  <2>. QED  BY <2>1, <2>2, <2>3, <2>4 DEF Unseen
<1>9. ASSUME NEW c \in Builds, DelegateUsesGit(c)
      PROVE  Unseen'
  BY <1>9 DEF DelegateUsesGit, repoVars, isolatedVars, ghostVars, Types, Unseen
<1>10. ASSUME HostActs
       PROVE  Unseen'
  <2>1. UNCHANGED <<pc, wt, wrote>>
    BY <1>10 DEF HostActs, isolatedVars
  <2>2. \A p \in Paths : /\ head'[p] \in {head[p], index[p]} /\ index'[p] \in {index[p], tree[p]}
                         /\ tree'[p] \in {tree[p], Absent, Host}
    BY <1>10 DEF HostActs, Types, Versions
  <2>3. \A b \in Builds : b # Absent /\ b # Host
    BY ZoneBuildAssumption
  <2>. QED  BY <2>1, <2>2, <2>3 DEF Unseen
<1>11. CASE UNCHANGED vars
  BY <1>11 DEF vars, repoVars, isolatedVars, ghostVars, Unseen
<1>. QED  BY <1>1, <1>2, <1>3, <1>4, <1>5, <1>6, <1>7, <1>8, <1>9, <1>10, <1>11 DEF Next

-----------------------------------------------------------------------------
(* What a step of somebody else does to a build. *)

Aside(b) ==
    /\ pc'[b] = pc[b] /\ before'[b] = before[b] /\ wrote'[b] = wrote[b] /\ shown'[b] = shown[b]
    /\ b \in usedGit' <=> b \in usedGit
    /\ edited[b] \subseteq edited'[b] /\ staged[b] \subseteq staged'[b]
    /\ \A p \in Paths \ edited'[b] : tree'[p] = tree[p]
    /\ \A p \in Paths \ staged'[b] : head'[p] = head[p] /\ index'[p] = index[p]

BuildStep(c) ==
    \/ \E confirmDirty \in BOOLEAN : Enter(c, confirmDirty)
    \/ Refuse(c) \/ Reject(c) \/ Accept(c)
    \/ AddWorktree(c) \/ Planned(c)
    \/ \E apply \in BOOLEAN : Report(c, apply)
    \/ Cancel(c)
    \/ \E p \in Paths, w \in {Absent, c} : DelegateWrites(c, p, w)

LEMMA OthersStandAside ==
  ASSUME Types, NEW b \in Builds, NEW c \in Builds \ {b}, BuildStep(c) \/ DelegateUsesGit(c)
  PROVE  Aside(b)
<1>1. ASSUME NEW confirmDirty \in BOOLEAN, Enter(c, confirmDirty)
      PROVE  Aside(b)
  BY <1>1 DEF Enter, Snapshot, Go, repoVars, Types, Aside
<1>2. CASE Refuse(c) \/ Planned(c) \/ AddWorktree(c)
  BY <1>2 DEF Refuse, Planned, AddWorktree, Go, repoVars, ghostVars, Types, Aside
<1>3. CASE Reject(c)
  BY <1>3 DEF Reject, Edits, ForOthers, Go, Types, Aside
<1>4. CASE Accept(c)
  BY <1>4 DEF Accept, Stages, ForOthers, Go, Types, Aside
<1>5. ASSUME NEW apply \in BOOLEAN, Report(c, apply)
      PROVE  Aside(b)
  <2>1. pc'[b] = pc[b] /\ UNCHANGED <<head, index, before, shown, wrote, usedGit, staged>>
    BY <1>5 DEF Report, Edits, Go, Types
  <2>2. edited[b] \subseteq edited'[b] /\ \A p \in Paths \ edited'[b] : tree'[p] = tree[p]
    BY <1>5 DEF Report, Edits, ForOthers, Types
  <2>. QED  BY <2>1, <2>2 DEF Aside
<1>6. CASE Cancel(c)
  BY <1>6 DEF Cancel, Go, repoVars, ghostVars, Types, Aside
<1>7. ASSUME NEW q \in Paths, NEW w \in {Absent, c}, DelegateWrites(c, q, w)
      PROVE  Aside(b)
  BY <1>7 DEF DelegateWrites, Edits, ForOthers, repoVars, ghostVars, Types, Versions, Aside
<1>8. CASE DelegateUsesGit(c)
  BY <1>8 DEF DelegateUsesGit, Stages, ForOthers, repoVars, ghostVars, Types, Aside
<1>. QED  BY <1>1, <1>2, <1>3, <1>4, <1>5, <1>6, <1>7, <1>8 DEF BuildStep

LEMMA HostStandsAside ==
  ASSUME Types, HostActs, NEW b \in Builds
  PROVE  Aside(b)
  BY DEF HostActs, Types, Versions, Aside

-----------------------------------------------------------------------------
(* A path that nobody but the delegate of a build changed since the build began. *)

AsItWas(b, p) ==
    /\ Status(p) = before[b][p]
    /\ head[p] # b /\ index[p] # b /\ tree[p] # b

Made(b, p) ==
    /\ head[p] # b /\ index[p] # b /\ tree[p] \in {Absent, b}
    /\ before[b][p] = Clean => head[p] = index[p] /\ tree[p] # index[p]
    /\ tree[p] = index[p] => before[b][p] = Untracked /\ tree[p] = Absent

\* Of a build whose delegate leaves git alone.
Sound(b) ==
    b \notin usedGit =>
        /\ pc[b] = "direct" =>
              \A p \in Paths \ staged[b] :
                  /\ index[p] # b
                  /\ p \notin edited[b] => IF p \in wrote[b] THEN Made(b, p) ELSE AsItWas(b, p)
        /\ pc[b] = "accepted" =>
              wrote[b] \ Zone[b] \subseteq
                  edited[b] \cup staged[b] \cup {p \in Paths : before[b][p] # Clean}

Traces == \A b \in Builds : Sound(b)

LEMMA InitTraces == Init => Traces
  BY DEF Init, Traces, Sound

\* What was so of a build stays so when others act.
LEMMA AsideIsSound ==
  ASSUME Types, NEW b \in Builds, Aside(b), Sound(b)
  PROVE  Sound(b)'
<1>1. \A p \in (Paths \ staged'[b]) \ edited'[b] :
          p \notin staged[b] /\ p \notin edited[b] /\ Status(p)' = Status(p)
  BY DEF Aside, Status
<1>2. ASSUME b \notin usedGit', pc'[b] = "direct", NEW p \in Paths \ staged'[b]
      PROVE  /\ index'[p] # b
             /\ p \notin edited'[b] => IF p \in wrote'[b] THEN Made(b, p)' ELSE AsItWas(b, p)'
  <2>1. index'[p] # b
    BY <1>2 DEF Aside, Sound
  <2>2. ASSUME p \notin edited'[b]
        PROVE  IF p \in wrote'[b] THEN Made(b, p)' ELSE AsItWas(b, p)'
    BY <1>1, <1>2, <2>2 DEF Aside, Sound, Made, AsItWas
  <2>. QED  BY <2>1, <2>2
<1>3. b \notin usedGit' /\ pc'[b] = "accepted" =>
          wrote'[b] \ Zone[b] \subseteq edited'[b] \cup staged'[b] \cup {p \in Paths : before'[b][p] # Clean}
  BY DEF Aside, Sound
<1>. QED  BY <1>2, <1>3 DEF Sound

LEMMA EnterIsSound ==
  ASSUME Types, Unseen, NEW b \in Builds, NEW confirmDirty \in BOOLEAN, Enter(b, confirmDirty)
  PROVE  Sound(b)'
<1>1. wrote'[b] = {} /\ \A p \in Paths : head'[p] # b /\ index'[p] # b /\ tree'[p] # b
  BY DEF Enter, repoVars, Unseen
<1>2. \A p \in Paths : Status(p)' = Status(p) /\ before'[b][p] = Status(p)
  BY DEF Enter, Snapshot, Porcelain, Status, repoVars, Types
<1>3. pc'[b] # "accepted"
  BY DEF Enter, Go, Types
<1>. QED  BY <1>1, <1>2, <1>3 DEF Sound, AsItWas

LEMMA WriteIsSound ==
  ASSUME Types, NEW b \in Builds, NEW q \in Paths, NEW c \in {Absent, b}, DelegateWrites(b, q, c), Sound(b)
  PROVE  Sound(b)'
<1>1. CASE pc[b] = "direct" /\ b \notin usedGit
  <2>1. /\ tree' = [tree EXCEPT ![q] = c] /\ wrote'[b] = wrote[b] \cup {q} /\ tree[q] # c /\ q \notin wrote[b]
        /\ edited'[b] = edited[b] /\ UNCHANGED <<head, index, staged, before, pc, usedGit>>
    BY <1>1 DEF DelegateWrites, Edits, ForOthers, Types
  <2>2. tree'[q] = c /\ \A p \in Paths \ {q} : tree'[p] = tree[p] /\ Status(p)' = Status(p)
    BY <2>1 DEF Types, Versions, Status
  <2>3. ASSUME q \notin edited[b], q \notin staged[b]
        PROVE  Made(b, q)'
    <3>1. AsItWas(b, q)
      BY <1>1, <2>1, <2>3 DEF Sound
    <3>2. head'[q] # b /\ index'[q] # b /\ tree'[q] \in {Absent, b}
      BY <2>1, <2>2, <3>1 DEF AsItWas
    <3>3. before'[b][q] = Clean => head'[q] = index'[q] /\ tree'[q] # index'[q]
      <4>1. ASSUME Status(q) = Clean
            PROVE  head[q] = index[q] /\ index[q] = tree[q]
        <5>1. ~(index[q] = Absent /\ tree[q] # Absent)
          BY <4>1 DEF Status, Clean, Untracked
        <5>2. Differ(head[q], index[q]) = " " /\ Differ(index[q], tree[q]) = " "
          BY <4>1, <5>1 DEF Status, Clean
        <5>. QED  BY <5>2 DEF Differ
      <4>. QED  BY <2>1, <2>2, <3>1, <4>1 DEF AsItWas
    <3>4. tree'[q] = index'[q] => before'[b][q] = Untracked /\ tree'[q] = Absent
      BY <2>1, <2>2, <3>1, <3>2 DEF AsItWas, Status
    <3>. QED  BY <3>2, <3>3, <3>4 DEF Made
  <2>4. ASSUME NEW p \in Paths \ staged'[b], p \notin edited'[b]
        PROVE  IF p \in wrote'[b] THEN Made(b, p)' ELSE AsItWas(b, p)'
    <3>1. CASE p = q
      BY <2>1, <2>3, <2>4, <3>1
    <3>2. CASE p # q
      BY <1>1, <2>1, <2>2, <2>4, <3>2 DEF Sound, Made, AsItWas
    <3>. QED  BY <3>1, <3>2
  <2>5. \A p \in Paths \ staged'[b] : index'[p] # b
    BY <1>1, <2>1 DEF Sound
  <2>. QED  BY <1>1, <2>1, <2>4, <2>5 DEF Sound
<1>2. CASE pc[b] = "direct" /\ b \in usedGit
  BY <1>2 DEF DelegateWrites, Sound
<1>3. CASE pc[b] # "direct"
  BY <1>3 DEF DelegateWrites, Sound
<1>. QED  BY <1>1, <1>2, <1>3

\* What Accept compares and shows.
LEMMA AcceptMeans ==
  ASSUME Types, NEW b \in Builds, Accept(b), Sound(b), b \notin usedGit, NEW p \in wrote[b], p \notin staged[b]
  PROVE  /\ p \notin Zone[b] /\ p \notin edited[b] => before[b][p] # Clean
         /\ p \in Zone[b] => \/ p \in shown'[b]
                             \/ p \in edited[b] /\ tree[p] # b
                             \/ before[b][p] = Untracked /\ tree[p] = Absent
<1>1. pc[b] = "direct" /\ ZoneDiff(b) \subseteq shown'[b]
  BY DEF Accept, Types
<1>2. /\ p \in Paths /\ index[p] # b
      /\ p \notin edited[b] => Made(b, p)
  BY <1>1 DEF Sound, Types
<1>3. ASSUME p \notin Zone[b], p \notin edited[b]
      PROVE  before[b][p] # Clean
  <2>1. Status(p) = Clean \/ Status(p) = before[b][p]
    BY <1>2, <1>3 DEF Accept, Violations, Changed
  <2>2. Status(p) = Clean => tree[p] = index[p]
    BY DEF Status, Clean, Untracked, Differ
  <2>. QED  BY <1>2, <1>3, <2>1, <2>2 DEF Made, Clean, Untracked
<1>4. ASSUME p \in Zone[b], p \notin shown'[b]
      PROVE  \/ p \in edited[b] /\ tree[p] # b
             \/ before[b][p] = Untracked /\ tree[p] = Absent
  <2>1. tree[p] = index[p]
    BY <1>1, <1>2, <1>4 DEF ZoneDiff
  <2>. QED  BY <1>2, <2>1 DEF Made
<1>. QED  BY <1>3, <1>4

LEMMA AcceptIsSound ==
  ASSUME Types, NEW b \in Builds, Accept(b), Sound(b)
  PROVE  Sound(b)'
<1>1. /\ pc'[b] = "accepted" /\ usedGit' = usedGit /\ before' = before
      /\ wrote'[b] = wrote[b] /\ edited'[b] = edited[b] /\ staged'[b] = staged[b]
  BY DEF Accept, Go, Stages, ForOthers, Types
<1>2. b \notin usedGit => \A p \in wrote[b] \ staged[b] : p \notin Zone[b] /\ p \notin edited[b] => before[b][p] # Clean
  BY AcceptMeans
<1>. QED  BY <1>1, <1>2 DEF Sound, Types

\* The other steps of a build leave it neither running nor accepted.
LEMMA EndIsSound ==
  ASSUME Types, NEW b \in Builds,
         \/ Refuse(b) \/ Reject(b) \/ AddWorktree(b) \/ Planned(b) \/ Cancel(b)
         \/ \E apply \in BOOLEAN : Report(b, apply)
  PROVE  Sound(b)'
<1>1. pc'[b] \notin {"direct", "accepted"}
  BY DEF Refuse, Reject, AddWorktree, Planned, Cancel, Report, Go, Types
<1>. QED  BY <1>1 DEF Sound

LEMMA OwnGitIsSound ==
  ASSUME Types, NEW b \in Builds, DelegateUsesGit(b), Sound(b)
  PROVE  Sound(b)'
<1>1. CASE pc[b] = "direct"
  BY <1>1 DEF DelegateUsesGit, Sound
<1>2. CASE pc[b] # "direct"
  BY <1>2 DEF DelegateUsesGit, ghostVars, Sound
<1>. QED  BY <1>1, <1>2

LEMMA TracesStep ==
  ASSUME Types, Unseen, Traces, [Next]_vars
  PROVE  Traces'
<1>. SUFFICES ASSUME NEW b \in Builds
              PROVE  Sound(b)'
  BY DEF Traces
<1>. Sound(b)
  BY DEF Traces
<1>1. ASSUME NEW c \in Builds, BuildStep(c) \/ DelegateUsesGit(c)
      PROVE  Sound(b)'
  <2>1. CASE c # b
    BY <1>1, <2>1, OthersStandAside, AsideIsSound
  <2>2. CASE c = b
    <3>1. CASE \E confirmDirty \in BOOLEAN : Enter(b, confirmDirty)
      BY <3>1, EnterIsSound
    <3>2. CASE Accept(b)
      BY <3>2, AcceptIsSound
    <3>3. CASE \E p \in Paths, w \in {Absent, b} : DelegateWrites(b, p, w)
      BY <3>3, WriteIsSound
    <3>4. CASE DelegateUsesGit(b)
      BY <3>4, OwnGitIsSound
    <3>. QED  BY <1>1, <2>2, <3>1, <3>2, <3>3, <3>4, EndIsSound DEF BuildStep
  <2>. QED  BY <2>1, <2>2
<1>2. CASE HostActs
  BY <1>2, HostStandsAside, AsideIsSound
<1>3. CASE UNCHANGED vars
  <2>1. Aside(b)
    BY <1>3 DEF vars, repoVars, ghostVars, Aside
  <2>. QED  BY <2>1, AsideIsSound
<1>. QED  BY <1>1, <1>2, <1>3 DEF Next, BuildStep

LEMMA TracesAlways == Spec => []Traces
<1>1. Init => Unseen /\ Traces
  BY InitUnseen, InitTraces
<1>2. Types /\ Unseen /\ Traces /\ [Next]_vars => (Unseen /\ Traces)'
  BY UnseenStep, TracesStep
<1>. QED  BY <1>1, <1>2, TypesAlways, PTL DEF Spec

\* What a delegate wrote outside its zone does not pass (_zone_violations), but on paths that git
\* already reported or somebody else changed meanwhile, for any zones, any other builds, and a host
\* that edits, stages and commits all the while: EscapesCaught.
THEOREM EscapesAreCaught == Spec => []EscapesCaught
<1>1. Traces => EscapesCaught
  BY DEF Traces, Sound, EscapesCaught
<1>. QED  BY <1>1, TracesAlways, PTL

\* A file that a delegate wrote in its zone is in the report of the build (_zone_diff,
\* _zone_artifacts) unless somebody staged it meanwhile, or wrote over it, or it was untracked and
\* is gone: AcceptedIsShown, of every build whose delegate leaves git alone.
THEOREM AcceptedAreShown == Spec => AcceptedIsShown
<1>. DEFINE Shows(b) ==
        pc[b] = "direct" /\ pc'[b] = "accepted" /\ b \notin usedGit =>
            \A p \in wrote[b] \cap Zone[b] :
                \/ p \in shown'[b] \cup staged[b]
                \/ p \in edited[b] /\ tree[p] # b
                \/ before[b][p] = Untracked /\ tree[p] = Absent
<1>1. ASSUME Types, Traces, [Next]_vars, NEW b \in Builds
      PROVE  Shows(b)
  <2>. SUFFICES ASSUME pc[b] = "direct", pc'[b] = "accepted", b \notin usedGit
                PROVE  Shows(b)
    OBVIOUS
  <2>1. Accept(b)
    <3>1. ASSUME NEW c \in Builds \ {b}, BuildStep(c) \/ DelegateUsesGit(c)
          PROVE  FALSE
      BY <1>1, <3>1, OthersStandAside DEF Aside
    <3>2. ~HostActs /\ ~UNCHANGED vars
      BY DEF HostActs, vars
    <3>3. ~DelegateUsesGit(b) /\ ~\E p \in Paths, w \in {Absent, b} : DelegateWrites(b, p, w)
      BY DEF DelegateUsesGit, DelegateWrites
    <3>4. ~\E confirmDirty \in BOOLEAN : Enter(b, confirmDirty)
      BY DEF Enter
    <3>5. /\ ~Refuse(b) /\ ~AddWorktree(b) /\ ~Planned(b) /\ ~\E apply \in BOOLEAN : Report(b, apply)
      BY DEF Refuse, AddWorktree, Planned, Report
    <3>6. ~Reject(b) /\ ~Cancel(b)
      BY <1>1 DEF Reject, Cancel, Go, Types
    <3>. QED  BY <1>1, <3>1, <3>2, <3>3, <3>4, <3>5, <3>6 DEF Next, BuildStep
  <2>. QED  BY <1>1, <2>1, AcceptMeans DEF Traces
<1>2. Types /\ Traces /\ [Next]_vars => [\A b \in Builds : Shows(b)]_vars
  BY <1>1
<1>. QED  BY <1>2, TypesAlways, TracesAlways, PTL DEF Spec, AcceptedIsShown

-----------------------------------------------------------------------------
(* The host's work, and the worktrees. *)

LEMMA HostWorkStep ==
  ASSUME Types, HostWorkKept, [Next]_vars
  PROVE  HostWorkKept'
<1>. DEFINE Excused(p) == \E b \in Builds : p \in wrote[b] \/ (pc[b] = "rejected" /\ p \in Zone[b])
<1>1. ASSUME NEW c \in Builds, BuildStep(c) \/ DelegateUsesGit(c)
      PROVE  \A p \in Paths : Excused(p) => Excused(p)'
  <2>. USE DEF Types
  <2>1. \A b \in Builds : wrote[b] \subseteq wrote'[b]
    <3>1. CASE \E p \in Paths, w \in {Absent, c} : DelegateWrites(c, p, w)
      <4>1. PICK p \in Paths, w \in {Absent, c} : DelegateWrites(c, p, w)
        BY <3>1
      <4>2. wrote' = wrote \/ wrote' = [wrote EXCEPT ![c] = @ \cup {p}]
        BY <4>1 DEF DelegateWrites, ghostVars
      <4>3. wrote \in [Builds -> SUBSET Paths]
        OBVIOUS
      <4>. QED  BY <4>2, <4>3
    <3>2. CASE (\E confirmDirty \in BOOLEAN : Enter(c, confirmDirty)) \/ Refuse(c) \/ Reject(c) \/ Accept(c)
      BY <3>2 DEF Enter, Refuse, Reject, Accept, ghostVars
    <3>3. CASE AddWorktree(c) \/ Planned(c) \/ Cancel(c) \/ DelegateUsesGit(c)
      BY <3>3 DEF AddWorktree, Planned, Cancel, DelegateUsesGit, ghostVars
    <3>4. CASE \E apply \in BOOLEAN : Report(c, apply)
      BY <3>4 DEF Report, ghostVars
    <3>. QED  BY <1>1, <3>1, <3>2, <3>3, <3>4 DEF BuildStep
  <2>2. \A b \in Builds : pc[b] = "rejected" => pc'[b] = "rejected"
    <3>1. CASE (\E p \in Paths, w \in {Absent, c} : DelegateWrites(c, p, w)) \/ DelegateUsesGit(c)
      BY <3>1 DEF DelegateWrites, DelegateUsesGit
    <3>2. CASE (\E confirmDirty \in BOOLEAN : Enter(c, confirmDirty)) \/ Refuse(c) \/ Reject(c) \/ Accept(c)
      BY <3>2 DEF Enter, Refuse, Reject, Accept, Go
    <3>3. CASE AddWorktree(c) \/ Planned(c) \/ Cancel(c)
      BY <3>3 DEF AddWorktree, Planned, Cancel, Go
    <3>4. CASE \E apply \in BOOLEAN : Report(c, apply)
      BY <3>4 DEF Report, Go
    <3>. QED  BY <1>1, <3>1, <3>2, <3>3, <3>4 DEF BuildStep
  <2>. QED  BY <2>1, <2>2
<1>2. ASSUME NEW c \in Builds, BuildStep(c) \/ DelegateUsesGit(c), NEW p \in Paths, tree'[p] # tree[p] \/ mine'[p] # mine[p]
      PROVE  tree'[p] = mine'[p] \/ Excused(p)'
  <2>1. CASE Reject(c)
    BY <1>2, <2>1 DEF Reject, RevertZone, Go, Types
  <2>2. CASE \E q \in Paths, w \in {Absent, c} : DelegateWrites(c, q, w)
    BY <1>2, <2>2 DEF DelegateWrites, repoVars, ghostVars, Types, Versions
  <2>3. CASE \E apply \in BOOLEAN : Report(c, apply)
    BY <1>2, <2>3 DEF Report, Applies
  <2>. QED
    BY <1>2, <2>1, <2>2, <2>3
       DEF BuildStep, Enter, Refuse, Accept, AddWorktree, Planned, Cancel, DelegateUsesGit, repoVars, ghostVars
<1>3. ASSUME NEW c \in Builds, BuildStep(c) \/ DelegateUsesGit(c)
      PROVE  HostWorkKept'
  BY <1>1, <1>2, <1>3 DEF HostWorkKept
<1>4. CASE HostActs
  <2>1. UNCHANGED <<pc, wrote>>
    BY <1>4 DEF HostActs
  <2>2. \A p \in Paths : \/ tree'[p] = tree[p] /\ mine'[p] = mine[p]
                         \/ tree'[p] = mine'[p]
    BY <1>4 DEF HostActs, Types, Versions
  <2>. QED  BY <2>1, <2>2 DEF HostWorkKept
<1>5. CASE UNCHANGED vars
  BY <1>5 DEF vars, repoVars, ghostVars, HostWorkKept
<1>. QED  BY <1>3, <1>4, <1>5 DEF Next, BuildStep

\* No build, revert or applied diff changes a file of the host's but where the delegate of a direct
\* build wrote, or a zone was reverted: HostWorkKept.
THEOREM HostWorkIsKept == Spec => []HostWorkKept
<1>1. Init => HostWorkKept
  BY DEF Init, HostWorkKept
<1>. QED  BY <1>1, HostWorkStep, TypesAlways, PTL DEF Spec

\* The finally clause of ask_build_isolated reaches every way a build can end: WorktreesDiscarded.
THEOREM WorktreesAreDiscarded == Spec => []WorktreesDiscarded
<1>1. Init => WorktreesDiscarded
  BY DEF Init, WorktreesDiscarded
<1>2. ASSUME Types, WorktreesDiscarded, [Next]_vars
      PROVE  WorktreesDiscarded'
  <2>1. ASSUME NEW c \in Builds, BuildStep(c) \/ DelegateUsesGit(c)
        PROVE  \A b \in Builds \ {c} : pc'[b] = pc[b]
    <3>. USE <1>2 DEF Types
    <3>1. CASE (\E p \in Paths, w \in {Absent, c} : DelegateWrites(c, p, w)) \/ DelegateUsesGit(c)
      BY <3>1 DEF DelegateWrites, DelegateUsesGit
    <3>2. CASE (\E confirmDirty \in BOOLEAN : Enter(c, confirmDirty)) \/ Refuse(c) \/ Reject(c) \/ Accept(c)
      BY <3>2 DEF Enter, Refuse, Reject, Accept, Go
    <3>3. CASE AddWorktree(c) \/ Planned(c) \/ Cancel(c)
      BY <3>3 DEF AddWorktree, Planned, Cancel, Go
    <3>4. CASE \E apply \in BOOLEAN : Report(c, apply)
      BY <3>4 DEF Report, Go
    <3>. QED  BY <2>1, <3>1, <3>2, <3>3, <3>4 DEF BuildStep
  <2>2. ASSUME NEW c \in Builds, Cancel(c) \/ \E apply \in BOOLEAN : Report(c, apply)
        PROVE  WorktreesDiscarded'
    <3>1. onDisk' \subseteq onDisk /\ (Keep \/ c \notin onDisk')
      BY <1>2, <2>2, DiscardTypes DEF Cancel, Report
    <3>2. \A b \in Builds \ {c} : pc'[b] = pc[b]
      BY <2>1, <2>2 DEF BuildStep
    <3>. QED  BY <1>2, <3>1, <3>2 DEF WorktreesDiscarded, Types
  <2>3. ASSUME NEW c \in Builds, AddWorktree(c)
        PROVE  WorktreesDiscarded'
    <3>1. onDisk' = onDisk \cup {c} /\ pc'[c] \in {"planning", "isolated"}
      BY <1>2, <2>3 DEF AddWorktree, Go, Types
    <3>2. \A b \in Builds \ {c} : pc'[b] = pc[b]
      BY <2>1, <2>3 DEF BuildStep
    <3>. QED  BY <1>2, <3>1, <3>2 DEF WorktreesDiscarded, Types
  <2>4. ASSUME NEW c \in Builds, Planned(c)
        PROVE  WorktreesDiscarded'
    <3>1. onDisk' = onDisk /\ pc'[c] = "isolated"
      BY <1>2, <2>4 DEF Planned, Go, isolatedVars, Types
    <3>2. \A b \in Builds \ {c} : pc'[b] = pc[b]
      BY <2>1, <2>4 DEF BuildStep
    <3>. QED  BY <1>2, <3>1, <3>2 DEF WorktreesDiscarded, Types
  <2>5. ASSUME NEW c \in Builds,
               \/ \E confirmDirty \in BOOLEAN : Enter(c, confirmDirty)
               \/ Refuse(c) \/ Reject(c) \/ Accept(c)
        PROVE  WorktreesDiscarded'
    BY <1>2, <2>5 DEF Enter, Refuse, Reject, Accept, Go, isolatedVars, WorktreesDiscarded, Types
  <2>6. ASSUME NEW c \in Builds,
               DelegateUsesGit(c) \/ \E p \in Paths, w \in {Absent, c} : DelegateWrites(c, p, w)
        PROVE  WorktreesDiscarded'
    BY <1>2, <2>6 DEF DelegateWrites, DelegateUsesGit, isolatedVars, WorktreesDiscarded
  <2>7. CASE HostActs \/ UNCHANGED vars
    BY <1>2, <2>7 DEF HostActs, vars, isolatedVars, WorktreesDiscarded
  <2>. QED  BY <1>2, <2>2, <2>3, <2>4, <2>5, <2>6, <2>7 DEF Next
<1>. QED  BY <1>1, <1>2, TypesAlways, PTL DEF Spec

-----------------------------------------------------------------------------
(* Runner. *)


Own == {"ok", "empty", "policy", "denied", "quota", "failed"}

\* Of which kinds the variables are, beyond RunnerTypeOK.
Sorts ==
    /\ {streamed, reaped, stalled, signalled, cut} \subseteq BOOLEAN
    /\ written \in [Streams -> Nat] /\ got \in [Streams -> Nat]
    /\ cancels \in Nat /\ clock \in Nat /\ quiet \in Nat

\* Before the spawn nothing has happened.
Fresh ==
    stage = "idle" => ~reaped /\ ~signalled /\ ~stalled /\ ~cut /\ cancels = 0

Signals ==
    /\ stage = "reading" => cancels = 0
    /\ stage \in {"reading", "closing"} /\ signalled => stalled
    /\ stage = "closing" => streamed
    /\ stalled => streamed
    /\ signalled => alive \subseteq delegate.deaf

\* What is so when both pipes are at their end.
AtEnd == reaped /\ got = written /\ alive \cap delegate.holders = {}

Ends ==
    /\ stage = "closing" => AtEnd
    /\ stage = "over" /\ result \in Own \cup {"stalled"} => AtEnd
    /\ stage = "over" /\ result \in {"timeout", "cancelled"} /\ ~cut => Lead \notin alive
    /\ result = "timeout" => clock = Timeout /\ cancels = 0
    /\ stage = "killing" /\ cancels > 0 => result = "cancelled"

Inv == Sorts /\ RunnerTypeOK /\ Fresh /\ Signals /\ Ends /\ ResultIsTrue

LEMMA Start == RunnerInit => Inv
<1>. SUFFICES ASSUME RunnerInit PROVE Inv
  OBVIOUS
<1>1. Sorts
  BY DEF RunnerInit, Sorts, Streams
<1>2. RunnerTypeOK
  BY RunnerAssumption DEF RunnerInit, RunnerTypeOK, Streams, NoDelegate, Kinds
<1>3. Fresh /\ Signals /\ Ends /\ ResultIsTrue
  BY DEF RunnerInit, Fresh, Signals, Ends, ResultIsTrue
<1>. QED  BY <1>1, <1>2, <1>3 DEF Inv

LEMMA SpawnKeeps ==
  ASSUME Inv, NEW d \in Delegates, NEW s \in BOOLEAN, NEW g \in BOOLEAN, Spawn(d, s, g)
  PROVE  Inv'
  BY RunnerAssumption
     DEF Spawn, Inv, Sorts, RunnerTypeOK, Fresh, Signals, Ends, AtEnd, ResultIsTrue, Streams, Delegates, NoDelegate,
         Kinds, Own, timeVars, runnerGhostVars

LEMMA SpawnFailsKeeps ==
  ASSUME Inv, SpawnFails
  PROVE  Inv'
  BY RunnerAssumption
     DEF SpawnFails, Inv, Sorts, RunnerTypeOK, Fresh, Signals, Ends, AtEnd, ResultIsTrue, Streams, Kinds, Own,
         groupVars, timeVars, guardVars, runnerGhostVars

LEMMA WritesKeeps ==
  ASSUME Inv, NEW s \in Streams, Writes(s)
  PROVE  Inv'
  BY RunnerAssumption
     DEF Writes, Watched, Inv, Sorts, RunnerTypeOK, Fresh, Signals, Ends, AtEnd, ResultIsTrue, Streams, Kinds, Own,
         callVars, groupVars, timeVars, guardVars, runnerGhostVars

LEMMA ReadsKeeps ==
  ASSUME Inv, NEW s \in Streams, Reads(s)
  PROVE  Inv'
  BY RunnerAssumption
     DEF Reads, Reading, Inv, Sorts, RunnerTypeOK, Fresh, Signals, Ends, AtEnd, ResultIsTrue, Streams, Kinds, Own,
         callVars, groupVars, guardVars, runnerGhostVars

LEMMA ReadsTooLongKeeps ==
  ASSUME Inv, NEW s \in Streams, ReadsTooLong(s)
  PROVE  Inv'
  BY RunnerAssumption
     DEF ReadsTooLong, Inv, Sorts, RunnerTypeOK, Fresh, Signals, Ends, AtEnd, ResultIsTrue, Streams, Kinds, Own,
         groupVars, timeVars, guardVars, runnerGhostVars

LEMMA ExitsKeeps ==
  ASSUME Inv, NEW p \in Procs, Exits(p)
  PROVE  Inv'
  BY RunnerAssumption
     DEF Exits, Watched, Inv, Sorts, RunnerTypeOK, Fresh, Signals, Ends, AtEnd, ResultIsTrue, Streams, Kinds, Own,
         callVars, timeVars, guardVars, runnerGhostVars

LEMMA ReapKeeps ==
  ASSUME Inv, Reap
  PROVE  Inv'
  BY RunnerAssumption
     DEF Reap, Watched, Inv, Sorts, RunnerTypeOK, Fresh, Signals, Ends, AtEnd, ResultIsTrue, Streams, Kinds, Own,
         callVars, timeVars, guardVars, runnerGhostVars

LEMMA TickKeeps ==
  ASSUME Inv, Tick
  PROVE  Inv'
  BY RunnerAssumption
     DEF Tick, Inv, Sorts, RunnerTypeOK, Fresh, Signals, Ends, AtEnd, ResultIsTrue, Streams, Kinds, Own,
         callVars, groupVars, guardVars, runnerGhostVars
\* What _finish makes of the output: a kind of the delegate's own, and true of its exit and its silence.
LEMMA FinishIsTrue ==
  ASSUME NEW f \in Tones
  PROVE  /\ Finish(f) \in Own
         /\ Finish(f) \in {"ok", "empty", "denied"} => code = 0
         /\ Finish(f) = "empty" <=> code = 0 /\ \A s \in Streams : ~(got[s] > 0)
<1>. DEFINE said == \E s \in Streams : got[s] > 0
            tone == IF said THEN f ELSE "plain"
<1>1. CASE tone = "policy"
  <2>1. said /\ Finish(f) = "policy"
    BY <1>1 DEF Finish
  <2>. QED  BY <2>1 DEF Own
<1>2. CASE tone # "policy" /\ code = 0 /\ ~said
  <2>1. Finish(f) = "empty"
    BY <1>2 DEF Finish
  <2>. QED  BY <2>1, <1>2 DEF Own
<1>3. CASE tone # "policy" /\ code = 0 /\ said
  <2>1. Finish(f) \in {"denied", "ok"}
    BY <1>3 DEF Finish
  <2>. QED  BY <2>1, <1>3 DEF Own
<1>4. CASE tone # "policy" /\ code # 0
  <2>1. Finish(f) \in {"quota", "failed"}
    BY <1>4 DEF Finish
  <2>. QED  BY <2>1, <1>4 DEF Own
<1>. QED  BY <1>1, <1>2, <1>3, <1>4

\* A call that returns when both pipes are at their end keeps everything.
LEMMA ReturnsKeep ==
  ASSUME Inv, AtEnd, ReturnsItsResult, NEW c \in {cancels, cancels + 1}, cancels' = c,
         cancels <= MaxCancels, c <= MaxCancels,
         stage \in {"reading", "closing"}, signalled => stalled, c > 0 => streamed,
         guard' = "off",
         UNCHANGED <<streamed, groupVars, written, got, timeVars, stalled, signalled, cut>>
  PROVE  Inv'
<1>1. PICK f \in Tones : Returns(IF stalled THEN "stalled" ELSE Finish(f))
  BY DEF ReturnsItsResult
<1>2. CASE stalled
  BY <1>1, <1>2, RunnerAssumption
     DEF Returns, Inv, Sorts, RunnerTypeOK, Fresh, Signals, Ends, AtEnd, ResultIsTrue, Streams, Kinds, Own, groupVars, timeVars
<1>3. CASE ~stalled
  <2>1. /\ stage' = "over" /\ result' \in Own
        /\ result' \in {"ok", "empty", "denied"} => code = 0
        /\ result' = "empty" <=> code = 0 /\ \A s \in Streams : ~(got[s] > 0)
    BY <1>1, <1>3, FinishIsTrue DEF Returns
  <2>2. \A s \in Streams : ~(got[s] > 0) <=> written[s] = 0
    BY DEF AtEnd, Inv, Sorts
  <2>3. ResultIsTrue'
    BY <2>1, <2>2, <1>3 DEF ResultIsTrue, AtEnd, Own, groupVars, timeVars
  <2>4. (Sorts /\ RunnerTypeOK /\ Fresh /\ Signals /\ Ends)'
    BY <2>1, <1>3, RunnerAssumption
       DEF Inv, Sorts, RunnerTypeOK, Fresh, Signals, Ends, AtEnd, Streams, Kinds, Own, groupVars, timeVars
  <2>. QED  BY <2>3, <2>4 DEF Inv
<1>. QED  BY <1>2, <1>3

LEMMA DoneKeeps ==
  ASSUME Inv, Done
  PROVE  Inv'
<1>1. AtEnd
  BY DEF Done, CoreDone, AtEnd, Eof, Inv, Sorts, Streams
<1>2. CASE guard # "off"
  BY <1>1, <1>2, RunnerAssumption
     DEF Done, ReturnsItsResult, Returns, Inv, Sorts, RunnerTypeOK, Fresh, Signals, Ends, AtEnd, ResultIsTrue, Streams, Kinds, Own,
         groupVars, timeVars, runnerGhostVars
<1>3. CASE guard = "off"
  <2>1. ReturnsItsResult /\ cancels' = cancels /\ cancels = 0 /\ (signalled => stalled) /\ guard' = "off"
    BY <1>3 DEF Done, runnerGhostVars, Inv, Signals
  <2>2. UNCHANGED <<streamed, groupVars, written, got, timeVars, stalled, signalled, cut>>
    BY DEF Done, runnerGhostVars
  <2>3. cancels <= MaxCancels /\ stage = "reading"
    BY <2>1, RunnerAssumption DEF Done
  <2>. QED  BY <1>1, <2>1, <2>2, <2>3, ReturnsKeep
<1>. QED  BY <1>2, <1>3

LEMMA ClosedKeeps ==
  ASSUME Inv, Closed
  PROVE  Inv'
<1>1. /\ AtEnd /\ streamed /\ (signalled => stalled) /\ guard = "off"
      /\ cancels \in Nat /\ cancels <= MaxCancels
  BY RunnerAssumption DEF Closed, Inv, Sorts, RunnerTypeOK, Signals, Ends
<1>2. /\ ReturnsItsResult /\ cancels' = cancels /\ guard' = "off" /\ stage = "closing"
      /\ UNCHANGED <<streamed, groupVars, written, got, timeVars, stalled, signalled, cut>>
  BY <1>1 DEF Closed, guardVars, runnerGhostVars
<1>. QED  BY <1>1, <1>2, ReturnsKeep

\* SIGTERM leaves a part of the group, deaf to it where the signal found the group.
LEMMA SigtermShrinks ==
  ASSUME Sigterm, signalled \in BOOLEAN, reaped \in BOOLEAN
  PROVE  /\ alive' \subseteq alive /\ signalled' \in BOOLEAN
         /\ signalled => signalled'
         /\ (signalled => alive \subseteq delegate.deaf) => (signalled' => alive' \subseteq delegate.deaf)
  BY DEF Sigterm

LEMMA CutOffKeeps ==
  ASSUME Inv, NEW why \in {"timeout", "cancelled"}, CutOff(why),
         \/ why = "timeout" /\ clock = Timeout /\ cancels' = cancels
         \/ why = "cancelled" /\ cancels < MaxCancels /\ cancels' = cancels + 1
  PROVE  Inv'
<1>1. /\ alive' \subseteq alive /\ signalled' \in BOOLEAN
      /\ signalled' => alive' \subseteq delegate.deaf
  BY SigtermShrinks DEF CutOff, Inv, Sorts, Signals
<1>2. code' \in 0..1
  BY DEF CutOff, Killed, Inv, RunnerTypeOK
<1>. QED
  BY <1>1, <1>2, RunnerAssumption
     DEF CutOff, Inv, Sorts, RunnerTypeOK, Fresh, Signals, Ends, AtEnd, ResultIsTrue, Streams, Kinds, Own, timeVars

LEMMA TerminatedKeeps ==
  ASSUME Inv, Terminated
  PROVE  Inv'
<1>1. alive' \subseteq alive /\ Lead \notin alive' /\ code' \in 0..1
  BY DEF Terminated, WaitEnds, Killed, Inv, RunnerTypeOK
<1>. QED
  BY <1>1, RunnerAssumption
     DEF Terminated, Inv, Sorts, RunnerTypeOK, Fresh, Signals, Ends, AtEnd, ResultIsTrue, Streams, Kinds, Own,
         timeVars, guardVars, runnerGhostVars

LEMMA CancelArrivesKeeps ==
  ASSUME Inv, CancelArrives
  PROVE  Inv'
<1>. cancels < MaxCancels /\ cancels' = cancels + 1
  BY DEF CancelArrives
<1>1. CASE CutOff("cancelled")
  BY <1>1, CutOffKeeps
<1>2. CASE /\ stage = "killing" /\ Returns("cancelled") /\ cut' = TRUE
           /\ UNCHANGED <<streamed, groupVars, written, got, timeVars, guardVars, signalled>>
  BY <1>2, RunnerAssumption
     DEF Returns, Inv, Sorts, RunnerTypeOK, Fresh, Signals, Ends, AtEnd, ResultIsTrue, Streams, Kinds, Own,
         groupVars, timeVars, guardVars
<1>3. CASE /\ stage = "closing" /\ ReturnsItsResult
           /\ UNCHANGED <<streamed, groupVars, written, got, timeVars, guardVars, signalled, cut>>
  <2>1. AtEnd /\ streamed /\ (signalled => stalled) /\ guard = "off" /\ cancels \in Nat
    BY <1>3 DEF Inv, Sorts, RunnerTypeOK, Signals, Ends
  <2>2. guard' = "off" /\ cancels + 1 <= MaxCancels /\ cancels <= MaxCancels
    BY <1>3, <2>1, RunnerAssumption DEF guardVars
  <2>3. UNCHANGED <<streamed, groupVars, written, got, timeVars, stalled, signalled, cut>>
    BY <1>3 DEF guardVars
  <2>. QED  BY <1>3, <2>1, <2>2, <2>3, ReturnsKeep
<1>. QED  BY <1>1, <1>2, <1>3 DEF CancelArrives

LEMMA GuardWakesKeeps ==
  ASSUME Inv, GuardWakes
  PROVE  Inv'
<1>1. /\ alive' \subseteq alive /\ signalled' \in BOOLEAN
      /\ signalled' => alive' \subseteq delegate.deaf
  BY SigtermShrinks DEF GuardWakes, Inv, Sorts, Signals
<1>2. code' \in 0..1
  BY DEF GuardWakes, Killed, Inv, RunnerTypeOK
<1>. QED
  BY <1>1, <1>2, RunnerAssumption
     DEF GuardWakes, Inv, Sorts, RunnerTypeOK, Fresh, Signals, Ends, AtEnd, ResultIsTrue, Streams, Kinds, Own, callVars, timeVars

LEMMA GuardEndsKeeps ==
  ASSUME Inv, GuardEnds
  PROVE  Inv'
<1>1. alive' \subseteq alive /\ code' \in 0..1
  BY DEF GuardEnds, WaitEnds, Killed, Inv, RunnerTypeOK
<1>. QED
  BY <1>1, RunnerAssumption
     DEF GuardEnds, Inv, Sorts, RunnerTypeOK, Fresh, Signals, Ends, AtEnd, ResultIsTrue, Streams, Kinds, Own,
         callVars, timeVars, runnerGhostVars

LEMMA Step == Inv /\ [RunnerNext]_runnerVars => Inv'
<1>. SUFFICES ASSUME Inv, [RunnerNext]_runnerVars PROVE Inv'
  OBVIOUS
<1>1. CASE \E d \in Delegates, s, g \in BOOLEAN : Spawn(d, s, g)
  BY <1>1, SpawnKeeps
<1>2. CASE SpawnFails
  BY <1>2, SpawnFailsKeeps
<1>3. CASE \E s \in Streams : Writes(s) \/ Reads(s) \/ ReadsTooLong(s)
  BY <1>3, WritesKeeps, ReadsKeeps, ReadsTooLongKeeps
<1>4. CASE \E p \in Procs : Exits(p)
  BY <1>4, ExitsKeeps
<1>5. CASE Reap \/ Tick
  BY <1>5, ReapKeeps, TickKeeps
<1>6. CASE Done \/ Closed
  BY <1>6, DoneKeeps, ClosedKeeps
<1>7. CASE Deadline
  BY <1>7, CutOffKeeps DEF Deadline
<1>8. CASE Terminated \/ CancelArrives
  BY <1>8, TerminatedKeeps, CancelArrivesKeeps
<1>9. CASE GuardWakes \/ GuardEnds
  BY <1>9, GuardWakesKeeps, GuardEndsKeeps
<1>10. CASE UNCHANGED runnerVars
  BY <1>10
     DEF runnerVars, callVars, groupVars, timeVars, guardVars, runnerGhostVars, Inv, Sorts, RunnerTypeOK, Fresh, Signals, Ends, AtEnd,
         ResultIsTrue
<1>. QED  BY <1>1, <1>2, <1>3, <1>4, <1>5, <1>6, <1>7, <1>8, <1>9, <1>10 DEF RunnerNext

LEMMA Always == RunnerSpec => []Inv
  BY Start, Step, PTL DEF RunnerSpec

\* Of every call of arun, its process group, its pipes, its clocks and its stall guard: RunnerTypeOK.
THEOREM RunnerTyping == RunnerSpec => []RunnerTypeOK
<1>1. Inv => RunnerTypeOK
  BY DEF Inv
<1>. QED  BY <1>1, Always, PTL

\* What a call leaves behind, for any group, any pipe and any limits (NoStrays): _terminate's SIGTERM,
\* its wait and its SIGKILL leave the CLI dead and its group at most what ignores SIGTERM, and a call
\* that reports what the delegate said has nobody left at the pipes.
THEOREM NothingStrays == RunnerSpec => []NoStrays
<1>1. Inv => NoStrays
  BY DEF Inv, RunnerTypeOK, Signals, Ends, AtEnd, NoStrays, Own, Kinds
<1>. QED  BY <1>1, Always, PTL

\* The classification of a call is true of the delegate (ResultIsTrue), in every order of its exit,
\* the end of its pipes, the guard, the deadline and the host's cancel.
THEOREM ResultsAreTrue == RunnerSpec => []ResultIsTrue
<1>1. Inv => ResultIsTrue
  BY DEF Inv
<1>. QED  BY <1>1, Always, PTL

=============================================================================
