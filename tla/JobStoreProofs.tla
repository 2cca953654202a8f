--------------------------- MODULE JobStoreProofs ---------------------------
(***************************************************************************)
(* What JobStore keeps for any processes, pids and jobs, and any size of   *)
(* the overflow directory.                                                 *)
(***************************************************************************)
EXTENDS JobStore, SequenceTheorems, TLAPS

\* TypeOK without its relations between variables.
Types ==
    /\ proc \in [Servers -> {"off", "sweeping", "up", "dead"}]
    /\ pid \in [Servers -> Pids \cup {Nobody}]
    /\ owner \in [Jobs -> Servers \cup {Nobody}]
    /\ pc \in [Jobs -> {"new", "running", "spilled", "over"}]
    /\ status \in [Jobs -> {"none", "running"} \cup (Final \ {"interrupted"})]
    /\ kept \in SUBSET Jobs /\ path \in SUBSET Jobs /\ rowPath \in SUBSET Jobs
    /\ rowStatus \in [Jobs -> {"none", "running"} \cup Final]
    /\ rowPid \in [Jobs -> Pids \cup {Nobody}]
    /\ found \in [Servers -> SUBSET Jobs]
    /\ files \in Seq(Jobs \cup {Answer})
    /\ answers \in 0..MaxAnswers
    /\ stale \in SUBSET Jobs /\ pruned \in SUBSET Jobs
    /\ runningAtBoot \in [Servers -> SUBSET Jobs]
    /\ deadAtBoot \in [Servers -> SUBSET Jobs]

LEMMA InitTypes == Init => Types
BY JobStoreAssumption DEF Init, Types

LEMMA JobPutTypes ==
    ASSUME Types, NEW j \in Jobs, NEW s \in Servers, NEW st \in {"running"} \cup Final,
           NEW withPath \in BOOLEAN, JobPut(j, s, st, withPath)
    PROVE  /\ rowStatus' \in [Jobs -> {"none", "running"} \cup Final]
           /\ rowPid' \in [Jobs -> Pids \cup {Nobody}]
           /\ rowPath' \in SUBSET Jobs /\ stale' \in SUBSET Jobs
<1>1. CASE UNCHANGED rowVars /\ stale' = stale \cup {j}
  BY <1>1 DEF rowVars, Types
<1>2. CASE ~(UNCHANGED rowVars /\ stale' = stale \cup {j})
  <2>1. /\ rowStatus' = [rowStatus EXCEPT ![j] = st]
        /\ rowPid' = [rowPid EXCEPT ![j] = IF @ = Nobody THEN pid[s] ELSE @]
        /\ rowPath' = IF withPath THEN rowPath \cup {j} ELSE rowPath \ {j}
        /\ stale' = stale \ {j}
    BY <1>2 DEF JobPut
  <2>2. rowStatus' \in [Jobs -> {"none", "running"} \cup Final]
    <3>1. st \in {"none", "running"} \cup Final
      OBVIOUS
    <3>2. rowStatus \in [Jobs -> {"none", "running"} \cup Final]
      BY DEF Types
    <3>. QED  BY <2>1, <3>1, <3>2
  <2>3. rowPid' \in [Jobs -> Pids \cup {Nobody}]
    <3>1. rowPid \in [Jobs -> Pids \cup {Nobody}] /\ pid[s] \in Pids \cup {Nobody}
      BY DEF Types
    <3>. QED  BY <2>1, <3>1
  <2>4. rowPath' \in SUBSET Jobs /\ stale' \in SUBSET Jobs
    <3>1. rowPath \in SUBSET Jobs /\ stale \in SUBSET Jobs
      BY DEF Types
    <3>. QED  BY <2>1, <3>1
  <2>. QED  BY <2>2, <2>3, <2>4
<1>. QED  BY <1>1, <1>2

\* What is left of a sequence without its first d elements.
LEMMA DropProperties ==
    ASSUME NEW S, NEW s \in Seq(S), NEW d \in Nat, d <= Len(s), NEW n, n = Len(s)
    PROVE  /\ SubSeq(s, d + 1, n) \in Seq(S)
           /\ Len(SubSeq(s, d + 1, n)) = n - d
           /\ \A i \in 1..(n - d) : SubSeq(s, d + 1, n)[i] = s[d + i]
<1>1. n \in Nat
  BY LenProperties
<1>2. \A i \in (d + 1)..n : s[i] \in S
  BY <1>1, ElementOfSeq
<1>3. PICK m \in Int : m = d + 1
  OBVIOUS
<1>4. \A i \in m..n : s[i] \in S
  BY <1>2, <1>3
<1>5. /\ SubSeq(s, m, n) \in Seq(S)
      /\ Len(SubSeq(s, m, n)) = IF m <= n THEN n - m + 1 ELSE 0
      /\ \A i \in 1..(n - m + 1) : SubSeq(s, m, n)[i] = s[m + i - 1]
  <2>1. n \in Int
    BY <1>1
  <2>. QED  BY <1>4, <2>1
<1>6. Len(SubSeq(s, m, n)) = n - d
  BY <1>1, <1>3, <1>5
<1>7. ASSUME NEW i \in 1..(n - d)
      PROVE  SubSeq(s, m, n)[i] = s[d + i]
  <2>1. i \in 1..(n - m + 1) /\ m + i - 1 = d + i
    BY <1>1, <1>3
  <2>. QED  BY <1>5, <2>1
<1>. QED  BY <1>3, <1>5, <1>6, <1>7

\* What the directory keeps when an answer is written.
LEMMA EmitFiles ==
    ASSUME Types, NEW drop \in 0..Len(files),
           files' = Append(SubSeq(files, drop + 1, Len(files)), Answer)
    PROVE  /\ files' \in Seq(Jobs \cup {Answer})
           /\ \A k \in DOMAIN files : k > drop => k - drop \in DOMAIN files'
                                                  /\ files'[k - drop] = files[k]
<1>1. PICK S : S = Jobs \cup {Answer}
  OBVIOUS
<1>2. PICK rest, n : n = Len(files) /\ rest = SubSeq(files, drop + 1, n)
  OBVIOUS
<1>3. /\ files \in Seq(S) /\ n \in Nat /\ DOMAIN files = 1..n
      /\ drop \in Nat /\ drop <= n
  BY <1>1, <1>2, LenProperties DEF Types
<1>4. rest \in Seq(S) /\ Len(rest) = n - drop /\ \A i \in 1..(n - drop) : rest[i] = files[drop + i]
  BY <1>2, <1>3, DropProperties
<1>5. /\ files' = Append(rest, Answer) /\ Answer \in S
  BY <1>1, <1>2
<1>6. /\ files' \in Seq(S) /\ Len(files') = n - drop + 1
      /\ \A i \in 1..(n - drop) : files'[i] = rest[i]
  <2>1. /\ Append(rest, Answer) \in Seq(S) /\ Len(Append(rest, Answer)) = Len(rest) + 1
        /\ \A i \in 1..Len(rest) : Append(rest, Answer)[i] = rest[i]
    BY <1>4, <1>5
  <2>. QED  BY <1>4, <1>5, <2>1
<1>7. DOMAIN files' = 1..(n - drop + 1)
  BY <1>6, LenProperties
<1>8. ASSUME NEW k \in DOMAIN files, k > drop
      PROVE  k - drop \in DOMAIN files' /\ files'[k - drop] = files[k]
  <2>1. k \in Nat /\ k - drop \in 1..(n - drop) /\ drop + (k - drop) = k
    BY <1>3, <1>8
  <2>2. k - drop \in 1..(n - drop + 1)
    BY <1>3, <2>1
  <2>. QED  BY <1>4, <1>6, <1>7, <2>1, <2>2
<1>. QED  BY <1>1, <1>6, <1>8

LEMMA NextTypes ==
    ASSUME Types, [Next]_vars
    PROVE  Types'
<1>1. ASSUME NEW s \in Servers, NEW q \in Pids, Boot(s, q)
      PROVE  Types'
  BY <1>1 DEF Boot, Found, jobVars, rowVars, Types
<1>2. ASSUME NEW s \in Servers, Sweep(s)
      PROVE  Types'
  BY <1>2 DEF Sweep, Final, jobVars, Types
<1>3. ASSUME NEW s \in Servers, Die(s)
      PROVE  Types'
  BY <1>3 DEF Die, jobVars, rowVars, Types
<1>4. ASSUME NEW s \in Servers, Emit(s)
      PROVE  Types'
  <2>1. files' \in Seq(Jobs \cup {Answer})
    BY <1>4, EmitFiles DEF Emit
  <2>2. answers' \in 0..MaxAnswers
    BY <1>4, JobStoreAssumption DEF Emit, Types
  <2>. QED  BY <1>4, <2>1, <2>2 DEF Emit, jobVars, rowVars, Types
<1>5. ASSUME NEW s \in Servers, NEW j \in Jobs, Start(s, j)
      PROVE  Types'
  BY <1>5, JobPutTypes DEF Start, Types
<1>6. ASSUME NEW j \in Jobs, BodyReturns(j)
      PROVE  Types'
  <2>1. files' \in Seq(Jobs \cup {Answer})
    <3>1. Append(files, j) \in Seq(Jobs \cup {Answer})
      BY DEF Types
    <3>. QED  BY <1>6, <3>1 DEF BodyReturns, Spill, Types
  <2>2. path' \in SUBSET Jobs /\ kept' \in SUBSET Jobs
    BY <1>6 DEF BodyReturns, Spill, Types
  <2>. QED  BY <1>6, <2>1, <2>2 DEF BodyReturns, rowVars, ghostVars, Types
<1>7. ASSUME NEW j \in Jobs, NEW st \in Final \ {"interrupted"}, NEW withPath \in BOOLEAN,
             Up(j), Settle(j, st, withPath)
      PROVE  Types'
  <2>1. owner[j] \in Servers /\ JobPut(j, owner[j], st, withPath)
    BY <1>7 DEF Up, Settle
  <2>2. st \in {"running"} \cup Final
    OBVIOUS
  <2>3. /\ rowStatus' \in [Jobs -> {"none", "running"} \cup Final]
        /\ rowPid' \in [Jobs -> Pids \cup {Nobody}]
        /\ rowPath' \in SUBSET Jobs /\ stale' \in SUBSET Jobs
    BY <2>1, <2>2, JobPutTypes
  <2>. QED  BY <1>7, <2>3 DEF Settle, Types
<1>8. ASSUME NEW j \in Jobs, Finish(j) \/ FailOrCancel(j)
      PROVE  Types'
  <2>1. Up(j)
    BY <1>8 DEF Finish, FailOrCancel
  <2>2. {"succeeded", "failed", "cancelled"} \subseteq Final \ {"interrupted"}
    BY DEF Final
  <2>3. \E st \in {"succeeded", "failed", "cancelled"}, withPath \in BOOLEAN : Settle(j, st, withPath)
    <3>1. CASE Finish(j)
      <4>1. (j \in path) \in BOOLEAN
        OBVIOUS
      <4>. QED  BY <3>1, <4>1 DEF Finish
    <3>2. CASE FailOrCancel(j)
      BY <3>2 DEF FailOrCancel
    <3>. QED  BY <1>8, <3>1, <3>2
  <2>. QED  BY <1>7, <2>1, <2>2, <2>3
<1>9. CASE UNCHANGED vars
  BY <1>9 DEF vars, jobVars, rowVars, ghostVars, Types
<1>. QED  BY <1>1, <1>2, <1>3, <1>4, <1>5, <1>6, <1>8, <1>9 DEF Next


-----------------------------------------------------------------------------
(* Whose a job and its row are. *)

\* The row of job j is written by server s, or sqlite refuses.
RowWritten(j, s, st, withPath) ==
    \/ /\ rowStatus'[j] = rowStatus[j] /\ rowPid'[j] = rowPid[j]
       /\ j \in rowPath' <=> j \in rowPath
       /\ j \in stale'
    \/ /\ rowStatus'[j] = st
       /\ rowPid'[j] = IF rowPid[j] = Nobody THEN pid[s] ELSE rowPid[j]
       /\ j \in rowPath' => withPath
       /\ j \notin stale'

SameRow(i) ==
    /\ rowStatus'[i] = rowStatus[i] /\ rowPid'[i] = rowPid[i]
    /\ i \in rowPath' <=> i \in rowPath
    /\ i \in stale' <=> i \in stale

LEMMA JobPutEffect ==
    ASSUME Types, NEW j \in Jobs, NEW s \in Servers, NEW st, NEW withPath \in BOOLEAN,
           JobPut(j, s, st, withPath)
    PROVE  RowWritten(j, s, st, withPath) /\ \A i \in Jobs \ {j} : SameRow(i)
<1>1. CASE UNCHANGED rowVars /\ stale' = stale \cup {j}
  BY <1>1 DEF rowVars, RowWritten, SameRow
<1>2. CASE /\ rowStatus' = [rowStatus EXCEPT ![j] = st]
           /\ rowPid' = [rowPid EXCEPT ![j] = IF @ = Nobody THEN pid[s] ELSE @]
           /\ rowPath' = IF withPath THEN rowPath \cup {j} ELSE rowPath \ {j}
           /\ stale' = stale \ {j}
  BY <1>2 DEF RowWritten, SameRow, Types
<1>. QED  BY <1>1, <1>2 DEF JobPut

\* A job starts, or ends.
Begun(s, j) ==
    /\ RowWritten(j, s, "running", FALSE)
    /\ \A i \in Jobs \ {j} : /\ SameRow(i)
                             /\ owner'[i] = owner[i] /\ pc'[i] = pc[i] /\ status'[i] = status[i]
    /\ owner'[j] = s /\ pc'[j] = "running" /\ status'[j] = "running"
    /\ proc[s] = "up" /\ pc[j] = "new"
    /\ proc' = proc /\ pid' = pid /\ found' = found /\ files' = files /\ kept' = kept
    /\ path' = path /\ pruned' = pruned /\ runningAtBoot' = runningAtBoot
    /\ deadAtBoot' = deadAtBoot

Ended(j, st, withPath) ==
    /\ RowWritten(j, owner[j], st, withPath)
    /\ \A i \in Jobs \ {j} : SameRow(i) /\ pc'[i] = pc[i] /\ status'[i] = status[i]
    /\ pc'[j] = "over" /\ status'[j] = st
    /\ Up(j) /\ pc[j] \in {"running", "spilled"}
    /\ withPath => j \in path
    /\ st = "succeeded" => pc[j] = "spilled"
    /\ owner' = owner
    /\ proc' = proc /\ pid' = pid /\ found' = found /\ files' = files /\ kept' = kept
    /\ path' = path /\ pruned' = pruned /\ runningAtBoot' = runningAtBoot
    /\ deadAtBoot' = deadAtBoot

LEMMA StartEffect ==
    ASSUME Types, NEW s \in Servers, NEW j \in Jobs, Start(s, j)
    PROVE  Begun(s, j)
<1>1. JobPut(j, s, "running", FALSE)
  BY DEF Start
<1>2. RowWritten(j, s, "running", FALSE) /\ \A i \in Jobs \ {j} : SameRow(i)
  BY <1>1, JobPutEffect
<1>. QED  BY <1>2 DEF Start, Begun, Types

LEMMA EndEffect ==
    ASSUME Types, NEW j \in Jobs, Finish(j) \/ FailOrCancel(j)
    PROVE  \E st \in {"succeeded", "failed", "cancelled"}, withPath \in BOOLEAN :
              Ended(j, st, withPath)
<1>1. ASSUME NEW st \in {"succeeded", "failed", "cancelled"}, NEW withPath \in BOOLEAN,
             Up(j), pc[j] \in {"running", "spilled"}, withPath => j \in path,
             st = "succeeded" => pc[j] = "spilled",
             Settle(j, st, withPath)
      PROVE  Ended(j, st, withPath)
  <2>1. JobPut(j, owner[j], st, withPath) /\ owner[j] \in Servers
    BY <1>1 DEF Settle, Up
  <2>2. RowWritten(j, owner[j], st, withPath) /\ \A i \in Jobs \ {j} : SameRow(i)
    BY <2>1, JobPutEffect
  <2>. QED  BY <1>1, <2>2 DEF Settle, Ended, Types
<1>2. CASE Finish(j)
  <2>1. PICK st \in {"succeeded", "failed"} : Settle(j, st, j \in path)
    BY <1>2 DEF Finish
  <2>2. PICK withPath \in BOOLEAN : Settle(j, st, withPath) /\ (withPath => j \in path)
    <3>1. CASE j \in path
      <4>1. Settle(j, st, TRUE)
        BY <2>1, <3>1 DEF Settle, JobPut
      <4>. QED  BY <3>1, <4>1
    <3>2. CASE j \notin path
      <4>1. Settle(j, st, FALSE)
        BY <2>1, <3>2 DEF Settle, JobPut
      <4>. QED  BY <4>1
    <3>. QED  BY <3>1, <3>2
  <2>3. Up(j) /\ pc[j] = "spilled"
    BY <1>2 DEF Finish
  <2>. QED  BY <1>1, <2>2, <2>3
<1>3. CASE FailOrCancel(j)
  <2>1. PICK st \in {"failed", "cancelled"} : Settle(j, st, FALSE)
    BY <1>3 DEF FailOrCancel
  <2>2. Up(j) /\ pc[j] = "running"
    BY <1>3 DEF FailOrCancel
  <2>. QED  BY <1>1, <2>1, <2>2
<1>. QED  BY <1>2, <1>3

Owned ==
    /\ \A s \in Servers : /\ pid[s] = Nobody <=> proc[s] = "off"
                          /\ \A j \in found[s] : j \in runningAtBoot[s] /\ rowStatus[j] # "none"
    /\ \A j \in Jobs :
          /\ owner[j] = Nobody <=> pc[j] = "new"
          /\ owner[j] \in Servers => proc[owner[j]] \in {"up", "dead"}
          /\ rowStatus[j] = "none" <=> rowPid[j] = Nobody
          /\ rowPid[j] # Nobody => owner[j] \in Servers /\ rowPid[j] = pid[owner[j]]

LEMMA InitOwned == Init => Owned
BY JobStoreAssumption DEF Init, Owned

LEMMA OwnedStep ==
    ASSUME Types, Owned, [Next]_vars
    PROVE  Owned'
<1>1. ASSUME NEW s \in Servers, NEW q \in Pids, Boot(s, q)
      PROVE  Owned'
  <2>1. /\ proc[s] = "off" /\ proc'[s] = "sweeping" /\ pid'[s] = q /\ q # Nobody
        /\ found'[s] = runningAtBoot'[s]
        /\ \A j \in found'[s] : rowStatus[j] # "none"
        /\ \A r \in Servers \ {s} :
              /\ proc'[r] = proc[r] /\ pid'[r] = pid[r]
              /\ found'[r] = found[r] /\ runningAtBoot'[r] = runningAtBoot[r]
    BY <1>1, JobStoreAssumption DEF Boot, Found, Types, Owned
  <2>2. UNCHANGED <<jobVars, rowVars>>
    BY <1>1 DEF Boot, Types, Owned
  <2>3. ASSUME NEW j \in Jobs, owner[j] = s
        PROVE  FALSE
    <3>1. proc[owner[j]] \in {"up", "dead"}
      BY <2>3 DEF Owned
    <3>. QED  BY <2>1, <2>3, <3>1
  <2>. QED  BY <2>1, <2>2, <2>3 DEF jobVars, rowVars, Types, Owned
<1>2. ASSUME NEW s \in Servers, Sweep(s)
      PROVE  Owned'
  <2>1. /\ proc[s] = "sweeping" /\ proc'[s] = "up" /\ found'[s] = {}
        /\ \A r \in Servers \ {s} :
              proc'[r] = proc[r] /\ found'[r] = found[r] /\ runningAtBoot'[r] = runningAtBoot[r]
        /\ UNCHANGED <<pid, owner, pc, rowPid>>
    BY <1>2 DEF Sweep, jobVars, Types, Owned
  <2>2. \A j \in Jobs : rowStatus'[j] = rowStatus[j] \/ (j \in found[s] /\ rowStatus'[j] = "interrupted")
    BY <1>2 DEF Sweep, Flipped, Types, Owned
  <2>3. \A j \in Jobs : rowStatus'[j] = "none" <=> rowStatus[j] = "none"
    BY <2>2 DEF Types, Owned
  <2>. QED  BY <2>1, <2>3 DEF Types, Owned
<1>3. ASSUME NEW s \in Servers, Die(s)
      PROVE  Owned'
  <2>1. /\ proc[s] # "off" /\ proc'[s] = "dead" /\ found'[s] = {}
        /\ \A r \in Servers \ {s} :
              proc'[r] = proc[r] /\ found'[r] = found[r] /\ runningAtBoot'[r] = runningAtBoot[r]
        /\ UNCHANGED <<pid, owner, pc, rowPid, rowStatus>>
    BY <1>3 DEF Die, Running, jobVars, rowVars, Types, Owned
  <2>. QED  BY <2>1 DEF Types, Owned
<1>4. ASSUME NEW s \in Servers, NEW j \in Jobs, Start(s, j)
      PROVE  Owned'
  <2>1. Begun(s, j)
    BY <1>4, StartEffect
  <2>2. rowPid[j] = Nobody /\ rowStatus[j] = "none" /\ s # Nobody /\ pid[s] # Nobody
    BY <2>1, JobStoreAssumption DEF Begun, Types, Owned
  <2>3. \/ rowStatus'[j] = "none" /\ rowPid'[j] = Nobody
        \/ rowStatus'[j] = "running" /\ rowPid'[j] = pid[s]
    BY <2>1, <2>2 DEF Begun, RowWritten
  <2>. QED  BY <2>1, <2>2, <2>3 DEF Begun, SameRow, Types, Owned
<1>5. ASSUME NEW j \in Jobs, Finish(j) \/ FailOrCancel(j)
      PROVE  Owned'
  <2>1. PICK st \in {"succeeded", "failed", "cancelled"}, withPath \in BOOLEAN :
              Ended(j, st, withPath)
    BY <1>5, EndEffect
  <2>2. owner[j] \in Servers /\ pid[owner[j]] # Nobody
    BY <2>1, JobStoreAssumption DEF Ended, Up, Types, Owned
  <2>3. /\ rowStatus'[j] = "none" => rowPid'[j] = Nobody /\ rowStatus[j] = "none"
        /\ rowPid'[j] = Nobody => rowStatus'[j] = "none"
        /\ rowPid'[j] # Nobody => rowPid'[j] = pid[owner[j]]
    BY <2>1, <2>2 DEF Ended, RowWritten, Types, Owned
  <2>. QED  BY <2>1, <2>2, <2>3 DEF Ended, SameRow, Types, Owned
<1>6. ASSUME NEW j \in Jobs, BodyReturns(j)
      PROVE  Owned'
  <2>1. /\ UNCHANGED <<proc, pid, found, runningAtBoot, owner, rowStatus, rowPid>>
        /\ pc[j] = "running" /\ pc' = [pc EXCEPT ![j] = "spilled"]
    BY <1>6 DEF BodyReturns, rowVars, ghostVars, Types, Owned
  <2>. QED  BY <2>1 DEF Types, Owned
<1>7. CASE (\E s \in Servers : Emit(s)) \/ UNCHANGED vars
  <2>1. UNCHANGED <<proc, pid, found, runningAtBoot, owner, pc, rowStatus, rowPid>>
    BY <1>7 DEF Emit, vars, jobVars, rowVars, ghostVars, Types, Owned
  <2>. QED  BY <2>1 DEF Types, Owned
<1>. QED  BY <1>1, <1>2, <1>3, <1>4, <1>5, <1>6, <1>7 DEF Next

LEMMA OwnedAlways == Spec => [](Types /\ Owned)
<1>1. Types /\ Owned /\ [Next]_vars => Types' /\ Owned'
  BY NextTypes, OwnedStep
<1>. QED  BY InitTypes, InitOwned, <1>1, PTL DEF Spec

\* A process has a pid from its boot on, and a row is never without the pid it was first
\* written with.
THEOREM Typing == Spec => []TypeOK
<1>1. Types /\ Owned => TypeOK
  BY DEF Types, Owned, TypeOK
<1>. QED  BY OwnedAlways, <1>1, PTL

-----------------------------------------------------------------------------
(* What the rows tell. *)

\* Of a job whose server lives: what its server says.
Current ==
    \A j \in Jobs : Up(j) =>
        /\ j \notin stale => rowStatus[j] = status[j]
        /\ pc[j] # "over" => rowStatus[j] \notin Final /\ status[j] = "running"

\* Of a job that a dead server left: not that it runs, once a later process has swept.
Left ==
    \A s \in Servers : \A j \in deadAtBoot[s] :
        /\ owner[j] \in Servers /\ proc[owner[j]] = "dead" /\ proc[s] # "off"
        /\ proc[s] = "sweeping" => j \in found[s]
        /\ proc[s] = "up" =>
              \/ rowStatus[j] # "running"
              \/ \E r \in Servers \ {owner[j]} : pid[r] = rowPid[j]

LEMMA InitTruth == Init => Current /\ Left
BY JobStoreAssumption DEF Init, Current, Left, Up

\* No sweep flips the row of a job whose server lives, whoever had its pid before.
LEMMA LiveRowsAreNotFlipped ==
    ASSUME Types, Owned, NEW s \in Servers, NEW j \in Jobs, Up(j), j \in found[s]
    PROVE  j \notin Flipped(s)
<1>1. rowPid[j] # Nobody /\ owner[j] \in Servers /\ rowPid[j] = pid[owner[j]]
  BY DEF Types, Owned, Up
<1>2. Running(owner[j])
  BY DEF Up, Running
<1>3. PidAlive(rowPid[j])
  BY <1>1, <1>2 DEF PidAlive
<1>. QED  BY <1>3 DEF Flipped

LEMMA CurrentStep ==
    ASSUME Types, Owned, Current, [Next]_vars
    PROVE  Current'
<1>1. ASSUME NEW s \in Servers, NEW q \in Pids, Boot(s, q)
      PROVE  Current'
  <2>1. /\ proc[s] = "off" /\ proc'[s] = "sweeping"
        /\ \A r \in Servers \ {s} : proc'[r] = proc[r]
        /\ UNCHANGED <<owner, pc, status, rowStatus, stale>>
    BY <1>1 DEF Boot, jobVars, rowVars, Types
  <2>2. \A j \in Jobs : Up(j)' => Up(j)
    BY <2>1 DEF Up
  <2>. QED  BY <2>1, <2>2 DEF Current
<1>2. ASSUME NEW s \in Servers, Sweep(s)
      PROVE  Current'
  <2>1. /\ proc[s] = "sweeping" /\ \A r \in Servers \ {s} : proc'[r] = proc[r]
        /\ UNCHANGED <<owner, pc, status, stale>>
        /\ \A j \in Jobs : j \notin Flipped(s) => rowStatus'[j] = rowStatus[j]
    BY <1>2 DEF Sweep, jobVars, Types
  <2>2. \A j \in Jobs : owner[j] # s
    <3>1. SUFFICES ASSUME NEW j \in Jobs, owner[j] = s PROVE FALSE
      OBVIOUS
    <3>2. proc[owner[j]] \in {"up", "dead"}
      BY <3>1 DEF Owned
    <3>. QED  BY <2>1, <3>1, <3>2
  <2>3. ASSUME NEW j \in Jobs, Up(j)'
        PROVE  Up(j) /\ rowStatus'[j] = rowStatus[j]
    <3>1. Up(j)
      BY <2>1, <2>2, <2>3 DEF Up
    <3>2. j \notin Flipped(s)
      BY <3>1, LiveRowsAreNotFlipped DEF Flipped
    <3>. QED  BY <2>1, <3>1, <3>2
  <2>. QED  BY <2>1, <2>3 DEF Current
<1>3. ASSUME NEW s \in Servers, Die(s)
      PROVE  Current'
  <2>1. /\ proc'[s] = "dead" /\ \A r \in Servers \ {s} : proc'[r] = proc[r]
        /\ UNCHANGED <<owner, pc, status, rowStatus, stale>>
    BY <1>3 DEF Die, jobVars, rowVars, Types
  <2>2. \A j \in Jobs : Up(j)' => Up(j)
    BY <2>1 DEF Up
  <2>. QED  BY <2>1, <2>2 DEF Current
<1>4. ASSUME NEW s \in Servers, NEW j \in Jobs, Start(s, j)
      PROVE  Current'
  <2>1. Begun(s, j)
    BY <1>4, StartEffect
  <2>2. rowStatus[j] = "none"
    BY <2>1, JobStoreAssumption DEF Begun, Types, Owned
  <2>3. \A i \in Jobs \ {j} : Up(i)' => Up(i)
    BY <2>1 DEF Begun, Up
  <2>4. /\ j \notin stale' => rowStatus'[j] = "running"
        /\ rowStatus'[j] \in {"none", "running"}
    BY <2>1, <2>2 DEF Begun, RowWritten
  <2>. QED  BY <2>1, <2>3, <2>4 DEF Begun, SameRow, Current, Final
<1>5. ASSUME NEW j \in Jobs, Finish(j) \/ FailOrCancel(j)
      PROVE  Current'
  <2>1. PICK st \in {"succeeded", "failed", "cancelled"}, withPath \in BOOLEAN :
              Ended(j, st, withPath)
    BY <1>5, EndEffect
  <2>2. \A i \in Jobs : Up(i)' => Up(i)
    BY <2>1 DEF Ended, Up
  <2>3. j \notin stale' => rowStatus'[j] = status'[j]
    BY <2>1 DEF Ended, RowWritten
  <2>. QED  BY <2>1, <2>2, <2>3 DEF Ended, SameRow, Current
<1>6. ASSUME NEW j \in Jobs, BodyReturns(j)
      PROVE  Current'
  <2>1. /\ UNCHANGED <<proc, owner, status, rowStatus, stale>>
        /\ pc[j] = "running" /\ \A i \in Jobs : pc'[i] # "over" => pc[i] # "over"
    BY <1>6 DEF BodyReturns, rowVars, ghostVars, Types
  <2>. QED  BY <2>1 DEF Current, Up
<1>7. CASE (\E s \in Servers : Emit(s)) \/ UNCHANGED vars
  <2>1. UNCHANGED <<proc, owner, pc, status, rowStatus, stale>>
    BY <1>7 DEF Emit, vars, jobVars, rowVars, ghostVars
  <2>. QED  BY <2>1 DEF Current, Up
<1>. QED  BY <1>1, <1>2, <1>3, <1>4, <1>5, <1>6, <1>7 DEF Next

LEMMA LeftStep ==
    ASSUME Types, Owned, Left, [Next]_vars
    PROVE  Left'
<1>1. ASSUME NEW s \in Servers, NEW q \in Pids, Boot(s, q)
      PROVE  Left'
  <2>1. /\ proc[s] = "off" /\ proc'[s] = "sweeping"
        /\ \A r \in Servers \ {s} :
              /\ proc'[r] = proc[r] /\ pid'[r] = pid[r] /\ found'[r] = found[r]
              /\ deadAtBoot'[r] = deadAtBoot[r]
        /\ found'[s] = Found
        /\ deadAtBoot'[s] = {j \in Jobs : rowStatus[j] = "running" /\ ~Running(owner[j])}
        /\ UNCHANGED <<owner, rowStatus, rowPid>>
    BY <1>1 DEF Boot, jobVars, rowVars, Types
  <2>2. \A j \in Jobs : owner[j] # s
    <3>1. SUFFICES ASSUME NEW j \in Jobs, owner[j] = s PROVE FALSE
      OBVIOUS
    <3>2. proc[owner[j]] \in {"up", "dead"}
      BY <3>1 DEF Owned
    <3>. QED  BY <2>1, <3>1, <3>2
  <2>3. ASSUME NEW j \in deadAtBoot'[s]
        PROVE  owner[j] \in Servers /\ proc[owner[j]] = "dead" /\ j \in Found
    <3>1. j \in Jobs /\ rowStatus[j] = "running" /\ ~Running(owner[j])
      BY <2>1, <2>3
    <3>2. owner[j] \in Servers /\ proc[owner[j]] \in {"up", "dead"}
      BY <3>1 DEF Types, Owned
    <3>. QED  BY <3>1, <3>2 DEF Running, Found
  <2>4. ASSUME NEW r \in Servers, NEW j \in deadAtBoot'[r]
        PROVE  /\ owner'[j] \in Servers /\ proc'[owner'[j]] = "dead" /\ proc'[r] # "off"
               /\ proc'[r] = "sweeping" => j \in found'[r]
               /\ proc'[r] = "up" =>
                     \/ rowStatus'[j] # "running"
                     \/ \E t \in Servers \ {owner'[j]} : pid'[t] = rowPid'[j]
    <3>1. CASE r = s
      BY <2>1, <2>2, <2>3, <2>4, <3>1
    <3>2. CASE r # s
      <4>1. /\ j \in deadAtBoot[r] /\ j \in Jobs /\ owner[j] \in Servers /\ owner[j] # s
            /\ proc[owner[j]] = "dead" /\ proc[r] # "off"
            /\ proc[r] = "sweeping" => j \in found[r]
        BY <2>1, <2>2, <2>4, <3>2 DEF Left, Types
      <4>2. ASSUME proc[r] = "up", rowStatus[j] = "running"
            PROVE  \E t \in Servers \ {owner[j]} : pid'[t] = rowPid[j]
        <5>1. PICK t \in Servers \ {owner[j]} : pid[t] = rowPid[j]
          BY <4>1, <4>2 DEF Left
        <5>2. t # s
          <6>1. rowPid[j] # Nobody
            BY <4>1, <4>2 DEF Owned
          <6>2. pid[s] = Nobody
            BY <2>1 DEF Owned
          <6>. QED  BY <5>1, <6>1, <6>2
        <5>. QED  BY <2>1, <5>1, <5>2
      <4>. QED  BY <2>1, <3>2, <4>1, <4>2
    <3>. QED  BY <3>1, <3>2
  <2>. QED  BY <2>4 DEF Left
<1>2. ASSUME NEW s \in Servers, Sweep(s)
      PROVE  Left'
  <2>1. /\ proc[s] = "sweeping" /\ proc'[s] = "up"
        /\ \A r \in Servers \ {s} : proc'[r] = proc[r] /\ found'[r] = found[r]
        /\ UNCHANGED <<pid, owner, rowPid, deadAtBoot>>
        /\ \A j \in Jobs : rowStatus'[j] = IF j \in Flipped(s) THEN "interrupted" ELSE rowStatus[j]
    BY <1>2 DEF Sweep, jobVars, Types
  <2>2. ASSUME NEW r \in Servers, NEW j \in deadAtBoot[r]
        PROVE  /\ owner[j] \in Servers /\ proc'[owner[j]] = "dead" /\ proc'[r] # "off"
               /\ proc'[r] = "sweeping" => j \in found'[r]
               /\ proc'[r] = "up" =>
                     \/ rowStatus'[j] # "running"
                     \/ \E t \in Servers \ {owner[j]} : pid[t] = rowPid[j]
    <3>1. /\ j \in Jobs /\ owner[j] \in Servers /\ proc[owner[j]] = "dead" /\ proc[r] # "off"
          /\ proc[r] = "sweeping" => j \in found[r]
      BY <2>2 DEF Left, Types
    <3>2. CASE r = s
      <4>1. ASSUME rowStatus'[j] = "running"
            PROVE  \E t \in Servers \ {owner[j]} : pid[t] = rowPid[j]
        <5>1. j \in found[s] /\ j \notin Flipped(s)
          BY <2>1, <3>1, <3>2, <4>1
        <5>2. PICK t \in Servers : Running(t) /\ pid[t] = rowPid[j]
          BY <5>1 DEF Flipped, PidAlive
        <5>. QED  BY <3>1, <5>2 DEF Running
      <4>. QED  BY <2>1, <3>1, <3>2, <4>1
    <3>3. CASE r # s
      BY <2>1, <2>2, <3>1, <3>3 DEF Left
    <3>. QED  BY <3>2, <3>3
  <2>. QED  BY <2>1, <2>2 DEF Left
<1>3. ASSUME NEW s \in Servers, Die(s)
      PROVE  Left'
  <2>1. /\ proc[s] # "off" /\ proc'[s] = "dead"
        /\ \A r \in Servers \ {s} : proc'[r] = proc[r] /\ found'[r] = found[r]
        /\ UNCHANGED <<pid, owner, rowStatus, rowPid, deadAtBoot>>
    BY <1>3 DEF Die, Running, jobVars, rowVars, Types
  <2>. QED  BY <2>1 DEF Left
<1>4. ASSUME NEW j \in Jobs, UNCHANGED <<proc, pid, found, deadAtBoot>>,
             \A s \in Servers : j \notin deadAtBoot[s],
             \A i \in Jobs \ {j} : owner'[i] = owner[i] /\ SameRow(i)
      PROVE  Left'
  <2>1. \A s \in Servers : \A i \in deadAtBoot[s] : i \in Jobs \ {j}
    BY <1>4 DEF Types
  <2>. QED  BY <1>4, <2>1 DEF Left, SameRow
<1>5. ASSUME NEW s \in Servers, NEW j \in Jobs, Start(s, j)
      PROVE  Left'
  <2>1. Begun(s, j)
    BY <1>5, StartEffect
  <2>2. \A r \in Servers : j \notin deadAtBoot[r]
    BY <2>1, JobStoreAssumption DEF Begun, Owned, Left
  <2>. QED  BY <1>4, <2>1, <2>2 DEF Begun
<1>6. ASSUME NEW j \in Jobs, Finish(j) \/ FailOrCancel(j)
      PROVE  Left'
  <2>1. PICK st \in {"succeeded", "failed", "cancelled"}, withPath \in BOOLEAN :
              Ended(j, st, withPath)
    BY <1>6, EndEffect
  <2>2. \A r \in Servers : j \notin deadAtBoot[r]
    BY <2>1 DEF Ended, Up, Left
  <2>. QED  BY <1>4, <2>1, <2>2 DEF Ended
<1>7. CASE \/ \E j \in Jobs : BodyReturns(j)
           \/ \E s \in Servers : Emit(s)
           \/ UNCHANGED vars
  <2>1. UNCHANGED <<proc, pid, found, owner, rowStatus, rowPid, deadAtBoot>>
    BY <1>7 DEF BodyReturns, Emit, vars, jobVars, rowVars, ghostVars
  <2>. QED  BY <2>1 DEF Left
<1>. QED  BY <1>1, <1>2, <1>3, <1>5, <1>6, <1>7 DEF Next

Truth == Types /\ Owned /\ Current /\ Left

LEMMA TruthAlways == Spec => []Truth
<1>1. Init => Truth
  BY InitTypes, InitOwned, InitTruth DEF Truth
<1>2. Truth /\ [Next]_vars => Truth'
  BY NextTypes, OwnedStep, CurrentStep, LeftStep DEF Truth
<1>. QED  BY <1>1, <1>2, PTL DEF Spec

\* However many processes boot, sweep and die around it, and whatever pids they are given:
\* the row of a living server's job says what that server says, if the last write of it did
\* not fail, and a dead server's job is not left running.
THEOREM RowsAreTrue == Spec => []RowsTellTheTruth
<1>1. Truth => RowsTellTheTruth
  BY DEF Truth, Current, Left, RowsTellTheTruth, StatusTold
<1>. QED  BY TruthAlways, <1>1, PTL

\* A final row is rewritten by nobody but a process that found the job running.
THEOREM FinalRowsKept == Spec => FinalRowsStay
<1>1. ASSUME Truth, [Next]_vars, NEW j \in Jobs, rowStatus[j] \in Final,
             \A s \in Servers : j \notin runningAtBoot[s]
      PROVE  rowStatus'[j] = rowStatus[j]
  <2>1. ASSUME NEW s \in Servers, Sweep(s)
        PROVE  rowStatus'[j] = rowStatus[j]
    <3>1. j \notin Flipped(s)
      BY <1>1 DEF Flipped, Truth, Owned
    <3>. QED  BY <2>1, <3>1 DEF Sweep
  <2>2. ASSUME NEW s \in Servers, NEW i \in Jobs, Start(s, i)
        PROVE  rowStatus'[j] = rowStatus[j]
    <3>1. Begun(s, i)
      BY <2>2, <1>1, StartEffect DEF Truth
    <3>2. i # j
      BY <1>1, <3>1, JobStoreAssumption DEF Begun, Truth, Types, Owned, Final
    <3>. QED  BY <3>1, <3>2 DEF Begun, SameRow
  <2>3. ASSUME NEW i \in Jobs, Finish(i) \/ FailOrCancel(i)
        PROVE  rowStatus'[j] = rowStatus[j]
    <3>1. PICK st \in {"succeeded", "failed", "cancelled"}, withPath \in BOOLEAN :
                Ended(i, st, withPath)
      BY <2>3, <1>1, EndEffect DEF Truth
    <3>2. i # j
      BY <1>1, <3>1 DEF Ended, Truth, Current
    <3>. QED  BY <3>1, <3>2 DEF Ended, SameRow
  <2>4. CASE \/ \E s \in Servers : Die(s) \/ Emit(s) \/ \E q \in Pids : Boot(s, q)
             \/ \E i \in Jobs : BodyReturns(i)
             \/ UNCHANGED vars
    BY <2>4 DEF Die, Emit, Boot, BodyReturns, vars, rowVars
  <2>. QED  BY <1>1, <2>1, <2>2, <2>3, <2>4 DEF Next
<1>2. Truth /\ [Next]_vars =>
        [\A j \in Jobs :
            rowStatus[j] \in Final /\ (\A s \in Servers : j \notin runningAtBoot[s])
                => rowStatus'[j] = rowStatus[j]]_vars
  BY <1>1
<1>. QED  BY TruthAlways, <1>2, PTL DEF Spec, FinalRowsStay
-----------------------------------------------------------------------------
(* Where results are. *)

\* A result that was spilled is in memory or has a path, a path leads to a file until that is
\* pruned, and a row has a path only of its job.
Results ==
    /\ \A j \in Jobs : pc[j] = "spilled" \/ status[j] = "succeeded" => j \in kept \cup path
    /\ \A j \in path \ pruned : Stored(j)
    /\ rowPath \subseteq path

LEMMA InitResults == Init => Results
  BY DEF Init, Results

LEMMA EmitStored ==
    ASSUME Types, NEW s \in Servers, Emit(s), NEW j \in Jobs \ pruned', Stored(j)
    PROVE  Stored(j)'
<1>1. PICK drop \in 0..Len(files) :
          /\ files' = Append(SubSeq(files, drop + 1, Len(files)), Answer)
          /\ pruned' = pruned \cup {i \in Jobs : \E k \in 1..drop : files[k] = i}
  BY DEF Emit
<1>2. PICK k \in DOMAIN files : files[k] = j
  BY DEF Stored
<1>3. k \in Nat \ {0}
  BY LenProperties DEF Types
<1>4. k > drop
  BY <1>1, <1>2, <1>3
<1>5. k - drop \in DOMAIN files' /\ files'[k - drop] = j
  BY <1>1, <1>2, <1>4, EmitFiles
<1>. QED  BY <1>5 DEF Stored

LEMMA ResultsStep ==
    ASSUME Types, Results, [Next]_vars
    PROVE  Results'
<1>1. ASSUME NEW s \in Servers, NEW q \in Pids, Boot(s, q)
      PROVE  Results'
  BY <1>1 DEF Boot, jobVars, rowVars, Results, Stored
<1>2. ASSUME NEW s \in Servers, Sweep(s) \/ Die(s)
      PROVE  Results'
  BY <1>2 DEF Sweep, Die, jobVars, rowVars, Results, Stored
<1>3. ASSUME NEW s \in Servers, Emit(s)
      PROVE  Results'
  <2>1. /\ UNCHANGED <<pc, status, kept, path, rowPath>>
        /\ pruned \subseteq pruned' /\ path \subseteq Jobs
    BY <1>3 DEF Emit, jobVars, rowVars, Types
  <2>2. \A j \in path' \ pruned' : Stored(j)'
    BY <1>3, <2>1, EmitStored DEF Results
  <2>. QED  BY <2>1, <2>2 DEF Results
<1>4. ASSUME NEW s \in Servers, NEW j \in Jobs, Start(s, j)
      PROVE  Results'
  <2>1. Begun(s, j)
    BY <1>4, StartEffect
  <2>2. rowPath' \subseteq rowPath
    <3>. rowPath' \subseteq Jobs
      BY <1>4, NextTypes DEF Next, Types
    <3>. QED  BY <2>1 DEF Begun, RowWritten, SameRow
  <2>. QED  BY <2>1, <2>2 DEF Begun, Results, Stored
<1>5. ASSUME NEW j \in Jobs, BodyReturns(j)
      PROVE  Results'
  <2>1. /\ UNCHANGED <<status, rowPath, pruned>>
        /\ \A i \in Jobs \ {j} : pc'[i] = pc[i]
        /\ path \subseteq path' /\ kept \subseteq kept' /\ j \in kept' \cup path'
    BY <1>5 DEF BodyReturns, Spill, rowVars, ghostVars, Types
  <2>2. \A i \in path' \ pruned' : Stored(i)'
    <3>1. CASE files' = Append(files, j) /\ path' = path \cup {j}
      <4>1. PICK S : S = Jobs \cup {Answer}
        OBVIOUS
      <4>2. files \in Seq(S) /\ j \in S
        BY <4>1 DEF Types
      <4>3. PICK n : n = Len(files) /\ n \in Nat /\ DOMAIN files = 1..n
        BY <4>2, LenProperties
      <4>4. /\ DOMAIN files' = 1..(n + 1) /\ files'[n + 1] = j
            /\ \A k \in 1..n : files'[k] = files[k]
        BY <3>1, <4>2, <4>3
      <4>5. n + 1 \in DOMAIN files' /\ \A k \in DOMAIN files : k \in DOMAIN files'
        BY <4>3, <4>4
      <4>6. Stored(j)' /\ \A i \in Jobs : Stored(i) => Stored(i)'
        BY <4>3, <4>4, <4>5 DEF Stored
      <4>. QED  BY <2>1, <3>1, <4>6 DEF Results, Types
    <3>2. CASE UNCHANGED <<files, path>>
      BY <2>1, <3>2 DEF Results, Stored
    <3>. QED  BY <1>5, <3>1, <3>2 DEF BodyReturns, Spill
  <2>. QED  BY <2>1, <2>2 DEF Results
<1>6. ASSUME NEW j \in Jobs, Finish(j) \/ FailOrCancel(j)
      PROVE  Results'
  <2>1. PICK st \in {"succeeded", "failed", "cancelled"}, withPath \in BOOLEAN : Ended(j, st, withPath)
    BY <1>6, EndEffect
  <2>2. rowPath' \subseteq rowPath \cup {j} /\ (j \in rowPath' => j \in rowPath \/ withPath)
    <3>. rowPath' \subseteq Jobs
      BY <1>6, NextTypes DEF Next, Types
    <3>. QED  BY <2>1 DEF Ended, RowWritten, SameRow
  <2>3. rowPath' \subseteq path'
    BY <2>1, <2>2 DEF Ended, Results
  <2>. QED  BY <2>1, <2>3 DEF Ended, Results, Stored
<1>7. CASE UNCHANGED vars
  BY <1>7 DEF vars, jobVars, rowVars, ghostVars, Results, Stored
<1>. QED  BY <1>1, <1>2, <1>3, <1>4, <1>5, <1>6, <1>7 DEF Next

LEMMA ResultsAlways == Spec => [](Types /\ Owned /\ Results)
<1>1. Types /\ Owned /\ Results /\ [Next]_vars => Results'
  BY ResultsStep
<1>. QED  BY OwnedAlways, InitResults, <1>1, PTL DEF Spec

\* No result of a job is lost before its file is pruned, whichever processes die and whatever sqlite
\* and the file system refuse (ResultsCanBeFetched; jobs.py, _spill_result and result).
THEOREM ResultsFetchable == Spec => []ResultsCanBeFetched
<1>1. Types /\ Owned /\ Results => ResultsCanBeFetched
  BY DEF Types, Owned, Results, ResultsCanBeFetched, StatusTold, Fetched
<1>. QED  BY <1>1, ResultsAlways, PTL
=============================================================================
