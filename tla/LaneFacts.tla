------------------------------ MODULE LaneFacts ------------------------------
(***************************************************************************)
(* What servers learn about the lanes and keep: what a lane costs its user *)
(* (set_lane_cost, the shell's `set-cost`, the config file, the            *)
(* environment) and how it answered the last deep probe (doctor deep=true, *)
(* the table deep_probes).                                                 *)
(*                                                                         *)
(* Several processes share the file and the table: the server of each host *)
(* and the commands of the shell. A process updates the file in one go,    *)
(* but another process, or its own death, may come between its reading,    *)
(* its opening (which empties the file) and its writing. A deep probe      *)
(* awaits the lanes between reading the rows and replacing them, and the   *)
(* rows are replaced before the report of it leaves.                       *)
(*                                                                         *)
(* A variant just before an operator has a mistake that is easily made     *)
(* there; no specification uses it.                                        *)
(***************************************************************************)
EXTENDS Integers

CONSTANTS
    Servers,     \* the processes: a host's server or, while it is down, a shell command
    Lanes,
    Tiers,       \* the cost tiers: free, limited, paid
    Free,        \* the tier whose lanes a deep probe asks
    Default,     \* [Lanes -> Tiers]: the tier a lane ships with, its sunset considered
    Looks,       \* what a probe can see of a lane: its answer, version and models
    Unset,       \* no value: of a variable, of a row
    Preset,      \* [Servers -> costs]: the environment a host starts its server with
    Absent,      \* there is no config file
    Broken,      \* the file holds no JSON: emptied, cut short or mistyped
    MaxSets,     \* bound: cost facts recorded
    MaxOthers    \* bound: deep probes started and the user's own mistakes in the file, together

Costs == [Lanes -> Tiers \cup {Unset}]
Rows == [Lanes -> Looks \cup {Unset}]

\* What the file can say: the lanes' costs, and whether whatever else the user put in it
\* (profile, allow_lanes, caps, ...) is still there.
Configs == [rest : BOOLEAN, cost : Costs]

ASSUME LaneFactsAssumption ==
    /\ Free \in Tiers
    /\ Default \in [Lanes -> Tiers]
    /\ Unset \notin Tiers \cup Looks
    /\ Absent \notin Configs /\ Broken \notin Configs /\ Absent # Broken
    /\ Preset \in [Servers -> Costs]
    /\ MaxSets \in Nat /\ MaxOthers \in Nat

VARIABLES
    pc,          \* down, up (a server) or shell (a set-cost command)
    env,         \* CLI_BRIDGE_<LANE>_COST in the environment of the process
    presetKeys,  \* config.ENV_PRESET_KEYS: the lanes whose cost was there at its start
    file,        \* the config file
    step,        \* how far update_config_file got: rest, loaded, emptied
    fact,        \* the lane and the cost it is about to persist
    cfg,         \* the file with them
    asked,       \* the lanes a deep probe of the process is asking
    prev,        \* the rows it compares with
    seen,        \* what it saw so far
    saved,       \* whether it has replaced the rows: no, yes, refused
    row          \* the table deep_probes

\* What the properties need to remember; no action reads these, but for the bounds.
VARIABLES
    told,     \* the latest cost of each lane that was reported as persisted
    vouched,  \* the servers that said so last without warning of their own environment
    hurt,     \* an update started from a file it could not read, or met another one
    heard,    \* what the reader of the deep probes' reports knows of each lane
    blind,    \* the lanes of a probe that could not read or replace the rows, or did not report
    crossed,  \* two deep probes were under way together
    sets, edits, probes

processVars == <<pc, env, presetKeys>>
updateVars == <<step, fact, cfg>>
probeVars == <<asked, prev, seen, saved>>
costGhosts == <<told, vouched, hurt, sets, edits>>
probeGhosts == <<heard, blind, crossed, probes>>
vars == <<processVars, file, updateVars, probeVars, row, costGhosts, probeGhosts>>

NoCosts == [l \in Lanes |-> Unset]
NoRows == [l \in Lanes |-> Unset]
Facts == [lane : Lanes, cost : Tiers]

TypeOK ==
    /\ pc \in [Servers -> {"down", "up", "shell"}]
    /\ env \in [Servers -> Costs]
    /\ presetKeys \in [Servers -> SUBSET Lanes]
    /\ file \in Configs \cup {Absent, Broken}
    /\ step \in [Servers -> {"rest", "loaded", "emptied"}]
    /\ fact \in [Servers -> Facts \cup {Unset}] /\ cfg \in [Servers -> Configs \cup {Unset}]
    /\ asked \in [Servers -> SUBSET Lanes]
    /\ prev \in [Servers -> Rows] /\ seen \in [Servers -> Rows]
    /\ saved \in [Servers -> {"no", "yes", "refused"}]
    /\ row \in Rows
    /\ told \in Costs /\ vouched \in [Lanes -> SUBSET Servers] /\ hurt \in BOOLEAN
    /\ heard \in Rows /\ blind \subseteq Lanes /\ crossed \in BOOLEAN
    /\ sets \in Nat /\ edits \in Nat /\ probes \in Nat

Init ==
    /\ pc = [p \in Servers |-> "down"]
    /\ env = [p \in Servers |-> NoCosts]
    /\ presetKeys = [p \in Servers |-> {}]
    /\ file \in {Absent, [rest |-> TRUE, cost |-> NoCosts]}
    /\ step = [p \in Servers |-> "rest"]
    /\ fact = [p \in Servers |-> Unset] /\ cfg = [p \in Servers |-> Unset]
    /\ asked = [p \in Servers |-> {}]
    /\ prev = [p \in Servers |-> NoRows] /\ seen = [p \in Servers |-> NoRows]
    /\ saved = [p \in Servers |-> "no"]
    /\ row = NoRows
    /\ told = NoCosts /\ vouched = [l \in Lanes |-> {}] /\ hurt = FALSE
    /\ heard = NoRows /\ blind = {} /\ crossed = FALSE
    /\ sets = 0 /\ edits = 0 /\ probes = 0

-----------------------------------------------------------------------------
(* The costs: config.py, server._set_lane_cost and cli._cmd_set_cost. *)

\* json.load of the config file: one that is not there, or holds no JSON, says nothing.
Contents(f) ==
    IF f \in Configs THEN f ELSE [rest |-> f = Absent, cost |-> NoCosts]

\* apply_file_config_to_env: the file fills what the environment e leaves unset.
Applied(e) == [l \in Lanes |-> IF e[l] # Unset THEN e[l] ELSE Contents(file).cost[l]]

\* main: a server starts in its host's environment.
Start(p) ==
    /\ pc[p] = "down"
    /\ pc' = [pc EXCEPT ![p] = "up"]
    /\ presetKeys' = [presetKeys EXCEPT ![p] = {l \in Lanes : Preset[p][l] # Unset}]
    /\ env' = [env EXCEPT ![p] = Applied(Preset[p])]
    /\ UNCHANGED <<file, updateVars, probeVars, row, costGhosts, probeGhosts>>

\* The locals of update_config_file and of doctor_deep go with them.
Forgotten(p) ==
    /\ step' = [step EXCEPT ![p] = "rest"]
    /\ fact' = [fact EXCEPT ![p] = Unset]
    /\ cfg' = [cfg EXCEPT ![p] = Unset]
NotProbing(p) ==
    /\ asked' = [asked EXCEPT ![p] = {}]
    /\ prev' = [prev EXCEPT ![p] = NoRows]
    /\ seen' = [seen EXCEPT ![p] = NoRows]
    /\ saved' = [saved EXCEPT ![p] = "no"]
\* What was stored and is not reported any more.
Unreported(p) == blind' = IF saved[p] = "yes" THEN blind \cup asked[p] ELSE blind

\* The process ends, wherever it is: its environment, its deep probe and an update of the
\* file that it was in end with it.
Die(p) ==
    /\ pc[p] # "down"
    /\ pc' = [pc EXCEPT ![p] = "down"]
    /\ env' = [env EXCEPT ![p] = NoCosts]
    /\ presetKeys' = [presetKeys EXCEPT ![p] = {}]
    /\ Forgotten(p)
    /\ NotProbing(p) /\ Unreported(p)
    /\ UNCHANGED <<file, row, costGhosts, heard, crossed, probes>>

\* The file with the update merged in, everything else kept.
MergedAlone(l, c) == [Contents(file) EXCEPT !.cost = [NoCosts EXCEPT ![l] = c]]
Merged(l, c) == [Contents(file) EXCEPT !.cost[l] = c]

\* update_config_file reads the file.
Load(p, l, c) ==
    /\ step[p] = "rest"
    /\ sets < MaxSets
    /\ sets' = sets + 1
    /\ step' = [step EXCEPT ![p] = "loaded"]
    /\ fact' = [fact EXCEPT ![p] = [lane |-> l, cost |-> c]]
    /\ cfg' = [cfg EXCEPT ![p] = Merged(l, c)]
    /\ hurt' = (hurt \/ file = Broken \/ \E q \in Servers : step[q] # "rest")
    /\ UNCHANGED <<presetKeys, file, probeVars, row, told, vouched, edits,
                   probeGhosts>>

\* set_lane_cost of a lane, a tier and a note (anything else is refused): effective in this
\* process from here on, whatever becomes of the file.
SetLaneCost(p, l, c) ==
    /\ pc[p] = "up"
    /\ env' = [env EXCEPT ![p][l] = c]
    /\ Load(p, l, c)
    /\ UNCHANGED pc

\* `cli-bridge set-cost`, a process of its own.
SetCost(p, l, c) ==
    /\ pc[p] = "down"
    /\ pc' = [pc EXCEPT ![p] = "shell"]
    /\ Load(p, l, c)
    /\ UNCHANGED env

\* The update is over: a server goes on, a command exits.
Updated(p) ==
    /\ Forgotten(p)
    /\ pc' = [pc EXCEPT ![p] = IF @ = "shell" THEN "down" ELSE @]

\* open(path, "w") empties the file, or fails and leaves it as it is.
Open(p) ==
    /\ step[p] = "loaded"
    /\ \/ /\ step' = [step EXCEPT ![p] = "emptied"]
          /\ file' = Broken
          /\ UNCHANGED <<pc, fact, cfg>>
       \/ /\ Updated(p)
          /\ UNCHANGED file
    /\ UNCHANGED <<env, presetKeys, probeVars, row, costGhosts,
                   probeGhosts>>

\* A server warns when the environment it was started in sets this cost too.
Warned(p, l) == l \in presetKeys[p]
Vouching(p, l) == IF pc[p] = "shell" THEN vouched[l]
                  ELSE IF Warned(p, l) THEN vouched[l] \ {p} ELSE vouched[l] \cup {p}

\* json.dump, and the answer.
Save(p) ==
    /\ step[p] = "emptied"
    /\ Updated(p)
    /\ file' = cfg[p]
    /\ told' = [told EXCEPT ![fact[p].lane] = fact[p].cost]
    /\ vouched' = [vouched EXCEPT ![fact[p].lane] = Vouching(p, fact[p].lane)]
    /\ UNCHANGED <<env, presetKeys, probeVars, row, hurt, sets,
                   edits, probeGhosts>>

\* The disk is full: "applied for THIS session only", and the file is left empty.
SaveFails(p) ==
    /\ step[p] = "emptied"
    /\ Updated(p)
    /\ UNCHANGED <<env, presetKeys, file, probeVars, row, costGhosts,
                   probeGhosts>>

\* The user edits the file and leaves a comma too many.
Mistype ==
    /\ edits + probes < MaxOthers
    /\ edits' = edits + 1
    /\ file \in Configs
    /\ file' = Broken
    /\ UNCHANGED <<processVars, updateVars, probeVars, row, told, vouched, hurt,
                   sets, probeGhosts>>

-----------------------------------------------------------------------------
(* The deep probe: reports.doctor_deep. *)

\* LaneSpec._cost
Tier(p, l) == IF env[p][l] # Unset THEN env[p][l] ELSE Default[l]
Probed(p) == {l \in Lanes : Tier(p, l) = Free}

\* probes_get: rows that sqlite refuses to read are as if there were none.
ProbesGet == {row, NoRows}

\* The rows are read, and a call of each free lane begins.
DeepStart(p) ==
    /\ pc[p] = "up"
    /\ asked[p] = {} /\ Probed(p) # {}
    /\ edits + probes < MaxOthers
    /\ probes' = probes + 1
    /\ asked' = [asked EXCEPT ![p] = Probed(p)]
    /\ \E rows \in ProbesGet : prev' = [prev EXCEPT ![p] = rows]
    /\ crossed' = (crossed \/ \E q \in Servers : asked[q] # {})
    /\ UNCHANGED <<processVars, file, updateVars, seen, saved, row, costGhosts, heard, blind>>

\* A lane answers, or fails to; its version and models are read, whatever they are by now.
See(p, l) ==
    /\ l \in asked[p]
    /\ seen[p][l] = Unset
    /\ \E k \in Looks : seen' = [seen EXCEPT ![p][l] = k]
    /\ UNCHANGED <<processVars, file, updateVars, asked, prev, saved, row, costGhosts,
                   probeGhosts>>

\* _probe_changes: the lanes reported as probed first, or as different. Without rows to compare
\* with, the report has no such section.
Changes(p) == {l \in asked[p] : seen[p][l] # prev[p][l]}
Told(p) == IF prev[p] = NoRows THEN {} ELSE Changes(p)

\* What the reader learns: a change, or what a lane is like that was in no report before.
News(p) == Told(p) \cup {l \in asked[p] : heard[l] = Unset}

\* probes_put: the rows of these lanes are replaced, the others stay.
PutAll(p) == seen[p]
Put(p) == [l \in Lanes |-> IF l \in asked[p] THEN seen[p][l] ELSE row[l]]

\* Every lane was seen: the rows are replaced, unless sqlite refuses.
DeepStore(p) ==
    /\ asked[p] # {} /\ saved[p] = "no"
    /\ \A l \in asked[p] : seen[p][l] # Unset
    /\ \E s \in {"yes", "refused"} :
          /\ saved' = [saved EXCEPT ![p] = s]
          /\ row' = IF s = "yes" THEN Put(p) ELSE row
          /\ blind' = IF s = "yes" /\ prev[p] = row THEN blind ELSE blind \cup asked[p]
    /\ UNCHANGED <<processVars, file, updateVars, asked, prev, seen, costGhosts,
                   heard, crossed, probes>>

\* The report leaves.
DeepTell(p) ==
    /\ saved[p] # "no"
    /\ heard' = [l \in Lanes |-> IF l \in News(p) THEN seen[p][l] ELSE heard[l]]
    /\ blind' = IF saved[p] = "yes" THEN blind \ Told(p) ELSE blind
    /\ NotProbing(p)
    /\ UNCHANGED <<processVars, file, updateVars, row, costGhosts, crossed, probes>>

\* The host cancels the call before its answer is sent, or a step of it raises: the server lives
\* on.
DeepCut(p) ==
    /\ asked[p] # {}
    /\ NotProbing(p) /\ Unreported(p)
    /\ UNCHANGED <<processVars, file, updateVars, row, costGhosts, heard, crossed, probes>>

-----------------------------------------------------------------------------
Next ==
    \/ \E p \in Servers :
          \/ Start(p) \/ Die(p) \/ Open(p) \/ Save(p) \/ SaveFails(p)
          \/ DeepStart(p) \/ DeepStore(p) \/ DeepTell(p) \/ DeepCut(p)
          \/ \E l \in Lanes : See(p, l) \/ \E c \in Tiers : SetLaneCost(p, l, c) \/ SetCost(p, l, c)
    \/ Mistype

Spec == Init /\ [][Next]_vars

-----------------------------------------------------------------------------
(* Properties *)

\* "it survives restarts": a server that starts has, for every lane whose cost was reported
\* as persisted, the latest cost reported by anyone; the cost in its host's environment wins,
\* and then no server of that host has reported another one without the warning. Unless an
\* update met another or an unreadable file, or the file is unreadable now.
FactsSurviveRestart ==
    [][\A p \in Servers, l \in Lanes :
          /\ pc[p] = "down" /\ pc'[p] = "up"
          /\ told[l] # Unset /\ ~hurt /\ file # Broken
          => IF Preset[p][l] = Unset THEN env'[p][l] = told[l]
                                     ELSE env'[p][l] = Preset[p][l] /\ p \notin vouched[l]]_vars

\* What the table holds of a lane was reported when it came to differ, or is about to be, through
\* restarts, probes cut short and lanes that leave the free set and come back. Unless two probes
\* overlapped, or a probe of that lane could not read or replace the rows or ended after it
\* replaced them and before its report left (blind), and no change of it was reported since.
DriftIsTold ==
    ~crossed =>
        \A l \in Lanes \ blind :
            heard[l] = row[l] \/ \E p \in Servers : saved[p] = "yes" /\ l \in News(p)

-----------------------------------------------------------------------------
(* What the documentation says, and the code does not keep. *)

\* doctor_deep: what changed "is reported as drift instead of being noticed the day it breaks a
\* delegation". So who reads a report that compares knows of each lane in it what it is like now.
\* But the rows are replaced before the report leaves, and stay when they cannot be replaced.
EveryDriftIsTold ==
    [][\A p \in Servers :
          DeepTell(p) /\ prev[p] # NoRows /\ ~crossed
          => \A l \in asked[p] : heard'[l] = seen[p][l]]_vars

\* update_config_file: "preserves everything else in the file".
OthersSettingsKept == file \in Configs => file.rest
=============================================================================
