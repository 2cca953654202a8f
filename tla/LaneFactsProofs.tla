--------------------------- MODULE LaneFactsProofs ---------------------------
(***************************************************************************)
(* What LaneFacts keeps for any servers, lanes, tiers and environments,    *)
(* and any number of cost facts, mistakes in the file and deep probes.     *)
(***************************************************************************)
EXTENDS LaneFacts, TLAPS

\* TypeOK in three parts, as the actions touch them.
ProcessTypes ==
    /\ pc \in [Servers -> {"down", "up", "shell"}]
    /\ env \in [Servers -> Costs]
    /\ presetKeys \in [Servers -> SUBSET Lanes]

UpdateTypes ==
    /\ file \in Configs \cup {Absent, Broken}
    /\ step \in [Servers -> {"rest", "loaded", "emptied"}]
    /\ fact \in [Servers -> Facts \cup {Unset}]
    /\ cfg \in [Servers -> Configs \cup {Unset}]
    /\ told \in Costs /\ vouched \in [Lanes -> SUBSET Servers] /\ hurt \in BOOLEAN
    /\ sets \in Nat /\ edits \in Nat

ProbeTypes ==
    /\ asked \in [Servers -> SUBSET Lanes]
    /\ prev \in [Servers -> Rows] /\ seen \in [Servers -> Rows]
    /\ saved \in [Servers -> {"no", "yes", "refused"}]
    /\ row \in Rows
    /\ heard \in Rows /\ blind \subseteq Lanes /\ crossed \in BOOLEAN
    /\ probes \in Nat

\* A process in the middle of an update has read the file, and knows what it will write.
Busy == \A p \in Servers : step[p] # "rest" => /\ pc[p] # "down"
                                               /\ fact[p] \in Facts /\ cfg[p] \in Configs

Types == ProcessTypes /\ UpdateTypes /\ ProbeTypes /\ Busy

LEMMA NoCostsType == NoCosts \in Costs /\ NoRows \in Rows
BY DEF NoCosts, NoRows, Costs, Rows

LEMMA ContentsType ==
    ASSUME NEW f \in Configs \cup {Absent, Broken}
    PROVE  Contents(f) \in Configs
<1>1. CASE f \in Configs
  BY <1>1 DEF Contents
<1>2. CASE f \notin Configs
  BY <1>2, NoCostsType DEF Contents, Configs
<1>. QED  BY <1>1, <1>2

LEMMA MergedType ==
    ASSUME UpdateTypes, NEW l \in Lanes, NEW c \in Tiers
    PROVE  /\ Merged(l, c) \in Configs
           /\ Merged(l, c).cost = [Contents(file).cost EXCEPT ![l] = c]
<1>1. Contents(file) \in Configs
  BY ContentsType DEF UpdateTypes
<1>2. Merged(l, c) = [Contents(file) EXCEPT !.cost = [Contents(file).cost EXCEPT ![l] = c]]
  BY <1>1 DEF Merged, Configs
<1>3. [Contents(file).cost EXCEPT ![l] = c] \in Costs
  BY <1>1 DEF Configs, Costs
<1>. QED  BY <1>1, <1>2, <1>3 DEF Configs

LEMMA AppliedType ==
    ASSUME UpdateTypes, NEW e \in Costs
    PROVE  Applied(e) \in Costs
<1>1. Contents(file) \in Configs
  BY ContentsType DEF UpdateTypes
<1>. QED  BY <1>1 DEF Applied, Configs, Costs

\* An update that is over, or died.
LEMMA ForgottenTypes ==
    ASSUME Types, NEW p \in Servers, Forgotten(p),
           pc' \in [Servers -> {"down", "up", "shell"}],
           \A q \in Servers \ {p} : pc'[q] = pc[q]
    PROVE  /\ step' \in [Servers -> {"rest", "loaded", "emptied"}]
           /\ fact' \in [Servers -> Facts \cup {Unset}]
           /\ cfg' \in [Servers -> Configs \cup {Unset}]
           /\ Busy'
<1>1. /\ step' \in [Servers -> {"rest", "loaded", "emptied"}]
      /\ fact' \in [Servers -> Facts \cup {Unset}]
      /\ cfg' \in [Servers -> Configs \cup {Unset}]
  BY DEF Types, UpdateTypes, Forgotten
<1>2. /\ step'[p] = "rest"
      /\ \A q \in Servers \ {p} :
            step'[q] = step[q] /\ fact'[q] = fact[q] /\ cfg'[q] = cfg[q]
  BY DEF Types, UpdateTypes, Forgotten
<1>. QED  BY <1>1, <1>2 DEF Types, Busy

LEMMA InitTypes == Init => Types
<1>. SUFFICES ASSUME Init
              PROVE  Types
  OBVIOUS
<1>. USE LaneFactsAssumption, NoCostsType DEF Init
<1>1. ProcessTypes
  BY DEF ProcessTypes
<1>2. UpdateTypes
  <2>1. [rest |-> TRUE, cost |-> NoCosts] \in Configs
    BY DEF Configs
  <2>. QED  BY <2>1 DEF UpdateTypes
<1>3. ProbeTypes
  BY DEF ProbeTypes
<1>4. Busy
  BY DEF Busy
<1>. QED  BY <1>1, <1>2, <1>3, <1>4 DEF Types

LEMMA LoadTypes ==
    ASSUME Types, NEW p \in Servers, NEW l \in Lanes, NEW c \in Tiers,
           SetLaneCost(p, l, c) \/ SetCost(p, l, c)
    PROVE  Types'
<1>1. Load(p, l, c)
  BY DEF SetLaneCost, SetCost
<1>2. ProcessTypes' /\ pc'[p] # "down" /\ \A q \in Servers \ {p} : pc'[q] = pc[q]
  <2>1. CASE SetLaneCost(p, l, c)
    <3>1. env' \in [Servers -> Costs]
      BY <2>1 DEF SetLaneCost, Types, ProcessTypes, Costs
    <3>. QED  BY <1>1, <2>1, <3>1 DEF SetLaneCost, Load, Types, ProcessTypes
  <2>2. CASE SetCost(p, l, c)
    BY <1>1, <2>2 DEF SetCost, Load, Types, ProcessTypes
  <2>. QED  BY <2>1, <2>2
<1>3. [lane |-> l, cost |-> c] \in Facts /\ Merged(l, c) \in Configs
  BY MergedType DEF Facts, Types
<1>4. UpdateTypes'
  BY <1>1, <1>3 DEF Load, Types, UpdateTypes
<1>5. ProbeTypes'
  BY <1>1 DEF Load, Types, ProbeTypes, probeVars, probeGhosts
<1>6. Busy'
  <2>1. /\ step'[p] = "loaded" /\ fact'[p] \in Facts /\ cfg'[p] \in Configs
        /\ \A q \in Servers \ {p} :
              step'[q] = step[q] /\ fact'[q] = fact[q] /\ cfg'[q] = cfg[q]
    BY <1>1, <1>3 DEF Load, Types, UpdateTypes
  <2>. QED  BY <1>2, <2>1 DEF Types, Busy
<1>. QED  BY <1>2, <1>4, <1>5, <1>6 DEF Types

LEMMA UpdateTypesKept ==
    ASSUME Types, NEW p \in Servers, Open(p) \/ Save(p) \/ SaveFails(p)
    PROVE  Types'
<1>1. step[p] # "rest"
  BY DEF Open, Save, SaveFails
<1>2. fact[p] \in Facts /\ cfg[p] \in Configs
  BY <1>1 DEF Types, Busy
<1>3. ProbeTypes'
  BY DEF Open, Save, SaveFails, Types, ProbeTypes, probeVars, probeGhosts
<1>4. env' = env /\ presetKeys' = presetKeys
  BY DEF Open, Save, SaveFails
<1>5. ASSUME Updated(p)
      PROVE  /\ pc' \in [Servers -> {"down", "up", "shell"}]
             /\ step' \in [Servers -> {"rest", "loaded", "emptied"}]
             /\ fact' \in [Servers -> Facts \cup {Unset}]
             /\ cfg' \in [Servers -> Configs \cup {Unset}]
             /\ Busy'
  <2>1. /\ pc' \in [Servers -> {"down", "up", "shell"}]
        /\ \A q \in Servers \ {p} : pc'[q] = pc[q]
    BY <1>5 DEF Updated, Types, ProcessTypes
  <2>. QED  BY <1>5, <2>1, ForgottenTypes DEF Updated
<1>6. CASE Open(p)
  <2>1. UNCHANGED <<told, vouched, hurt, sets, edits>>
    BY <1>6 DEF Open, costGhosts
  <2>2. CASE Updated(p) /\ UNCHANGED file
    BY <1>3, <1>4, <1>5, <2>1, <2>2 DEF Types, ProcessTypes, UpdateTypes
  <2>3. CASE /\ step' = [step EXCEPT ![p] = "emptied"] /\ file' = Broken
             /\ UNCHANGED <<pc, fact, cfg>>
    <3>1. Busy'
      <4>1. \A q \in Servers : step'[q] # "rest" => step[q] # "rest"
        BY <1>1, <2>3 DEF Types, UpdateTypes
      <4>. QED  BY <2>3, <4>1 DEF Types, Busy
    <3>. QED  BY <1>3, <1>4, <2>1, <2>3, <3>1 DEF Types, ProcessTypes, UpdateTypes
  <2>. QED  BY <1>6, <2>2, <2>3 DEF Open
<1>7. CASE Save(p)
  <2>1. fact[p].lane \in Lanes /\ fact[p].cost \in Tiers
    BY <1>2 DEF Facts
  <2>2. told' \in Costs
    BY <1>7, <2>1 DEF Save, Types, UpdateTypes, Costs
  <2>3. Vouching(p, fact[p].lane) \in SUBSET Servers
    BY <2>1 DEF Vouching, Types, UpdateTypes
  <2>4. vouched' \in [Lanes -> SUBSET Servers]
    BY <1>7, <2>3 DEF Save, Types, UpdateTypes
  <2>. QED  BY <1>2, <1>3, <1>4, <1>5, <1>7, <2>2, <2>4
            DEF Save, Types, ProcessTypes, UpdateTypes
<1>8. CASE SaveFails(p)
  BY <1>3, <1>4, <1>5, <1>8 DEF SaveFails, costGhosts, Types, ProcessTypes, UpdateTypes
<1>. QED  BY <1>6, <1>7, <1>8

\* A probe that is over, or died.
LEMMA NotProbingTypes ==
    ASSUME ProbeTypes, NEW p \in Servers, NotProbing(p)
    PROVE  /\ asked' \in [Servers -> SUBSET Lanes]
           /\ prev' \in [Servers -> Rows] /\ seen' \in [Servers -> Rows]
           /\ saved' \in [Servers -> {"no", "yes", "refused"}]
           /\ asked'[p] = {} /\ saved'[p] = "no"
           /\ \A q \in Servers \ {p} : /\ asked'[q] = asked[q] /\ prev'[q] = prev[q]
                                       /\ seen'[q] = seen[q] /\ saved'[q] = saved[q]
BY NoCostsType DEF NotProbing, ProbeTypes

LEMMA UnreportedTypes ==
    ASSUME ProbeTypes, NEW p \in Servers, Unreported(p)
    PROVE  blind' \subseteq Lanes
BY DEF Unreported, ProbeTypes

LEMMA ProbeTypesKept ==
    ASSUME Types, NEW p \in Servers,
           \/ DeepStart(p) \/ DeepStore(p) \/ DeepTell(p) \/ DeepCut(p)
           \/ \E l \in Lanes : See(p, l)
    PROVE  Types'
<1>1. ProcessTypes' /\ UpdateTypes' /\ Busy'
  BY DEF DeepStart, DeepStore, DeepTell, DeepCut, See, processVars, updateVars, costGhosts,
         Types, ProcessTypes, UpdateTypes, Busy
<1>2. CASE DeepStart(p)
  <2>1. Probed(p) \in SUBSET Lanes
    BY DEF Probed
  <2>2. PICK rows \in {row, NoRows} : prev' = [prev EXCEPT ![p] = rows]
    BY <1>2 DEF DeepStart, ProbesGet
  <2>3. prev' \in [Servers -> Rows]
    BY <2>2, NoCostsType DEF Types, ProbeTypes
  <2>. QED  BY <1>1, <1>2, <2>1, <2>3 DEF DeepStart, Types, ProbeTypes
<1>3. ASSUME NEW l \in Lanes, See(p, l)
      PROVE  Types'
  <2>1. seen' \in [Servers -> Rows]
    BY <1>3 DEF See, Types, ProbeTypes, Rows
  <2>. QED  BY <1>1, <1>3, <2>1 DEF See, Types, ProbeTypes, probeGhosts
<1>4. CASE DeepStore(p)
  <2>1. PICK s \in {"yes", "refused"} :
           /\ saved' = [saved EXCEPT ![p] = s]
           /\ row' = IF s = "yes" THEN Put(p) ELSE row
           /\ blind' = IF s = "yes" /\ prev[p] = row THEN blind ELSE blind \cup asked[p]
    BY <1>4 DEF DeepStore
  <2>2. Put(p) \in Rows
    BY DEF Put, Types, ProbeTypes, Rows
  <2>3. /\ saved' \in [Servers -> {"no", "yes", "refused"}]
        /\ row' \in Rows /\ blind' \subseteq Lanes
    BY <2>1, <2>2 DEF Types, ProbeTypes
  <2>. QED  BY <1>1, <1>4, <2>3 DEF DeepStore, Types, ProbeTypes
<1>5. CASE DeepTell(p)
  <2>1. heard' \in Rows
    BY <1>5 DEF DeepTell, Types, ProbeTypes, Rows
  <2>2. blind' \subseteq Lanes
    BY <1>5 DEF DeepTell, Types, ProbeTypes
  <2>. QED  BY <1>1, <1>5, <2>1, <2>2, NotProbingTypes DEF DeepTell, Types, ProbeTypes
<1>6. CASE DeepCut(p)
  BY <1>1, <1>6, NotProbingTypes, UnreportedTypes DEF DeepCut, Types, ProbeTypes
<1>. QED  BY <1>2, <1>3, <1>4, <1>5, <1>6

LEMMA NextTypes ==
    ASSUME Types, [Next]_vars
    PROVE  Types'
<1>1. ASSUME NEW p \in Servers, Start(p)
      PROVE  Types'
  <2>1. env' \in [Servers -> Costs]
    <3>1. Applied(Preset[p]) \in Costs
      BY AppliedType, LaneFactsAssumption DEF Types
    <3>. QED  BY <1>1, <3>1 DEF Start, Types, ProcessTypes
  <2>2. ProcessTypes'
    BY <1>1, <2>1 DEF Start, Types, ProcessTypes
  <2>3. UpdateTypes' /\ ProbeTypes'
    BY <1>1 DEF Start, updateVars, costGhosts, probeVars, probeGhosts,
                Types, UpdateTypes, ProbeTypes
  <2>4. Busy'
    BY <1>1 DEF Start, updateVars, Types, ProcessTypes, Busy
  <2>. QED  BY <2>2, <2>3, <2>4 DEF Types
<1>2. ASSUME NEW p \in Servers, Die(p)
      PROVE  Types'
  <2>1. ProcessTypes' /\ \A q \in Servers \ {p} : pc'[q] = pc[q]
    BY <1>2, NoCostsType DEF Die, Types, ProcessTypes
  <2>2. /\ step' \in [Servers -> {"rest", "loaded", "emptied"}]
        /\ fact' \in [Servers -> Facts \cup {Unset}]
        /\ cfg' \in [Servers -> Configs \cup {Unset}]
        /\ Busy'
    BY <1>2, <2>1, ForgottenTypes DEF Die, ProcessTypes
  <2>3. ProbeTypes'
    BY <1>2, NotProbingTypes, UnreportedTypes DEF Die, Types, ProbeTypes
  <2>. QED  BY <1>2, <2>1, <2>2, <2>3 DEF Die, costGhosts, Types, UpdateTypes
<1>3. CASE Mistype
  BY <1>3 DEF Mistype, processVars, updateVars, probeVars, probeGhosts,
              Types, ProcessTypes, UpdateTypes, ProbeTypes, Busy
<1>4. CASE UNCHANGED vars
  BY <1>4 DEF vars, processVars, updateVars, probeVars, costGhosts, probeGhosts,
              Types, ProcessTypes, UpdateTypes, ProbeTypes, Busy
<1>. QED  BY <1>1, <1>2, <1>3, <1>4, LoadTypes, UpdateTypesKept, ProbeTypesKept DEF Next

\* Whatever processes meet, die or fail to write, the file is what somebody wrote in full,
\* or nothing of it is left; the rows and the environments hold what they are made for.
THEOREM Typing == Spec => []TypeOK
<1>1. Types => TypeOK
  BY DEF Types, ProcessTypes, UpdateTypes, ProbeTypes, TypeOK
<1>. QED  BY InitTypes, NextTypes, <1>1, PTL DEF Spec

-----------------------------------------------------------------------------
(* What a deep probe replaced is what it will report, unless two overlap.    *)

Drift ==
    ~crossed =>
        /\ \A p, q \in Servers : asked[p] # {} /\ asked[q] # {} => p = q
        /\ \A p \in Servers : saved[p] # "no" =>
              /\ asked[p] # {}
              /\ \A l \in asked[p] : /\ seen[p][l] # Unset
                                     /\ saved[p] = "yes" => row[l] = seen[p][l]
                                     /\ saved[p] = "refused" => l \in blind
        /\ \A l \in Lanes \ blind :
              heard[l] = row[l] \/ \E p \in Servers : saved[p] = "yes" /\ l \in News(p)

LEMMA NewsAreAsked ==
    ASSUME NEW p \in Servers
    PROVE  News(p) \subseteq asked[p] /\ Told(p) \subseteq News(p)
BY DEF News, Told, Changes

\* A probe that stored nothing, or whose lanes are blind from here on, may go.
LEMMA ProbeOver ==
    ASSUME Types, Drift, ~crossed, NEW p \in Servers, NotProbing(p),
           Unreported(p), UNCHANGED <<heard, row, crossed>>
    PROVE  Drift'
<1>1. /\ asked'[p] = {} /\ saved'[p] = "no"
      /\ \A q \in Servers \ {p} : /\ asked'[q] = asked[q] /\ prev'[q] = prev[q]
                                  /\ seen'[q] = seen[q] /\ saved'[q] = saved[q]
  BY NotProbingTypes DEF Types
<1>2. blind \subseteq blind' /\ (saved[p] = "yes" => asked[p] \subseteq blind')
  BY DEF Unreported
<1>3. ASSUME NEW l \in Lanes \ blind'
      PROVE  heard'[l] = row'[l] \/ \E q \in Servers : saved'[q] = "yes" /\ l \in News(q)'
  <2>1. heard[l] = row[l] \/ \E q \in Servers : saved[q] = "yes" /\ l \in News(q)
    BY <1>2, <1>3 DEF Drift
  <2>2. ASSUME NEW q \in Servers, saved[q] = "yes", l \in News(q)
        PROVE  saved'[q] = "yes" /\ l \in News(q)'
    <3>1. q # p
      BY <1>2, <1>3, <2>2, NewsAreAsked
    <3>. QED  BY <1>1, <2>2, <3>1 DEF News, Told, Changes
  <2>. QED  BY <2>1, <2>2
<1>. QED  BY <1>1, <1>2, <1>3 DEF Drift

LEMMA DriftStep ==
    ASSUME Types, Drift, [Next]_vars
    PROVE  Drift'
<1>. SUFFICES ASSUME ~crossed'
              PROVE  Drift'
  BY DEF Drift
<1>1. ASSUME NEW p \in Servers, DeepStart(p)
      PROVE  Drift'
  <2>1. ~crossed /\ \A q \in Servers : asked[q] = {}
    BY <1>1 DEF DeepStart, Types, ProbeTypes
  <2>2. \A q \in Servers : saved[q] = "no"
    BY <2>1 DEF Drift
  <2>3. /\ UNCHANGED <<heard, row, blind, saved>>
        /\ \A q \in Servers \ {p} : asked'[q] = {}
    BY <1>1, <2>1 DEF DeepStart, Types, ProbeTypes
  <2>. QED  BY <2>1, <2>2, <2>3 DEF Drift
<1>2. ASSUME NEW p \in Servers, NEW m \in Lanes, See(p, m)
      PROVE  Drift'
  <2>1. /\ UNCHANGED <<asked, prev, saved, row, heard, blind, crossed>>
        /\ m \in asked[p] /\ seen[p][m] = Unset
        /\ \A q \in Servers \ {p} : seen'[q] = seen[q]
    BY <1>2 DEF See, probeGhosts, Types, ProbeTypes
  <2>2. saved[p] = "no"
    BY <2>1 DEF Drift
  <2>3. \A q \in Servers : saved[q] # "no" => seen'[q] = seen[q] /\ News(q)' = News(q)
    BY <2>1, <2>2 DEF News, Told, Changes
  <2>. QED  BY <2>1, <2>2, <2>3 DEF Drift
<1>3. ASSUME NEW p \in Servers, DeepStore(p)
      PROVE  Drift'
  <2>1. PICK s \in {"yes", "refused"} :
           /\ saved' = [saved EXCEPT ![p] = s]
           /\ row' = IF s = "yes" THEN Put(p) ELSE row
           /\ blind' = IF s = "yes" /\ prev[p] = row THEN blind ELSE blind \cup asked[p]
    BY <1>3 DEF DeepStore
  <2>2. /\ UNCHANGED <<asked, prev, seen, heard, crossed>>
        /\ asked[p] # {} /\ asked[p] \subseteq Lanes
        /\ \A l \in asked[p] : seen[p][l] # Unset
    BY <1>3 DEF DeepStore, Types, ProbeTypes
  <2>3. \A q \in Servers \ {p} : asked[q] = {} /\ saved[q] = "no" /\ saved'[q] = "no"
    BY <2>1, <2>2 DEF Drift, Types, ProbeTypes
  <2>4. saved[p] = "no" /\ saved'[p] = s
    BY <1>3, <2>1 DEF DeepStore, Types, ProbeTypes
  <2>5. \A l \in Lanes \ blind : heard[l] = row[l]
    BY <2>2, <2>3, <2>4 DEF Drift
  <2>6. ASSUME NEW l \in Lanes \ blind'
        PROVE  heard'[l] = row'[l] \/ (saved'[p] = "yes" /\ l \in News(p)')
    <3>1. heard[l] = row[l]
      BY <2>1, <2>5, <2>6
    <3>2. CASE l \notin asked[p] \/ s = "refused"
      BY <2>1, <2>2, <3>1, <3>2 DEF Put
    <3>3. CASE l \in asked[p] /\ s = "yes" /\ seen[p][l] = row[l]
      BY <2>1, <2>2, <3>1, <3>3 DEF Put
    <3>4. CASE l \in asked[p] /\ s = "yes" /\ seen[p][l] # row[l]
      <4>1. prev[p] = row
        BY <2>1, <2>6, <3>4
      <4>2. CASE row = NoRows
        BY <2>2, <2>4, <3>1, <3>4, <4>2 DEF NoRows, News
      <4>3. CASE row # NoRows
        BY <2>2, <2>4, <3>4, <4>1, <4>3 DEF News, Told, Changes
      <4>. QED  BY <4>2, <4>3
    <3>. QED  BY <3>2, <3>3, <3>4
  <2>7. \A l \in asked[p] : /\ s = "yes" => row'[l] = seen[p][l]
                            /\ s = "refused" => l \in blind'
    BY <2>1, <2>2 DEF Put
  <2>. QED  BY <2>2, <2>3, <2>4, <2>6, <2>7 DEF Drift
<1>4. ASSUME NEW p \in Servers, DeepTell(p)
      PROVE  Drift'
  <2>1. /\ UNCHANGED <<row, crossed>> /\ saved[p] # "no" /\ asked[p] # {}
        /\ heard' = [l \in Lanes |-> IF l \in News(p) THEN seen[p][l] ELSE heard[l]]
        /\ blind' = IF saved[p] = "yes" THEN blind \ Told(p) ELSE blind
    BY <1>4 DEF DeepTell, Drift
  <2>2. asked'[p] = {} /\ saved'[p] = "no" /\ \A q \in Servers \ {p} : asked'[q] = asked[q]
                                                                /\ saved'[q] = saved[q]
    BY <1>4, NotProbingTypes DEF DeepTell, Types
  <2>3. \A q \in Servers \ {p} : asked[q] = {} /\ saved[q] = "no"
    BY <2>1 DEF Drift
  <2>4. ASSUME NEW l \in Lanes \ blind'
        PROVE  heard'[l] = row'[l]
    <3>1. CASE l \in News(p)
      <4>1. saved[p] = "yes"
        <5>1. l \in asked[p]
          BY <3>1, NewsAreAsked
        <5>2. saved[p] \in {"yes", "refused"}
          BY <2>1 DEF Types, ProbeTypes
        <5>3. saved[p] = "refused" => l \in blind'
          BY <2>1, <5>1 DEF Drift
        <5>. QED  BY <2>4, <5>2, <5>3
      <4>2. row[l] = seen[p][l]
        BY <2>1, <3>1, <4>1, NewsAreAsked DEF Drift
      <4>. QED  BY <2>1, <3>1, <4>2
    <3>2. CASE l \notin News(p)
      <4>1. l \notin blind
        BY <2>1, <2>4, <3>2, NewsAreAsked
      <4>2. heard[l] = row[l]
        BY <2>1, <2>3, <3>2, <4>1 DEF Drift
      <4>. QED  BY <2>1, <3>2, <4>2
    <3>. QED  BY <3>1, <3>2
  <2>. QED  BY <2>2, <2>3, <2>4 DEF Drift
<1>5. ASSUME NEW p \in Servers, Die(p) \/ DeepCut(p)
      PROVE  Drift'
  BY <1>5, ProbeOver DEF Die, DeepCut
<1>6. ASSUME UNCHANGED <<crossed, heard, row, blind, probeVars>>
      PROVE  Drift'
  BY <1>6 DEF Drift, probeVars, News, Told, Changes
<1>7. ASSUME NEW p \in Servers,
             \/ Start(p) \/ Open(p) \/ Save(p) \/ SaveFails(p)
             \/ \E l \in Lanes, c \in Tiers : SetLaneCost(p, l, c) \/ SetCost(p, l, c)
      PROVE  Drift'
  BY <1>6, <1>7 DEF Start, Open, Save, SaveFails, SetLaneCost, SetCost, Load, probeGhosts
<1>8. CASE Mistype \/ UNCHANGED vars
  BY <1>6, <1>8 DEF Mistype, vars, probeGhosts
<1>. QED  BY <1>1, <1>2, <1>3, <1>4, <1>5, <1>7, <1>8 DEF Next

\* However many lanes come and go, and wherever a probe is cut short: what the table
\* deep_probes holds of a lane was reported or is about to be, as long as one probe runs at a
\* time. The lanes of a probe that could not read or replace the rows, or ended between replacing
\* them and reporting, are excepted until a later probe reports a change of theirs.
THEOREM DriftTold == Spec => []DriftIsTold
<1>1. Init => Drift
  BY DEF Init, Drift, NoRows
<1>2. Drift => DriftIsTold
  BY DEF Drift, DriftIsTold
<1>3. Types /\ Drift /\ [Next]_vars => Types' /\ Drift'
  BY NextTypes, DriftStep
<1>. QED  BY InitTypes, <1>1, <1>2, <1>3, PTL DEF Spec

-----------------------------------------------------------------------------
(* An update carries every cost told so far, unless it was hurt. *)

Agrees(cost) == \A l \in Lanes : told[l] # Unset => cost[l] = told[l]

Carries(p) ==
    /\ cfg[p].cost[fact[p].lane] = fact[p].cost
    /\ \A l \in Lanes : l # fact[p].lane /\ told[l] # Unset => cfg[p].cost[l] = told[l]

Kept ==
    ~hurt =>
        /\ \A p, q \in Servers : step[p] # "rest" /\ step[q] # "rest" => p = q
        /\ file # Broken => Agrees(Contents(file).cost)
        /\ \A p \in Servers : step[p] # "rest" => Carries(p)

\* A server vouches only for a lane that its environment leaves to the file.
Vouched ==
    \A p \in Servers :
        /\ pc[p] = "up" => presetKeys[p] = {l \in Lanes : Preset[p][l] # Unset}
        /\ \A l \in Lanes : p \in vouched[l] => Preset[p][l] = Unset

LEMMA InitKept == Init => Kept /\ Vouched
<1>. SUFFICES ASSUME Init
              PROVE  Kept /\ Vouched
  OBVIOUS
<1>1. Kept
  BY DEF Init, Kept, Agrees, NoCosts
<1>2. Vouched
  BY DEF Init, Vouched
<1>. QED  BY <1>1, <1>2

LEMMA KeptStep ==
    ASSUME Types, Kept, [Next]_vars
    PROVE  Kept'
<1>. SUFFICES ASSUME ~hurt'
              PROVE  Kept'
  BY DEF Kept
<1>1. ASSUME UNCHANGED <<hurt, told, step, fact, cfg>>, file' = file \/ file' = Broken
      PROVE  Kept'
  BY <1>1 DEF Kept, Agrees, Carries, Contents
<1>2. ASSUME NEW p \in Servers, NEW l \in Lanes, NEW c \in Tiers, Load(p, l, c)
      PROVE  Kept'
  <2>1. /\ ~hurt /\ file # Broken /\ UNCHANGED <<file, told>>
        /\ \A q \in Servers : step[q] = "rest"
    BY <1>2 DEF Load, Types, UpdateTypes
  <2>2. /\ fact'[p] = [lane |-> l, cost |-> c] /\ cfg'[p] = Merged(l, c)
        /\ \A q \in Servers \ {p} : step'[q] = "rest"
    BY <1>2, <2>1 DEF Load, Types, UpdateTypes
  <2>3. Agrees(Contents(file).cost) /\ Contents(file) \in Configs
    BY <2>1, ContentsType DEF Kept, Types, UpdateTypes
  <2>4. Merged(l, c).cost = [Contents(file).cost EXCEPT ![l] = c]
    BY MergedType DEF Types
  <2>5. Carries(p)'
    BY <2>1, <2>2, <2>3, <2>4 DEF Carries, Agrees, Configs, Costs
  <2>6. Agrees(Contents(file).cost)'
    BY <2>1, <2>3 DEF Agrees, Contents
  <2>. QED  BY <2>2, <2>5, <2>6 DEF Kept
<1>3. ASSUME NEW p \in Servers, Forgotten(p), UNCHANGED <<file, told, hurt>>
      PROVE  Kept'
  <2>1. /\ step'[p] = "rest"
        /\ \A q \in Servers \ {p} : step'[q] = step[q] /\ fact'[q] = fact[q] /\ cfg'[q] = cfg[q]
    BY <1>3 DEF Forgotten, Types, UpdateTypes
  <2>2. \A q \in Servers : step'[q] # "rest" => q # p /\ Carries(q)' = Carries(q)
    BY <1>3, <2>1 DEF Carries
  <2>3. Agrees(Contents(file).cost)' = Agrees(Contents(file).cost)
    BY <1>3 DEF Agrees, Contents
  <2>4. /\ \A q, r \in Servers : step'[q] # "rest" /\ step'[r] # "rest" => q = r
        /\ \A q \in Servers : step'[q] # "rest" => Carries(q)'
    BY <1>3, <2>1, <2>2 DEF Kept
  <2>. QED  BY <1>3, <2>3, <2>4 DEF Kept
<1>4. ASSUME NEW p \in Servers, Open(p)
      PROVE  Kept'
  <2>1. CASE Updated(p) /\ UNCHANGED file
    BY <1>3, <1>4, <2>1 DEF Open, Updated, costGhosts
  <2>2. CASE step' = [step EXCEPT ![p] = "emptied"] /\ file' = Broken /\ UNCHANGED <<fact, cfg>>
    <3>1. /\ \A q \in Servers : step'[q] # "rest" => step[q] # "rest"
          /\ UNCHANGED <<told, hurt>>
      BY <1>4, <2>2 DEF Open, costGhosts, Types, UpdateTypes
    <3>. QED  BY <2>2, <3>1 DEF Kept, Carries
  <2>. QED  BY <1>4, <2>1, <2>2 DEF Open
<1>5. ASSUME NEW p \in Servers, Save(p)
      PROVE  Kept'
  <2>1. /\ ~hurt /\ step[p] # "rest"
        /\ fact[p] \in Facts /\ cfg[p] \in Configs
    BY <1>5 DEF Save, Types, Busy
  <2>2. Carries(p) /\ \A q \in Servers \ {p} : step[q] = "rest"
    BY <2>1 DEF Kept
  <2>3. \A q \in Servers : step'[q] = "rest"
    BY <1>5, <2>2 DEF Save, Updated, Forgotten, Types, UpdateTypes
  <2>4. /\ told' = [told EXCEPT ![fact[p].lane] = fact[p].cost]
        /\ Contents(file)' = cfg[p]
        /\ fact[p].lane \in Lanes
    BY <1>5, <2>1 DEF Save, Contents, Facts
  <2>5. Agrees(Contents(file).cost)'
    BY <2>2, <2>4 DEF Agrees, Carries, Types, UpdateTypes, Costs
  <2>. QED  BY <2>3, <2>5 DEF Kept
<1>6. ASSUME NEW p \in Servers,
             \/ Start(p) \/ DeepStart(p) \/ DeepStore(p) \/ DeepTell(p) \/ DeepCut(p)
             \/ \E l \in Lanes : See(p, l)
      PROVE  Kept'
  BY <1>1, <1>6 DEF Start, DeepStart, DeepStore, DeepTell, DeepCut, See, updateVars, costGhosts
<1>7. CASE Mistype \/ UNCHANGED vars
  BY <1>1, <1>7 DEF Mistype, vars, updateVars, costGhosts
<1>8. ASSUME NEW p \in Servers, Die(p) \/ SaveFails(p)
      PROVE  Kept'
  BY <1>3, <1>8 DEF Die, SaveFails, Updated, costGhosts
<1>. QED  BY <1>2, <1>4, <1>5, <1>6, <1>7, <1>8 DEF Next, SetLaneCost, SetCost

LEMMA VouchedStep ==
    ASSUME Types, Vouched, [Next]_vars
    PROVE  Vouched'
<1>1. ASSUME UNCHANGED vouched, NEW p \in Servers,
             \A q \in Servers \ {p} : pc'[q] = pc[q] /\ presetKeys'[q] = presetKeys[q],
             pc'[p] = "up" => \/ pc[p] = "up" /\ presetKeys'[p] = presetKeys[p]
                              \/ presetKeys'[p] = {l \in Lanes : Preset[p][l] # Unset}
      PROVE  Vouched'
  BY <1>1 DEF Vouched
<1>2. ASSUME NEW p \in Servers, Start(p) \/ Die(p)
      PROVE  Vouched'
  BY <1>1, <1>2 DEF Start, Die, costGhosts, Types, ProcessTypes
<1>3. ASSUME NEW p \in Servers,
             \E l \in Lanes, c \in Tiers : SetLaneCost(p, l, c) \/ SetCost(p, l, c)
      PROVE  Vouched'
  BY <1>1, <1>3 DEF SetLaneCost, SetCost, Load, Types, ProcessTypes
<1>4. ASSUME NEW p \in Servers, Open(p) \/ SaveFails(p)
      PROVE  Vouched'
  BY <1>1, <1>4 DEF Open, SaveFails, Updated, costGhosts, Types, ProcessTypes
<1>5. ASSUME NEW p \in Servers, Save(p)
      PROVE  Vouched'
  <2>1. fact[p].lane \in Lanes /\ pc[p] \in {"up", "shell"}
    BY <1>5 DEF Save, Types, ProcessTypes, Busy, Facts
  <2>2. \A q \in Servers : q \in Vouching(p, fact[p].lane) => Preset[q][fact[p].lane] = Unset
    BY <2>1 DEF Vouching, Warned, Vouched
  <2>3. \A l \in Lanes, q \in Servers : q \in vouched'[l] => Preset[q][l] = Unset
    BY <1>5, <2>1, <2>2 DEF Save, Vouched, Types, UpdateTypes
  <2>4. \A q \in Servers : pc'[q] = "up" => pc[q] = "up" /\ presetKeys'[q] = presetKeys[q]
    BY <1>5 DEF Save, Updated, Types, ProcessTypes
  <2>. QED  BY <2>3, <2>4 DEF Vouched
<1>6. ASSUME UNCHANGED <<pc, presetKeys, vouched>>
      PROVE  Vouched'
  BY <1>6 DEF Vouched
<1>7. ASSUME NEW p \in Servers,
             \/ DeepStart(p) \/ DeepStore(p) \/ DeepTell(p) \/ DeepCut(p)
             \/ \E l \in Lanes : See(p, l)
      PROVE  Vouched'
  BY <1>6, <1>7 DEF DeepStart, DeepStore, DeepTell, DeepCut, See, processVars, costGhosts
<1>8. CASE Mistype \/ UNCHANGED vars
  BY <1>6, <1>8 DEF Mistype, vars, processVars, costGhosts
<1>. QED  BY <1>2, <1>3, <1>4, <1>5, <1>7, <1>8 DEF Next

LEMMA KeptAlways == Spec => [](Types /\ Kept /\ Vouched)
<1>1. Types /\ Kept /\ Vouched /\ [Next]_vars => Types' /\ Kept' /\ Vouched'
  BY NextTypes, KeptStep, VouchedStep
<1>. QED  BY InitTypes, InitKept, <1>1, PTL DEF Spec

\* For any hosts and environments: a cost reported as persisted is what every server that
\* starts later has, until a later one is reported; where its environment says otherwise, it
\* has never said so without the warning.
THEOREM FactsSurvive == Spec => FactsSurviveRestart
<1>1. ASSUME Types, Kept, Vouched, [Next]_vars, NEW p \in Servers, NEW l \in Lanes,
             pc[p] = "down", pc'[p] = "up", told[l] # Unset, ~hurt, file # Broken
      PROVE  IF Preset[p][l] = Unset THEN env'[p][l] = told[l]
                                     ELSE env'[p][l] = Preset[p][l] /\ p \notin vouched[l]
  <2>1. Start(p)
    <3>1. ASSUME NEW q \in Servers,
                 \/ Die(q) \/ Open(q) \/ Save(q) \/ SaveFails(q)
                 \/ DeepStart(q) \/ DeepStore(q) \/ DeepTell(q) \/ DeepCut(q)
                 \/ \E m \in Lanes : See(q, m) \/ \E c \in Tiers : SetLaneCost(q, m, c) \/ SetCost(q, m, c)
          PROVE  FALSE
      BY <1>1, <3>1 DEF Die, Open, Save, SaveFails, Updated, DeepStart, DeepStore,
                        DeepTell, DeepCut, See, SetLaneCost, SetCost, processVars, Types, ProcessTypes
    <3>2. ASSUME NEW q \in Servers, Start(q)
          PROVE  q = p
      BY <1>1, <3>2 DEF Start, Types, ProcessTypes
    <3>3. CASE Mistype \/ UNCHANGED vars
      BY <1>1, <3>3 DEF Mistype, vars, processVars
    <3>. QED  BY <1>1, <3>1, <3>2, <3>3 DEF Next
  <2>2. env'[p][l] = IF Preset[p][l] # Unset THEN Preset[p][l] ELSE Contents(file).cost[l]
    BY <1>1, <2>1 DEF Start, Applied, Types, ProcessTypes
  <2>3. Agrees(Contents(file).cost)
    BY <1>1 DEF Kept
  <2>. QED  BY <1>1, <2>2, <2>3 DEF Agrees, Vouched
<1>2. Types /\ Kept /\ Vouched /\ [Next]_vars =>
        [\A p \in Servers, l \in Lanes :
            /\ pc[p] = "down" /\ pc'[p] = "up"
            /\ told[l] # Unset /\ ~hurt /\ file # Broken
            => IF Preset[p][l] = Unset THEN env'[p][l] = told[l]
                                       ELSE env'[p][l] = Preset[p][l] /\ p \notin vouched[l]]_vars
  BY <1>1
<1>. QED  BY KeptAlways, <1>2, PTL DEF Spec, FactsSurviveRestart
=============================================================================
