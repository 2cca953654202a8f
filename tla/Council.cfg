SPECIFICATION FairSpec
CONSTANTS
    f = f
    g = g
    m = m
    p = p
    Lanes = {f, g, m, p}
    Nobody = Nobody
    Cost <- Costs
    Experimental = {g}
    Priority <- Fifties
    Latency <- Latencies
    Failing <- Fails
    Effort = {m, p}
    Name <- Keys
    Active <- InOrder
    Rated <- Ratings
    Policies <- SomePolicies
    CooledSets <- SomeCooled
    LaneLists <- SomeLists
    Judges <- SomeJudges
    Found <- SomeFound
    Width = 2
    Roles = 3
    DebaterCap = 2
    PanelCap = 3
    MaxRounds = 2
CHECK_DEADLOCK FALSE
INVARIANTS
    TypeOK
    CostCeiling
    EveryVoiceHeard
PROPERTIES
    SessionsEnd
