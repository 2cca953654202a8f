SPECIFICATION FairSpec
CONSTANTS
    w1 = w1
    w2 = w2
    gemini = gemini
    Workers = {w1, w2}
    Lanes = {gemini}
    DailyLimit <- Two
    Paid = {}
    Rated = {gemini}
    CreditCap = 1
    MaxCost = 1
    MinInterval <- One
    Retries = 1
    CooldownTimeout = 1
    CooldownQuota = 2
    CooldownAuth = 1
    CooldownEmpty = 1
    CooldownEmptyMax = 2
    MaxCalls = 4
    MaxResets = 1
CHECK_DEADLOCK FALSE
INVARIANTS
    TypeOK
    RunsBounded
    CreditsBounded
PROPERTIES
    BenchFollowsOutcomes
    SpawnsSpaced
    CallsReturn
