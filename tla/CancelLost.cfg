SPECIFICATION FairSpec
CONSTANTS
    b1 = b1
    b2 = b2
    b3 = b3
    Builds = {b1}
    TargetDir <- OneTarget
    ZoneRel <- SameZone
    DoDCmd = {}
    MaxTurns = 2
    MaxFailRetries = 1
    MaxSteers = 0
    MaxInterrupts = 1
    MaxCancels = 1
CHECK_DEADLOCK FALSE
INVARIANTS
    CancelHonoured
