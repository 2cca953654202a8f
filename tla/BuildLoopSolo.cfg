SPECIFICATION FairSpec
CONSTANTS
    b1 = b1
    b2 = b2
    b3 = b3
    Builds = {b1}
    TargetDir <- OneTarget
    ZoneRel <- SameZone
    DoDCmd = {b1}
    MaxTurns = 4
    MaxFailRetries = 2
    MaxSteers = 2
    MaxInterrupts = 2
    MaxCancels = 2
CHECK_DEADLOCK FALSE
INVARIANTS
    CancelHonouredWithoutInterrupt
    SteeringOnceInOrder
    TurnsAnswerInstructions
PROPERTIES
    SteeringIsRead
    JobLifecycleSpec
