SPECIFICATION ConvergeSpec
CONSTANTS
    a1 = a1
    a2 = a2
    b1 = b1
    c1 = c1
    Lanes = {a1, a2, b1, c1}
    DefaultLanes <- Free
    Family <- TwoOfOne
    Nobody = Nobody
    PeerLists <- SomePanels
    PeerCounts = {0, 1}
    MaxRounds = 2
    MaxIssues = 1
CHECK_DEADLOCK FALSE
INVARIANTS
    ConvergeTypeOK
    ConvergedIsCarried
    NothingDroppedSilently
