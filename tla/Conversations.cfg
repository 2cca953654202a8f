SPECIFICATION Spec
CONSTANTS
    w1 = w1
    w2 = w2
    w3 = w3
    p1 = p1
    p2 = p2
    Workers = {w1, w2, w3}
    Process <- TwoServers
    Threads = {t1, t2}
    NoThread = NoThread
    Sizes = {1}
    MaxChars = 3
    MaxStored = 1
    MaxAsks = 4
SYMMETRY Symmetry
CHECK_DEADLOCK FALSE
INVARIANTS
    NothingForgotten
    ExchangesStayTogether
PROPERTIES
    FoldKeepsNewest
