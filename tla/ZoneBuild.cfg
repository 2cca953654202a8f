SPECIFICATION Spec
CONSTANTS
    b1 = b1
    b2 = b2
    calc = calc
    logo = logo
    Paths = {calc, logo}
    Builds = {b1, b2}
    Zone <- OneFileEach
    Binary = {logo}
    Absent = Absent
    Base = Base
    Host = Host
    Committed = {logo}
    Keep = FALSE
    MaxHostSteps = 2
    MaxWrites = 1
CHECK_DEADLOCK FALSE
INVARIANTS
    HostWorkKept
    EscapesCaught
    WorktreesDiscarded
PROPERTY AcceptedIsShown
