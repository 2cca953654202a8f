SPECIFICATION Spec
CONSTANTS
    l1 = l1
    l2 = l2
    free = free
    paid = paid
    s1 = s1
    s2 = s2
    Servers = {s1, s2}
    Lanes = {l1, l2}
    Tiers = {free, paid}
    Free = free
    Default <- Shipped
    before = before
    after = after
    Looks = {before, after}
    Unset = Unset
    Absent = Absent
    Broken = Broken
    Preset <- OneHostPresets
    MaxSets = 2
    MaxOthers = 2
SYMMETRY LooksAlike
INVARIANTS
    DriftIsTold
PROPERTIES
    FactsSurviveRestart
