SPECIFICATION Spec
CONSTANTS
    k1 = k1
    k2 = k2
    k3 = k3
    M = 2
    N = 3
    Keys = {k1, k2, k3}
    KeyOf <- Distinct
    Cost <- SecondIsDear
    MaxConcurrency = 1
    Retries = 0
    Budgets <- EitherCap
CHECK_DEADLOCK FALSE
INVARIANTS
    CallsWithinBudget
    CreditsWithinBudget
    FinishedIsKept
    WaitersAreServed
PROPERTIES
    FinishedNotCalledAgain
