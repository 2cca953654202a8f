SPECIFICATION Spec
CONSTANTS
    Servers = {s1, s2, s3}
    Pids = {q1, q2}
    Jobs = {j1, j2}
    Nobody = Nobody
    Answer = Answer
    MaxFiles = 1
    MaxAnswers = 2
SYMMETRY Symmetry
CHECK_DEADLOCK FALSE
INVARIANTS
    
    ResultsCanBeFetched
PROPERTIES
    FinalRowsStay
