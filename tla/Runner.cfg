\* A CLI and a child of it, each deaf to SIGTERM or not and at the pipes or not.
SPECIFICATION RunnerSpec
CONSTANTS
    cli = cli
    child = child
    Procs = {cli, child}
    Lead = cli
    MaxLines = 2
    PipeSize = 1
    Timeout = 3
    Stall = 2
    MaxCancels = 2
INVARIANTS
    NoStrays
    ResultIsTrue
PROPERTIES
    CallEnds
\* A call that is over does nothing more.
CHECK_DEADLOCK FALSE
