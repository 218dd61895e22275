SPECIFICATION FairSpec
CONSTANTS
    Pids = {p1, p2}
    NoPid = NoPid
    NumWorkers = 2
    MaxRestarts = 1
    RestartInterval = 1
    GraceTimeout = 1
    RestartCrashed = TRUE
    Signals = {"TERM", "HUP"}
    MaxTime = 1
    MaxCalls = 1
PROPERTIES ShutdownStopsAll DeadWorkerNoticed
CHECK_DEADLOCK FALSE
