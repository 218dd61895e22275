SPECIFICATION Spec
CONSTANTS
    Pids = {p1, p2, p3}
    NoPid = NoPid
    NumWorkers = 2
    MaxRestarts = 1
    RestartInterval = 0
    GraceTimeout = 1
    RestartCrashed = TRUE
    Signals = {"TERM", "HUP", "USR1"}
    MaxTime = 1
    MaxCalls = 2
SYMMETRY PidSymmetry
INVARIANTS PoolOwnsChildren NoForgottenWorker RestartRate
PROPERTIES ReloadNotLost ImplementsWorkerPool
CHECK_DEADLOCK FALSE
