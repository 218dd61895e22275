SPECIFICATION Spec
CONSTANTS
    Sessions = {s1, s2}
    MaxAddrs = 2
INVARIANTS
    NothingLeaks
    OpenIsComplete
CHECK_DEADLOCK FALSE
