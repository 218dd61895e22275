SPECIFICATION Spec
CONSTANTS
    Calls = {"tick", "poll", "close", "datagrams", "tickets"}
    Budget = 0
    InFiber = TRUE
INVARIANTS
    ClosedFlagSound
