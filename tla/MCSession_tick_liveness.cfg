SPECIFICATION TickSpec
CONSTANTS
    Calls = {"tick"}
    Budget = 0
    InFiber = TRUE
PROPERTIES
    HandshakeCompletes DeadConnectionNoticed
CHECK_DEADLOCK FALSE
