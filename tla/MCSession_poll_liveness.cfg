SPECIFICATION PollSpec
CONSTANTS
    Calls = {"poll"}
    Budget = 1
    InFiber = TRUE
PROPERTY
    HandshakeCompletes
