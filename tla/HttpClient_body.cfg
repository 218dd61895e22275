SPECIFICATION HcSpec
CONSTANTS
    HcWord = {w1}
    HcValue = {v1}
    HcMaxLines = 1
    HcMaxChunks = 1
INVARIANT BodyIsLive
CHECK_DEADLOCK FALSE
