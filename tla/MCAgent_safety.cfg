SPECIFICATION Spec
CONSTANTS
    TrTool = {cond, tool}
    ConditionalLogic = cond
    OrNoTool = notool
    OrMaxSteps = 3
    McConfig = {k1}
    McSecond = 3
    McTimeouts = {0, 2, 3}
    McMaxEvents = 3
    McMaxClock = 11
    HcWord = {w1, w2}
    HcValue = {v1, v2}
    HcMaxLines = 3
    HcMaxChunks = 1
INVARIANTS
    RegistryOwnsItsMemory
    StepsRunByDefinition
    HeadersAreKept
PROPERTIES
    TimeoutNotEarly
    RequestReturns
CHECK_DEADLOCK FALSE
