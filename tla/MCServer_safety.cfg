SPECIFICATION Spec
CONSTANTS
    H1Conn = {c1, c2}
    H1Listener = listener
    H1Buf = 2
    H1Headers = {1}
    H1Request = 3
    H1Reply = {1}
    H1MaxEvents = 2
    H2Conn = {d1}
    H2Stream = {1, 3}
    H2Bodies = {2}
    H2Frame = 2
    QCid = {s1, s2}
    QStream = {t1}
    QNoCid = nocid
    QMaxNet = 1
    AdmCall = {a1}
    ShStream = {4, 8}
    ShCallable = {f, g}
    ShNone = nocall
    WsLengths <- MCLengths
    CorsLetter <- MCLetters
    CorsMaxOrigin = 2
    CorsMax = 5
    SsObject = {o1, o2}
    SsTicket = {k1, k2}
    SsBad = {big}
INVARIANTS
    ServerTypeOK
    NoEventAfterFree
    OneWholeReply
    ResponseHasItsStream
    AnsweredOnce
    PassTouchesLiveSessions
    HandlerRefsBalanced
    HeaderRoundTrip
    OriginIsAnEntry
    NoSocketLeaks
PROPERTIES
    ReadableIsHandedOver
    ClosedIsRemoved
CHECK_DEADLOCK FALSE
