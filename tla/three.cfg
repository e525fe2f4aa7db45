CONSTANTS
    Clients = {c1, c2, c3}
    Nobody = Nobody
    Requests <- TlvGet
    ReplyLens <- OneReply
    MaxFd = 5
    MaxLive = 2
    MaxReq = 1
    Departures <- AllDepartures
    Faults <- None
    Cuts <- Behind
    BufRoom = 2
SPECIFICATION Spec
CHECK_DEADLOCK FALSE
SYMMETRY Symmetry
INVARIANTS
    ListenerSurvives
    NoDispatchAfterShutdown
