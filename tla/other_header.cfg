CONSTANTS
    Clients = {c1, c2}
    Nobody = Nobody
    Requests <- MixedRequests
    ReplyLens <- OneReply
    MaxFd = 6
    MaxLive = 2
    MaxReq = 2
    Departures <- None
    Faults <- None
    Cuts <- None
    BufRoom = 2
SPECIFICATION Spec
CHECK_DEADLOCK FALSE
SYMMETRY Symmetry
INVARIANTS
    ActsOnOwnHeader
