CONSTANTS
    Clients = {c1, c2}
    Nobody = Nobody
    Requests <- TidyRequests
    ReplyLens <- OneReply
    MaxFd = 6
    MaxLive = 1
    MaxReq = 3
    Departures <- Closing
    Faults <- None
    Cuts <- Everywhere
    BufRoom = 2
SPECIFICATION Spec
CHECK_DEADLOCK FALSE
SYMMETRY Symmetry
INVARIANTS
    NothingLeftOpen
    
