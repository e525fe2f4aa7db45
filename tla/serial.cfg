CONSTANTS
    Clients = {c1, c2}
    Nobody = Nobody
    Requests <- CoreRequests
    ReplyLens <- OneReply
    MaxFd = 6
    MaxLive = 1
    MaxReq = 2
    Departures <- AllDepartures
    Faults <- AllFaults
    Cuts <- Everywhere
    BufRoom = 2
SPECIFICATION Spec
CHECK_DEADLOCK FALSE
SYMMETRY Symmetry
INVARIANTS
    TypeOK
    ActsOnOwnHeader
    CloseOwn
    NoOrphanConnection
    ReplyFramed

    
