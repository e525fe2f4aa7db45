CONSTANTS
    Clients = {c1}
    Nobody = Nobody
    Requests <- AllRequests
    ReplyLens <- TwoReplies
    MaxFd = 6
    MaxLive = 1
    MaxReq = 3
    Departures <- AllDepartures
    Faults <- LiveFaults
    Cuts <- Everywhere
    BufRoom = 2
SPECIFICATION FairSpec
CHECK_DEADLOCK FALSE
PROPERTIES
    Answered
