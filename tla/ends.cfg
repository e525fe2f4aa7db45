CONSTANTS
    Clients = {1, 2, 3}
    Nobody = Nobody
    Requests <- OneGet
    ReplyLens <- OneReply
    MaxFd = 5
    MaxLive = 2
    MaxReq = 2
    Departures <- Closing
    Faults <- None
    Cuts <- None
    BufRoom = 2
SPECIFICATION FairSpecInOrder
CHECK_DEADLOCK FALSE
PROPERTIES
    ThreadsEnd
