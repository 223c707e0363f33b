SPECIFICATION FairSpec
CONSTANTS
    CharIsSigned = TRUE
    Protocol = "UDP"
    IdModulus = 4
    Retries = 1
    Oversleeps = {FALSE}
    SentTypes <- TwoRequests
    ServerTypes <- ReplyMsg
    ServerWindow = 1
    SocketBuffer = 1
INVARIANTS
    LinkTypeOK
    NothingSkipped
    ConfirmedIsGiven
PROPERTIES
    IsReliableFifo
    ReplyConfirmed
CHECK_DEADLOCK FALSE
