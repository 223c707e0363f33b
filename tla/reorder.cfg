SPECIFICATION Spec
CONSTANTS
    CharIsSigned = TRUE
    Protocol = "UDP"
    IdModulus = 4
    Retries = 1
    Oversleeps = {FALSE}
    SentTypes <- JustAuth
    ServerTypes <- ReplyMsg
    ServerWindow = 2
    SocketBuffer = 1
INVARIANTS
    ConfirmedIsGiven
CHECK_DEADLOCK FALSE
