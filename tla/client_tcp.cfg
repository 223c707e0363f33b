SPECIFICATION FairSpec
CONSTANTS
    CharIsSigned = TRUE
    Protocol = "TCP"
    IdModulus = 8
    Retries = 1
    Oversleeps = {FALSE}
    Lines = {"auth", "text"}
    Datagrams <- TcpTexts
    SocketBuffer = 2
    MaxLines = 2
    MaxArrivals = 2
    MaxSignals = 0
INVARIANTS
    ClosingSequence
    ChatAfterAuth
    CleanExit
PROPERTIES
    PeerCloseEnds
CHECK_DEADLOCK FALSE
