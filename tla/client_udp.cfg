SPECIFICATION Spec
CONSTANTS
    CharIsSigned = TRUE
    Protocol = "UDP"
    IdModulus = 8
    Retries = 1
    Oversleeps = {FALSE}
    Lines = {"auth", "text", "print"}
    Datagrams <- UdpDatagrams
    SocketBuffer = 1
    MaxLines = 2
    MaxArrivals = 3
    MaxSignals = 1
INVARIANTS
    TypeOK
    NoBlockingRead
    NotifyMatchesOutgoing
    AwaitsWhatItRepeats
    ClosingSequence
    ChatAfterAuth
    CleanExit
    ServerMailsInOrder
    InterruptKept
    SleepsOnlyIdle
    JoinReturns
PROPERTIES
    OneUnconfirmed
CHECK_DEADLOCK FALSE
