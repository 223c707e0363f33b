SPECIFICATION FairSpec
CONSTANTS
    CharIsSigned = TRUE
    Protocol = "UDP"
    IdModulus = 8
    Retries = 1
    Oversleeps = {FALSE}
    Lines = {"auth", "rename-bad", "print"}
    Datagrams <- ClosingDatagrams
    SocketBuffer = 1
    MaxLines = 1
    MaxArrivals = 3
    MaxSignals = 1
PROPERTIES
    SignalEnds
    OnlyByeHangs
    UnconfirmedResolved
    OutgoingDrains
CHECK_DEADLOCK FALSE
