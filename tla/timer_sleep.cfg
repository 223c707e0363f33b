SPECIFICATION FairSpec
CONSTANTS
    CharIsSigned = TRUE
    Protocol = "UDP"
    IdModulus = 8
    Retries = 1
    Oversleeps = {TRUE, FALSE}
    Lines = {"auth"}
    Datagrams <- QuietUdpDatagrams
    SocketBuffer = 1
    MaxLines = 1
    MaxArrivals = 1
    MaxSignals = 0
PROPERTIES
    UnconfirmedResolved
CHECK_DEADLOCK FALSE
