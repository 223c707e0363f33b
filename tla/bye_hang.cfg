SPECIFICATION FairSpec
CONSTANTS
    CharIsSigned = TRUE
    Protocol = "UDP"
    IdModulus = 8
    Retries = 1
    Oversleeps = {FALSE}
    Lines = {"auth"}
    Datagrams <- ByeDatagrams
    SocketBuffer = 1
    MaxLines = 1
    MaxArrivals = 3
    MaxSignals = 0
PROPERTIES
    EndEnds
CHECK_DEADLOCK FALSE
