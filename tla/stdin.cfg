SPECIFICATION FairSpec
CONSTANTS
    Ttys = {TRUE, FALSE}
    Lengths = {0, 2}
    BufferSize = 7
    MaxLines = 3
INVARIANTS
    StdinPathTypeOK
PROPERTIES
    IsLineFifo
    EveryLineHanded
    StopEnds
    EndSignalled
CHECK_DEADLOCK FALSE
