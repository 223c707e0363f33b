SPECIFICATION ConnectionSpec
CONSTANTS
    Options <- EdgeOptions
    MaxOptions = 4
    MaxFollowed = 2
    MaxMails = 3
    MaxSaid = 2
    MaxUnderway = 2
INVARIANTS
    ParsedAsGiven
    SendsWhereItIsHeard
CHECK_DEADLOCK FALSE
