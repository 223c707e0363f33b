SPECIFICATION Spec
CONSTANTS
    Timeout = 3
    Retries = 1
    FsmLatency = 1
    MaxEvents = 4
    MaxTime = 16
INVARIANTS
    WaitsEnd
    DelayBounded
PROPERTIES
    NeverEarly
CHECK_DEADLOCK FALSE
