SPECIFICATION Spec
CONSTANTS
    Times <- MCTimes
    Offsets <- MCOffsets
    Legacy = 100
    Torn = Torn
    None = None
    Step = 1
    Hold = 2
    Life = 1
    Retry = 1
    FailedSaves = "written"
    MaxFaults = 2
INVARIANT ClockWasSet
CHECK_DEADLOCK FALSE
