SPECIFICATION Spec
CONSTANTS
    Keys = {k1}
    Values = {a}
    NoValue = NoValue
    MaxRevision = 2
    Capacity = 1
    MaxAttempts = 3
    MaxPut <- PutsBoth
    MaxFaults = 2
    MaxInFlight = 2
    Prompt = FALSE
INVARIANT ResetRecovers
CHECK_DEADLOCK FALSE
