SPECIFICATION MCSpec
CONSTANTS
    Keys = {k1}
    Values = {a, b}
    NoValue = NoValue
    MaxRevision = 2
    Capacity = 1
    MaxAttempts = 2
    MaxPut <- PutsMore
    MaxFaults = 2
    MaxInFlight = 2
    Prompt = FALSE
SYMMETRY AnyValue
INVARIANTS PeersAgree BytesAgree
PROPERTIES StoresOnly IsTransfer
CHECK_DEADLOCK FALSE
