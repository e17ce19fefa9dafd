SPECIFICATION MCSpec
CONSTANTS
    Phones = {a}
    MaxTokens = 1
    MaxFaults = 0
    MaxForgets = 0
    MaxTaps = 0
    None = None
    Torn = Torn
    Resting = Resting
    Keys = {k1}
    Values = {a}
    NoValue = NoValue
    NoFile = NoFile
    Damaged = Damaged
    MaxRevision = 1
    Capacity = 2
    Images = {a}
    Reads = {"look"}
    Writes = {"change"}
    Patience = 1
    Deadline = 1
    MaxTickets = 2
    MaxPrompts = 1
    MaxTyped = 1
INVARIANTS CancelCertain
CHECK_DEADLOCK FALSE
