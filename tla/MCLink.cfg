SPECIFICATION MCSpec
CONSTANTS
    Phones = {a, b}
    MaxTokens = 2
    MaxFaults = 1
    MaxForgets = 1
    MaxTaps = 2
    None = None
    Torn = Torn
    Resting = Resting
    Keys = {k1, k2}
    Values = {a, b}
    NoValue = NoValue
    NoFile = NoFile
    Damaged = Damaged
    MaxRevision = 2
    Capacity = 2
    Images = {a, b}
    Reads = {"look"}
    Writes = {"change"}
    Patience = 1
    Deadline = 1
    MaxTickets = 2
    MaxPrompts = 1
    MaxTyped = 1
SYMMETRY Alike
INVARIANTS EnrollmentSound ConsoleSound QueueSound ReplyIsWhole PanelSound
PROPERTIES ConfirmedOnly QueueTakesNothingBack PresentedIsShown
CHECK_DEADLOCK FALSE
