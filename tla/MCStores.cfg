SPECIFICATION MCSpec
CONSTANTS
    Keys = {k1, k2}
    Values = {a, b}
    NoValue = NoValue
    NoRecord = NoRecord
    Damaged = Damaged
    MaxRevision = 2
    Capacity = 1
    Sources = {x, y}
    Switches <- Switchings
    Resting = Resting
    Intervals = {2}
    Day = 3
    QuietStart = 0
    QuietEnd = 2
    Life = 2
    Styles = {"dashboard", "plain"}
    MaxPages = 2
    MaxGeneration = 2
    MaxPageFaults = 1
    Drivers = {1, 2}
    Queries = {query}
    Netifs = {here, there}
    MaxSessions = 2
    MaxEvents = 1
SYMMETRY Symmetric
INVARIANTS StoreSound PageSound FramesArrive SameMeaning RadioSound
PROPERTIES NothingTakenBack PageForward
CHECK_DEADLOCK FALSE
