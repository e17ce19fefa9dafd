SPECIFICATION MCSpec
CONSTANTS
    Keys = {k1}
    Values = {a}
    NoValue = NoValue
    NoRecord = NoRecord
    Damaged = Damaged
    MaxRevision = 1
    Capacity = 1
    Sources = {x}
    Switches <- Switchings
    Resting = Resting
    Intervals = {2}
    Day = 3
    QuietStart = 0
    QuietEnd = 2
    Life = 2
    Styles = {"dashboard", "plain"}
    MaxPages = 1
    MaxGeneration = 1
    MaxPageFaults = 0
    Drivers = {1}
    Queries = {query}
    Netifs = {here, there}
    MaxSessions = 0
    MaxEvents = 1
INVARIANTS ExpiredPageLeaves
CHECK_DEADLOCK FALSE
