SPECIFICATION MCSpec
CONSTANTS
    QueueCapacity = 2
    MaxSessions = 3
    MaxTraffic = 2
    NoValue = NoValue
    Resting = Resting
    Books = {"book"}
    Attempts = {"first"}
    Chunks = 1
    Wrap = 8
    StartupFor = 1
    IdleFor = 2
    AfterUploadFor = 1
    SessionFor = 2
    FinishFor = 1
    MaxLag = 1
    StartsAt = 6
    MaxStops = 1
    CableChunks = 2
    CableSessions = 2
    MaxLine = 1
INVARIANTS OwnerSound BooksSound TransferSound
PROPERTIES IdleIsReal RequestsEnd
CHECK_DEADLOCK FALSE
