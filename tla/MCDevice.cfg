SPECIFICATION MCSpec
CONSTANTS
    Chunks = 2
    MaxDamage = 1
    NoValue = NoValue
    Torn = Torn
    Resting = Resting
    Limit = 3
    RtcAttempts = 2
    FieldPolls = 2
    Rounds = 2
    Times = {0, 1, 40}
    Offsets = {5, 13}
    Legacy = 100
    Passes = 1
    Hold = 2
    Life = 1
    Retry = 1
    MaxFaults = 1
    Ids = {1, 2}
    Bodies <- SomeBodies
    Pages <- SomePages
    Capacity = 1
    MaxSize = 2
    MaxAir = 1
    MaxTransient = 0
    MaxDown = 1
    Apps = {"app"}
    Launcher = "launcher"
    NoApp = "none"
    FailureLimit = 3
    MaxBurst = 2
    Keys = {k1}
    Values = {a}
    MaxRevision = 1
    MaxLosses = 2
INVARIANTS SelectedNeverPartial TrialProtected OneOwner TestGivesBack ClockIsTrue AnswersAreOwn
PROPERTIES ConfirmedByItsHome NoAutomaticAfterError NothingHangs BrokenLeaves Delivered EventuallyConverged
CHECK_DEADLOCK FALSE
