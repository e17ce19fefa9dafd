SPECIFICATION FairSpec
CONSTANTS
    Timeout = 1
    StopTimeout = 1
    MinRetry = 1
    DefaultRetry = 1
    MaxRetry = 2
    Span = 6
    ClockWraps = FALSE
    MaxRequests = 1
    MaxSessions = 2
    MaxSends = 1
INVARIANTS ClientSound
PROPERTIES PolicyIsStrict AnsweredByPhoneAsked ShutdownEnds
