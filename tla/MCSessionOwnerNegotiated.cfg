SPECIFICATION Spec
CONSTANTS
    QueueCapacity = 2
    MaxSessions = 3
    MaxTraffic = 2
PROPERTY StaysNegotiated
CHECK_DEADLOCK FALSE
