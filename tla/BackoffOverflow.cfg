SPECIFICATION BackoffSpec
CONSTANTS
    Base = 2
    Max = 20
    ResetAfter = 30
    MaxAttempts = 0
    Jitter = 3
    Width = 8
    MaxTries = 8
    Slow = 12
INVARIANTS NeverDrowns
CHECK_DEADLOCK FALSE
