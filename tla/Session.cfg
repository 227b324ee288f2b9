CONSTANTS
    MaxDuration = 20
    IdleTimeout = 6
    Interval = 3
    Timeout = 2
    Window = 6
    TokenLife = 14
    SendDelay = 1
SPECIFICATION Spec
INVARIANTS
    IdleClosedInTime
    MaxDurationEnforced
    DeadClientClosed
    AnsweredPingNotTimedOut
    TokenWarnedInTime
