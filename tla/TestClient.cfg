CONSTANTS
    Event = {"a", "b"}
    Receiver = {r1, r2}
    NoEvent = NoEvent
    MaxMessages = 4
SPECIFICATION TestSpec
CHECK_DEADLOCK FALSE
SYMMETRY ReceiverSymmetry
INVARIANTS
    NoneLost
    LoneReceiveMissesNothing
PROPERTIES
    OldestReturned
