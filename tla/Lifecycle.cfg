CONSTANTS
    Conn = {c1}
    Room = {open, guarded}
    Handler = {h1, h2}
    Guarded = {guarded}
    NoRoom = NoRoom
    WaitForSwallows = TRUE
SPECIFICATION FairSpec
INVARIANTS
    RoomsAgreeWhileRegistered
    NothingLeftBehind
    LifecycleInv
PROPERTIES
    DeregistrationClearsRooms
    ClosedIsReleased
