CONSTANTS
    Conn = {c1}
    Room = {open, guarded}
    Handler = {h1}
    Guarded = {guarded}
    NoRoom = NoRoom
    WaitForSwallows = FALSE
SPECIFICATION Spec
INVARIANTS
    NoGhostMembers
