CONSTANTS
    Conn = {c1, c2, c3}
    Room = {r1}
    Caller = {b1}
    ChunkSize = 2
    MaxMessages = 2
SPECIFICATION Spec
INVARIANTS
    OnlyTheWanted
    CallersOrderKept
    CompletedReachesAll
    SendsBelongToCalls
    NoEmptyRooms
PROPERTIES
    ImplementsMembership
SYMMETRY ConnSymmetry
