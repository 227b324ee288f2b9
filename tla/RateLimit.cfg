CONSTANTS
    Conn = {c1, c2}
    Events = 2
    Period = 3
    MaxTime = 7
SPECIFICATION BucketSpec
SYMMETRY ConnSymmetry
INVARIANTS
    RateBounded
    DecidesByDefinition
