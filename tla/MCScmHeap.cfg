SPECIFICATION MCSpec
CONSTANTS
    PageSz = 6
    ArgStackLen = 2
    VOID = VOID
    Inexact = {INF}
    Interning = FALSE
    Kinds = {"closure", "box"}
    MaxObjs = 5
    MaxCycles = 2
    MaxLocals = 1
    Lengths <- NoLengths
INVARIANTS TypeOK NoDangling NoBoxInBox Forwarding
PROPERTIES StoreSpec Entered
CHECK_DEADLOCK FALSE
