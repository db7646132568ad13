SPECIFICATION Spec
CONSTANTS
    NVars = 2
    Value = {1}
    Unset = 0
    Defined = {1}
    Uplists <- MCUplists
    MaxFrames = 3
    MaxUpvals = 3
    MaxClosures = 3
    MaxConts = 2
    MaxEvals = 2
CONSTRAINT Bounded
INVARIANTS TypeOK OneVariable ClosedWhenLeft
PROPERTIES LostOnlyByTwo
CHECK_DEADLOCK FALSE
