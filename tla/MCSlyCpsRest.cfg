SPECIFICATION Spec
CONSTANTS
    Programs <- RestOmitted
    Fuel = 60
    MaxRounds = 20
INVARIANT NoAbort
CHECK_DEADLOCK FALSE
