\* Every family of programs, through every pass and every round.
SPECIFICATION Spec
CONSTANTS
    Programs <- Everything
    Fuel = 60
    MaxRounds = 20
INVARIANTS TypeOK MeaningKept NoAbort RoundsBounded
CHECK_DEADLOCK FALSE
