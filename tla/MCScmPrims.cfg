SPECIFICATION Spec
CONSTANTS
    MaxInt = 3
    MaxFold = 12
    ArgStackLen = 4
    Word = 8
    TinyDen = 1024
    Programs <- MCPrograms
INVARIANTS TypeOK LeftoversExplained JunkOnlyBare EqualEquivalence
PROPERTIES SameAsFolded ListPExact
