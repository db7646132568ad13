SPECIFICATION Spec
CONSTANTS
    Chars <- MCChars
    CharMax = 7
    RcMax = 2
    Word = 3
    Indices <- SomeIndices
    MaxStrings = 3
    MaxBufs = 2
    MaxLen = 2
INVARIANTS
    TypeOK
    FreshUntilMoved
    CountsCover
    NarrowHoldsNarrow
    ComparisonsAgree
PROPERTIES
    WritesArePrivate
