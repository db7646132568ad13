SPECIFICATION Spec
CONSTANTS
    k1 = k1
    k2 = k2
    k3 = k3
    k4 = k4
    Key = {k1, k2, k3}
    Value = {1, 2}
    Hash <- Hash3
    Dict = {d1, d2}
    InitCap = 4
    NULL = NULL
INVARIANTS ImportSoFar
PROPERTIES LoopsEnd
CHECK_DEADLOCK FALSE
