SPECIFICATION Spec
CONSTANTS
    k1 = k1
    k2 = k2
    k3 = k3
    k4 = k4
    Key = {k1, k2, k3, k4}
    Value = {1, 2}
    Hash <- Hash4
    Dict = {d1}
    InitCap = 4
    NULL = NULL
INVARIANTS ScanNeverFails
CHECK_DEADLOCK FALSE
