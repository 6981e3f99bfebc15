SPECIFICATION Spec
CONSTANTS
    Handles = {"scope", "child"}
    Keys = {"int", "x", "y"}
    Data = {"TS_INT", "d1"}
    Buckets = 2
    Bucket <- MCBucket
    MaxNodes = 4
    NULL = NULL
    Types <- MCTypes
INVARIANTS TypeOK HeapExact
PROPERTY ImplementsMaps
CHECK_DEADLOCK FALSE
