SPECIFICATION Spec
CONSTANTS
    Handles = {"tokens", "args"}
    Values = {"x", "y"}
    InitSize = 1
    StructWords = 1
    Capacity = 3
    MaxRegions = 4
    Garbage = Garbage
    MaxLength = 3
INVARIANTS TypeOK ArraysApart
PROPERTY ImplementsLists
CHECK_DEADLOCK FALSE
