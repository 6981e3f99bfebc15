SPECIFICATION StringSpec
CONSTANTS
    Handles = {"s", "t"}
    Values = {}
    InitSize = 1
    StructWords = 1
    Capacity = 7
    MaxRegions = 3
    Garbage <- MCGarbage
    MaxLength = 3
    Characters = {"a", "b"}
    Literals <- MCLiterals
    WordSize = 2
    StringWords = 1
    NUL = "NUL"
    MaxNames = 2
INVARIANTS StringTypeOK NamesKept
PROPERTY ImplementsTexts
CHECK_DEADLOCK FALSE
