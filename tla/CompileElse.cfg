SPECIFICATION Spec
CONSTANTS
    Programs <- ElseProgram
    JunkWords = {0}
    NTemp = 7
    NArg = 8
    WordSize = 4
    WordBits = 16
    StackTop = 8192
    Garbage = 77
    Fuel = 40
INVARIANTS AgreesWithC
