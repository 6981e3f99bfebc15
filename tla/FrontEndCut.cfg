SPECIFICATION Spec
CONSTANTS
    Files <- CutFiles
    Letters <- MCLetters
    IntLimit = 128
    Memory = 60
    JunkTypes = {"IDENT"}
INVARIANT EndReported
