SPECIFICATION FairSpec
CONSTANTS
    Files <- MCFiles
    Letters <- MCLetters
    IntLimit = 128
    Memory = 60
    JunkTypes = {"IDENT", "NUM", "!", "}"}
INVARIANTS TypeOK ReadsBack LosesNothing TreeOK BlamesWrongToken
PROPERTY Ends
