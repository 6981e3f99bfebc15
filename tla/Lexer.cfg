SPECIFICATION FairSpec
CONSTANTS
    Texts <- MCTexts
    Letters <- MCLetters
    IntLimit = 2048
    Memory = 8
    JunkTypes = {"IDENT", "}"}
INVARIANTS TypeOK ScansLikeC LinesRight LiteralsKept AbortsAtOperatorOnly
PROPERTY Ends
