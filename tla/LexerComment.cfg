SPECIFICATION Spec
CONSTANTS
    Texts <- TrailingComments
    Letters <- MCLetters
    IntLimit = 2048
    Memory = 8
    JunkTypes = {"IDENT"}
INVARIANT CommentsMakeNoToken
