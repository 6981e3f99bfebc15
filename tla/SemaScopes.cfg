SPECIFICATION Spec
CONSTANTS
    Programs <- AllPrograms
    WordSize = 4
    JunkWords = {0}
INVARIANTS TypeOK ResolvesLikeC LocalsApart HandsOver AcceptsLegal CrashesOnlyOnIllegal ReturnsOwnFrame
