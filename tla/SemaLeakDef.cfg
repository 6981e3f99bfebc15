SPECIFICATION Spec
CONSTANTS
    Programs <- LeakDef
    WordSize = 4
    JunkWords = {0}
INVARIANTS RejectsOnlyRedefinition
