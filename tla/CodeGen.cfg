SPECIFICATION FairSpec
CONSTANTS
    NTemp = 4
    NArg = 2
    WordSize = 4
    Lookalikes <- MCLookalikes
    WildSizes = {0, 8}
    Inputs <- CodeGenInputs
INVARIANTS TypeOK PoolIsExact OneHolder SpilledIsHeld StatementsStartFree LabelsResolve
PROPERTIES PendingValuesKept CallAreaApart Termination
