SPECIFICATION FairSpec
CONSTANTS
    o1 = o1  o2 = o2  k1 = k1  k2 = k2  e1 = e1  e2 = e2
    Operations = {o1, o2}
    Keys = {k1, k2}
    Versions = {1, 2}
    ErasureCommands = {e1, e2}
    NoKey = NoKey  NoOperation = NoOperation  NoDecision = NoDecision
    GcBatch = 1
    Sizes <- Vaults
INVARIANTS TypeOK ObjectMatchesStatus TombstoneCoversKeys ProofMatchesTombstone VersionSlotExclusive AlarmArmed GenerationIsErasable
PROPERTIES FenceKeepsContent HistoryIsKept KeepsPromise DueIsCollected ErasureCompletes
