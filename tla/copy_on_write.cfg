SPECIFICATION FairSpec
CONSTANTS
    Writer = {w1, w2}
    Outside = {w2}
    BlockCount = 2
    SnapshotThreads = 2
    MaxStore = 2
    MaxSnap = 2
INVARIANTS
    CopyIsFrozenImage
    RestoredIsFrozen
    ReadOnlyOnlyUntilCopied
PROPERTIES
    SnapshotEnds
    FaultingStoreCompletes
