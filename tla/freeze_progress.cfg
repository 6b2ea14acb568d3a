\* The same threads on one object.
SPECIFICATION FairSpec
CONSTANTS
    Thread = {t1, t2}
    Object = {o1}
    Late = {t2}
    StoreBuffer = {t1}
    MaxNest = 2
    MaxTx = 2
    MaxSnap = 2
CHECK_DEADLOCK FALSE
PROPERTIES
    SnapshotEndsUnlessStuck
    SleeperResumes
