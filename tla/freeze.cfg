\* Two threads, one registered late and one with a store buffer; two
\* transactions and two snapshots. A method that creates an object waits for
\* the snapshot that waits for it.
SPECIFICATION Spec
CONSTANTS
    Thread = {t1, t2}
    Object = {o1, o2}
    Late = {t2}
    StoreBuffer = {t1}
    MaxNest = 2
    MaxTx = 2
    MaxSnap = 2
CHECK_DEADLOCK FALSE
INVARIANTS
    AllThreadsBlocked
    SnapshotIsCut
    ReplayMissesOnlyClosing
