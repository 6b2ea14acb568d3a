\* One worker and its logger, four transactions nested up to two deep over two
\* objects, one freeze at any time; two levels of sync_buffer to spare.
SPECIFICATION FairSpec
CONSTANTS
    Worker = {w1}
    Object = {o1, o2}
    None = None
    MAX_ACTIVE_TXS = 4
    MaxWord = 9
    LogSize = 4
    MaxNest = 2
    MaxTx = 4
    MaxFreeze = 1
INVARIANTS
    IInv
    CommitOwnEntry
    ParentDurableFirst
    ChildrenCommitFirst
    LoggerIndexBound
PROPERTIES
    CallsAreServed
    LoggersStop
