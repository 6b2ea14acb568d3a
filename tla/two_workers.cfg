\* Two workers and their loggers on one redo log, using every level of
\* sync_buffer. A logger that reads past the array has no defined next step.
SPECIFICATION Spec
CONSTANTS
    Worker = {w1, w2}
    Object = {o1}
    None = None
    MAX_ACTIVE_TXS = 2
    MaxWord = 9
    LogSize = 4
    MaxNest = 2
    MaxTx = 2
    MaxFreeze = 0
SYMMETRY Symmetry
CHECK_DEADLOCK FALSE
INVARIANTS
    CommitIdsContiguous
    LoggedExactlyOnce
PROPERTIES
    ImplementsSemanticLog
