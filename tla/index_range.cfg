SPECIFICATION Spec
CONSTANTS
    Worker = {w1}
    Object = {o1}
    None = None
    MAX_ACTIVE_TXS = 3
    MaxWord = 9
    LogSize = 3
    MaxNest = 3
    MaxTx = 3
    MaxFreeze = 0
INVARIANTS
    LoggerIndexInRange
