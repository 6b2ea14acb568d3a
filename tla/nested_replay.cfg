SPECIFICATION FairSpec
CONSTANTS
    A = A
    B = B
    C = C
    w1 = w1
    w2 = w2
    w3 = w3
    Object = {A, B, C}
    Worker = {w1, w2, w3}
    Programs <- MCPrograms
    Ret = Ret
CHECK_DEADLOCK FALSE
INVARIANTS
    ReplayedInCommitOrder
    RecoveryIsComplete
    StopsOnlyTooLate
PROPERTIES
    RecoveryEnds
