\* Two workers, three entries, two ends of the program of any kind.
SPECIFICATION Spec
CONSTANTS
    Worker = {w1, w2}
    LogSize = 3
    Exact = TRUE
    MaxStop = 2
SYMMETRY Symmetry
INVARIANTS
    ReplayedOnce
    CleanIsIntact
PROPERTIES
    RecoveredIsCommittedPrefix
