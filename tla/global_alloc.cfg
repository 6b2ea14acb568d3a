\* Two threads, regions of two sizes, two restarts. With all memory up to the
\* bound handed out, after a search of memory that is not free or a restart that failed,
\* there is no next step.
SPECIFICATION Spec
CONSTANTS
    Thread = {t1, t2}
    MinPool = 8
    Request = {8, 12}
    MaxMapped = 32
    MaxRestart = 2
SYMMETRY Symmetry
CHECK_DEADLOCK FALSE
INVARIANTS
    FreeListLinked
    MemoryPartitioned
