SPECIFICATION Spec
CONSTANTS
    Object = {o1, o2}
    None = None
    MaxObjects = 2
    MaxSnap = 2
    MaxRun = 3
    Segfault = TRUE
CHECK_DEADLOCK FALSE
INVARIANTS
    CatalogIsSuperset
    ObjectsAreEntries
    OneHalfMadePerRun
