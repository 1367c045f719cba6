SPECIFICATION Spec
CONSTANTS
    Thread = {t1, t2, t3}
    Addr = {a1, a2}
    Value = {0, 1}
    Clashes = {}
    Counts = {2}
    NoThread = NoThread
SYMMETRY Symmetry
INVARIANTS
    FutexSound
PROPERTIES
    ImplementsFutex
CHECK_DEADLOCK FALSE
