CONSTANTS
    Threads = {t1, t2}
    Mutexes = {1, 2}
    Slots = {s1, s2}
    NoThread = NoThread
    NoMutex = NoMutex
    WriterPriority = FALSE
SYMMETRY Symmetry
SPECIFICATION TxSpec
INVARIANTS
    NoMisuse
    TxCountersMatch
    TxExcludes
CHECK_DEADLOCK FALSE
