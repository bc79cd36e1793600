CONSTANTS
    Threads = {t1, t2, t3}
    Mutexes = {m1}
    Slots = {s1, s2}
    NoThread = NoThread
    NoMutex = NoMutex
    WriterPriority = TRUE
SPECIFICATION FairSpec
INVARIANTS
    TypeOK
    NoMisuse
    CountersMatchMutex
    CountersMatchLocks
    LocksExclude
PROPERTIES
    ImplementsReadersWriters
    EverythingReleased
