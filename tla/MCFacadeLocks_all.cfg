CONSTANTS
    Threads = {t1, t2}
    Mutexes = {1, 2, 3}
    Slots = {1, 2, 3}
    NoThread = NoThread
    NoMutex = NoMutex
    WriterPriority = TRUE
    theTable = 1
    theRow = 2
    theColumn = 3
    theField = theField
SPECIFICATION FFairSpec
INVARIANTS OnlyExposedInterfere TransactionsIsolate
PROPERTY MethodsReturn
CHECK_DEADLOCK FALSE
