CONSTANTS
    Threads = {t1, t2, t3}
    Mutexes = {1, 2}
    Slots = {}
    NoThread = NoThread
    NoMutex = NoMutex
    WriterPriority = TRUE
SPECIFICATION TxFairSpec
INVARIANT NoHoldAndWait
PROPERTIES
    ImplementsAtomicTransactions
    EveryTxHeld
