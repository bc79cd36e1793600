-------------------------- MODULE TransactionLock --------------------------
(***************************************************************************)
(* shared_recursive_mtx::TransactionLock, composed with the lock objects   *)
(* of SharedRecursiveMutex: a thread locks a set of mutexes in the order   *)
(* of their addresses, waiting only for the first; when a later one is     *)
(* taken it gives all of them back, last one first, and begins again.      *)
(***************************************************************************)
EXTENDS SharedRecursiveMutex, FiniteSetsExt, SequencesExt

ASSUME MutexesAreOrdered == Mutexes \subseteq Nat  \* a mutex is its address

VARIABLE tx   \* tx[t]: the TransactionLock of t, under construction or alive

txVars == <<owner, sharers, counter_storage, locks, call, misused, tx>>

\* phase is "none", "locking", "backing_off" or "ending"; "locking" also after
\* the constructor has returned: then the stack is full.
NoTx == [phase |-> "none", mtx_set |-> {}, lock_type |-> "unlocked",
         mtx_stack |-> <<>>]

TxInit == Init /\ tx = [t \in Threads |-> NoTx]

Acquired(t) == Range(tx[t].mtx_stack)

Missing(t) == tx[t].mtx_set \ Acquired(t)

\* The constructor has returned and the destructor has not begun.
Held(t) ==
    /\ tx[t].phase = "locking"
    /\ Missing(t) = {}
    /\ call[t] = Running

-----------------------------------------------------------------------------
(* SharedRecursiveMutexWrapper::tryLock and tryLockShared *)

\* Faulty: readers do not count.
tryFails_IgnoresReaders(t, m, lock_type) ==
    /\ getLockType(counter_storage[t][m]) = "unlocked"
    /\ owner[m] # NoThread

\* Only a thread that does not hold the mutex yet can fail.
tryFails(t, m, lock_type) ==
    /\ getLockType(counter_storage[t][m]) = "unlocked"
    /\ IF lock_type = "unique_locked" THEN ~Free(View(t, m))
                                      ELSE ~ReadersEnter(m)

RawTry(v, t) == [v EXCEPT !.misused = @ \/ Holds(v, t)]

\* Faulty: the thread's own shared lock is taken for a unique one.
tryLock_UpgradesInPlace(v, t) ==
    IF getLockType(v.counters) = "unlocked"
    THEN CountUnique([RawTry(v, t) EXCEPT !.owner = t])
    ELSE CountUnique(v)

\* With a shared lock of its own the thread blocks here, in lock().
tryLock(v, t) ==
    IF getLockType(v.counters) = "unlocked"
    THEN CountUnique([RawTry(v, t) EXCEPT !.owner = t])
    ELSE lock(v, t)

\* Faulty: a mutex the thread has already is tried again.
tryLockShared_NotRecursive(v, t) ==
    CountShared([RawTry(v, t) EXCEPT !.sharers = @ \cup {t}])

tryLockShared(v, t) ==
    IF getLockType(v.counters) = "unlocked"
    THEN CountShared([RawTry(v, t) EXCEPT !.sharers = @ \cup {t}])
    ELSE CountShared(v)

TryEnter(v, t, lock_type) ==
    LET w == createCountersRef(v)
    IN IF lock_type = "unique_locked" THEN tryLock(w, t) ELSE tryLockShared(w, t)

-----------------------------------------------------------------------------
\* Variable::makeTransaction: an empty set, or "unlocked", locks nothing.
TxBegin(t, S, lock_type) ==
    /\ call[t] = Running
    /\ tx[t] = NoTx
    /\ S # {}
    /\ lock_type # "unlocked"
    /\ tx' = [tx EXCEPT ![t] = [NoTx EXCEPT !.phase = "locking",
                                            !.mtx_set = S,
                                            !.lock_type = lock_type]]
    /\ UNCHANGED vars

\* Faulty: the attempt of a unique transaction starts at the last mutex.
TxFirst_FromTheEnd(t) ==
    /\ call[t] = Running
    /\ tx[t].phase = "locking" /\ tx[t].mtx_stack = <<>>
    /\ LET m == IF tx[t].lock_type = "unique_locked"
                THEN Max(tx[t].mtx_set) ELSE Min(tx[t].mtx_set)
       IN /\ tx' = [tx EXCEPT ![t].mtx_stack = <<m>>]
          /\ Store(t, m, Enter(View(t, m), t, tx[t].lock_type))
    /\ UNCHANGED locks

\* mtx_stack.emplace(*mtx_set.begin()).lock(), or .lockShared(): may wait.
TxFirst(t) ==
    /\ call[t] = Running
    /\ tx[t].phase = "locking" /\ tx[t].mtx_stack = <<>>
    /\ LET m == Min(tx[t].mtx_set)
       IN /\ tx' = [tx EXCEPT ![t].mtx_stack = <<m>>]
          /\ Store(t, m, Enter(View(t, m), t, tx[t].lock_type))
    /\ UNCHANGED locks

\* Faulty: the iterator is not advanced; the wrapper of a failed attempt stays;
\* the other mutexes are waited for like the first.
TxTry_KeepsWrapper(t) ==
    /\ call[t] = Running
    /\ tx[t].phase = "locking" /\ tx[t].mtx_stack # <<>>
    /\ Missing(t) # {}
    /\ LET m == Min(Missing(t))
       IN IF tryFails(t, m, tx[t].lock_type)
          THEN /\ tx' = [tx EXCEPT ![t].phase = "backing_off"]
               /\ Store(t, m, createCountersRef(View(t, m)))
          ELSE /\ tx' = [tx EXCEPT ![t].mtx_stack = Append(@, m)]
               /\ Store(t, m, TryEnter(View(t, m), t, tx[t].lock_type))
    /\ UNCHANGED locks

TxTry_Waits(t) ==
    /\ call[t] = Running
    /\ tx[t].phase = "locking" /\ tx[t].mtx_stack # <<>>
    /\ Missing(t) # {}
    /\ LET m == Min(Missing(t))
       IN /\ tx' = [tx EXCEPT ![t].mtx_stack = Append(@, m)]
          /\ Store(t, m, Enter(View(t, m), t, tx[t].lock_type))
    /\ UNCHANGED locks

\* mtx_stack.emplace(*it).tryLock(), or .tryLockShared(), for the others.
TxTry(t) ==
    /\ call[t] = Running
    /\ tx[t].phase = "locking" /\ tx[t].mtx_stack # <<>>
    /\ Missing(t) # {}
    /\ LET m == Min(Missing(t))
       IN \/ /\ ~tryFails(t, m, tx[t].lock_type)
             /\ tx' = [tx EXCEPT ![t].mtx_stack = Append(@, m)]
             /\ Store(t, m, TryEnter(View(t, m), t, tx[t].lock_type))
          \/ /\ tryFails(t, m, tx[t].lock_type)
             /\ tx' = [tx EXCEPT ![t].phase = "backing_off"]
             /\ Store(t, m, deleteCounterRef(createCountersRef(View(t, m)), t))
    /\ UNCHANGED locks

\* mtx_stack.top().unlock(), or .unlockShared(), and mtx_stack.pop().
Pop(t) ==
    LET m == Last(tx[t].mtx_stack)
    IN Store(t, m, Leave(View(t, m), t, tx[t].lock_type))

\* One round of the loop that empties the stack before the next attempt.
TxBackOff(t) ==
    /\ call[t] = Running
    /\ tx[t].phase = "backing_off"
    /\ Pop(t)
    /\ tx' = [tx EXCEPT ![t].mtx_stack = Front(@),
                        ![t].phase = IF Len(tx[t].mtx_stack) = 1
                                     THEN "locking" ELSE "backing_off"]
    /\ UNCHANGED locks

\* One round of the destructor's loop.
TxEnd(t) ==
    /\ call[t] = Running
    /\ Held(t) \/ tx[t].phase = "ending"
    /\ Pop(t)
    /\ tx' = IF Len(tx[t].mtx_stack) = 1
             THEN [tx EXCEPT ![t] = NoTx]
             ELSE [tx EXCEPT ![t].mtx_stack = Front(@), ![t].phase = "ending"]
    /\ UNCHANGED locks

\* The thread's own code runs only outside the constructor and destructor.
ClientRuns(t) == tx[t].phase = "none" \/ Held(t)

LockObjectStep(t) ==
    /\ ClientRuns(t)
    /\ \/ \E s \in Slots, m \in Mutexes, lock_type \in MtxLockType :
             Construct(t, s, m, lock_type)
       \/ \E s \in Slots : Destroy(t, s)
    /\ UNCHANGED tx

TxGranted(t) == Granted(t) /\ UNCHANGED tx

TxRuns(t) == TxFirst(t) \/ TxTry(t) \/ TxBackOff(t)

TxNext ==
    \E t \in Threads :
        \/ \E S \in SUBSET Mutexes, lock_type \in MtxLockType :
              TxBegin(t, S, lock_type)
        \/ TxRuns(t)
        \/ TxEnd(t)
        \/ TxGranted(t)
        \/ LockObjectStep(t)

TxSpec == TxInit /\ [][TxNext]_txVars

\* A thread goes on whenever it can, and a transaction's scope ends.
TxFairSpec ==
    /\ TxSpec
    /\ \A t \in Threads : /\ WF_txVars(TxGranted(t))
                          /\ WF_txVars(TxRuns(t))
                          /\ WF_txVars(TxEnd(t))

-----------------------------------------------------------------------------
(* Correctness *)

\* The counters are the live lock objects and the stack of the transaction,
\* through failed attempts, retries and downgrades.
TxCountersMatch ==
    \A t \in Threads, m \in Mutexes :
        LET c == counter_storage[t][m]
            mine == IF m \in Acquired(t) THEN 1 ELSE 0
            typed(lock_type) ==
                IF tx[t].lock_type = lock_type THEN mine ELSE 0
        IN /\ c.wrapper_count
                = Cardinality(Objects(t, m)) + mine + In(t, m, "relock_shared")
           /\ c.shared_lock_counter
                = Cardinality(Typed(t, m, "shared_locked"))
                  + typed("shared_locked") - In(t, m, "lock_shared")
           /\ c.unique_lock_counter
                = Cardinality(Typed(t, m, "unique_locked"))
                  + typed("unique_locked") - In(t, m, "lock")

\* How t may use m: through its transaction, or through a lock object.
UsesUniquely(t, m) ==
    \/ Held(t) /\ m \in tx[t].mtx_set /\ tx[t].lock_type = "unique_locked"
    \/ ReliesOn(t, m, "unique_locked")

Uses(t, m) ==
    \/ Held(t) /\ m \in tx[t].mtx_set
    \/ UsesUniquely(t, m)
    \/ ReliesOn(t, m, "shared_locked")

\* A transaction and the lock objects of other threads exclude each other on
\* every mutex of its set, whatever it nested inside which other locks.
TxExcludes ==
    \A t, u \in Threads, m \in Mutexes :
        t # u /\ UsesUniquely(t, m) => ~Uses(u, m)

\* A thread that waits for a mutex holds none: with transactions alone there
\* is nothing a deadlock could be made of.
NoHoldAndWait ==
    \A t \in Threads, m \in Mutexes :
        call[t] # Running => ~Holds(View(t, m), t)

AT == INSTANCE AtomicTransactions
      WITH held <- [t \in Threads |->
                       IF Held(t) THEN [mtx_set   |-> tx[t].mtx_set,
                                        lock_type |-> tx[t].lock_type]
                       ELSE [mtx_set |-> {}, lock_type |-> "unlocked"]]

\* Transactions are atomic: all the mutexes at once, or none.
ImplementsAtomicTransactions == AT!Spec

NoNewTx == [][\A t \in Threads : tx[t] = NoTx => tx'[t] = NoTx]_txVars

\* Attempts that fail do not make each other fail for ever: when no more
\* transactions begin, each one gets all of its mutexes.
EveryTxHeld ==
    <>NoNewTx => \A t \in Threads : (tx[t].phase = "locking") ~> Held(t)
=============================================================================
