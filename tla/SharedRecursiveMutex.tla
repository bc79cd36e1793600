------------------------ MODULE SharedRecursiveMutex ------------------------
(***************************************************************************)
(* libbinom/utils/shared_recursive_mutex_wrapper: recursive, upgradable    *)
(* locking over std::shared_mutex.  Every thread keeps, in a thread_local  *)
(* map, three counters per mutex it is using; the mutex itself is touched  *)
(* only when a counter leaves or reaches zero.  SharedRecursiveLock is the *)
(* RAII object clients see (Variable::getLock returns one).                *)
(*                                                                         *)
(* Granularity: a step ends at each call on a std::shared_mutex that may   *)
(* block.  Counters are thread_local, so the code between two such calls   *)
(* is invisible to other threads.                                          *)
(***************************************************************************)
EXTENDS Integers, FiniteSets

CONSTANTS
    Threads,         \* the threads of the program
    Mutexes,         \* the std::shared_mutex of every live SharedResource
    Slots,           \* the lock objects one thread can have at a time
    NoThread,        \* "no exclusive owner"
    NoMutex,         \* mtx_data = counter_storage.end(): a moved-from object
    WriterPriority   \* does a waiting writer hold back new readers?  The
                     \* standard leaves it open; every property is for both

ASSUME ConstantsAssumption ==
    /\ IsFiniteSet(Slots)
    /\ NoThread \notin Threads
    /\ NoMutex \notin Mutexes
    /\ WriterPriority \in BOOLEAN

MtxLockType == {"unlocked", "shared_locked", "unique_locked"}

VARIABLES
    owner,            \* owner[m]: the thread inside lock() of m
    sharers,          \* sharers[m]: the threads inside lock_shared() of m
    counter_storage,  \* counter_storage[t][m]: the thread_local Counters
    locks,            \* locks[t][s]: the SharedRecursiveLock objects
    call,             \* call[t]: the mutex call that t is blocked in
    misused           \* has a mutex call broken its precondition?

vars == <<owner, sharers, counter_storage, locks, call, misused>>

Counters == [wrapper_count       : Nat,
             shared_lock_counter : Nat,
             unique_lock_counter : Nat]

\* No entry in the map; an entry has at least one wrapper.
NoCounters == [wrapper_count       |-> 0,
               shared_lock_counter |-> 0,
               unique_lock_counter |-> 0]

FreshCounters == [NoCounters EXCEPT !.wrapper_count = 1]

NoLock == [mtx |-> NoMutex, lock_type |-> "none"]

\* What the destructor of a moved-from SharedRecursiveLock sees.
MovedFrom == [mtx |-> NoMutex, lock_type |-> "unlocked"]

LockObjects == [mtx : Mutexes, lock_type : MtxLockType] \cup {NoLock, MovedFrom}

Running == [op |-> "none", mtx |-> NoMutex]

CallOps == {"lock", "lock_shared", "relock_shared"}

Calls == [op : CallOps, mtx : Mutexes] \cup {Running}

TypeOK ==
    /\ owner \in [Mutexes -> Threads \cup {NoThread}]
    /\ sharers \in [Mutexes -> SUBSET Threads]
    /\ counter_storage \in [Threads -> [Mutexes -> Counters]]
    /\ locks \in [Threads -> [Slots -> LockObjects]]
    /\ call \in [Threads -> Calls]
    /\ misused \in BOOLEAN

Init ==
    /\ owner = [m \in Mutexes |-> NoThread]
    /\ sharers = [m \in Mutexes |-> {}]
    /\ counter_storage = [t \in Threads |-> [m \in Mutexes |-> NoCounters]]
    /\ locks = [t \in Threads |-> [s \in Slots |-> NoLock]]
    /\ call = [t \in Threads |-> Running]
    /\ misused = FALSE

-----------------------------------------------------------------------------
(***************************************************************************)
(* A method of the wrapper works on one mutex and on the calling thread's  *)
(* counters for it.  That part of the state is a view; the methods are     *)
(* operators from views to views, and an action stores the last view.      *)
(***************************************************************************)
View(t, m) == [owner    |-> owner[m],
               sharers  |-> sharers[m],
               counters |-> counter_storage[t][m],
               op       |-> "none",
               misused  |-> misused]

Store(t, m, v) ==
    /\ owner' = [owner EXCEPT ![m] = v.owner]
    /\ sharers' = [sharers EXCEPT ![m] = v.sharers]
    /\ counter_storage' = [counter_storage EXCEPT ![t][m] = v.counters]
    /\ call' = [call EXCEPT ![t] = IF v.op = "none"
                                   THEN Running
                                   ELSE [op |-> v.op, mtx |-> m]]
    /\ misused' = v.misused

(***************************************************************************)
(* std::shared_mutex.  Unlocking what the thread does not hold, and        *)
(* locking what it already holds, is undefined behaviour.                  *)
(***************************************************************************)
Holds(v, t) == v.owner = t \/ t \in v.sharers

Free(v) == v.owner = NoThread /\ v.sharers = {}

RawUnlock(v, t) ==
    [v EXCEPT !.owner = NoThread, !.misused = @ \/ v.owner # t]

RawUnlockShared(v, t) ==
    [v EXCEPT !.sharers = @ \ {t}, !.misused = @ \/ t \notin v.sharers]

\* The thread enters lock() or lock_shared() and may have to wait there.
RawCall(v, t, op) ==
    [v EXCEPT !.op = op, !.misused = @ \/ Holds(v, t)]

-----------------------------------------------------------------------------
(* SharedRecursiveMutexWrapper *)

getLockType(c) ==
    IF c.unique_lock_counter > 0 THEN "unique_locked"
    ELSE IF c.shared_lock_counter > 0 THEN "shared_locked"
    ELSE "unlocked"

createCountersRef(v) ==
    IF v.counters.wrapper_count = 0
    THEN [v EXCEPT !.counters = FreshCounters]
    ELSE [v EXCEPT !.counters.wrapper_count = @ + 1]

\* The last wrapper gives back what the counters say is still held.
deleteCounterRef(v, t) ==
    IF v.counters.wrapper_count > 1
    THEN [v EXCEPT !.counters.wrapper_count = @ - 1]
    ELSE LET u == IF v.counters.unique_lock_counter > 0
                  THEN RawUnlock(v, t) ELSE v
             w == IF v.counters.shared_lock_counter > 0
                  THEN RawUnlockShared(u, t) ELSE u
         IN [w EXCEPT !.counters = NoCounters]

CountUnique(v) == [v EXCEPT !.counters.unique_lock_counter = @ + 1]

CountShared(v) == [v EXCEPT !.counters.shared_lock_counter = @ + 1]

\* Faulty variants, to see that the checks notice them: an upgrade that only
\* counts, and one that keeps the shared lock while it waits.
lock_CountsOnly(v, t) ==
    IF getLockType(v.counters) = "unlocked" THEN RawCall(v, t, "lock")
    ELSE CountUnique(v)

lock_KeepsShared(v, t) ==
    IF getLockType(v.counters) = "unique_locked" THEN CountUnique(v)
    ELSE RawCall(v, t, "lock")

\* The upgrade lets go of the shared lock before it asks for the unique one.
lock(v, t) ==
    CASE getLockType(v.counters) = "unlocked" -> RawCall(v, t, "lock")
      [] getLockType(v.counters) = "shared_locked" ->
            RawCall(RawUnlockShared(v, t), t, "lock")
      [] OTHER -> CountUnique(v)

\* Faulty: a reader that waits in lock_shared() again.
lockShared_NotRecursive(v, t) == RawCall(v, t, "lock_shared")

lockShared(v, t) ==
    IF getLockType(v.counters) = "unlocked"
    THEN RawCall(v, t, "lock_shared")
    ELSE CountShared(v)

\* Faulty: the last unlock forgets the shared locks under it.
unlock_NoDowngrade(v, t) ==
    LET w == [v EXCEPT !.counters.unique_lock_counter = @ - 1]
    IN CASE getLockType(v.counters) # "unique_locked" -> v
         [] w.counters.unique_lock_counter > 0 -> w
         [] OTHER -> RawUnlock(w, t)

\* The last unlock of a thread that also counts shared locks downgrades:
\* mtx->unlock(), then mtx->lock_shared().
unlock(v, t) ==
    LET w == [v EXCEPT !.counters.unique_lock_counter = @ - 1]
    IN CASE getLockType(v.counters) # "unique_locked" -> v
         [] w.counters.unique_lock_counter > 0 -> w
         [] w.counters.unique_lock_counter = 0
            /\ w.counters.shared_lock_counter > 0 ->
               RawCall(RawUnlock(w, t), t, "relock_shared")
         [] OTHER -> RawUnlock(w, t)

\* Faulty: under a unique lock the shared locks are not counted down.
unlockShared_OnlyWhenShared(v, t) ==
    LET w == [v EXCEPT !.counters.shared_lock_counter = @ - 1]
    IN CASE getLockType(v.counters) # "shared_locked" -> v
         [] OTHER -> IF w.counters.shared_lock_counter = 0
                     THEN RawUnlockShared(w, t) ELSE w

unlockShared(v, t) ==
    LET w == [v EXCEPT !.counters.shared_lock_counter = @ - 1]
    IN CASE getLockType(v.counters) = "unlocked" -> v
         [] getLockType(v.counters) = "shared_locked" ->
            IF w.counters.shared_lock_counter = 0
            THEN RawUnlockShared(w, t) ELSE w
         [] OTHER -> IF v.counters.shared_lock_counter > 0 THEN w ELSE v

-----------------------------------------------------------------------------
(***************************************************************************)
(* The bodies of the constructor and the destructor of a wrapper that      *)
(* locks: the reference to the counters is made first and dropped last.    *)
(***************************************************************************)
Enter(v, t, lock_type) ==
    LET w == createCountersRef(v)
    IN CASE lock_type = "unlocked" -> w
         [] lock_type = "shared_locked" -> lockShared(w, t)
         [] lock_type = "unique_locked" -> lock(w, t)

Leave(v, t, lock_type) ==
    LET w == CASE lock_type = "unlocked" -> v
               [] lock_type = "shared_locked" -> unlockShared(v, t)
               [] lock_type = "unique_locked" -> unlock(v, t)
    IN IF w.op = "none" THEN deleteCounterRef(w, t) ELSE w

\* SharedRecursiveLock(mtx, lock_type), and the constructors that copy the
\* mutex of another lock object: they too make a reference of their own.
Construct(t, s, m, lock_type) ==
    /\ call[t] = Running
    /\ locks[t][s] = NoLock
    /\ locks' = [locks EXCEPT ![t][s] = [mtx |-> m, lock_type |-> lock_type]]
    /\ Store(t, m, Enter(View(t, m), t, lock_type))

\* Faulty: the moved-from object would still unlock in its destructor.
Move_SourceKeepsType(t, s, r) ==
    /\ call[t] = Running
    /\ locks[t][s] # NoLock
    /\ locks[t][r] = NoLock
    /\ locks' = [locks EXCEPT ![t][r] = locks[t][s], ![t][s].mtx = NoMutex]
    /\ UNCHANGED <<owner, sharers, counter_storage, call, misused>>

\* SharedRecursiveLock(SharedRecursiveLock&&): the reference changes hands.
Move(t, s, r) ==
    /\ call[t] = Running
    /\ locks[t][s] # NoLock
    /\ locks[t][r] = NoLock
    /\ locks' = [locks EXCEPT ![t][r] = locks[t][s], ![t][s] = MovedFrom]
    /\ UNCHANGED <<owner, sharers, counter_storage, call, misused>>

\* ~SharedRecursiveLock, then ~SharedRecursiveMutexWrapper.
Destroy(t, s) ==
    /\ call[t] = Running
    /\ locks[t][s] # NoLock
    /\ locks' = [locks EXCEPT ![t][s] = NoLock]
    /\ \/ /\ locks[t][s].mtx = NoMutex
          /\ UNCHANGED <<owner, sharers, counter_storage, call, misused>>
       \/ /\ locks[t][s].mtx # NoMutex
          /\ Store(t, locks[t][s].mtx,
                   Leave(View(t, locks[t][s].mtx), t, locks[t][s].lock_type))

-----------------------------------------------------------------------------
(* The mutex lets a blocked call return, and the method that made it ends. *)

LockGranted(t) ==
    /\ call[t].op = "lock"
    /\ LET m == call[t].mtx
           v == View(t, m)
       IN /\ Free(v)
          /\ Store(t, m, CountUnique([v EXCEPT !.owner = t]))
    /\ UNCHANGED locks

WriterWaits(m) == \E u \in Threads : call[u] = [op |-> "lock", mtx |-> m]

ReadersEnter(m) ==
    /\ owner[m] = NoThread
    /\ WriterPriority => ~WriterWaits(m)

LockSharedGranted(t) ==
    /\ call[t].op = "lock_shared"
    /\ LET m == call[t].mtx
           v == View(t, m)
       IN /\ ReadersEnter(m)
          /\ Store(t, m, CountShared([v EXCEPT !.sharers = @ \cup {t}]))
    /\ UNCHANGED locks

\* The end of a downgrade: unlock() returns and the destructor goes on.
RelockSharedGranted(t) ==
    /\ call[t].op = "relock_shared"
    /\ LET m == call[t].mtx
           v == View(t, m)
       IN /\ ReadersEnter(m)
          /\ Store(t, m, deleteCounterRef([v EXCEPT !.sharers = @ \cup {t}], t))
    /\ UNCHANGED locks

Granted(t) == LockGranted(t) \/ LockSharedGranted(t) \/ RelockSharedGranted(t)

Next ==
    \E t \in Threads :
        \/ \E s \in Slots, m \in Mutexes, lock_type \in MtxLockType :
              Construct(t, s, m, lock_type)
        \/ \E s, r \in Slots : Move(t, s, r)
        \/ \E s \in Slots : Destroy(t, s)
        \/ Granted(t)

Spec == Init /\ [][Next]_vars

\* A thread goes on when its call can return, and leaves the scopes it is in.
\* Nothing is assumed about who gets a contended mutex.
FairSpec ==
    /\ Spec
    /\ \A t \in Threads : /\ WF_vars(Granted(t))
                          /\ WF_vars(\E s \in Slots : Destroy(t, s))

-----------------------------------------------------------------------------
(* Correctness *)

\* The wrapper never calls a std::shared_mutex outside its contract: no
\* unlock of a mode that is not held, no lock of a mutex the thread is in.
NoMisuse == ~misused

\* A mutex and the counters of t for it agree: t is inside the mutex exactly
\* as the counters say, and while it waits it is not inside at all.
Agree(v, t) ==
    /\ ~v.misused
    /\ v.owner # NoThread => v.sharers = {}
    /\ v.op = "none" =>
          /\ v.owner = t <=> v.counters.unique_lock_counter > 0
          /\ t \in v.sharers <=> /\ v.counters.unique_lock_counter = 0
                                 /\ v.counters.shared_lock_counter > 0
    /\ v.op # "none" =>
          /\ ~Holds(v, t)
          /\ v.counters.unique_lock_counter = 0
    /\ v.op = "lock_shared" => v.counters.shared_lock_counter = 0
    /\ v.op = "relock_shared" => v.counters.shared_lock_counter > 0

\* What t sees of m, the call it waits in included.
Seen(t, m) ==
    [View(t, m) EXCEPT !.op = IF call[t].mtx = m THEN call[t].op ELSE "none"]

\* The thread_local counters and the shared mutexes never drift apart, though
\* a method updates them one after the other with other threads in between.
CountersMatchMutex == \A t \in Threads, m \in Mutexes : Agree(Seen(t, m), t)

Objects(t, m) == {s \in Slots : locks[t][s].mtx = m}

Typed(t, m, lock_type) ==
    {s \in Objects(t, m) : locks[t][s].lock_type = lock_type}

In(t, m, op) == IF call[t] = [op |-> op, mtx |-> m] THEN 1 ELSE 0

CountsMatch(t, m) ==
    LET c == counter_storage[t][m]
    IN /\ c.wrapper_count
            = Cardinality(Objects(t, m)) + In(t, m, "relock_shared")
       /\ c.shared_lock_counter
            = Cardinality(Typed(t, m, "shared_locked")) - In(t, m, "lock_shared")
       /\ c.unique_lock_counter
            = Cardinality(Typed(t, m, "unique_locked")) - In(t, m, "lock")

\* The thread_local counters are exactly the live lock objects of the thread,
\* whatever the order in which they were constructed, moved and destroyed; in
\* particular getWrappedMutexCount() is back to 0 when the last one is gone.
CountersMatchLocks == \A t \in Threads, m \in Mutexes : CountsMatch(t, m)

\* A thread relies on a lock object once no call on its mutex is under way.
ReliesOn(t, m, lock_type) ==
    /\ Typed(t, m, lock_type) # {}
    /\ call[t].mtx # m

\* Who relies on a unique lock object is alone: no other thread relies on any
\* locking object of that mutex, although neither looks at the other's map.
LocksExclude ==
    \A t, u \in Threads, m \in Mutexes :
        (t # u /\ ReliesOn(t, m, "unique_locked"))
            => /\ ~ReliesOn(u, m, "unique_locked")
               /\ ~ReliesOn(u, m, "shared_locked")

NothingHeld ==
    /\ owner = [m \in Mutexes |-> NoThread]
    /\ sharers = [m \in Mutexes |-> {}]
    /\ counter_storage = [t \in Threads |-> [m \in Mutexes |-> NoCounters]]
    /\ call = [t \in Threads |-> Running]

NoNewLocks ==
    [][\A t \in Threads, s \in Slots :
            locks[t][s] = NoLock => locks'[t][s] = NoLock]_vars

\* Once the clients of one mutex open no more lock objects, every call
\* returns and every hold is given back: two readers that both upgrade do not
\* wait for each other, a recursive reader does not wait behind a writer that
\* waits for it, and no downgrade or destructor leaves a mutex held.
EverythingReleased == <>NoNewLocks => <>[]NothingHeld

\* The mode a thread's counters stand for; it has none while it waits.
Mode(t, m) ==
    IF call[t].mtx = m THEN "unlocked" ELSE getLockType(counter_storage[t][m])

RW == INSTANCE ReadersWriters
      WITH mode <- [t \in Threads |-> [m \in Mutexes |-> Mode(t, m)]]

\* The wrapper implements the readers-writer lock of ReadersWriters.
ImplementsReadersWriters == RW!Spec
=============================================================================
