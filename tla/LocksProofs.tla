----------------------------- MODULE LocksProofs -----------------------------
(***************************************************************************)
(* Theorems about SharedRecursiveMutex, TransactionLock and FacadeLocks,   *)
(* for any threads, any mutexes ordered by their addresses and every       *)
(* finite number of lock objects.  First the mutex: the methods of the     *)
(* wrapper, each as an operator on views; then its actions.  Then the      *)
(* transactions, about which the same facts hold, because a transaction is *)
(* what a thread counts beside its lock objects.  Then the methods of the  *)
(* facade: a script opens and closes its lock objects as a stack, and      *)
(* clients that are careful are isolated from each other.                  *)
(***************************************************************************)
EXTENDS FacadeLocks, FiniteSetTheorems, SequenceTheorems, WellFoundedInduction, TLAPS

USE DEF MtxLockType, Counters, CallOps

Views == [owner    : Threads \cup {NoThread},
          sharers  : SUBSET Threads,
          counters : Counters,
          op       : CallOps \cup {"none"},
          misused  : BOOLEAN]

\* A method that t runs leaves what the other threads hold alone.
OthersKept(v, w, t) ==
    /\ w.sharers \ {t} = v.sharers \ {t}
    /\ \/ w.owner = v.owner
       \/ v.owner \in {t, NoThread} /\ w.owner \in {t, NoThread}

\* The methods a client calls give up the mutex or leave it; only the return
\* of a blocked call takes it.
OnlyReleases(v, w, t) ==
    /\ w.owner \in {v.owner, NoThread}
    /\ w.sharers \in {v.sharers, v.sharers \ {t}}

One(b) == IF b THEN 1 ELSE 0

-----------------------------------------------------------------------------
(* The methods of the wrapper *)

LEMMA RawUnlockSharedFacts ==
    ASSUME NEW t \in Threads, NEW v \in Views
    PROVE  LET w == RawUnlockShared(v, t)
           IN /\ w \in Views
              /\ w.owner = v.owner /\ w.sharers = v.sharers \ {t}
              /\ w.counters = v.counters /\ w.op = v.op
              /\ w.misused <=> (v.misused \/ t \notin v.sharers)
  BY DEF Views, RawUnlockShared

LEMMA RawUnlockFacts ==
    ASSUME NEW t \in Threads, NEW v \in Views
    PROVE  LET w == RawUnlock(v, t)
           IN /\ w \in Views
              /\ w.owner = NoThread /\ w.sharers = v.sharers
              /\ w.counters = v.counters /\ w.op = v.op
              /\ w.misused <=> (v.misused \/ v.owner # t)
  BY DEF Views, RawUnlock

LEMMA RawCallFacts ==
    ASSUME NEW t \in Threads, NEW v \in Views, NEW op \in CallOps
    PROVE  LET w == RawCall(v, t, op)
           IN /\ w \in Views
              /\ w.owner = v.owner /\ w.sharers = v.sharers
              /\ w.counters = v.counters /\ w.op = op
              /\ w.misused <=> (v.misused \/ Holds(v, t))
  BY DEF Views, RawCall, Holds

\* What a method does to the counters, and to nothing else.
Counting(v, w, wrappers, shared, unique) ==
    /\ w \in Views
    /\ w.owner = v.owner /\ w.sharers = v.sharers
    /\ w.op = v.op /\ w.misused = v.misused
    /\ w.counters.wrapper_count = v.counters.wrapper_count + wrappers
    /\ w.counters.shared_lock_counter = v.counters.shared_lock_counter + shared
    /\ w.counters.unique_lock_counter = v.counters.unique_lock_counter + unique

LEMMA CountFacts ==
    ASSUME NEW v \in Views
    PROVE  /\ Counting(v, CountUnique(v), 0, 0, 1)
           /\ Counting(v, CountShared(v), 0, 1, 0)
  BY DEF Views, CountUnique, CountShared, Counting

LEMMA createFacts ==
    ASSUME NEW v \in Views,
           v.counters.wrapper_count = 0 => v.counters = NoCounters
    PROVE  Counting(v, createCountersRef(v), 1, 0, 0)
  BY DEF Views, createCountersRef, Counting, FreshCounters, NoCounters
\* v --method--> w: the result is a view that agrees, others are not touched.
ViewStep(v, w, t) == w \in Views /\ Agree(w, t) /\ OthersKept(v, w, t)

LEMMA lockFacts ==
    ASSUME NEW t \in Threads, NEW v \in Views, v.op = "none", Agree(v, t)
    PROVE  LET w == lock(v, t)
           IN /\ ViewStep(v, w, t)
              /\ OnlyReleases(v, w, t)
              /\ w.op \in {"none", "lock"}
              /\ w.counters.wrapper_count = v.counters.wrapper_count
              /\ w.counters.shared_lock_counter = v.counters.shared_lock_counter
              /\ w.counters.unique_lock_counter + One(w.op = "lock")
                    = v.counters.unique_lock_counter + 1
<1>1. CASE v.counters.unique_lock_counter > 0
  <2>1. lock(v, t) = CountUnique(v)
    BY <1>1 DEF lock, getLockType
  <2> QED
    BY <1>1, <2>1, CountFacts DEF Counting, Views, ViewStep, Agree, OthersKept, OnlyReleases, One, Holds
<1>2. CASE v.counters.unique_lock_counter = 0 /\ v.counters.shared_lock_counter > 0
  <2>1. lock(v, t) = RawCall(RawUnlockShared(v, t), t, "lock")
    BY <1>2 DEF lock, getLockType
  <2> QED
    BY <1>2, <2>1, RawUnlockSharedFacts, RawCallFacts, ConstantsAssumption
       DEF Views, ViewStep, Agree, OthersKept, OnlyReleases, One, Holds
<1>3. CASE v.counters.unique_lock_counter = 0 /\ v.counters.shared_lock_counter = 0
  <2>1. lock(v, t) = RawCall(v, t, "lock")
    BY <1>3 DEF lock, getLockType
  <2> QED
    BY <1>3, <2>1, RawCallFacts DEF Views, ViewStep, Agree, OthersKept, OnlyReleases, One, Holds
<1> QED
  BY <1>1, <1>2, <1>3 DEF Views

LEMMA lockSharedFacts ==
    ASSUME NEW t \in Threads, NEW v \in Views, v.op = "none", Agree(v, t)
    PROVE  LET w == lockShared(v, t)
           IN /\ ViewStep(v, w, t)
              /\ OnlyReleases(v, w, t)
              /\ w.op \in {"none", "lock_shared"}
              /\ w.counters.wrapper_count = v.counters.wrapper_count
              /\ w.counters.unique_lock_counter = v.counters.unique_lock_counter
              /\ w.counters.shared_lock_counter + One(w.op = "lock_shared")
                    = v.counters.shared_lock_counter + 1
<1>1. CASE /\ v.counters.unique_lock_counter = 0
           /\ v.counters.shared_lock_counter = 0
  <2>1. lockShared(v, t) = RawCall(v, t, "lock_shared")
    BY <1>1 DEF lockShared, getLockType
  <2> QED
    BY <1>1, <2>1, RawCallFacts DEF Views, ViewStep, Agree, OthersKept, OnlyReleases, One, Holds
<1>2. CASE \/ v.counters.unique_lock_counter > 0
           \/ v.counters.shared_lock_counter > 0
  <2>1. lockShared(v, t) = CountShared(v)
    BY <1>2 DEF lockShared, getLockType
  <2> QED
    BY <1>2, <2>1, CountFacts DEF Counting, Views, ViewStep, Agree, OthersKept, OnlyReleases, One, Holds
<1> QED
  BY <1>1, <1>2 DEF Views

\* The constructor of a lock object: one more wrapper, and one more lock of
\* the given type either counted or being waited for.
LEMMA EnterFacts ==
    ASSUME NEW t \in Threads, NEW v \in Views, v.op = "none", Agree(v, t),
           v.counters.wrapper_count = 0 => v.counters = NoCounters,
           NEW lock_type \in MtxLockType
    PROVE  LET w == Enter(v, t, lock_type)
           IN /\ ViewStep(v, w, t)
              /\ OnlyReleases(v, w, t)
              /\ w.op \in {"none", "lock", "lock_shared"}
              /\ w.counters.wrapper_count = v.counters.wrapper_count + 1
              /\ w.counters.shared_lock_counter + One(w.op = "lock_shared")
                    = v.counters.shared_lock_counter
                      + One(lock_type = "shared_locked")
              /\ w.counters.unique_lock_counter + One(w.op = "lock")
                    = v.counters.unique_lock_counter
                      + One(lock_type = "unique_locked")
<1> DEFINE w == createCountersRef(v)
<1>1. Counting(v, w, 1, 0, 0)
  BY createFacts
<1>2. w.op = "none" /\ ViewStep(v, w, t) /\ OnlyReleases(v, w, t)
  BY <1>1 DEF Counting, Views, ViewStep, Agree, OthersKept, OnlyReleases, Holds
<1> HIDE DEF w
<1>3. CASE lock_type = "unlocked"
  <2>1. Enter(v, t, lock_type) = w
    BY <1>3 DEF Enter, w
  <2> QED
    BY <1>1, <1>2, <1>3, <2>1 DEF Counting, Views, ViewStep, One
<1>4. CASE lock_type = "shared_locked"
  <2>1. Enter(v, t, lock_type) = lockShared(w, t)
    BY <1>4 DEF Enter, w
  <2> QED
    BY <1>1, <1>2, <1>4, <2>1, lockSharedFacts
       DEF Counting, Views, ViewStep, One, OthersKept, OnlyReleases
<1>5. CASE lock_type = "unique_locked"
  <2>1. Enter(v, t, lock_type) = lock(w, t)
    BY <1>5 DEF Enter, w
  <2> QED
    BY <1>1, <1>2, <1>5, <2>1, lockFacts DEF Counting, Views, ViewStep, One, OthersKept, OnlyReleases
<1> QED
  BY <1>3, <1>4, <1>5

\* The last wrapper never finds a count left over, so it unlocks nothing.
LEMMA deleteFacts ==
    ASSUME NEW t \in Threads, NEW v \in Views, v.counters.wrapper_count > 0,
           v.counters.wrapper_count = 1 => /\ v.counters.shared_lock_counter = 0
                                           /\ v.counters.unique_lock_counter = 0
    PROVE  Counting(v, deleteCounterRef(v, t), -1, 0, 0)
  BY DEF Views, deleteCounterRef, Counting, NoCounters

LEMMA unlockFacts ==
    ASSUME NEW t \in Threads, NEW v \in Views, v.op = "none", Agree(v, t),
           v.counters.unique_lock_counter > 0
    PROVE  LET w == unlock(v, t)
           IN /\ ViewStep(v, w, t)
              /\ OnlyReleases(v, w, t)
              /\ w.op \in {"none", "relock_shared"}
              /\ w.counters.wrapper_count = v.counters.wrapper_count
              /\ w.counters.shared_lock_counter = v.counters.shared_lock_counter
              /\ w.counters.unique_lock_counter
                    = v.counters.unique_lock_counter - 1
<1> DEFINE x == [v EXCEPT !.counters.unique_lock_counter = @ - 1]
<1>1. Counting(v, x, 0, 0, -1)
  BY DEF Views, Counting
<1>2. getLockType(v.counters) = "unique_locked"
  BY DEF getLockType
<1> HIDE DEF x
<1>3. CASE v.counters.unique_lock_counter > 1
  <2>1. x.counters.unique_lock_counter > 0
    BY <1>1, <1>3 DEF Counting, Views
  <2>2. unlock(v, t) = x
    BY <1>2, <2>1 DEF unlock, x
  <2> QED
    BY <1>1, <1>3, <2>2 DEF Counting, Views, ViewStep, Agree, OthersKept, OnlyReleases, Holds
<1>4. CASE v.counters.unique_lock_counter = 1 /\ v.counters.shared_lock_counter > 0
  <2>1. /\ x.counters.unique_lock_counter = 0
        /\ x.counters.shared_lock_counter > 0
    BY <1>1, <1>4 DEF Counting, Views
  <2>2. unlock(v, t) = RawCall(RawUnlock(x, t), t, "relock_shared")
    BY <1>2, <2>1 DEF unlock, x
  <2> QED
    BY <1>1, <1>4, <2>1, <2>2, RawUnlockFacts, RawCallFacts, ConstantsAssumption
       DEF Counting, Views, ViewStep, Agree, OthersKept, OnlyReleases, Holds
<1>5. CASE v.counters.unique_lock_counter = 1 /\ v.counters.shared_lock_counter = 0
  <2>1. /\ x.counters.unique_lock_counter = 0
        /\ x.counters.shared_lock_counter = 0
    BY <1>1, <1>5 DEF Counting, Views
  <2>2. unlock(v, t) = RawUnlock(x, t)
    BY <1>2, <2>1 DEF unlock, x
  <2> QED
    BY <1>1, <1>5, <2>1, <2>2, RawUnlockFacts, ConstantsAssumption
       DEF Counting, Views, ViewStep, Agree, OthersKept, OnlyReleases, Holds
<1> QED
  BY <1>3, <1>4, <1>5 DEF Views

LEMMA unlockSharedFacts ==
    ASSUME NEW t \in Threads, NEW v \in Views, v.op = "none", Agree(v, t),
           v.counters.shared_lock_counter > 0
    PROVE  LET w == unlockShared(v, t)
           IN /\ ViewStep(v, w, t)
              /\ OnlyReleases(v, w, t)
              /\ w.op = "none"
              /\ w.counters.wrapper_count = v.counters.wrapper_count
              /\ w.counters.unique_lock_counter = v.counters.unique_lock_counter
              /\ w.counters.shared_lock_counter
                    = v.counters.shared_lock_counter - 1
<1> DEFINE x == [v EXCEPT !.counters.shared_lock_counter = @ - 1]
<1>1. Counting(v, x, 0, -1, 0)
  BY DEF Views, Counting
<1> HIDE DEF x
<1>2. CASE v.counters.unique_lock_counter > 0
  <2>1. unlockShared(v, t) = x
    BY <1>2 DEF unlockShared, getLockType, x
  <2> QED
    BY <1>1, <1>2, <2>1 DEF Counting, Views, ViewStep, Agree, OthersKept, OnlyReleases, Holds
<1>3. CASE v.counters.unique_lock_counter = 0 /\ v.counters.shared_lock_counter > 1
  <2>1. x.counters.shared_lock_counter # 0
    BY <1>1, <1>3 DEF Counting, Views
  <2>2. unlockShared(v, t) = x
    BY <1>3, <2>1 DEF unlockShared, getLockType, x
  <2> QED
    BY <1>1, <1>3, <2>2 DEF Counting, Views, ViewStep, Agree, OthersKept, OnlyReleases, Holds
<1>4. CASE v.counters.unique_lock_counter = 0 /\ v.counters.shared_lock_counter = 1
  <2>1. x.counters.shared_lock_counter = 0
    BY <1>1, <1>4 DEF Counting, Views
  <2>2. unlockShared(v, t) = RawUnlockShared(x, t)
    BY <1>4, <2>1 DEF unlockShared, getLockType, x
  <2> QED
    BY <1>1, <1>4, <2>1, <2>2, RawUnlockSharedFacts, ConstantsAssumption
       DEF Counting, Views, ViewStep, Agree, OthersKept, OnlyReleases, Holds
<1> QED
  BY <1>2, <1>3, <1>4 DEF Views

\* The destructor of a lock object: its lock is no longer counted, and its
\* wrapper goes now, or at the end of the downgrade it has to wait for.
LEMMA LeaveFacts ==
    ASSUME NEW t \in Threads, NEW v \in Views, v.op = "none", Agree(v, t),
           NEW lock_type \in MtxLockType,
           v.counters.wrapper_count > 0,
           lock_type = "shared_locked" => v.counters.shared_lock_counter > 0,
           lock_type = "unique_locked" => v.counters.unique_lock_counter > 0,
           v.counters.wrapper_count = 1 =>
              /\ v.counters.shared_lock_counter = One(lock_type = "shared_locked")
              /\ v.counters.unique_lock_counter = One(lock_type = "unique_locked")
    PROVE  LET w == Leave(v, t, lock_type)
           IN /\ ViewStep(v, w, t)
              /\ OnlyReleases(v, w, t)
              /\ w.op \in {"none", "relock_shared"}
              /\ w.counters.wrapper_count - One(w.op = "relock_shared")
                    = v.counters.wrapper_count - 1
              /\ w.counters.shared_lock_counter
                    = v.counters.shared_lock_counter
                      - One(lock_type = "shared_locked")
              /\ w.counters.unique_lock_counter
                    = v.counters.unique_lock_counter
                      - One(lock_type = "unique_locked")
<1> DEFINE w == CASE lock_type = "unlocked" -> v
                  [] lock_type = "shared_locked" -> unlockShared(v, t)
                  [] lock_type = "unique_locked" -> unlock(v, t)
           x == IF w.op = "none" THEN deleteCounterRef(w, t) ELSE w
<1>1. Leave(v, t, lock_type) = x
  BY DEF Leave
<1>2. /\ ViewStep(v, w, t) /\ OnlyReleases(v, w, t)
      /\ w.op \in {"none", "relock_shared"}
      /\ w.counters.wrapper_count = v.counters.wrapper_count
      /\ w.counters.shared_lock_counter
            = v.counters.shared_lock_counter - One(lock_type = "shared_locked")
      /\ w.counters.unique_lock_counter
            = v.counters.unique_lock_counter - One(lock_type = "unique_locked")
  <2>1. CASE lock_type = "unlocked"
    <3>1. w = v
      BY <2>1
    <3> QED
      BY <2>1, <3>1 DEF Views, ViewStep, OthersKept, OnlyReleases, One
  <2>2. CASE lock_type = "shared_locked"
    <3>1. w = unlockShared(v, t)
      BY <2>2
    <3> QED
      BY <2>2, <3>1, unlockSharedFacts DEF Views, ViewStep, One
  <2>3. CASE lock_type = "unique_locked"
    <3>1. w = unlock(v, t)
      BY <2>3
    <3> QED
      BY <2>3, <3>1, unlockFacts DEF Views, ViewStep, One
  <2> QED
    BY <2>1, <2>2, <2>3
<1> HIDE DEF w
<1>3. CASE w.op = "none"
  <2> DEFINE y == deleteCounterRef(w, t)
  <2>1. Counting(w, y, -1, 0, 0)
    BY <1>2, <1>3, deleteFacts DEF ViewStep, Views, One
  <2>2. Leave(v, t, lock_type) = y
    BY <1>1, <1>3
  <2> HIDE DEF y
  <2>3. ViewStep(v, y, t) /\ OnlyReleases(v, y, t)
    BY <1>2, <1>3, <2>1 DEF Counting, Views, ViewStep, Agree, OthersKept, OnlyReleases, Holds
  <2>4. w \in Views
    BY <1>2 DEF ViewStep
  <2> QED
    BY <1>2, <1>3, <2>1, <2>2, <2>3, <2>4 DEF Counting, Views, One
<1>4. CASE w.op = "relock_shared"
  BY <1>1, <1>2, <1>4 DEF Views, ViewStep, One
<1> QED
  BY <1>2, <1>3, <1>4

-----------------------------------------------------------------------------
(* Storing the result of a method *)

LEMMA SeenFacts ==
    ASSUME TypeOK, NEW t \in Threads, NEW m \in Mutexes
    PROVE  /\ View(t, m) \in Views /\ View(t, m).op = "none"
           /\ View(t, m).counters = counter_storage[t][m]
           /\ Seen(t, m) \in Views
           /\ Seen(t, m).owner = View(t, m).owner
           /\ Seen(t, m).sharers = View(t, m).sharers
           /\ Seen(t, m).counters = View(t, m).counters
           /\ Seen(t, m).misused = View(t, m).misused
           /\ call[t].mtx = NoMutex => Seen(t, m).op = "none"
           /\ call[t].mtx = m => Seen(t, m).op = call[t].op
<1>1. View(t, m) \in Views
  BY DEF TypeOK, View, Views
<1>2. call[t].mtx = m => call[t].op \in CallOps
  BY ConstantsAssumption DEF TypeOK, Calls, Running
<1> QED
  BY <1>1, <1>2, ConstantsAssumption DEF Seen, View, Views

LEMMA StoreFacts ==
    ASSUME TypeOK, CountersMatchMutex,
           NEW t \in Threads, NEW m \in Mutexes, NEW w \in Views,
           call[t].mtx \in {NoMutex, m},
           ViewStep(View(t, m), w, t),
           Store(t, m, w)
    PROVE  /\ owner' \in [Mutexes -> Threads \cup {NoThread}]
           /\ sharers' \in [Mutexes -> SUBSET Threads]
           /\ counter_storage' \in [Threads -> [Mutexes -> Counters]]
           /\ call' \in [Threads -> Calls]
           /\ misused' \in BOOLEAN
           /\ NoMisuse'
           /\ CountersMatchMutex'
<1>1. /\ owner' \in [Mutexes -> Threads \cup {NoThread}]
      /\ sharers' \in [Mutexes -> SUBSET Threads]
      /\ counter_storage' \in [Threads -> [Mutexes -> Counters]]
      /\ call' \in [Threads -> Calls]
      /\ misused' \in BOOLEAN
  BY DEF TypeOK, Store, Views, Calls, Running
<1>2. ASSUME NEW u \in Threads, NEW n \in Mutexes
      PROVE  Agree(Seen(u, n), u)'
  <2>1. Agree(Seen(u, n), u)
    BY DEF CountersMatchMutex
  <2>2. CASE u = t /\ n = m
    <3>1. /\ Seen(t, m)'.owner = w.owner
          /\ Seen(t, m)'.sharers = w.sharers
          /\ Seen(t, m)'.counters = w.counters
          /\ Seen(t, m)'.op = w.op
          /\ Seen(t, m)'.misused = w.misused
      BY ConstantsAssumption
         DEF TypeOK, Store, Seen, View, Views, Calls, Running
    <3> QED
      BY <2>2, <3>1 DEF ViewStep, Agree, Holds
  <2>3. CASE u = t /\ n # m
    <3>1. /\ Seen(u, n)'.owner = Seen(u, n).owner
          /\ Seen(u, n)'.sharers = Seen(u, n).sharers
          /\ Seen(u, n)'.counters = Seen(u, n).counters
          /\ Seen(u, n)'.op = "none" /\ Seen(u, n).op = "none"
          /\ Seen(u, n)'.misused = w.misused
      BY <2>3, ConstantsAssumption
         DEF TypeOK, Store, Seen, View, Views, Calls, Running
    <3> QED
      BY <2>1, <3>1 DEF ViewStep, Agree, Holds
  <2>4. CASE u # t /\ n = m
    <3>1. /\ Seen(u, n)'.owner = w.owner
          /\ Seen(u, n)'.sharers = w.sharers
          /\ Seen(u, n).owner = View(t, m).owner
          /\ Seen(u, n).sharers = View(t, m).sharers
          /\ Seen(u, n)'.counters = Seen(u, n).counters
          /\ Seen(u, n)'.op = Seen(u, n).op
          /\ Seen(u, n)'.misused = w.misused
      BY <2>4 DEF TypeOK, Store, Seen, View, Views, Calls, Running
    <3> QED
      BY <2>1, <2>4, <3>1, ConstantsAssumption DEF ViewStep, Agree, OthersKept, Holds
  <2>5. CASE u # t /\ n # m
    <3>1. /\ Seen(u, n)'.owner = Seen(u, n).owner
          /\ Seen(u, n)'.sharers = Seen(u, n).sharers
          /\ Seen(u, n)'.counters = Seen(u, n).counters
          /\ Seen(u, n)'.op = Seen(u, n).op
          /\ Seen(u, n)'.misused = w.misused
      BY <2>5 DEF TypeOK, Store, Seen, View, Views, Calls, Running
    <3> QED
      BY <2>1, <3>1 DEF ViewStep, Agree, Holds
  <2> QED
    BY <2>2, <2>3, <2>4, <2>5
<1>3. NoMisuse'
  BY DEF Store, ViewStep, Agree, NoMisuse
<1> QED
  BY <1>1, <1>2, <1>3 DEF CountersMatchMutex

LEMMA StoreCounts ==
    ASSUME TypeOK, NEW t \in Threads, NEW m \in Mutexes, NEW w \in Views,
           call[t].mtx \in {NoMutex, m},
           Store(t, m, w)
    PROVE  /\ counter_storage'[t][m] = w.counters
           /\ \A op \in CallOps : In(t, m, op)' = One(w.op = op)
           /\ \A u \in Threads, n \in Mutexes :
                 u # t \/ n # m =>
                    /\ counter_storage'[u][n] = counter_storage[u][n]
                    /\ \A op \in CallOps : In(u, n, op)' = In(u, n, op)
<1>1. /\ counter_storage'[t][m] = w.counters
      /\ \A u \in Threads, n \in Mutexes :
            u # t \/ n # m => counter_storage'[u][n] = counter_storage[u][n]
  BY DEF TypeOK, Store, Views
<1>2. \A op \in CallOps : In(t, m, op)' = One(w.op = op)
  BY DEF TypeOK, Store, Views, In, Running, One
<1>3. ASSUME NEW u \in Threads, NEW n \in Mutexes, u # t \/ n # m,
             NEW op \in CallOps
      PROVE  In(u, n, op)' = In(u, n, op)
  <2>1. CASE u # t
    BY <2>1 DEF TypeOK, Store, In
  <2>2. CASE u = t
    <3>1. call[u].mtx # n /\ call'[u].mtx # n
      BY <1>3, <2>2, ConstantsAssumption DEF TypeOK, Store, Running
    <3>2. call[u] # [op |-> op, mtx |-> n] /\ call'[u] # [op |-> op, mtx |-> n]
      BY <3>1
    <3> QED
      BY <3>2 DEF In
  <2> QED
    BY <2>1, <2>2
<1> QED
  BY <1>1, <1>2, <1>3

-----------------------------------------------------------------------------
(* The lock objects of a thread *)

LEMMA ObjectsFinite ==
    ASSUME NEW t, NEW m, NEW lock_type
    PROVE  /\ Typed(t, m, lock_type) \subseteq Objects(t, m)
           /\ IsFiniteSet(Objects(t, m))
           /\ Cardinality(Objects(t, m)) \in Nat
           /\ IsFiniteSet(Typed(t, m, lock_type))
           /\ Cardinality(Typed(t, m, lock_type)) \in Nat
           /\ Cardinality(Typed(t, m, lock_type)) <= Cardinality(Objects(t, m))
<1>1. /\ Objects(t, m) \subseteq Slots
      /\ Typed(t, m, lock_type) \subseteq Objects(t, m)
  BY DEF Objects, Typed
<1>2. IsFiniteSet(Objects(t, m))
  BY <1>1, ConstantsAssumption, FS_Subset
<1>3. /\ IsFiniteSet(Typed(t, m, lock_type))
      /\ Cardinality(Typed(t, m, lock_type)) <= Cardinality(Objects(t, m))
  BY <1>1, <1>2, FS_Subset
<1> QED
  BY <1>1, <1>2, <1>3, FS_CardinalityType

(***************************************************************************)
(* CountsMatch for a thread that counts k beside its lock objects: nothing *)
(* in this module; in a transaction, one wrapper and its lock.             *)
(***************************************************************************)
CountsWith(t, m, k) ==
    LET c == counter_storage[t][m]
    IN /\ c.wrapper_count
            = Cardinality(Objects(t, m)) + k.wrapper_count
              + In(t, m, "relock_shared")
       /\ c.shared_lock_counter
            = Cardinality(Typed(t, m, "shared_locked")) + k.shared_lock_counter
              - In(t, m, "lock_shared")
       /\ c.unique_lock_counter
            = Cardinality(Typed(t, m, "unique_locked")) + k.unique_lock_counter
              - In(t, m, "lock")

\* Locks are counted for a wrapper only.
Beside == {k \in Counters : k.wrapper_count = 0 => k = NoCounters}

LEMMA MatchIsCountsWith ==
    CountersMatchLocks
        <=> \A t \in Threads, m \in Mutexes : CountsWith(t, m, NoCounters)
<1>1. ASSUME NEW t \in Threads, NEW m \in Mutexes
      PROVE  CountsMatch(t, m) <=> CountsWith(t, m, NoCounters)
  <2>1. \A op \in CallOps : In(t, m, op) \in {0, 1}
    BY DEF In
  <2> QED
    BY <2>1, ObjectsFinite DEF CountsMatch, CountsWith, NoCounters
<1> QED
  BY <1>1 DEF CountersMatchLocks

LEMMA MatchIsCountsWithNext ==
    CountersMatchLocks'
        <=> (\A t \in Threads, m \in Mutexes : CountsWith(t, m, NoCounters))'
  BY MatchIsCountsWith, PTL

\* The objects of another thread or mutex are untouched.
OthersCounted(t, m) ==
    \A u \in Threads, n \in Mutexes :
        u # t \/ n # m =>
            \A k \in Counters : CountsWith(u, n, k) => CountsWith(u, n, k)'

LEMMA OtherCounts ==
    ASSUME NEW u \in Threads, NEW n \in Mutexes, NEW k, CountsWith(u, n, k),
           counter_storage'[u][n] = counter_storage[u][n],
           \A op \in CallOps : In(u, n, op)' = In(u, n, op),
           \A s \in Slots : locks[u][s].mtx = n <=> locks'[u][s].mtx = n,
           \A s \in Slots : locks[u][s].mtx = n => locks'[u][s] = locks[u][s]
    PROVE  CountsWith(u, n, k)'
<1>1. Objects(u, n)' = Objects(u, n)
  BY DEF Objects
<1>2. \A lock_type \in MtxLockType :
         Typed(u, n, lock_type)' = Typed(u, n, lock_type)
  BY DEF Objects, Typed
<1> QED
  BY <1>1, <1>2 DEF CountsWith

LEMMA StoreOthers ==
    ASSUME TypeOK, NEW t \in Threads, NEW m \in Mutexes, NEW w \in Views,
           call[t].mtx \in {NoMutex, m}, Store(t, m, w),
           \A u \in Threads, n \in Mutexes, s \in Slots :
              u # t \/ n # m =>
                 /\ locks[u][s].mtx = n <=> locks'[u][s].mtx = n
                 /\ locks[u][s].mtx = n => locks'[u][s] = locks[u][s]
    PROVE  OthersCounted(t, m)
<1> SUFFICES ASSUME NEW u \in Threads, NEW n \in Mutexes, u # t \/ n # m,
                    NEW k \in Counters, CountsWith(u, n, k)
             PROVE  CountsWith(u, n, k)'
  BY DEF OthersCounted
<1>1. /\ counter_storage'[u][n] = counter_storage[u][n]
      /\ \A op \in CallOps : In(u, n, op)' = In(u, n, op)
  BY StoreCounts
<1> QED
  BY <1>1, OtherCounts

\* One more object in a slot that had none, one less.
LEMMA OneMore ==
    ASSUME NEW t, NEW m, NEW s \in Slots, NEW lock_type \in MtxLockType,
           locks[t][s].mtx # m,
           locks'[t][s] = [mtx |-> m, lock_type |-> lock_type],
           \A r \in Slots \ {s} : locks'[t][r] = locks[t][r]
    PROVE  /\ Cardinality(Objects(t, m)') = Cardinality(Objects(t, m)) + 1
           /\ \A ty \in MtxLockType :
                 Cardinality(Typed(t, m, ty)')
                    = Cardinality(Typed(t, m, ty)) + One(lock_type = ty)
<1>1. /\ Objects(t, m)' = Objects(t, m) \cup {s}
      /\ s \notin Objects(t, m)
  BY DEF Objects
<1>2. Cardinality(Objects(t, m)') = Cardinality(Objects(t, m)) + 1
  BY <1>1, ObjectsFinite, FS_AddElement
<1>3. ASSUME NEW ty \in MtxLockType
      PROVE  Cardinality(Typed(t, m, ty)')
                = Cardinality(Typed(t, m, ty)) + One(lock_type = ty)
  <2>1. CASE lock_type = ty
    <3>1. Typed(t, m, ty)' = Typed(t, m, ty) \cup {s} /\ s \notin Typed(t, m, ty)
      BY <1>1, <2>1 DEF Typed, Objects
    <3> QED
      BY <2>1, <3>1, ObjectsFinite, FS_AddElement DEF One
  <2>2. CASE lock_type # ty
    <3>1. Typed(t, m, ty)' = Typed(t, m, ty)
      BY <1>1, <2>2 DEF Typed, Objects
    <3> QED
      BY <2>2, <3>1, ObjectsFinite DEF One
  <2> QED
    BY <2>1, <2>2
<1> QED
  BY <1>2, <1>3

LEMMA OneLess ==
    ASSUME NEW t, NEW m, NEW s \in Slots, NEW lock_type \in MtxLockType,
           locks[t][s].mtx = m, locks[t][s].lock_type = lock_type,
           locks'[t][s].mtx # m,
           \A r \in Slots \ {s} : locks'[t][r] = locks[t][r]
    PROVE  /\ Cardinality(Objects(t, m)') = Cardinality(Objects(t, m)) - 1
           /\ \A ty \in MtxLockType :
                 Cardinality(Typed(t, m, ty)')
                    = Cardinality(Typed(t, m, ty)) - One(lock_type = ty)
<1>1. /\ Objects(t, m)' = Objects(t, m) \ {s}
      /\ s \in Objects(t, m)
  BY DEF Objects
<1>2. Cardinality(Objects(t, m)') = Cardinality(Objects(t, m)) - 1
  BY <1>1, ObjectsFinite, FS_RemoveElement
<1>3. ASSUME NEW ty \in MtxLockType
      PROVE  Cardinality(Typed(t, m, ty)')
                = Cardinality(Typed(t, m, ty)) - One(lock_type = ty)
  <2>1. CASE lock_type = ty
    <3>1. Typed(t, m, ty)' = Typed(t, m, ty) \ {s} /\ s \in Typed(t, m, ty)
      BY <1>1, <2>1 DEF Typed, Objects
    <3>2. IsFiniteSet(Typed(t, m, ty))
      BY ObjectsFinite
    <3>3. Cardinality(Typed(t, m, ty) \ {s}) = Cardinality(Typed(t, m, ty)) - 1
      BY <3>1, <3>2, FS_RemoveElement
    <3> QED
      BY <2>1, <3>1, <3>3 DEF One
  <2>2. CASE lock_type # ty
    <3>1. Typed(t, m, ty)' = Typed(t, m, ty)
      BY <1>1, <2>2 DEF Typed, Objects
    <3> QED
      BY <2>2, <3>1, ObjectsFinite DEF One
  <2> QED
    BY <2>1, <2>2
<1> QED
  BY <1>2, <1>3

\* The only object of a mutex is the only one of its type.
LEMMA OnlyObject ==
    ASSUME NEW t, NEW m, NEW s \in Objects(t, m),
           Cardinality(Objects(t, m)) = 1
    PROVE  \A ty \in MtxLockType :
              Cardinality(Typed(t, m, ty)) = One(locks[t][s].lock_type = ty)
<1>1. Objects(t, m) = {s}
  BY ObjectsFinite, FS_Singleton
<1>2. ASSUME NEW ty \in MtxLockType
      PROVE  Cardinality(Typed(t, m, ty)) = One(locks[t][s].lock_type = ty)
  <2>1. CASE locks[t][s].lock_type = ty
    <3>1. Typed(t, m, ty) = {s}
      BY <1>1, <2>1 DEF Typed
    <3> QED
      BY <2>1, <3>1, FS_Singleton DEF One
  <2>2. CASE locks[t][s].lock_type # ty
    <3>1. Typed(t, m, ty) = {}
      BY <1>1, <2>2 DEF Typed
    <3> QED
      BY <2>2, <3>1, FS_EmptySet DEF One
  <2> QED
    BY <2>1, <2>2
<1> QED
  BY <1>2

\* Without a wrapper there is nothing counted at all.
LEMMA NoneCounted ==
    ASSUME NEW t, NEW m, NEW k \in Beside, CountsWith(t, m, k),
           \A op \in CallOps : In(t, m, op) = 0,
           counter_storage[t][m] \in Counters,
           counter_storage[t][m].wrapper_count = 0
    PROVE  counter_storage[t][m] = NoCounters
<1>1. Cardinality(Objects(t, m)) = 0 /\ k = NoCounters
  BY ObjectsFinite DEF CountsWith, Beside
<1>2. \A ty \in MtxLockType : Cardinality(Typed(t, m, ty)) = 0
  BY <1>1, ObjectsFinite
<1> QED
  BY <1>1, <1>2 DEF CountsWith, NoCounters

-----------------------------------------------------------------------------
(***************************************************************************)
(* The inductive invariant.  None of its parts is inductive alone: that no *)
(* contract is broken needs the counters to match the mutex, and this, in  *)
(* the last wrapper's destructor, needs them to match the lock objects.    *)
(***************************************************************************)
Inv == TypeOK /\ NoMisuse /\ CountersMatchMutex /\ CountersMatchLocks

LEMMA InitInv == ASSUME Init PROVE Inv
<1>1. TypeOK /\ NoMisuse
  BY DEF Init, TypeOK, NoCounters, LockObjects, Calls, NoMisuse
<1>2. CountersMatchMutex
  BY ConstantsAssumption
     DEF Init, CountersMatchMutex, Agree, Seen, View, Holds, NoCounters, Running
<1>3. ASSUME NEW t \in Threads, NEW m \in Mutexes
      PROVE  CountsMatch(t, m)
  <2>1. /\ Objects(t, m) = {}
        /\ \A ty \in MtxLockType : Typed(t, m, ty) = {}
    BY <1>3, ConstantsAssumption DEF Init, Objects, Typed, NoLock
  <2>2. /\ counter_storage[t][m] = NoCounters
        /\ \A op \in CallOps : In(t, m, op) = 0
    BY ConstantsAssumption DEF Init, In, Running
  <2> QED
    BY <2>1, <2>2, FS_EmptySet DEF CountsMatch, NoCounters
<1> QED
  BY <1>1, <1>2, <1>3 DEF Inv, CountersMatchLocks

\* A step of t that touches at most the mutex m, and never to take it.
MutexKeptOrReleased(t, m) ==
    /\ owner'[m] \in {owner[m], NoThread}
    /\ owner'[m] # owner[m] => owner[m] = t
    /\ sharers'[m] \in {sharers[m], sharers[m] \ {t}}
    /\ \A n \in Mutexes \ {m} : owner'[n] = owner[n] /\ sharers'[n] = sharers[n]

LEMMA StoreReleases ==
    ASSUME TypeOK, NEW t \in Threads, NEW m \in Mutexes, NEW w,
           ViewStep(View(t, m), w, t), OnlyReleases(View(t, m), w, t), Store(t, m, w)
    PROVE  MutexKeptOrReleased(t, m)
  BY ConstantsAssumption
     DEF TypeOK, Store, View, ViewStep, OnlyReleases, OthersKept, MutexKeptOrReleased

\* A step of a method that ends in a view that agrees, on one mutex.
MethodStep(t, m) ==
    /\ TypeOK' /\ NoMisuse' /\ CountersMatchMutex'
    /\ OthersCounted(t, m)

\* A lock object is constructed, whatever else the thread counts.
LEMMA ConstructStep ==
    ASSUME TypeOK, CountersMatchMutex,
           NEW t \in Threads, NEW s \in Slots, NEW m \in Mutexes,
           NEW lock_type \in MtxLockType, Construct(t, s, m, lock_type),
           NEW k \in Beside, CountsWith(t, m, k)
    PROVE  /\ MethodStep(t, m) /\ CountsWith(t, m, k)'
           /\ MutexKeptOrReleased(t, m)
<1> DEFINE v == View(t, m)
           w == Enter(v, t, lock_type)
<1>1. /\ call[t] = Running
      /\ locks[t][s] = NoLock
      /\ locks' = [locks EXCEPT ![t][s] = [mtx |-> m, lock_type |-> lock_type]]
      /\ Store(t, m, w)
  BY DEF Construct
<1>2. v \in Views /\ v.op = "none" /\ Agree(v, t)
  BY <1>1, SeenFacts, ConstantsAssumption
     DEF CountersMatchMutex, Agree, Holds, Running
<1>3. \A op \in CallOps : In(t, m, op) = 0
  BY <1>1, ConstantsAssumption DEF In, Running
<1>4. v.counters = counter_storage[t][m] /\ v.counters \in Counters
  BY SeenFacts DEF Views
<1>5. v.counters.wrapper_count = 0 => v.counters = NoCounters
  BY <1>3, <1>4, NoneCounted
<1>6. /\ ViewStep(v, w, t) /\ OnlyReleases(v, w, t)
      /\ w.op \in {"none", "lock", "lock_shared"}
      /\ w.counters.wrapper_count = v.counters.wrapper_count + 1
      /\ w.counters.shared_lock_counter + One(w.op = "lock_shared")
            = v.counters.shared_lock_counter + One(lock_type = "shared_locked")
      /\ w.counters.unique_lock_counter + One(w.op = "lock")
            = v.counters.unique_lock_counter + One(lock_type = "unique_locked")
  BY <1>2, <1>5, EnterFacts
<1>7. w \in Views /\ call[t].mtx \in {NoMutex, m}
  BY <1>1, <1>6 DEF ViewStep, Running
<1> HIDE DEF v, w
<1>8. locks' \in [Threads -> [Slots -> LockObjects]]
  BY <1>1 DEF TypeOK, LockObjects
<1>9. TypeOK' /\ NoMisuse' /\ CountersMatchMutex'
  BY <1>1, <1>6, <1>7, <1>8, StoreFacts DEF TypeOK, v
<1>10. /\ locks[t][s].mtx # m
       /\ locks'[t][s] = [mtx |-> m, lock_type |-> lock_type]
       /\ \A r \in Slots \ {s} : locks'[t][r] = locks[t][r]
       /\ \A u \in Threads \ {t} : locks'[u] = locks[u]
  BY <1>1, ConstantsAssumption DEF TypeOK, NoLock
<1>11. CountsWith(t, m, k)'
  <2>1. /\ Cardinality(Objects(t, m)') = Cardinality(Objects(t, m)) + 1
        /\ \A ty \in MtxLockType :
              Cardinality(Typed(t, m, ty)')
                 = Cardinality(Typed(t, m, ty)) + One(lock_type = ty)
    BY <1>10, OneMore
  <2>2. /\ counter_storage'[t][m] = w.counters
        /\ \A op \in CallOps : In(t, m, op)' = One(w.op = op)
    BY <1>1, <1>7, StoreCounts
  <2>3. w.counters \in Counters /\ k \in Counters
    BY <1>7 DEF Views, Beside
  <2>4. /\ v.counters.wrapper_count = Cardinality(Objects(t, m)) + k.wrapper_count
        /\ v.counters.shared_lock_counter
              = Cardinality(Typed(t, m, "shared_locked")) + k.shared_lock_counter
        /\ v.counters.unique_lock_counter
              = Cardinality(Typed(t, m, "unique_locked")) + k.unique_lock_counter
    BY <1>3, <1>4, <2>3, ObjectsFinite DEF CountsWith
  <2> QED
    BY <1>4, <1>6, <2>1, <2>2, <2>3, <2>4, ObjectsFinite DEF CountsWith, One
<1>12. OthersCounted(t, m)
  <2>1. \A u \in Threads, n \in Mutexes, r \in Slots :
           u # t \/ n # m =>
              /\ locks[u][r].mtx = n <=> locks'[u][r].mtx = n
              /\ locks[u][r].mtx = n => locks'[u][r] = locks[u][r]
    BY <1>1, <1>10, ConstantsAssumption DEF NoLock
  <2> QED
    BY <1>1, <1>7, <2>1, StoreOthers
<1>13. MutexKeptOrReleased(t, m)
  BY <1>1, <1>6, StoreReleases DEF v
<1> QED
  BY <1>9, <1>11, <1>12, <1>13 DEF MethodStep

\* What a step on one mutex means for Inv.
LEMMA MethodStepInv ==
    ASSUME CountersMatchLocks, NEW t \in Threads, NEW m \in Mutexes,
           MethodStep(t, m), CountsWith(t, m, NoCounters)'
    PROVE  Inv'
<1>1. NoCounters \in Counters
  BY DEF NoCounters
<1>2. \A u \in Threads, n \in Mutexes : CountsWith(u, n, NoCounters)
  BY MatchIsCountsWith
<1>3. ASSUME NEW u \in Threads, NEW n \in Mutexes
      PROVE  CountsWith(u, n, NoCounters)'
  BY <1>1, <1>2 DEF MethodStep, OthersCounted
<1> QED
  BY <1>3, MatchIsCountsWithNext DEF MethodStep, Inv

LEMMA ConstructInv ==
    ASSUME Inv, NEW t \in Threads, NEW s \in Slots, NEW m \in Mutexes,
           NEW lock_type \in MtxLockType, Construct(t, s, m, lock_type)
    PROVE  Inv' /\ MutexKeptOrReleased(t, m)
<1>1. CountsWith(t, m, NoCounters) /\ NoCounters \in Beside
  BY MatchIsCountsWith DEF Inv, NoCounters, Beside
<1> QED
  BY <1>1, ConstructStep, MethodStepInv DEF Inv

LEMMA SwapElement ==
    ASSUME NEW S, IsFiniteSet(S), NEW x \in S, NEW y, y \notin S
    PROVE  Cardinality((S \ {x}) \cup {y}) = Cardinality(S)
<1>1. IsFiniteSet(S \ {x}) /\ Cardinality(S \ {x}) = Cardinality(S) - 1
  BY FS_RemoveElement
<1>2. Cardinality((S \ {x}) \cup {y}) = Cardinality(S \ {x}) + 1
  BY <1>1, FS_AddElement
<1> QED
  BY <1>1, <1>2, FS_CardinalityType

LEMMA MoveInv ==
    ASSUME Inv, NEW t \in Threads, NEW s \in Slots, NEW r \in Slots, Move(t, s, r)
    PROVE  Inv'
<1>1. /\ locks[t][s] # NoLock
      /\ locks[t][r] = NoLock
      /\ locks' = [locks EXCEPT ![t][r] = locks[t][s], ![t][s] = MovedFrom]
      /\ UNCHANGED <<owner, sharers, counter_storage, call, misused>>
  BY DEF Move
<1>2. TypeOK
  BY DEF Inv
<1>3. TypeOK' /\ NoMisuse'
  BY <1>1, <1>2 DEF Inv, TypeOK, LockObjects, NoMisuse
<1>4. CountersMatchMutex'
  <2>1. \A u \in Threads, n \in Mutexes : Agree(Seen(u, n), u)
    BY DEF Inv, CountersMatchMutex
  <2>2. \A u \in Threads, n \in Mutexes : Seen(u, n)' = Seen(u, n)
    BY <1>1 DEF Seen, View
  <2> QED
    BY <2>1, <2>2 DEF CountersMatchMutex
<1>5. ASSUME NEW u \in Threads, NEW n \in Mutexes
      PROVE  CountsWith(u, n, NoCounters)'
  <2>1. CountsWith(u, n, NoCounters)
    BY MatchIsCountsWith DEF Inv
  <2>2. /\ counter_storage'[u][n] = counter_storage[u][n]
        /\ \A op \in CallOps : In(u, n, op)' = In(u, n, op)
    BY <1>1 DEF In
  <2>3. CASE u = t /\ locks[t][s].mtx = n
    <3>1. /\ s # r
          /\ locks'[t][r] = locks[t][s]
          /\ locks'[t][s] = MovedFrom
          /\ \A q \in Slots \ {s, r} : locks'[t][q] = locks[t][q]
          /\ locks[t][r].mtx # n /\ locks'[t][s].mtx # n
      BY <1>1, <1>2, ConstantsAssumption DEF TypeOK, NoLock, MovedFrom
    <3>2. /\ Objects(t, n)' = (Objects(t, n) \ {s}) \cup {r}
          /\ s \in Objects(t, n) /\ r \notin Objects(t, n)
      BY <2>3, <3>1 DEF Objects
    <3>3. Cardinality(Objects(t, n)') = Cardinality(Objects(t, n))
      <4>1. IsFiniteSet(Objects(t, n))
        BY ConstantsAssumption, FS_Subset DEF Objects
      <4> QED
        BY <3>2, <4>1, SwapElement
    <3>4. ASSUME NEW ty \in MtxLockType
          PROVE  Cardinality(Typed(t, n, ty)') = Cardinality(Typed(t, n, ty))
      <4>1. CASE locks[t][s].lock_type # ty
        <5>1. Typed(t, n, ty)' = Typed(t, n, ty)
          BY <2>3, <3>1, <3>2, <4>1 DEF Typed, Objects
        <5> QED
          BY <5>1
      <4>2. CASE locks[t][s].lock_type = ty
        <5>1. /\ Typed(t, n, ty)' = (Typed(t, n, ty) \ {s}) \cup {r}
              /\ s \in Typed(t, n, ty) /\ r \notin Typed(t, n, ty)
          BY <2>3, <3>1, <3>2, <4>2 DEF Typed, Objects
        <5> QED
          BY <5>1, ObjectsFinite, SwapElement
      <4> QED
        BY <4>1, <4>2
    <3> QED
      BY <2>1, <2>2, <2>3, <3>3, <3>4 DEF CountsWith
  <2>4. CASE ~(u = t /\ locks[t][s].mtx = n)
    <3>1. \A q \in Slots : /\ locks[u][q].mtx = n <=> locks'[u][q].mtx = n
                           /\ locks[u][q].mtx = n => locks'[u][q] = locks[u][q]
      BY <1>1, <1>2, <2>4, ConstantsAssumption DEF TypeOK, NoLock, MovedFrom
    <3> QED
      BY <2>1, <2>2, <3>1, OtherCounts
  <2> QED
    BY <2>3, <2>4
<1> QED
  BY <1>3, <1>4, <1>5, MatchIsCountsWithNext DEF Inv

\* Steps that leave the counters and the mutexes alone.
LEMMA KeptSeen ==
    ASSUME CountersMatchMutex,
           UNCHANGED <<owner, sharers, counter_storage, call, misused>>
    PROVE  CountersMatchMutex'
<1>1. \A u \in Threads, n \in Mutexes : Agree(Seen(u, n), u)
  BY DEF CountersMatchMutex
<1>2. \A u \in Threads, n \in Mutexes : Seen(u, n)' = Seen(u, n)
  BY DEF Seen, View
<1> QED
  BY <1>1, <1>2 DEF CountersMatchMutex

\* A moved-from object is destroyed: nothing but its slot changes.
LEMMA DestroyEmptyStep ==
    ASSUME TypeOK, NoMisuse, CountersMatchMutex,
           NEW t \in Threads, NEW s \in Slots,
           locks[t][s].mtx = NoMutex,
           locks' = [locks EXCEPT ![t][s] = NoLock],
           UNCHANGED <<owner, sharers, counter_storage, call, misused>>
    PROVE  /\ TypeOK' /\ NoMisuse' /\ CountersMatchMutex'
           /\ \A u \in Threads, n \in Mutexes, k \in Counters :
                 CountsWith(u, n, k) => CountsWith(u, n, k)'
<1>1. TypeOK' /\ NoMisuse' /\ CountersMatchMutex'
  BY KeptSeen DEF TypeOK, LockObjects, NoMisuse
<1>2. ASSUME NEW u \in Threads, NEW n \in Mutexes, NEW k \in Counters,
             CountsWith(u, n, k)
      PROVE  CountsWith(u, n, k)'
  <2>1. /\ counter_storage'[u][n] = counter_storage[u][n]
        /\ \A op \in CallOps : In(u, n, op)' = In(u, n, op)
    BY DEF In
  <2>2. \A q \in Slots : /\ locks[u][q].mtx = n <=> locks'[u][q].mtx = n
                         /\ locks[u][q].mtx = n => locks'[u][q] = locks[u][q]
    BY ConstantsAssumption DEF TypeOK, NoLock
  <2> QED
    BY <1>2, <2>1, <2>2, OtherCounts
<1> QED
  BY <1>1, <1>2

\* A lock object is destroyed, whatever else the thread counts.
LEMMA DestroyLockStep ==
    ASSUME TypeOK, CountersMatchMutex, NEW t \in Threads, NEW s \in Slots,
           NEW m \in Mutexes, NEW lock_type \in MtxLockType,
           call[t] = Running,
           locks[t][s] = [mtx |-> m, lock_type |-> lock_type],
           locks' = [locks EXCEPT ![t][s] = NoLock],
           Store(t, m, Leave(View(t, m), t, lock_type)),
           NEW k \in Beside, CountsWith(t, m, k)
    PROVE  /\ MethodStep(t, m) /\ CountsWith(t, m, k)'
           /\ MutexKeptOrReleased(t, m)
<1> DEFINE v == View(t, m)
           w == Leave(v, t, lock_type)
<1>1. m \in Mutexes /\ lock_type \in MtxLockType /\ k \in Counters
  BY DEF Beside
<1>2. v \in Views /\ v.op = "none" /\ Agree(v, t)
  BY SeenFacts, ConstantsAssumption
     DEF CountersMatchMutex, Agree, Holds, Running
<1>3. v.counters = counter_storage[t][m] /\ v.counters \in Counters
  BY SeenFacts DEF Views
<1>4. \A op \in CallOps : In(t, m, op) = 0
  BY ConstantsAssumption DEF In, Running
<1>5. s \in Objects(t, m) /\ s \in Typed(t, m, lock_type)
  BY DEF Objects, Typed
<1>6. Store(t, m, w)
  OBVIOUS
<1> HIDE DEF v
<1>7. /\ v.counters.wrapper_count = Cardinality(Objects(t, m)) + k.wrapper_count
      /\ v.counters.shared_lock_counter
            = Cardinality(Typed(t, m, "shared_locked")) + k.shared_lock_counter
      /\ v.counters.unique_lock_counter
            = Cardinality(Typed(t, m, "unique_locked")) + k.unique_lock_counter
  BY <1>1, <1>3, <1>4, ObjectsFinite DEF CountsWith
<1>8. /\ v.counters.wrapper_count > 0
      /\ lock_type = "shared_locked" => v.counters.shared_lock_counter > 0
      /\ lock_type = "unique_locked" => v.counters.unique_lock_counter > 0
  <2>1. Cardinality(Objects(t, m)) # 0 /\ Cardinality(Typed(t, m, lock_type)) # 0
    BY <1>5, ObjectsFinite, FS_EmptySet
  <2> QED
    BY <1>1, <1>7, <2>1, ObjectsFinite
<1>9. v.counters.wrapper_count = 1 =>
         /\ v.counters.shared_lock_counter = One(lock_type = "shared_locked")
         /\ v.counters.unique_lock_counter = One(lock_type = "unique_locked")
  <2>1. SUFFICES ASSUME v.counters.wrapper_count = 1
                 PROVE  /\ k = NoCounters
                        /\ \A ty \in MtxLockType :
                              Cardinality(Typed(t, m, ty)) = One(lock_type = ty)
    BY <1>7 DEF NoCounters, One
  <2>2. Cardinality(Objects(t, m)) # 0
    BY <1>5, ObjectsFinite, FS_EmptySet
  <2>3. Cardinality(Objects(t, m)) = 1 /\ k.wrapper_count = 0
    BY <1>1, <1>7, <2>1, <2>2, ObjectsFinite
  <2>4. locks[t][s].lock_type = lock_type
    OBVIOUS
  <2> QED
    BY <1>5, <2>3, <2>4, OnlyObject DEF Beside
<1>10. /\ ViewStep(v, w, t) /\ OnlyReleases(v, w, t)
       /\ w.op \in {"none", "relock_shared"}
       /\ w.counters.wrapper_count - One(w.op = "relock_shared")
             = v.counters.wrapper_count - 1
       /\ w.counters.shared_lock_counter
             = v.counters.shared_lock_counter - One(lock_type = "shared_locked")
       /\ w.counters.unique_lock_counter
             = v.counters.unique_lock_counter - One(lock_type = "unique_locked")
  BY <1>1, <1>2, <1>8, <1>9, LeaveFacts
<1>11. w \in Views /\ call[t].mtx \in {NoMutex, m}
  BY <1>10 DEF ViewStep, Running
<1> HIDE DEF w
<1>12. locks' \in [Threads -> [Slots -> LockObjects]]
  BY DEF TypeOK, LockObjects
<1>13. TypeOK' /\ NoMisuse' /\ CountersMatchMutex'
  BY <1>1, <1>6, <1>10, <1>11, <1>12, StoreFacts DEF TypeOK, v
<1>14. /\ locks[t][s].mtx = m /\ locks[t][s].lock_type = lock_type
       /\ locks'[t][s] = NoLock
       /\ \A r \in Slots \ {s} : locks'[t][r] = locks[t][r]
       /\ \A u \in Threads \ {t} : locks'[u] = locks[u]
  BY DEF TypeOK
<1>15. CountsWith(t, m, k)'
  <2>1. locks'[t][s].mtx # m
    BY <1>1, <1>14, ConstantsAssumption DEF NoLock
  <2>2. /\ Cardinality(Objects(t, m)') = Cardinality(Objects(t, m)) - 1
        /\ \A ty \in MtxLockType :
              Cardinality(Typed(t, m, ty)')
                 = Cardinality(Typed(t, m, ty)) - One(lock_type = ty)
    BY <1>1, <1>14, <2>1, OneLess
  <2>3. /\ counter_storage'[t][m] = w.counters
        /\ \A op \in CallOps : In(t, m, op)' = One(w.op = op)
    BY <1>1, <1>6, <1>11, StoreCounts
  <2>4. w.counters \in Counters
    BY <1>11 DEF Views
  <2> QED
    BY <1>1, <1>3, <1>7, <1>10, <2>2, <2>3, <2>4, ObjectsFinite DEF CountsWith, One
<1>16. OthersCounted(t, m)
  <2>1. \A u \in Threads, n \in Mutexes, r \in Slots :
           u # t \/ n # m =>
              /\ locks[u][r].mtx = n <=> locks'[u][r].mtx = n
              /\ locks[u][r].mtx = n => locks'[u][r] = locks[u][r]
    BY <1>14, ConstantsAssumption DEF NoLock
  <2> QED
    BY <1>1, <1>6, <1>11, <2>1, StoreOthers
<1>17. MutexKeptOrReleased(t, m)
  BY <1>1, <1>6, <1>10, StoreReleases DEF v
<1> QED
  BY <1>13, <1>15, <1>16, <1>17 DEF MethodStep

\* What a lock object refers to.
LEMMA DestroyCases ==
    ASSUME TypeOK, NEW t \in Threads, NEW s \in Slots, Destroy(t, s)
    PROVE  /\ call[t] = Running
           /\ locks' = [locks EXCEPT ![t][s] = NoLock]
           /\ \/ /\ locks[t][s].mtx = NoMutex
                 /\ UNCHANGED <<owner, sharers, counter_storage, call, misused>>
              \/ \E m \in Mutexes, lock_type \in MtxLockType :
                    /\ locks[t][s] = [mtx |-> m, lock_type |-> lock_type]
                    /\ Store(t, m, Leave(View(t, m), t, lock_type))
<1>1. CASE locks[t][s].mtx = NoMutex
  BY <1>1 DEF Destroy
<1>2. CASE locks[t][s].mtx # NoMutex
  <2>1. PICK m \in Mutexes, lock_type \in MtxLockType :
           locks[t][s] = [mtx |-> m, lock_type |-> lock_type]
    BY <1>2 DEF Destroy, TypeOK, LockObjects, NoLock, MovedFrom
  <2> QED
    BY <1>2, <2>1 DEF Destroy
<1> QED
  BY <1>1, <1>2

LEMMA DestroyInv ==
    ASSUME Inv, NEW t \in Threads, NEW s \in Slots, Destroy(t, s)
    PROVE  /\ Inv'
           /\ \/ UNCHANGED <<owner, sharers>>
              \/ \E m \in Mutexes : MutexKeptOrReleased(t, m)
<1>1. /\ \A u \in Threads, n \in Mutexes : CountsWith(u, n, NoCounters)
      /\ NoCounters \in Beside /\ NoCounters \in Counters
  BY MatchIsCountsWith DEF Inv, NoCounters, Beside
<1>2. CASE /\ locks[t][s].mtx = NoMutex
           /\ UNCHANGED <<owner, sharers, counter_storage, call, misused>>
  <2>1. /\ TypeOK' /\ NoMisuse' /\ CountersMatchMutex'
        /\ \A u \in Threads, n \in Mutexes, k \in Counters :
              CountsWith(u, n, k) => CountsWith(u, n, k)'
    BY <1>2, DestroyEmptyStep, DestroyCases DEF Inv
  <2>2. \A u \in Threads, n \in Mutexes : CountsWith(u, n, NoCounters)'
    BY <1>1, <2>1
  <2> QED
    BY <1>2, <2>1, <2>2, MatchIsCountsWithNext DEF Inv
<1>3. ASSUME NEW m \in Mutexes, NEW lock_type \in MtxLockType,
             locks[t][s] = [mtx |-> m, lock_type |-> lock_type],
             Store(t, m, Leave(View(t, m), t, lock_type))
      PROVE  Inv' /\ MutexKeptOrReleased(t, m)
  <2>1. /\ MethodStep(t, m) /\ CountsWith(t, m, NoCounters)'
        /\ MutexKeptOrReleased(t, m)
    BY <1>1, <1>3, DestroyLockStep, DestroyCases DEF Inv
  <2> QED
    BY <2>1, MethodStepInv DEF Inv
<1> QED
  BY <1>2, <1>3, DestroyCases DEF Inv

\* A call that returns moves what was waited for into the counters.
LEMMA ReturnStep ==
    ASSUME TypeOK, CountersMatchMutex,
           NEW t \in Threads, NEW m \in Mutexes, NEW w \in Views,
           call[t].mtx = m, ViewStep(View(t, m), w, t), w.op = "none",
           w.counters.wrapper_count
              = counter_storage[t][m].wrapper_count - In(t, m, "relock_shared"),
           w.counters.shared_lock_counter
              = counter_storage[t][m].shared_lock_counter
                + In(t, m, "lock_shared"),
           w.counters.unique_lock_counter
              = counter_storage[t][m].unique_lock_counter + In(t, m, "lock"),
           Store(t, m, w), UNCHANGED locks,
           NEW k \in Counters, CountsWith(t, m, k)
    PROVE  MethodStep(t, m) /\ CountsWith(t, m, k)'
<1>1. TypeOK' /\ NoMisuse' /\ CountersMatchMutex'
  BY StoreFacts DEF TypeOK
<1>2. CountsWith(t, m, k)'
  <2>1. /\ counter_storage'[t][m] = w.counters
        /\ \A op \in CallOps : In(t, m, op)' = 0
    BY StoreCounts DEF One
  <2>2. \A op \in CallOps : In(t, m, op) \in {0, 1}
    BY DEF In
  <2>3. /\ Objects(t, m)' = Objects(t, m)
        /\ \A ty \in MtxLockType : Typed(t, m, ty)' = Typed(t, m, ty)
    BY DEF Objects, Typed
  <2> QED
    BY <2>1, <2>2, <2>3, ObjectsFinite DEF CountsWith
<1>3. OthersCounted(t, m)
  BY StoreOthers
<1> QED
  BY <1>1, <1>2, <1>3 DEF MethodStep

\* What is known of a thread inside a call.
LEMMA CallFacts ==
    ASSUME TypeOK, CountersMatchMutex, NEW t \in Threads, call[t].op \in CallOps
    PROVE  LET m == call[t].mtx
               v == View(t, m)
           IN /\ m \in Mutexes
              /\ v \in Views /\ v.op = "none" /\ ~v.misused
              /\ v.counters = counter_storage[t][m]
              /\ v.owner # NoThread => v.sharers = {}
              /\ ~Holds(v, t)
              /\ v.counters.unique_lock_counter = 0
              /\ call[t].op = "lock_shared" =>
                    v.counters.shared_lock_counter = 0
              /\ call[t].op = "relock_shared" =>
                    v.counters.shared_lock_counter > 0
              /\ \A op \in CallOps : In(t, m, op) = One(call[t].op = op)
<1> DEFINE m == call[t].mtx
           v == View(t, m)
<1>2. m \in Mutexes /\ call[t] = [op |-> call[t].op, mtx |-> m]
  BY DEF TypeOK, Calls, Running
<1>3. Seen(t, m).op = call[t].op /\ Agree(Seen(t, m), t)
  BY <1>2, SeenFacts DEF CountersMatchMutex
<1>4. \A op \in CallOps : In(t, m, op) = One(call[t].op = op)
  BY <1>2 DEF In, One
<1> QED
  BY <1>2, <1>3, <1>4, SeenFacts DEF Agree, Holds

\* A step of t that takes the mutex m, which it could take.
MutexTaken(t, m) ==
    /\ m \in Mutexes
    /\ owner[m] = NoThread /\ t \notin sharers[m]
    /\ \A n \in Mutexes \ {m} : owner'[n] = owner[n] /\ sharers'[n] = sharers[n]
    /\ \/ owner'[m] = t /\ sharers[m] = {} /\ sharers'[m] = {}
       \/ owner'[m] = NoThread /\ sharers'[m] = sharers[m] \cup {t}

LEMMA LockGrantedStep ==
    ASSUME TypeOK, CountersMatchMutex,
           NEW t \in Threads, NEW m \in Mutexes, call[t].mtx = m, LockGranted(t),
           NEW k \in Beside, CountsWith(t, m, k)
    PROVE  /\ MethodStep(t, m) /\ CountsWith(t, m, k)'
           /\ MutexTaken(t, m)
<1> DEFINE v == View(t, m)
           x == [v EXCEPT !.owner = t]
           w == CountUnique(x)
<1>1. call[t].op = "lock" /\ Free(v) /\ Store(t, m, w) /\ UNCHANGED locks
  BY DEF LockGranted
<1>2. /\ m \in Mutexes /\ ~Holds(v, t) /\ k \in Counters
      /\ v \in Views /\ v.op = "none" /\ ~v.misused
      /\ v.counters = counter_storage[t][m]
      /\ v.counters.unique_lock_counter = 0
      /\ \A op \in CallOps : In(t, m, op) = One(op = "lock")
  BY <1>1, CallFacts DEF Beside
<1>3. /\ x \in Views /\ x.owner = t /\ x.sharers = {}
      /\ x.counters = v.counters /\ x.op = "none" /\ ~x.misused
  BY <1>1, <1>2 DEF Views, Free
<1>4. Counting(x, w, 0, 0, 1)
  BY <1>3, CountFacts
<1> HIDE DEF w, x
<1>5. w \in Views /\ w.op = "none"
  BY <1>3, <1>4 DEF Counting
<1>6. ViewStep(v, w, t)
  BY <1>1, <1>2, <1>3, <1>4, ConstantsAssumption
     DEF Counting, Views, ViewStep, Agree, OthersKept, Holds, Free
<1>7. /\ w.counters.wrapper_count = v.counters.wrapper_count
      /\ w.counters.shared_lock_counter = v.counters.shared_lock_counter
      /\ w.counters.unique_lock_counter = v.counters.unique_lock_counter + 1
  BY <1>2, <1>3, <1>4 DEF Counting, Views
<1>8. v.counters \in Counters
  BY <1>2 DEF Views
<1>9. MutexTaken(t, m)
  BY <1>1, <1>2, <1>3, <1>4 DEF MutexTaken, Counting, Store, View, Views, Holds, Free, TypeOK
<1> HIDE DEF v
<1> QED
  BY <1>1, <1>2, <1>5, <1>6, <1>7, <1>8, <1>9, ReturnStep DEF One, v

LEMMA LockSharedGrantedStep ==
    ASSUME TypeOK, CountersMatchMutex,
           NEW t \in Threads, NEW m \in Mutexes, call[t].mtx = m, LockSharedGranted(t),
           NEW k \in Beside, CountsWith(t, m, k)
    PROVE  /\ MethodStep(t, m) /\ CountsWith(t, m, k)'
           /\ MutexTaken(t, m)
<1> DEFINE v == View(t, m)
           x == [v EXCEPT !.sharers = @ \cup {t}]
           w == CountShared(x)
<1>1. /\ call[t].op = "lock_shared"
      /\ owner[m] = NoThread
      /\ Store(t, m, w) /\ UNCHANGED locks
  BY DEF LockSharedGranted, ReadersEnter
<1>2. /\ m \in Mutexes /\ ~Holds(v, t) /\ k \in Counters
      /\ v \in Views /\ v.op = "none" /\ ~v.misused
      /\ v.counters = counter_storage[t][m]
      /\ v.counters.unique_lock_counter = 0
      /\ v.counters.shared_lock_counter = 0
      /\ \A op \in CallOps : In(t, m, op) = One(op = "lock_shared")
  BY <1>1, CallFacts DEF Beside
<1>3. /\ x \in Views /\ x.owner = NoThread /\ x.sharers = v.sharers \cup {t}
      /\ x.counters = v.counters /\ x.op = "none" /\ ~x.misused
      /\ v.owner = NoThread
  BY <1>1, <1>2 DEF Views, View
<1>4. Counting(x, w, 0, 1, 0)
  BY <1>3, CountFacts
<1> HIDE DEF w, x
<1>5. w \in Views /\ w.op = "none"
  BY <1>3, <1>4 DEF Counting
<1>6. ViewStep(v, w, t)
  BY <1>2, <1>3, <1>4, ConstantsAssumption
     DEF Counting, Views, ViewStep, Agree, OthersKept, Holds
<1>7. /\ w.counters.wrapper_count = v.counters.wrapper_count
      /\ w.counters.shared_lock_counter = v.counters.shared_lock_counter + 1
      /\ w.counters.unique_lock_counter = v.counters.unique_lock_counter
  BY <1>2, <1>3, <1>4 DEF Counting, Views
<1>8. v.counters \in Counters
  BY <1>2 DEF Views
<1>9. /\ In(t, m, "lock") = 0 /\ In(t, m, "relock_shared") = 0
      /\ In(t, m, "lock_shared") = 1
  BY <1>2 DEF One
<1>10. MutexTaken(t, m)
  BY <1>1, <1>2, <1>3, <1>4 DEF MutexTaken, Counting, Store, View, Views, Holds, Free, TypeOK
<1> HIDE DEF v
<1>11. /\ w.counters.wrapper_count
             = counter_storage[t][m].wrapper_count - In(t, m, "relock_shared")
       /\ w.counters.shared_lock_counter
             = counter_storage[t][m].shared_lock_counter + In(t, m, "lock_shared")
       /\ w.counters.unique_lock_counter
             = counter_storage[t][m].unique_lock_counter + In(t, m, "lock")
  BY <1>2, <1>7, <1>8, <1>9
<1> QED
  BY <1>1, <1>2, <1>5, <1>6, <1>11, <1>10, ReturnStep DEF v

LEMMA RelockSharedGrantedStep ==
    ASSUME TypeOK, CountersMatchMutex,
           NEW t \in Threads, NEW m \in Mutexes, call[t].mtx = m, RelockSharedGranted(t),
           NEW k \in Beside, CountsWith(t, m, k)
    PROVE  /\ MethodStep(t, m) /\ CountsWith(t, m, k)'
           /\ MutexTaken(t, m)
<1> DEFINE v == View(t, m)
           x == [v EXCEPT !.sharers = @ \cup {t}]
           w == deleteCounterRef(x, t)
<1>1. /\ call[t].op = "relock_shared"
      /\ owner[m] = NoThread
      /\ Store(t, m, w) /\ UNCHANGED locks
  BY DEF RelockSharedGranted, ReadersEnter
<1>2. /\ m \in Mutexes /\ ~Holds(v, t) /\ k \in Counters
      /\ v \in Views /\ v.op = "none" /\ ~v.misused
      /\ v.counters = counter_storage[t][m]
      /\ v.counters.unique_lock_counter = 0
      /\ v.counters.shared_lock_counter > 0
      /\ \A op \in CallOps : In(t, m, op) = One(op = "relock_shared")
  BY <1>1, CallFacts DEF Beside
<1>3. /\ x \in Views /\ x.owner = NoThread /\ x.sharers = v.sharers \cup {t}
      /\ x.counters = v.counters /\ x.op = "none" /\ ~x.misused
      /\ v.owner = NoThread
  BY <1>1, <1>2 DEF Views, View
<1>4. x.counters.wrapper_count > 1
  <2>1. v.counters \in Counters
    BY <1>2 DEF Views
  <2>2. CASE k.wrapper_count > 0
    BY <1>2, <1>3, <2>1, <2>2, ObjectsFinite DEF CountsWith, One
  <2>3. CASE k.wrapper_count = 0
    <3>1. k = NoCounters
      BY <2>3 DEF Beside
    <3>2. Cardinality(Typed(t, m, "shared_locked")) > 0
      BY <1>2, <2>1, <3>1, ObjectsFinite DEF CountsWith, NoCounters, One
    <3>3. Cardinality(Objects(t, m)) > 0
      BY <3>2, ObjectsFinite
    <3> QED
      BY <1>2, <1>3, <2>1, <3>1, <3>3, ObjectsFinite DEF CountsWith, NoCounters, One
  <2> QED
    BY <1>2, <2>2, <2>3
<1>5. Counting(x, w, -1, 0, 0)
  <2> HIDE DEF x
  <2>1. x.counters.wrapper_count > 0 /\ x.counters.wrapper_count # 1
    BY <1>3, <1>4 DEF Views
  <2> QED
    BY <1>3, <2>1, deleteFacts
<1> HIDE DEF w, x
<1>6. w \in Views /\ w.op = "none"
  BY <1>3, <1>5 DEF Counting
<1>7. ViewStep(v, w, t)
  BY <1>2, <1>3, <1>5, ConstantsAssumption
     DEF Counting, Views, ViewStep, Agree, OthersKept, Holds
<1>8. /\ w.counters.wrapper_count = v.counters.wrapper_count - 1
      /\ w.counters.shared_lock_counter = v.counters.shared_lock_counter
      /\ w.counters.unique_lock_counter = v.counters.unique_lock_counter
  BY <1>2, <1>3, <1>5 DEF Counting, Views
<1>9. v.counters \in Counters
  BY <1>2 DEF Views
<1>10. MutexTaken(t, m)
  BY <1>1, <1>2, <1>3, <1>5 DEF MutexTaken, Counting, Store, View, Views, Holds, Free, TypeOK
<1> HIDE DEF v
<1> QED
  BY <1>1, <1>2, <1>6, <1>7, <1>8, <1>9, <1>10, ReturnStep DEF One, v

\* A call of t returns, whatever else the thread counts.
LEMMA GrantedStep ==
    ASSUME TypeOK, CountersMatchMutex,
           NEW t \in Threads, NEW m \in Mutexes, call[t].mtx = m, Granted(t),
           NEW k \in Beside, CountsWith(t, m, k)
    PROVE  /\ MethodStep(t, m) /\ CountsWith(t, m, k)'
           /\ MutexTaken(t, m)
  BY LockGrantedStep, LockSharedGrantedStep, RelockSharedGrantedStep DEF Granted

LEMMA GrantedInv ==
    ASSUME Inv, NEW t \in Threads, Granted(t)
    PROVE  Inv' /\ \E m \in Mutexes : MutexTaken(t, m)
<1>1. call[t].mtx \in Mutexes
  BY CallFacts DEF Inv, Granted, LockGranted, LockSharedGranted, RelockSharedGranted
<1>2. PICK m \in Mutexes : call[t].mtx = m
  BY <1>1
<1>3. CountsWith(t, m, NoCounters) /\ NoCounters \in Beside
  BY MatchIsCountsWith DEF Inv, NoCounters, Beside
<1> QED
  BY <1>2, <1>3, GrantedStep, MethodStepInv DEF Inv

LEMMA StutterInv == ASSUME Inv, UNCHANGED vars PROVE Inv'
<1>1. TypeOK' /\ NoMisuse' /\ CountersMatchMutex'
  BY KeptSeen DEF vars, Inv, TypeOK, NoMisuse
<1>2. \A t \in Threads, m \in Mutexes :
         /\ Objects(t, m)' = Objects(t, m)
         /\ \A ty \in MtxLockType : Typed(t, m, ty)' = Typed(t, m, ty)
         /\ \A op \in CallOps : In(t, m, op)' = In(t, m, op)
  BY DEF vars, Objects, Typed, In
<1>3. CountersMatchLocks'
  BY <1>2 DEF vars, Inv, CountersMatchLocks, CountsMatch
<1> QED
  BY <1>1, <1>3 DEF Inv

-----------------------------------------------------------------------------
(* Theorems *)

\* Inv is an invariant: the counters a thread keeps for itself match both the
\* shared mutexes and its lock objects, in every reachable state.
THEOREM Invariance == Spec => []Inv
<1>1. Init => Inv
  BY InitInv
<1>2. Inv /\ [Next]_vars => Inv'
  <2> SUFFICES ASSUME Inv, [Next]_vars PROVE Inv'
    OBVIOUS
  <2>1. ASSUME NEW t \in Threads, NEW s \in Slots, NEW m \in Mutexes,
               NEW lock_type \in MtxLockType, Construct(t, s, m, lock_type)
        PROVE  Inv'
    BY <2>1, ConstructInv
  <2>2. ASSUME NEW t \in Threads, NEW s \in Slots, NEW r \in Slots, Move(t, s, r)
        PROVE  Inv'
    BY <2>2, MoveInv
  <2>3. ASSUME NEW t \in Threads, NEW s \in Slots, Destroy(t, s)
        PROVE  Inv'
    BY <2>3, DestroyInv
  <2>4. ASSUME NEW t \in Threads, Granted(t)
        PROVE  Inv'
    BY <2>4, GrantedInv
  <2>5. CASE UNCHANGED vars
    BY <2>5, StutterInv
  <2> QED
    BY <2>1, <2>2, <2>3, <2>4, <2>5 DEF Next
<1> QED
  BY <1>1, <1>2, PTL DEF Spec

\* Type correctness, for every number of threads, mutexes and lock objects.
THEOREM TypeCorrectness == Spec => []TypeOK
<1>1. Inv => TypeOK
  BY DEF Inv
<1> QED
  BY <1>1, Invariance, PTL

\* No call of the wrapper on a std::shared_mutex is undefined behaviour: what
\* is unlocked is held in that mode, what is locked is not held.
THEOREM NeverMisused == Spec => []NoMisuse
<1>1. Inv => NoMisuse
  BY DEF Inv
<1> QED
  BY <1>1, Invariance, PTL

\* Mutexes and thread_local counters agree, with every thread between any two
\* of its steps.
THEOREM CountersAgree == Spec => []CountersMatchMutex
<1>1. Inv => CountersMatchMutex
  BY DEF Inv
<1> QED
  BY <1>1, Invariance, PTL

\* The counters are the lock objects that exist, none is lost or left over.
THEOREM CountersCount == Spec => []CountersMatchLocks
<1>1. Inv => CountersMatchLocks
  BY DEF Inv
<1> QED
  BY <1>1, Invariance, PTL

\* Inv is more than the sum of the methods' facts: it gives exclusion.  A
\* unique lock object is counted, a count puts the thread in the mutex, and a
\* mutex has one owner and then no sharers.
LEMMA RelianceIsHolding ==
    ASSUME Inv, NEW t \in Threads, NEW m \in Mutexes
    PROVE  /\ ReliesOn(t, m, "unique_locked") => owner[m] = t
           /\ ReliesOn(t, m, "shared_locked") => owner[m] = t \/ t \in sharers[m]
<1>1. SUFFICES ASSUME call[t].mtx # m
               PROVE  /\ Typed(t, m, "unique_locked") # {} => owner[m] = t
                      /\ Typed(t, m, "shared_locked") # {} =>
                            owner[m] = t \/ t \in sharers[m]
  BY DEF ReliesOn
<1>2. CountsMatch(t, m) /\ Agree(Seen(t, m), t) /\ TypeOK
  BY DEF Inv, CountersMatchLocks, CountersMatchMutex
<1>3. \A op \in CallOps : In(t, m, op) = 0
  BY <1>1 DEF In
<1>4. /\ counter_storage[t][m].unique_lock_counter
            = Cardinality(Typed(t, m, "unique_locked"))
      /\ counter_storage[t][m].shared_lock_counter
            = Cardinality(Typed(t, m, "shared_locked"))
  BY <1>2, <1>3, ObjectsFinite DEF CountsMatch
<1>5. /\ Seen(t, m).op = "none" /\ Seen(t, m).counters = counter_storage[t][m]
      /\ Seen(t, m).owner = owner[m] /\ Seen(t, m).sharers = sharers[m]
  BY <1>1 DEF Seen, View
<1>6. counter_storage[t][m] \in Counters
  BY <1>2 DEF TypeOK
<1>7. \A ty \in MtxLockType :
         Typed(t, m, ty) # {} => Cardinality(Typed(t, m, ty)) > 0
  BY ObjectsFinite, FS_EmptySet
<1>8. /\ counter_storage[t][m].unique_lock_counter > 0 => owner[m] = t
      /\ counter_storage[t][m].shared_lock_counter > 0 =>
            owner[m] = t \/ t \in sharers[m]
  BY <1>2, <1>5, <1>6 DEF Agree
<1> QED
  BY <1>4, <1>7, <1>8

\* A unique lock object excludes the lock objects of all other threads.
THEOREM Exclusion == Spec => []LocksExclude
<1>1. ASSUME Inv, NEW t \in Threads, NEW u \in Threads, NEW m \in Mutexes,
             t # u, ReliesOn(t, m, "unique_locked")
      PROVE  /\ ~ReliesOn(u, m, "unique_locked")
             /\ ~ReliesOn(u, m, "shared_locked")
  <2>1. owner[m] = t
    BY <1>1, RelianceIsHolding
  <2>2. Agree(Seen(t, m), t) /\ TypeOK
    BY <1>1 DEF Inv, CountersMatchMutex
  <2>3. Seen(t, m).owner = t /\ Seen(t, m).sharers = sharers[m] /\ t # NoThread
    BY <2>1, ConstantsAssumption DEF Seen, View
  <2>4. sharers[m] = {}
    BY <2>2, <2>3 DEF Agree
  <2> QED
    BY <1>1, <2>1, <2>4, RelianceIsHolding
<1>2. Inv => LocksExclude
  BY <1>1 DEF LocksExclude
<1> QED
  BY <1>2, Invariance, PTL

-----------------------------------------------------------------------------
(* The wrapper implements ReadersWriters *)

\* The mode the counters stand for is the one the mutex is held in.
ModesHold ==
    \A t \in Threads, m \in Mutexes :
        /\ Mode(t, m) = IF owner[m] = t THEN "unique_locked"
                        ELSE IF t \in sharers[m] THEN "shared_locked"
                        ELSE "unlocked"
        /\ owner[m] # NoThread => sharers[m] = {}

LEMMA ModeIsHolding == Inv => ModesHold
<1>1. SUFFICES ASSUME Inv, NEW t \in Threads, NEW m \in Mutexes
               PROVE  /\ Mode(t, m) = IF owner[m] = t THEN "unique_locked"
                                      ELSE IF t \in sharers[m] THEN "shared_locked"
                                      ELSE "unlocked"
                      /\ owner[m] # NoThread => sharers[m] = {}
  BY DEF ModesHold
<1>2. /\ Agree(Seen(t, m), t)
      /\ counter_storage[t][m] \in Counters
      /\ call[t] \in Calls
  BY <1>1 DEF Inv, CountersMatchMutex, TypeOK
<1>3. /\ Seen(t, m).counters = counter_storage[t][m]
      /\ Seen(t, m).owner = owner[m] /\ Seen(t, m).sharers = sharers[m]
      /\ Seen(t, m).op = IF call[t].mtx = m THEN call[t].op ELSE "none"
  BY DEF Seen, View
<1>4. call[t].mtx = m => call[t].op # "none"
  BY <1>2, ConstantsAssumption DEF Calls, Running
<1> QED
  BY <1>2, <1>3, <1>4 DEF Agree, Holds, Mode, getLockType

LEMMA ModeIsHoldingNext == Inv' => ModesHold'
  BY ModeIsHolding, PTL

\* The function that ReadersWriters sees.
Modes == [t \in Threads |-> [m \in Mutexes |-> Mode(t, m)]]

LEMMA ReleaseRefines ==
    ASSUME ModesHold, ModesHold', NEW t \in Threads, NEW m \in Mutexes,
           MutexKeptOrReleased(t, m)
    PROVE  RW!Next \/ Modes' = Modes
<1>1. ASSUME NEW u \in Threads, NEW n \in Mutexes, u # t \/ n # m
      PROVE  Mode(u, n)' = Mode(u, n)
  BY <1>1, ConstantsAssumption DEF ModesHold, MutexKeptOrReleased
<1>2. Mode(t, m)' = Mode(t, m) \/ Mode(t, m)' = "unlocked"
  BY ConstantsAssumption DEF ModesHold, MutexKeptOrReleased
<1>3. CASE Mode(t, m)' = Mode(t, m)
  BY <1>1, <1>3 DEF Modes
<1>4. CASE Mode(t, m)' # Mode(t, m)
  <2>1. Modes' = [Modes EXCEPT ![t][m] = "unlocked"]
    BY <1>1, <1>2, <1>4 DEF Modes
  <2>2. Modes[t][m] # "unlocked"
    BY <1>2, <1>4 DEF Modes
  <2> QED
    BY <2>1, <2>2 DEF RW!Next, RW!Release, Modes
<1> QED
  BY <1>3, <1>4

LEMMA TakeRefines ==
    ASSUME ModesHold, ModesHold', NEW t \in Threads, NEW m \in Mutexes,
           MutexTaken(t, m)
    PROVE  RW!Next
<1>1. ASSUME NEW u \in Threads, NEW n \in Mutexes, u # t \/ n # m
      PROVE  Mode(u, n)' = Mode(u, n)
  BY <1>1, ConstantsAssumption DEF ModesHold, MutexTaken
<1>2. Mode(t, m) = "unlocked"
  BY ConstantsAssumption DEF ModesHold, MutexTaken
<1>3. CASE owner'[m] = t /\ sharers[m] = {}
  <2>1. Modes' = [Modes EXCEPT ![t][m] = "unique_locked"]
    <3>1. Mode(t, m)' = "unique_locked"
      BY <1>3 DEF ModesHold
    <3> QED
      BY <1>1, <3>1 DEF Modes
  <2>2. \A u \in Threads : Mode(u, m) = "unlocked"
    BY <1>3, ConstantsAssumption DEF ModesHold, MutexTaken
  <2> QED
    BY <2>1, <2>2 DEF RW!Next, RW!AcquireUnique, RW!Others, Modes
<1>4. CASE owner'[m] = NoThread /\ sharers'[m] = sharers[m] \cup {t}
  <2>1. Modes' = [Modes EXCEPT ![t][m] = "shared_locked"]
    <3>1. Mode(t, m)' = "shared_locked"
      BY <1>4, ConstantsAssumption DEF ModesHold
    <3> QED
      BY <1>1, <3>1 DEF Modes
  <2>2. \A u \in Threads : Mode(u, m) # "unique_locked"
    BY <1>4, ConstantsAssumption DEF ModesHold, MutexTaken
  <2> QED
    BY <1>2, <2>1, <2>2 DEF RW!Next, RW!AcquireShared, RW!Others, Modes
<1> QED
  BY <1>3, <1>4 DEF MutexTaken

\* Recursion, upgrade and downgrade over std::shared_mutex are a readers-writer
\* lock: every step acquires, releases, or does not show.
THEOREM Refinement == Spec => ImplementsReadersWriters
<1>1. Init => RW!Init
  BY ConstantsAssumption
     DEF Init, RW!Init, Mode, getLockType, NoCounters, Running
<1>2. Inv /\ Inv' /\ [Next]_vars => [RW!Next]_Modes
  <2> SUFFICES ASSUME Inv, Inv', [Next]_vars
               PROVE  RW!Next \/ Modes' = Modes
    OBVIOUS
  <2>1. ModesHold /\ ModesHold'
    BY ModeIsHolding, ModeIsHoldingNext
  <2>2. ASSUME NEW t \in Threads, NEW s \in Slots, NEW m \in Mutexes,
               NEW lock_type \in MtxLockType, Construct(t, s, m, lock_type)
        PROVE  RW!Next \/ Modes' = Modes
    BY <2>1, <2>2, ConstructInv, ReleaseRefines
  <2>3. ASSUME UNCHANGED <<owner, sharers>>
        PROVE  Modes' = Modes
    BY <2>1, <2>3 DEF ModesHold, Modes
  <2>4. ASSUME NEW t \in Threads, NEW s \in Slots, NEW r \in Slots, Move(t, s, r)
        PROVE  Modes' = Modes
    BY <2>3, <2>4 DEF Move
  <2>5. ASSUME NEW t \in Threads, NEW s \in Slots, Destroy(t, s)
        PROVE  RW!Next \/ Modes' = Modes
    BY <2>1, <2>3, <2>5, DestroyInv, ReleaseRefines
  <2>6. ASSUME NEW t \in Threads, Granted(t)
        PROVE  RW!Next
    BY <2>1, <2>6, GrantedInv, TakeRefines
  <2>7. CASE UNCHANGED vars
    BY <2>3, <2>7 DEF vars
  <2> QED
    BY <2>2, <2>4, <2>5, <2>6, <2>7 DEF Next
<1> QED
  BY <1>1, <1>2, Invariance, PTL DEF Spec, ImplementsReadersWriters, RW!Spec, Modes

-----------------------------------------------------------------------------
(* Sequences without repetition, and what they hold *)

NoRepeats(s) == \A i, j \in 1 .. Len(s) : s[i] = s[j] => i = j

LEMMA PushFacts ==
    ASSUME NEW S, NEW s \in Seq(S), NoRepeats(s), NEW m \in S, m \notin Range(s)
    PROVE  /\ Append(s, m) \in Seq(S) /\ NoRepeats(Append(s, m))
           /\ Append(s, m) # <<>>
           /\ Range(Append(s, m)) = Range(s) \cup {m}
<1> DEFINE p == Append(s, m)
<1>1. /\ p \in Seq(S) /\ p # <<>> /\ Len(p) = Len(s) + 1 /\ Len(s) \in Nat
      /\ \A i \in 1 .. Len(s) : p[i] = s[i]
      /\ p[Len(s) + 1] = m
  BY AppendProperties
<1> HIDE DEF p
<1>2. DOMAIN s = 1 .. Len(s) /\ DOMAIN p = 1 .. Len(s) + 1
  BY <1>1
<1>3. \A i \in 1 .. Len(s) : s[i] # m
  BY <1>2 DEF Range
<1>4. NoRepeats(p)
  BY <1>1, <1>3 DEF NoRepeats
<1>5. Range(p) = Range(s) \cup {m}
  <2>1. \A x \in Range(p) : x \in Range(s) \cup {m}
    BY <1>1, <1>2 DEF Range
  <2>2. \A x \in Range(s) : x \in Range(p)
    BY <1>1, <1>2 DEF Range
  <2>3. m \in Range(p)
    <3>1. Len(s) + 1 \in DOMAIN p
      BY <1>1, <1>2
    <3> QED
      BY <1>1, <3>1 DEF Range
  <2> QED
    BY <2>1, <2>2, <2>3
<1> QED
  BY <1>1, <1>4, <1>5 DEF p

LEMMA PopFacts ==
    ASSUME NEW S, NEW s \in Seq(S), NoRepeats(s), s # <<>>
    PROVE  /\ Front(s) \in Seq(S) /\ NoRepeats(Front(s))
           /\ Front(s) = <<>> <=> Len(s) = 1
           /\ Last(s) \in Range(s) /\ Last(s) \in S
           /\ Range(Front(s)) = Range(s) \ {Last(s)}
<1> DEFINE f == Front(s)
           n == Len(s)
<1>1. n \in Nat /\ n > 0 /\ DOMAIN s = 1 .. n /\ \A i \in 1 .. n : s[i] \in S
  BY EmptySeq
<1>2. /\ f \in Seq(S) /\ Len(f) = n - 1
      /\ \A i \in 1 .. n - 1 : f[i] = s[i]
  <2>1. \A i \in 1 .. n - 1 : s[i] \in S
    BY <1>1
  <2>2. /\ SubSeq(s, 1, n - 1) \in Seq(S)
        /\ Len(SubSeq(s, 1, n - 1)) = IF 1 <= n - 1 THEN n - 1 - 1 + 1 ELSE 0
        /\ \A i \in 1 .. n - 1 - 1 + 1 : SubSeq(s, 1, n - 1)[i] = s[1 + i - 1]
    BY <1>1, <2>1, SubSeqProperties
  <2>3. \A i \in 1 .. n - 1 : i \in 1 .. n - 1 - 1 + 1 /\ 1 + i - 1 = i
    BY <1>1
  <2> QED
    BY <1>1, <2>2, <2>3 DEF Front
<1>3. Last(s) = s[n]
  BY DEF Last
<1> HIDE DEF f, n
<1>4. DOMAIN f = 1 .. n - 1
  BY <1>1, <1>2
<1>5. f = <<>> <=> n = 1
  BY <1>1, <1>2, EmptySeq
<1>6. NoRepeats(s) /\ n = Len(s)
  BY DEF n
<1>7. NoRepeats(f)
  BY <1>1, <1>2, <1>6 DEF NoRepeats
<1>8. Last(s) \in Range(s) /\ Last(s) \in S
  BY <1>1, <1>3 DEF Range
<1>9. Range(f) = Range(s) \ {Last(s)}
  <2>1. \A x \in Range(f) : x \in Range(s) /\ x # Last(s)
    BY <1>1, <1>2, <1>3, <1>4, <1>6 DEF Range, NoRepeats
  <2>2. \A x \in Range(s) : x # Last(s) => x \in Range(f)
    BY <1>1, <1>2, <1>3, <1>4 DEF Range
  <2> QED
    BY <2>1, <2>2
<1> QED
  BY <1>2, <1>5, <1>7, <1>8, <1>9 DEF f, n

\* begin() of a set of mutexes, even if it is infinite.
LEMMA MinIsIn ==
    ASSUME NEW S \in SUBSET Mutexes, S # {}
    PROVE  Min(S) \in S
<1>1. S \subseteq Nat
  BY MutexesAreOrdered
<1>2. PICK x \in S : \A y \in S : ~(<<y, x>> \in OpToRel(<, Nat))
  BY <1>1, NatLessThanWellFounded, WFMin
<1>3. \A y \in S : ~(y < x)
  BY <1>1, <1>2 DEF OpToRel
<1>4. \A y \in S : x <= y
  BY <1>1, <1>3
<1> QED
  BY <1>4 DEF Min

-----------------------------------------------------------------------------
(* The inductive invariant *)

LockingTypes == {"shared_locked", "unique_locked"}

\* A TransactionLock: its stack holds mutexes of its set, each once, and is
\* empty only before the first of them is asked for.
Transactions ==
    {x \in [phase     : {"locking", "backing_off", "ending"},
            mtx_set   : (SUBSET Mutexes) \ {{}},
            lock_type : LockingTypes,
            mtx_stack : Seq(Mutexes)] :
        /\ NoRepeats(x.mtx_stack)
        /\ Range(x.mtx_stack) \subseteq x.mtx_set
        /\ x.phase # "locking" => x.mtx_stack # <<>>}

TxOK == tx \in [Threads -> Transactions \cup {NoTx}]

TxInv == TypeOK /\ NoMisuse /\ CountersMatchMutex /\ TxCountersMatch /\ TxOK

\* What a transaction counts for a mutex on its stack.
OneOf(lock_type) ==
    [wrapper_count       |-> 1,
     shared_lock_counter |-> One(lock_type = "shared_locked"),
     unique_lock_counter |-> One(lock_type = "unique_locked")]

Mine(t, m) == IF m \in Acquired(t) THEN OneOf(tx[t].lock_type) ELSE NoCounters

LEMMA OneOfFacts ==
    ASSUME NEW lock_type
    PROVE  OneOf(lock_type) \in Beside /\ NoCounters \in Beside
  BY DEF OneOf, Beside, NoCounters, One

LEMMA MineFacts == ASSUME NEW t, NEW m PROVE Mine(t, m) \in Beside
  BY OneOfFacts DEF Mine

LEMMA TxMatchIsCountsWith ==
    TxCountersMatch
        <=> \A t \in Threads, m \in Mutexes : CountsWith(t, m, Mine(t, m))
<1>1. ASSUME NEW t \in Threads, NEW m \in Mutexes
      PROVE  LET c == counter_storage[t][m]
                 mine == IF m \in Acquired(t) THEN 1 ELSE 0
                 typed(lock_type) ==
                     IF tx[t].lock_type = lock_type THEN mine ELSE 0
             IN CountsWith(t, m, Mine(t, m)) <=>
                  /\ c.wrapper_count
                        = Cardinality(Objects(t, m)) + mine + In(t, m, "relock_shared")
                  /\ c.shared_lock_counter
                        = Cardinality(Typed(t, m, "shared_locked"))
                          + typed("shared_locked") - In(t, m, "lock_shared")
                  /\ c.unique_lock_counter
                        = Cardinality(Typed(t, m, "unique_locked"))
                          + typed("unique_locked") - In(t, m, "lock")
  BY DEF CountsWith, Mine, OneOf, One, NoCounters
<1> QED
  BY <1>1 DEF TxCountersMatch

LEMMA TxMatchIsCountsWithNext ==
    TxCountersMatch'
        <=> (\A t \in Threads, m \in Mutexes : CountsWith(t, m, Mine(t, m)))'
  BY TxMatchIsCountsWith, PTL

LEMMA InitTxInv == ASSUME TxInit PROVE TxInv
<1>1. Inv
  BY InitInv DEF TxInit
<1>2. TxOK
  BY DEF TxInit, TxOK
<1>3. \A t \in Threads, m \in Mutexes : Mine(t, m) = NoCounters
  BY DEF TxInit, Mine, Acquired, NoTx, Range
<1> QED
  BY <1>1, <1>2, <1>3, MatchIsCountsWith, TxMatchIsCountsWith DEF Inv, TxInv

-----------------------------------------------------------------------------
(* A step on one mutex m that leaves t counting j beside its lock objects *)

LEMMA TxStepInv ==
    ASSUME TxInv, NEW t \in Threads, NEW m \in Mutexes, NEW j,
           MethodStep(t, m), CountsWith(t, m, j)', Mine(t, m)' = j,
           \A n \in Mutexes \ {m} : Mine(t, n)' = Mine(t, n),
           \A u \in Threads \ {t} : tx'[u] = tx[u],
           TxOK'
    PROVE  TxInv'
<1>1. ASSUME NEW u \in Threads, NEW n \in Mutexes
      PROVE  CountsWith(u, n, Mine(u, n))'
  <2>1. CASE u = t /\ n = m
    BY <2>1 DEF CountsWith
  <2>2. CASE u # t \/ n # m
    <3>1. PICK k \in Counters : k = Mine(u, n)
      BY MineFacts DEF Beside
    <3>2. CountsWith(u, n, k)
      BY <3>1, TxMatchIsCountsWith DEF TxInv
    <3>3. CountsWith(u, n, k)'
      BY <2>2, <3>2 DEF MethodStep, OthersCounted
    <3>4. Mine(u, n)' = k
      BY <2>2, <3>1 DEF Mine, Acquired
    <3> QED
      BY <3>3, <3>4 DEF CountsWith
  <2> QED
    BY <2>1, <2>2
<1> QED
  BY <1>1, TxMatchIsCountsWithNext DEF TxInv, MethodStep

\* The result of a method is stored and no lock object changes: the counters
\* change by what t counts beside them, except for what it now waits for.
LEMMA StoreStep ==
    ASSUME TypeOK, CountersMatchMutex, NEW t \in Threads, NEW m \in Mutexes,
           NEW w \in Views, call[t] = Running,
           ViewStep(View(t, m), w, t), Store(t, m, w), UNCHANGED locks,
           NEW k \in Counters, NEW j \in Counters, CountsWith(t, m, k),
           w.counters.wrapper_count - One(w.op = "relock_shared") + k.wrapper_count
              = counter_storage[t][m].wrapper_count + j.wrapper_count,
           w.counters.shared_lock_counter + One(w.op = "lock_shared")
              + k.shared_lock_counter
              = counter_storage[t][m].shared_lock_counter + j.shared_lock_counter,
           w.counters.unique_lock_counter + One(w.op = "lock")
              + k.unique_lock_counter
              = counter_storage[t][m].unique_lock_counter + j.unique_lock_counter
    PROVE  MethodStep(t, m) /\ CountsWith(t, m, j)'
<1>1. call[t].mtx \in {NoMutex, m}
  BY DEF Running
<1>2. TypeOK' /\ NoMisuse' /\ CountersMatchMutex'
  BY <1>1, StoreFacts DEF TypeOK
<1>3. OthersCounted(t, m)
  BY <1>1, StoreOthers
<1>4. CountsWith(t, m, j)'
  <2>1. /\ counter_storage'[t][m] = w.counters
        /\ \A op \in CallOps : In(t, m, op)' = One(w.op = op)
    BY <1>1, StoreCounts
  <2>2. \A op \in CallOps : In(t, m, op) = 0
    BY ConstantsAssumption DEF In, Running
  <2>3. /\ Objects(t, m)' = Objects(t, m)
        /\ \A ty \in MtxLockType : Typed(t, m, ty)' = Typed(t, m, ty)
    BY DEF Objects, Typed
  <2>4. w.counters \in Counters /\ counter_storage[t][m] \in Counters
    BY DEF Views, TypeOK
  <2>5. /\ counter_storage[t][m].wrapper_count
              = Cardinality(Objects(t, m)) + k.wrapper_count
        /\ counter_storage[t][m].shared_lock_counter
              = Cardinality(Typed(t, m, "shared_locked")) + k.shared_lock_counter
        /\ counter_storage[t][m].unique_lock_counter
              = Cardinality(Typed(t, m, "unique_locked")) + k.unique_lock_counter
    BY <2>2, <2>4, ObjectsFinite DEF CountsWith
  <2> QED
    BY <2>1, <2>3, <2>4, <2>5, ObjectsFinite DEF CountsWith, One
<1> QED
  BY <1>2, <1>3, <1>4 DEF MethodStep

-----------------------------------------------------------------------------
(* tryLock and tryLockShared *)

\* An attempt that does not fail: as if the constructor of a lock object had
\* been let through at once, but that an upgrade may still block.
LEMMA TryEnterFacts ==
    ASSUME NEW t \in Threads, NEW v \in Views, v.op = "none", Agree(v, t),
           v.counters.wrapper_count = 0 => v.counters = NoCounters,
           NEW lock_type \in LockingTypes,
           getLockType(v.counters) = "unlocked" =>
              /\ v.owner = NoThread
              /\ lock_type = "unique_locked" => v.sharers = {}
    PROVE  LET w == TryEnter(v, t, lock_type)
           IN /\ ViewStep(v, w, t)
              /\ w.op \in {"none", "lock"}
              /\ w.op = "lock" => getLockType(v.counters) = "shared_locked"
              /\ w.counters.wrapper_count = v.counters.wrapper_count + 1
              /\ w.counters.shared_lock_counter
                    = v.counters.shared_lock_counter
                      + One(lock_type = "shared_locked")
              /\ w.counters.unique_lock_counter + One(w.op = "lock")
                    = v.counters.unique_lock_counter
                      + One(lock_type = "unique_locked")
<1> DEFINE x == createCountersRef(v)
           w == TryEnter(v, t, lock_type)
<1>0. SUFFICES /\ ViewStep(v, w, t)
               /\ w.op \in {"none", "lock"}
               /\ w.op = "lock" => getLockType(v.counters) = "shared_locked"
               /\ w.counters.wrapper_count = v.counters.wrapper_count + 1
               /\ w.counters.shared_lock_counter
                     = v.counters.shared_lock_counter
                       + One(lock_type = "shared_locked")
               /\ w.counters.unique_lock_counter + One(w.op = "lock")
                     = v.counters.unique_lock_counter
                       + One(lock_type = "unique_locked")
  OBVIOUS
<1>1. Counting(v, x, 1, 0, 0)
  BY createFacts
<1>2. /\ x \in Views /\ x.op = "none" /\ ViewStep(v, x, t)
      /\ getLockType(x.counters) = getLockType(v.counters)
      /\ x.owner = v.owner /\ x.sharers = v.sharers /\ ~x.misused
  BY <1>1 DEF Counting, Views, ViewStep, Agree, OthersKept, Holds, getLockType
<1>3. w = IF lock_type = "unique_locked" THEN tryLock(x, t) ELSE tryLockShared(x, t)
  BY DEF TryEnter
<1> HIDE DEF x, w
<1>4. CASE getLockType(v.counters) = "unlocked"
  <2>1. /\ v.counters.unique_lock_counter = 0 /\ v.counters.shared_lock_counter = 0
        /\ v.owner = NoThread /\ t \notin v.sharers /\ ~Holds(x, t)
    BY <1>2, <1>4, ConstantsAssumption DEF getLockType, Agree, Views, Holds
  <2>2. CASE lock_type = "unique_locked"
    <3> DEFINE y == [RawTry(x, t) EXCEPT !.owner = t]
    <3>1. /\ y \in Views /\ y.owner = t /\ y.sharers = {} /\ y.op = "none"
          /\ y.counters = x.counters /\ ~y.misused
      BY <1>2, <1>4, <2>1, <2>2 DEF RawTry, Views
    <3>2. w = CountUnique(y)
      BY <1>2, <1>3, <1>4, <2>2 DEF tryLock
    <3> HIDE DEF y
    <3>3. Counting(y, w, 0, 0, 1)
      BY <3>1, <3>2, CountFacts
    <3> QED
      BY <1>1, <1>2, <1>4, <2>1, <2>2, <3>1, <3>3, ConstantsAssumption
         DEF Counting, Views, ViewStep, Agree, OthersKept, Holds, One
  <2>3. CASE lock_type = "shared_locked"
    <3> DEFINE y == [RawTry(x, t) EXCEPT !.sharers = @ \cup {t}]
    <3>1. /\ y \in Views /\ y.owner = NoThread /\ y.sharers = v.sharers \cup {t}
          /\ y.op = "none" /\ y.counters = x.counters /\ ~y.misused
      BY <1>2, <2>1 DEF RawTry, Views
    <3>2. w = CountShared(y)
      BY <1>2, <1>3, <1>4, <2>3 DEF tryLockShared
    <3> HIDE DEF y
    <3>3. Counting(y, w, 0, 1, 0)
      BY <3>1, <3>2, CountFacts
    <3> QED
      BY <1>1, <1>2, <1>4, <2>1, <2>3, <3>1, <3>3, ConstantsAssumption
         DEF Counting, Views, ViewStep, Agree, OthersKept, Holds, One
  <2> QED
    BY <2>2, <2>3 DEF LockingTypes
<1>5. CASE getLockType(v.counters) # "unlocked"
  <2>1. CASE lock_type = "unique_locked"
    <3>1. w = lock(x, t)
      BY <1>2, <1>3, <1>5, <2>1 DEF tryLock
    <3>2. w.op = "lock" => getLockType(x.counters) = "shared_locked"
      BY <1>2, <1>5, <3>1 DEF lock, CountUnique, getLockType
    <3> QED
      BY <1>1, <1>2, <2>1, <3>1, <3>2, lockFacts
         DEF Counting, Views, ViewStep, OthersKept, One
  <2>2. CASE lock_type = "shared_locked"
    <3>1. w = CountShared(x)
      BY <1>2, <1>3, <1>5, <2>2 DEF tryLockShared
    <3>2. Counting(x, w, 0, 1, 0)
      BY <1>2, <3>1, CountFacts
    <3> QED
      BY <1>1, <1>2, <1>5, <2>2, <3>2
         DEF Counting, Views, ViewStep, Agree, OthersKept, Holds, One, getLockType
  <2> QED
    BY <2>1, <2>2 DEF LockingTypes
<1> QED
  BY <1>4, <1>5

\* An attempt that fails leaves what it found.
LEMMA TryFailsFacts ==
    ASSUME NEW t \in Threads, NEW v \in Views, v.op = "none", Agree(v, t),
           v.counters.wrapper_count = 0 => v.counters = NoCounters
    PROVE  LET w == deleteCounterRef(createCountersRef(v), t)
           IN ViewStep(v, w, t) /\ Counting(v, w, 0, 0, 0)
<1> DEFINE x == createCountersRef(v)
           w == deleteCounterRef(x, t)
<1>1. Counting(v, x, 1, 0, 0)
  BY createFacts
<1> HIDE DEF x
<1>2. /\ x \in Views /\ x.counters.wrapper_count > 0
      /\ x.counters.wrapper_count = 1 => /\ x.counters.shared_lock_counter = 0
                                         /\ x.counters.unique_lock_counter = 0
  BY <1>1 DEF Counting, Views, NoCounters
<1>3. Counting(x, w, -1, 0, 0)
  BY <1>2, deleteFacts
<1> HIDE DEF w
<1>4. Counting(v, w, 0, 0, 0)
  BY <1>1, <1>2, <1>3 DEF Counting, Views
<1>5. ViewStep(v, w, t)
  BY <1>4 DEF Counting, Views, ViewStep, Agree, OthersKept, Holds
<1> QED
  BY <1>4, <1>5 DEF w, x

-----------------------------------------------------------------------------
(* What a thread that runs sees, and what happens to its stack *)

LEMMA RunningFacts ==
    ASSUME TxInv, NEW t \in Threads, NEW m \in Mutexes, call[t] = Running
    PROVE  LET v == View(t, m)
           IN /\ v \in Views /\ v.op = "none" /\ Agree(v, t)
              /\ v.counters = counter_storage[t][m] /\ v.counters \in Counters
              /\ CountsWith(t, m, Mine(t, m))
              /\ v.counters.wrapper_count = 0 => v.counters = NoCounters
              /\ \A op \in CallOps : In(t, m, op) = 0
<1> DEFINE v == View(t, m)
<1>1. /\ v \in Views /\ v.op = "none" /\ Agree(v, t)
      /\ v.counters = counter_storage[t][m] /\ v.counters \in Counters
  BY SeenFacts, ConstantsAssumption
     DEF TxInv, CountersMatchMutex, Agree, Holds, Running, Views
<1>2. CountsWith(t, m, Mine(t, m))
  BY TxMatchIsCountsWith DEF TxInv
<1>3. \A op \in CallOps : In(t, m, op) = 0
  BY ConstantsAssumption DEF In, Running
<1>4. v.counters.wrapper_count = 0 => v.counters = NoCounters
  BY <1>1, <1>2, <1>3, MineFacts, NoneCounted
<1> QED
  BY <1>1, <1>2, <1>3, <1>4

\* A mutex of the set that is not on the stack is put there.
LEMMA PushMine ==
    ASSUME TxOK, NEW t \in Threads, tx[t] # NoTx, NEW m \in Missing(t),
           tx' = [tx EXCEPT ![t].mtx_stack = Append(@, m)]
    PROVE  /\ TxOK' /\ m \in Mutexes
           /\ Mine(t, m) = NoCounters /\ Mine(t, m)' = OneOf(tx[t].lock_type)
           /\ \A n \in Mutexes \ {m} : Mine(t, n)' = Mine(t, n)
           /\ \A u \in Threads \ {t} : tx'[u] = tx[u]
           /\ Acquired(t)' = Acquired(t) \cup {m}
<1> DEFINE s == tx[t].mtx_stack
<1>1. /\ tx[t] \in Transactions /\ s \in Seq(Mutexes) /\ NoRepeats(s)
      /\ m \in Mutexes /\ m \in tx[t].mtx_set /\ m \notin Range(s)
  BY DEF TxOK, Transactions, Missing, Acquired
<1>2. /\ Append(s, m) \in Seq(Mutexes) /\ NoRepeats(Append(s, m))
      /\ Append(s, m) # <<>> /\ Range(Append(s, m)) = Range(s) \cup {m}
  BY <1>1, PushFacts
<1>3. /\ tx'[t] = [tx[t] EXCEPT !.mtx_stack = Append(s, m)]
      /\ \A u \in Threads \ {t} : tx'[u] = tx[u]
      /\ DOMAIN tx' = Threads
  BY DEF TxOK
<1>4. /\ tx'[t].mtx_stack = Append(s, m) /\ tx'[t].phase = tx[t].phase
      /\ tx'[t].mtx_set = tx[t].mtx_set /\ tx'[t].lock_type = tx[t].lock_type
      /\ tx'[t] \in Transactions
  BY <1>1, <1>2, <1>3 DEF Transactions
<1>5. TxOK'
  BY <1>3, <1>4 DEF TxOK
<1>6. Acquired(t)' = Acquired(t) \cup {m} /\ m \notin Acquired(t)
  BY <1>1, <1>2, <1>4 DEF Acquired
<1> QED
  BY <1>1, <1>3, <1>4, <1>5, <1>6 DEF Mine

\* The last mutex of the stack is taken off it.
LEMMA PopMine ==
    ASSUME TxOK, NEW t \in Threads, tx[t].mtx_stack # <<>>,
           NEW m, m = Last(tx[t].mtx_stack),
           NEW y, y \in Transactions \cup {NoTx}, tx' = [tx EXCEPT ![t] = y],
           y.mtx_stack = Front(tx[t].mtx_stack),
           y # NoTx => y.lock_type = tx[t].lock_type
    PROVE  /\ TxOK' /\ m \in Mutexes
           /\ Mine(t, m) = OneOf(tx[t].lock_type) /\ Mine(t, m)' = NoCounters
           /\ \A n \in Mutexes \ {m} : Mine(t, n)' = Mine(t, n)
           /\ \A u \in Threads \ {t} : tx'[u] = tx[u]
<1> DEFINE s == tx[t].mtx_stack
<1>1. tx[t] \in Transactions /\ s \in Seq(Mutexes) /\ NoRepeats(s)
  BY DEF TxOK, Transactions, NoTx
<1>2. /\ m \in Range(s) /\ m \in Mutexes
      /\ Range(Front(s)) = Range(s) \ {m}
  BY <1>1, PopFacts
<1>3. tx'[t] = y /\ \A u \in Threads \ {t} : tx'[u] = tx[u]
  BY DEF TxOK
<1>4. TxOK'
  BY DEF TxOK
<1>5. Acquired(t)' = Acquired(t) \ {m} /\ m \in Acquired(t)
  BY <1>2, <1>3 DEF Acquired
<1>6. ASSUME NEW n \in Mutexes \ {m}
      PROVE  Mine(t, n)' = Mine(t, n)
  <2>1. CASE y = NoTx
    <3>1. Acquired(t)' = {}
      BY <1>3, <2>1 DEF Acquired, NoTx, Range
    <3> QED
      BY <1>5, <3>1 DEF Mine
  <2>2. CASE y # NoTx
    BY <1>3, <1>5, <2>2 DEF Mine
  <2> QED
    BY <2>1, <2>2
<1> QED
  BY <1>2, <1>3, <1>4, <1>5, <1>6 DEF Mine

-----------------------------------------------------------------------------
(* The invariant is inductive: one lemma for each action *)

LEMMA KeptInv ==
    ASSUME TxInv, TypeOK', NoMisuse', CountersMatchMutex', TxOK',
           \A u \in Threads, n \in Mutexes, k \in Counters :
              CountsWith(u, n, k) => CountsWith(u, n, k)',
           \A u \in Threads, n \in Mutexes : Mine(u, n)' = Mine(u, n)
    PROVE  TxInv'
<1>1. ASSUME NEW u \in Threads, NEW n \in Mutexes
      PROVE  CountsWith(u, n, Mine(u, n))'
  <2>1. PICK k \in Counters : k = Mine(u, n)
    BY MineFacts DEF Beside
  <2>2. CountsWith(u, n, k)'
    BY <2>1, TxMatchIsCountsWith DEF TxInv
  <2> QED
    BY <2>1, <2>2 DEF CountsWith
<1> QED
  BY <1>1, TxMatchIsCountsWithNext DEF TxInv

LEMMA UnchangedInv ==
    ASSUME TxInv, UNCHANGED vars, TxOK',
           \A u \in Threads, n \in Mutexes : Mine(u, n)' = Mine(u, n)
    PROVE  TxInv'
<1>1. TypeOK' /\ NoMisuse'
  BY DEF TxInv, TypeOK, NoMisuse, vars
<1>2. CountersMatchMutex'
  BY KeptSeen DEF TxInv, vars
<1>3. ASSUME NEW u \in Threads, NEW n \in Mutexes, NEW k, CountsWith(u, n, k)
      PROVE  CountsWith(u, n, k)'
  BY <1>3 DEF CountsWith, Objects, Typed, In, vars
<1> QED
  BY <1>1, <1>2, <1>3, KeptInv

LEMMA TxBeginInv ==
    ASSUME TxInv, NEW t \in Threads, NEW S \in SUBSET Mutexes,
           NEW lock_type \in MtxLockType, TxBegin(t, S, lock_type)
    PROVE  TxInv'
<1> DEFINE x == [NoTx EXCEPT !.phase = "locking", !.mtx_set = S,
                             !.lock_type = lock_type]
<1>1. x \in Transactions /\ x.mtx_stack = <<>> /\ tx[t].mtx_stack = <<>>
  <2>1. Range(<<>>) = {} /\ <<>> \in Seq(Mutexes) /\ NoRepeats(<<>>)
    BY EmptySeq DEF Range, NoRepeats
  <2>2. lock_type \in LockingTypes /\ S \in (SUBSET Mutexes) \ {{}}
    BY DEF TxBegin, LockingTypes
  <2>3. /\ x.phase = "locking" /\ x.mtx_set = S /\ x.lock_type = lock_type
        /\ x.mtx_stack = <<>>
    BY DEF NoTx
  <2>4. x \in [phase     : {"locking", "backing_off", "ending"},
               mtx_set   : (SUBSET Mutexes) \ {{}},
               lock_type : LockingTypes,
               mtx_stack : Seq(Mutexes)]
    <3> DEFINE e == <<>>
    <3>1. e \in Seq(Mutexes)
      BY <2>1
    <3>2. x = [[phase |-> "none", mtx_set |-> {}, lock_type |-> "unlocked",
                mtx_stack |-> e] EXCEPT !.phase = "locking", !.mtx_set = S,
                                        !.lock_type = lock_type]
      BY DEF NoTx
    <3> HIDE DEF e, x
    <3> QED
      BY <2>2, <3>1, <3>2
  <2>5. tx[t].mtx_stack = <<>>
    BY DEF TxBegin, NoTx
  <2> HIDE DEF x
  <2>6. x \in Transactions
    BY <2>1, <2>2, <2>3, <2>4 DEF Transactions
  <2> QED
    BY <2>3, <2>5, <2>6
<1>2. tx' = [tx EXCEPT ![t] = x] /\ UNCHANGED vars
  BY DEF TxBegin
<1> HIDE DEF x
<1>3. TxOK'
  BY <1>1, <1>2 DEF TxInv, TxOK
<1>4. ASSUME NEW u \in Threads, NEW n \in Mutexes
      PROVE  Mine(u, n)' = Mine(u, n)
  <2>1. CASE u = t
    <3>1. tx'[t] = x
      BY <1>2 DEF TxInv, TxOK
    <3>2. Acquired(t) = {} /\ Acquired(t)' = {}
      BY <1>1, <3>1 DEF Acquired, Range
    <3> QED
      BY <2>1, <3>2 DEF Mine
  <2>2. CASE u # t
    BY <1>2, <2>2 DEF TxInv, TxOK, Mine, Acquired
  <2> QED
    BY <2>1, <2>2
<1> QED
  BY <1>2, <1>3, <1>4, UnchangedInv

\* The method left w for the mutex that is pushed: it counts one lock more.
LEMMA PushInv ==
    ASSUME TxInv, NEW t \in Threads, call[t] = Running, tx[t] # NoTx,
           NEW m \in Missing(t), NEW lock_type \in LockingTypes,
           tx[t].lock_type = lock_type,
           NEW w \in Views, ViewStep(View(t, m), w, t), Store(t, m, w),
           w.op # "relock_shared",
           w.counters.wrapper_count = counter_storage[t][m].wrapper_count + 1,
           w.counters.shared_lock_counter + One(w.op = "lock_shared")
              = counter_storage[t][m].shared_lock_counter
                + One(lock_type = "shared_locked"),
           w.counters.unique_lock_counter + One(w.op = "lock")
              = counter_storage[t][m].unique_lock_counter
                + One(lock_type = "unique_locked"),
           tx' = [tx EXCEPT ![t].mtx_stack = Append(@, m)], UNCHANGED locks
    PROVE  TxInv'
<1>1. /\ TxOK' /\ m \in Mutexes
      /\ Mine(t, m) = NoCounters /\ Mine(t, m)' = OneOf(lock_type)
      /\ \A n \in Mutexes \ {m} : Mine(t, n)' = Mine(t, n)
      /\ \A u \in Threads \ {t} : tx'[u] = tx[u]
  BY PushMine DEF TxInv
<1>2. CountsWith(t, m, NoCounters)
  BY <1>1, TxMatchIsCountsWith DEF TxInv
<1>3. OneOf(lock_type) \in Counters /\ NoCounters \in Counters
  BY OneOfFacts DEF Beside
<1>4. counter_storage[t][m] \in Counters /\ w.counters \in Counters
  BY <1>1 DEF TxInv, TypeOK, Views
<1>5. MethodStep(t, m) /\ CountsWith(t, m, OneOf(lock_type))'
  <2> DEFINE j == OneOf(lock_type)
  <2>1. /\ j.wrapper_count = 1
        /\ j.shared_lock_counter = One(lock_type = "shared_locked")
        /\ j.unique_lock_counter = One(lock_type = "unique_locked")
        /\ NoCounters.wrapper_count = 0
        /\ NoCounters.shared_lock_counter = 0
        /\ NoCounters.unique_lock_counter = 0
    BY DEF OneOf, NoCounters
  <2>2. One(w.op = "relock_shared") = 0
    BY DEF One
  <2>3. One(w.op = "lock_shared") \in Nat /\ One(w.op = "lock") \in Nat
    BY DEF One
  <2> HIDE DEF j
  <2>4. /\ w.counters.wrapper_count - One(w.op = "relock_shared")
              + NoCounters.wrapper_count
              = counter_storage[t][m].wrapper_count + j.wrapper_count
        /\ w.counters.shared_lock_counter + One(w.op = "lock_shared")
              + NoCounters.shared_lock_counter
              = counter_storage[t][m].shared_lock_counter + j.shared_lock_counter
        /\ w.counters.unique_lock_counter + One(w.op = "lock")
              + NoCounters.unique_lock_counter
              = counter_storage[t][m].unique_lock_counter + j.unique_lock_counter
    BY <1>4, <2>1, <2>2, <2>3
  <2>5. TypeOK /\ CountersMatchMutex /\ j \in Counters
    BY <1>3 DEF TxInv, j
  <2> QED
    BY <1>1, <1>2, <1>3, <2>4, <2>5, StoreStep DEF j
<1> QED
  BY <1>1, <1>5, TxStepInv

LEMMA TxFirstInv ==
    ASSUME TxInv, NEW t \in Threads, TxFirst(t)
    PROVE  TxInv'
<1>1. /\ call[t] = Running /\ tx[t] \in Transactions /\ tx[t] # NoTx
      /\ tx[t].mtx_stack = <<>> /\ UNCHANGED locks
  BY DEF TxFirst, TxInv, TxOK, NoTx
<1>2. Missing(t) = tx[t].mtx_set /\ tx[t].mtx_set \in (SUBSET Mutexes) \ {{}}
  BY <1>1 DEF Missing, Acquired, Range, Transactions
<1>3. PICK m \in Missing(t) : m = Min(tx[t].mtx_set)
  <2>1. tx[t].mtx_set \in SUBSET Mutexes /\ tx[t].mtx_set # {}
    BY <1>2
  <2>2. Min(tx[t].mtx_set) \in tx[t].mtx_set
    BY <2>1, MinIsIn
  <2> QED
    BY <1>2, <2>2
<1>4. PICK lock_type \in LockingTypes : lock_type = tx[t].lock_type
  BY <1>1 DEF Transactions
<1>5. m \in Mutexes /\ lock_type \in MtxLockType
  BY <1>2 DEF LockingTypes
<1>6. PICK w \in Views : w = Enter(View(t, m), t, lock_type)
  BY <1>1, <1>5, RunningFacts, EnterFacts DEF ViewStep
<1>7. Store(t, m, w)
  BY <1>3, <1>4, <1>6 DEF TxFirst
<1>8. tx' = [tx EXCEPT ![t].mtx_stack = Append(@, m)]
  <2>1. Append(<<>>, m) = <<m>>
    OBVIOUS
  <2> QED
    BY <1>1, <1>3, <2>1 DEF TxFirst
<1>9. /\ ViewStep(View(t, m), w, t)
      /\ w.op \in {"none", "lock", "lock_shared"}
      /\ w.counters.wrapper_count = counter_storage[t][m].wrapper_count + 1
      /\ w.counters.shared_lock_counter + One(w.op = "lock_shared")
            = counter_storage[t][m].shared_lock_counter
              + One(lock_type = "shared_locked")
      /\ w.counters.unique_lock_counter + One(w.op = "lock")
            = counter_storage[t][m].unique_lock_counter
              + One(lock_type = "unique_locked")
  BY <1>1, <1>5, <1>6, RunningFacts, EnterFacts
<1> QED
  BY <1>1, <1>4, <1>7, <1>8, <1>9, PushInv

LEMMA TxTryInv ==
    ASSUME TxInv, NEW t \in Threads, TxTry(t)
    PROVE  TxInv'
<1>1. /\ call[t] = Running /\ tx[t] \in Transactions /\ tx[t] # NoTx
      /\ tx[t].phase = "locking" /\ tx[t].mtx_stack # <<>> /\ UNCHANGED locks
      /\ Missing(t) # {}
  BY DEF TxTry, TxInv, TxOK, NoTx
<1>2. Missing(t) \in SUBSET Mutexes
  BY <1>1 DEF Missing, Transactions
<1>3. PICK m \in Missing(t) : m = Min(Missing(t))
  BY <1>1, <1>2, MinIsIn
<1>4. PICK lock_type \in LockingTypes : lock_type = tx[t].lock_type
  BY <1>1 DEF Transactions
<1>5. m \in Mutexes
  BY <1>2
<1>6. PICK v \in Views : v = View(t, m)
  BY <1>1, <1>5, RunningFacts
<1>7. /\ v.op = "none" /\ Agree(v, t) /\ v.counters \in Counters
      /\ v.counters = counter_storage[t][m]
      /\ v.counters.wrapper_count = 0 => v.counters = NoCounters
      /\ v.owner = owner[m] /\ v.sharers = sharers[m]
  BY <1>1, <1>5, <1>6, RunningFacts DEF View
<1>8. CASE /\ ~tryFails(t, m, lock_type)
           /\ tx' = [tx EXCEPT ![t].mtx_stack = Append(@, m)]
           /\ Store(t, m, TryEnter(View(t, m), t, lock_type))
  <2>1. getLockType(v.counters) = "unlocked" =>
              /\ v.owner = NoThread
              /\ lock_type = "unique_locked" => v.sharers = {}
    BY <1>6, <1>7, <1>8 DEF tryFails, Free, ReadersEnter
  <2>2. PICK w \in Views : w = TryEnter(v, t, lock_type)
    BY <1>7, <2>1, TryEnterFacts DEF ViewStep
  <2>3. /\ ViewStep(v, w, t)
        /\ w.op \in {"none", "lock"}
        /\ w.counters.wrapper_count = v.counters.wrapper_count + 1
        /\ w.counters.shared_lock_counter
              = v.counters.shared_lock_counter + One(lock_type = "shared_locked")
        /\ w.counters.unique_lock_counter + One(w.op = "lock")
              = v.counters.unique_lock_counter + One(lock_type = "unique_locked")
    BY <1>7, <2>1, <2>2, TryEnterFacts
  <2>4. w.counters.shared_lock_counter + One(w.op = "lock_shared")
           = v.counters.shared_lock_counter + One(lock_type = "shared_locked")
    BY <2>3 DEF Views, One
  <2>5. /\ ViewStep(View(t, m), w, t) /\ w.op # "relock_shared"
        /\ Store(t, m, w)
    BY <1>4, <1>6, <1>8, <2>2, <2>3
  <2>6. /\ w.counters.wrapper_count = counter_storage[t][m].wrapper_count + 1
        /\ w.counters.shared_lock_counter + One(w.op = "lock_shared")
              = counter_storage[t][m].shared_lock_counter
                + One(lock_type = "shared_locked")
        /\ w.counters.unique_lock_counter + One(w.op = "lock")
              = counter_storage[t][m].unique_lock_counter
                + One(lock_type = "unique_locked")
    BY <1>7, <2>3, <2>4
  <2> QED
    BY <1>1, <1>4, <1>8, <2>5, <2>6, PushInv
<1>9. CASE /\ tx' = [tx EXCEPT ![t].phase = "backing_off"]
           /\ Store(t, m, deleteCounterRef(createCountersRef(View(t, m)), t))
  <2>1. PICK w \in Views : w = deleteCounterRef(createCountersRef(v), t)
    BY <1>7, TryFailsFacts DEF ViewStep
  <2>2. ViewStep(v, w, t) /\ Counting(v, w, 0, 0, 0)
    BY <1>7, <2>1, TryFailsFacts
  <2>3. /\ tx'[t] = [tx[t] EXCEPT !.phase = "backing_off"]
        /\ \A u \in Threads \ {t} : tx'[u] = tx[u]
        /\ DOMAIN tx' = Threads
    BY <1>9 DEF TxInv, TxOK
  <2>4. /\ tx'[t].mtx_stack = tx[t].mtx_stack /\ tx'[t].lock_type = tx[t].lock_type
        /\ tx'[t] \in Transactions
    BY <1>1, <2>3 DEF Transactions
  <2>5. TxOK'
    BY <1>9, <2>3, <2>4 DEF TxInv, TxOK
  <2>6. \A n \in Mutexes : Mine(t, n)' = Mine(t, n)
    BY <2>4 DEF Mine, Acquired
  <2>7. PICK j \in Counters : j = Mine(t, m)
    BY MineFacts DEF Beside
  <2>8. CountsWith(t, m, j)
    BY <1>1, <1>5, <2>7, RunningFacts
  <2>9. /\ w.op = "none"
        /\ w.counters.wrapper_count = counter_storage[t][m].wrapper_count
        /\ w.counters.shared_lock_counter
              = counter_storage[t][m].shared_lock_counter
        /\ w.counters.unique_lock_counter
              = counter_storage[t][m].unique_lock_counter
    BY <1>7, <2>2 DEF Counting, Views
  <2>10. /\ w.counters.wrapper_count - One(w.op = "relock_shared") + j.wrapper_count
               = counter_storage[t][m].wrapper_count + j.wrapper_count
         /\ w.counters.shared_lock_counter + One(w.op = "lock_shared")
               + j.shared_lock_counter
               = counter_storage[t][m].shared_lock_counter + j.shared_lock_counter
         /\ w.counters.unique_lock_counter + One(w.op = "lock")
               + j.unique_lock_counter
               = counter_storage[t][m].unique_lock_counter + j.unique_lock_counter
    BY <1>7, <2>9 DEF One, Views
  <2>11. /\ ViewStep(View(t, m), w, t) /\ Store(t, m, w)
         /\ TypeOK /\ CountersMatchMutex
    BY <1>6, <1>9, <2>1, <2>2 DEF TxInv
  <2>12. MethodStep(t, m) /\ CountsWith(t, m, j)'
    BY <1>1, <1>5, <2>8, <2>10, <2>11, StoreStep
  <2> QED
    BY <1>5, <2>3, <2>5, <2>6, <2>7, <2>12, TxStepInv
<1> QED
  BY <1>3, <1>4, <1>8, <1>9 DEF TxTry

\* The destructor of the wrapper on top of the stack.
LEMMA PopInv ==
    ASSUME TxInv, NEW t \in Threads, call[t] = Running,
           tx[t].mtx_stack # <<>>, Pop(t), UNCHANGED locks,
           NEW y, y \in Transactions \cup {NoTx}, tx' = [tx EXCEPT ![t] = y],
           y.mtx_stack = Front(tx[t].mtx_stack),
           y # NoTx => y.lock_type = tx[t].lock_type
    PROVE  TxInv'
<1>1. tx[t] \in Transactions /\ TxOK
  BY DEF TxInv, TxOK, NoTx
<1>2. PICK lock_type \in LockingTypes : lock_type = tx[t].lock_type
  BY <1>1 DEF Transactions
<1>3. PICK m : m = Last(tx[t].mtx_stack)
  OBVIOUS
<1>4. /\ TxOK' /\ m \in Mutexes
      /\ Mine(t, m) = OneOf(lock_type) /\ Mine(t, m)' = NoCounters
      /\ \A n \in Mutexes \ {m} : Mine(t, n)' = Mine(t, n)
      /\ \A u \in Threads \ {t} : tx'[u] = tx[u]
  BY <1>1, <1>2, <1>3, PopMine
<1>5. PICK v \in Views : v = View(t, m)
  BY <1>4, RunningFacts
<1>6. /\ v.op = "none" /\ Agree(v, t) /\ v.counters \in Counters
      /\ v.counters = counter_storage[t][m]
      /\ CountsWith(t, m, OneOf(lock_type))
      /\ \A op \in CallOps : In(t, m, op) = 0
  BY <1>4, <1>5, RunningFacts
<1> DEFINE k == OneOf(lock_type)
<1>7. /\ k.wrapper_count = 1
      /\ k.shared_lock_counter = One(lock_type = "shared_locked")
      /\ k.unique_lock_counter = One(lock_type = "unique_locked")
      /\ NoCounters.wrapper_count = 0
      /\ NoCounters.shared_lock_counter = 0
      /\ NoCounters.unique_lock_counter = 0
      /\ k \in Counters /\ NoCounters \in Counters
  BY OneOfFacts DEF OneOf, NoCounters, Beside
<1> HIDE DEF k
<1>8. /\ v.counters.wrapper_count = Cardinality(Objects(t, m)) + 1
      /\ v.counters.shared_lock_counter
            = Cardinality(Typed(t, m, "shared_locked")) + One(lock_type = "shared_locked")
      /\ v.counters.unique_lock_counter
            = Cardinality(Typed(t, m, "unique_locked")) + One(lock_type = "unique_locked")
  BY <1>6, <1>7, ObjectsFinite DEF CountsWith, k
<1>9. /\ lock_type \in MtxLockType /\ v.counters.wrapper_count > 0
      /\ lock_type = "shared_locked" => v.counters.shared_lock_counter > 0
      /\ lock_type = "unique_locked" => v.counters.unique_lock_counter > 0
      /\ v.counters.wrapper_count = 1 =>
            /\ v.counters.shared_lock_counter = One(lock_type = "shared_locked")
            /\ v.counters.unique_lock_counter = One(lock_type = "unique_locked")
  BY <1>8, ObjectsFinite DEF One, LockingTypes
<1>10. PICK w \in Views : w = Leave(v, t, lock_type)
  BY <1>6, <1>9, LeaveFacts DEF ViewStep
<1>11. /\ ViewStep(v, w, t)
       /\ w.op \in {"none", "relock_shared"}
       /\ w.counters.wrapper_count - One(w.op = "relock_shared")
             = v.counters.wrapper_count - 1
       /\ w.counters.shared_lock_counter
             = v.counters.shared_lock_counter - One(lock_type = "shared_locked")
       /\ w.counters.unique_lock_counter
             = v.counters.unique_lock_counter - One(lock_type = "unique_locked")
  BY <1>6, <1>9, <1>10, LeaveFacts
<1>12. /\ w.counters.wrapper_count - One(w.op = "relock_shared") + k.wrapper_count
             = counter_storage[t][m].wrapper_count + NoCounters.wrapper_count
       /\ w.counters.shared_lock_counter + One(w.op = "lock_shared")
             + k.shared_lock_counter
             = counter_storage[t][m].shared_lock_counter + NoCounters.shared_lock_counter
       /\ w.counters.unique_lock_counter + One(w.op = "lock")
             + k.unique_lock_counter
             = counter_storage[t][m].unique_lock_counter + NoCounters.unique_lock_counter
  <2>1. One(w.op = "lock_shared") = 0 /\ One(w.op = "lock") = 0
    BY <1>11 DEF One
  <2>2. w.counters \in Counters /\ One(w.op = "relock_shared") \in Nat
    BY DEF Views, One
  <2>3. One(lock_type = "shared_locked") \in Nat /\ One(lock_type = "unique_locked") \in Nat
    BY DEF One
  <2>4. PICK r \in Nat : r = One(w.op = "relock_shared")
    BY <2>2
  <2>5. PICK sh \in Nat : sh = One(lock_type = "shared_locked")
    BY <2>3
  <2>6. PICK un \in Nat : un = One(lock_type = "unique_locked")
    BY <2>3
  <2>7. PICK c \in Counters : c = counter_storage[t][m]
    BY <1>6
  <2>8. PICK d \in Counters : d = w.counters
    BY <2>2
  <2>9. /\ d.wrapper_count - r = c.wrapper_count - 1
        /\ d.shared_lock_counter = c.shared_lock_counter - sh
        /\ d.unique_lock_counter = c.unique_lock_counter - un
    BY <1>6, <1>11, <2>4, <2>5, <2>6, <2>7, <2>8
  <2>10. /\ d.wrapper_count - r + 1 = c.wrapper_count + 0
         /\ d.shared_lock_counter + 0 + sh = c.shared_lock_counter + 0
         /\ d.unique_lock_counter + 0 + un = c.unique_lock_counter + 0
    BY <2>9
  <2> QED
    BY <1>7, <2>1, <2>4, <2>5, <2>6, <2>7, <2>8, <2>10
<1>13. /\ ViewStep(View(t, m), w, t) /\ Store(t, m, w)
       /\ TypeOK /\ CountersMatchMutex /\ CountsWith(t, m, k)
  BY <1>2, <1>3, <1>5, <1>6, <1>10, <1>11 DEF Pop, TxInv, k
<1>14. MethodStep(t, m) /\ CountsWith(t, m, NoCounters)'
  BY <1>4, <1>7, <1>12, <1>13, StoreStep
<1> QED
  BY <1>4, <1>14, TxStepInv

LEMMA TxBackOffInv ==
    ASSUME TxInv, NEW t \in Threads, TxBackOff(t)
    PROVE  TxInv'
<1>1. /\ call[t] = Running /\ tx[t] \in Transactions /\ tx[t].mtx_stack # <<>>
      /\ Pop(t) /\ UNCHANGED locks
  BY DEF TxBackOff, TxInv, TxOK, NoTx, Transactions
<1> DEFINE s == tx[t].mtx_stack
           p == IF Len(s) = 1 THEN "locking" ELSE "backing_off"
<1>2. /\ s \in Seq(Mutexes) /\ NoRepeats(s) /\ s # <<>>
      /\ Range(s) \subseteq tx[t].mtx_set
  BY <1>1 DEF Transactions
<1>3. /\ Front(s) \in Seq(Mutexes) /\ NoRepeats(Front(s))
      /\ p # "locking" => Front(s) # <<>>
      /\ Range(Front(s)) \subseteq tx[t].mtx_set
  BY <1>2, PopFacts
<1>4. PICK y : y = [tx[t] EXCEPT !.mtx_stack = Front(s), !.phase = p]
  OBVIOUS
<1>5. tx' = [tx EXCEPT ![t] = y]
  <2>1. tx' = [tx EXCEPT ![t].mtx_stack = Front(s), ![t].phase = p]
    BY DEF TxBackOff
  <2>2. tx \in [Threads -> Transactions \cup {NoTx}]
    BY DEF TxInv, TxOK
  <2> HIDE DEF s, p
  <2> QED
    BY <1>4, <2>1, <2>2
<1>6. p \in {"locking", "backing_off"}
  OBVIOUS
<1> HIDE DEF s, p
<1>7. /\ y.mtx_stack = Front(s) /\ y.phase = p
      /\ y.mtx_set = tx[t].mtx_set /\ y.lock_type = tx[t].lock_type
      /\ y \in [phase     : {"locking", "backing_off", "ending"},
                mtx_set   : (SUBSET Mutexes) \ {{}},
                lock_type : LockingTypes,
                mtx_stack : Seq(Mutexes)]
  BY <1>1, <1>3, <1>4, <1>6 DEF Transactions
<1>8. y \in Transactions
  BY <1>3, <1>7 DEF Transactions
<1> QED
  BY <1>1, <1>5, <1>7, <1>8, PopInv DEF s

LEMMA TxEndInv ==
    ASSUME TxInv, NEW t \in Threads, TxEnd(t)
    PROVE  TxInv'
<1>1. /\ call[t] = Running /\ tx[t] \in Transactions
      /\ Pop(t) /\ UNCHANGED locks
  BY DEF TxEnd, Held, TxInv, TxOK, NoTx
<1> DEFINE s == tx[t].mtx_stack
<1>2. s # <<>>
  <2>1. CASE tx[t].phase = "ending"
    BY <1>1, <2>1 DEF Transactions
  <2>2. CASE Held(t)
    <3>1. Range(<<>>) = {}
      BY DEF Range
    <3> QED
      BY <1>1, <2>2, <3>1 DEF Held, Missing, Acquired, Transactions
  <2> QED
    BY <2>1, <2>2 DEF TxEnd
<1>3. /\ s \in Seq(Mutexes) /\ NoRepeats(s)
      /\ Range(s) \subseteq tx[t].mtx_set
  BY <1>1 DEF Transactions
<1>4. /\ Front(s) \in Seq(Mutexes) /\ NoRepeats(Front(s))
      /\ Front(s) = <<>> <=> Len(s) = 1
      /\ Range(Front(s)) \subseteq tx[t].mtx_set
  BY <1>2, <1>3, PopFacts
<1>5. CASE Len(s) = 1
  <2>1. tx' = [tx EXCEPT ![t] = NoTx] /\ NoTx.mtx_stack = Front(s)
    BY <1>4, <1>5 DEF TxEnd, NoTx
  <2> QED
    BY <1>1, <1>2, <2>1, PopInv
<1>6. CASE Len(s) # 1
  <2>1. PICK y : y = [tx[t] EXCEPT !.mtx_stack = Front(s), !.phase = "ending"]
    OBVIOUS
  <2>2. tx' = [tx EXCEPT ![t] = y]
    <3>1. tx' = [tx EXCEPT ![t].mtx_stack = Front(s), ![t].phase = "ending"]
      BY <1>6 DEF TxEnd
    <3>2. tx \in [Threads -> Transactions \cup {NoTx}]
      BY DEF TxInv, TxOK
    <3> HIDE DEF s
    <3> QED
      BY <2>1, <3>1, <3>2
  <2> HIDE DEF s
  <2>3. /\ y.mtx_stack = Front(s) /\ y.phase = "ending"
        /\ y.mtx_set = tx[t].mtx_set /\ y.lock_type = tx[t].lock_type
        /\ y \in [phase     : {"locking", "backing_off", "ending"},
                  mtx_set   : (SUBSET Mutexes) \ {{}},
                  lock_type : LockingTypes,
                  mtx_stack : Seq(Mutexes)]
    BY <1>1, <1>4, <2>1 DEF Transactions
  <2>4. y \in Transactions
    BY <1>4, <1>6, <2>3 DEF Transactions
  <2> QED
    BY <1>1, <1>2, <2>2, <2>3, <2>4, PopInv DEF s
<1> QED
  BY <1>5, <1>6

\* A step of the lock objects of SharedRecursiveMutex leaves the transactions
\* alone, and they what it counts.
LEMMA OtherStepInv ==
    ASSUME TxInv, UNCHANGED tx, NEW t \in Threads, NEW m \in Mutexes,
           \A k \in Beside :
              CountsWith(t, m, k) => MethodStep(t, m) /\ CountsWith(t, m, k)'
    PROVE  TxInv'
<1>1. PICK k \in Beside : k = Mine(t, m)
  BY MineFacts
<1>2. CountsWith(t, m, k)
  BY <1>1, TxMatchIsCountsWith DEF TxInv
<1>3. TxOK' /\ \A n \in Mutexes : Mine(t, n)' = Mine(t, n)
  BY DEF TxInv, TxOK, Mine, Acquired
<1> QED
  BY <1>1, <1>2, <1>3, TxStepInv

LEMMA TxGrantedInv ==
    ASSUME TxInv, NEW t \in Threads, TxGranted(t)
    PROVE  TxInv'
<1>1. Granted(t) /\ UNCHANGED tx /\ TypeOK /\ CountersMatchMutex
  BY DEF TxGranted, TxInv
<1>2. call[t].op \in CallOps
  BY <1>1 DEF Granted, LockGranted, LockSharedGranted, RelockSharedGranted
<1>3. PICK m \in Mutexes : m = call[t].mtx
  BY <1>1, <1>2, CallFacts
<1> QED
  BY <1>1, <1>3, GrantedStep, OtherStepInv

LEMMA LockObjectInv ==
    ASSUME TxInv, NEW t \in Threads, LockObjectStep(t)
    PROVE  TxInv'
<1>1. UNCHANGED tx /\ TypeOK /\ NoMisuse /\ CountersMatchMutex
  BY DEF LockObjectStep, TxInv
<1>2. ASSUME NEW s \in Slots, NEW m \in Mutexes, NEW lock_type \in MtxLockType,
             Construct(t, s, m, lock_type)
      PROVE  TxInv'
  BY <1>1, <1>2, ConstructStep, OtherStepInv
<1>3. ASSUME NEW s \in Slots, Destroy(t, s)
      PROVE  TxInv'
  <2>1. /\ call[t] = Running /\ locks' = [locks EXCEPT ![t][s] = NoLock]
    BY <1>1, <1>3, DestroyCases
  <2>2. CASE /\ locks[t][s].mtx = NoMutex
             /\ UNCHANGED <<owner, sharers, counter_storage, call, misused>>
    <3>1. /\ TypeOK' /\ NoMisuse' /\ CountersMatchMutex'
          /\ \A u \in Threads, n \in Mutexes, k \in Counters :
                CountsWith(u, n, k) => CountsWith(u, n, k)'
      BY <1>1, <2>1, <2>2, DestroyEmptyStep
    <3>2. TxOK' /\ \A u \in Threads, n \in Mutexes : Mine(u, n)' = Mine(u, n)
      BY <1>1 DEF TxInv, TxOK, Mine, Acquired
    <3> QED
      BY <3>1, <3>2, KeptInv
  <2>3. ASSUME NEW m \in Mutexes, NEW lock_type \in MtxLockType,
               locks[t][s] = [mtx |-> m, lock_type |-> lock_type],
               Store(t, m, Leave(View(t, m), t, lock_type))
        PROVE  TxInv'
    BY <1>1, <2>1, <2>3, DestroyLockStep, OtherStepInv
  <2> QED
    BY <1>1, <1>3, <2>2, <2>3, DestroyCases
<1> QED
  BY <1>2, <1>3 DEF LockObjectStep

LEMMA TxStutterInv == ASSUME TxInv, UNCHANGED txVars PROVE TxInv'
<1>1. UNCHANGED vars /\ UNCHANGED tx
  BY DEF txVars, vars
<1>2. TxOK' /\ \A u \in Threads, n \in Mutexes : Mine(u, n)' = Mine(u, n)
  BY <1>1 DEF TxInv, TxOK, Mine, Acquired
<1> QED
  BY <1>1, <1>2, UnchangedInv

\* What the theorems below rest on: through attempts that fail, retries and
\* downgrades, mutexes, counters, lock objects and stacks agree.
THEOREM TxInvariance == TxSpec => []TxInv
<1>1. TxInit => TxInv
  BY InitTxInv
<1>2. TxInv /\ [TxNext]_txVars => TxInv'
  <2> SUFFICES ASSUME TxInv, [TxNext]_txVars PROVE TxInv'
    OBVIOUS
  <2>1. ASSUME NEW t \in Threads, NEW S \in SUBSET Mutexes,
               NEW lock_type \in MtxLockType, TxBegin(t, S, lock_type)
        PROVE  TxInv'
    BY <2>1, TxBeginInv
  <2>2. ASSUME NEW t \in Threads, TxRuns(t)
        PROVE  TxInv'
    BY <2>2, TxFirstInv, TxTryInv, TxBackOffInv DEF TxRuns
  <2>3. ASSUME NEW t \in Threads, TxEnd(t)
        PROVE  TxInv'
    BY <2>3, TxEndInv
  <2>4. ASSUME NEW t \in Threads, TxGranted(t)
        PROVE  TxInv'
    BY <2>4, TxGrantedInv
  <2>5. ASSUME NEW t \in Threads, LockObjectStep(t)
        PROVE  TxInv'
    BY <2>5, LockObjectInv
  <2>6. CASE UNCHANGED txVars
    BY <2>6, TxStutterInv
  <2> QED
    BY <2>1, <2>2, <2>3, <2>4, <2>5, <2>6 DEF TxNext
<1> QED
  BY <1>1, <1>2, PTL DEF TxSpec

\* No transaction ever makes a call on a std::shared_mutex that is undefined.
THEOREM TxNeverMisused == TxSpec => []NoMisuse
<1>1. TxInv => NoMisuse
  BY DEF TxInv
<1> QED
  BY <1>1, TxInvariance, PTL

\* Mutexes and thread_local counters agree when transactions come in between.
THEOREM TxCountersAgree == TxSpec => []CountersMatchMutex
<1>1. TxInv => CountersMatchMutex
  BY DEF TxInv
<1> QED
  BY <1>1, TxInvariance, PTL

\* The counters are the lock objects and the stack of the transaction.
THEOREM TxCountersCount == TxSpec => []TxCountersMatch
<1>1. TxInv => TxCountersMatch
  BY DEF TxInv
<1> QED
  BY <1>1, TxInvariance, PTL

-----------------------------------------------------------------------------
(* A transaction excludes what it must *)

LEMMA UseIsHolding ==
    ASSUME TxInv, NEW t \in Threads, NEW m \in Mutexes
    PROVE  /\ UsesUniquely(t, m) => owner[m] = t
           /\ Uses(t, m) => owner[m] = t \/ t \in sharers[m]
<1>1. SUFFICES ASSUME Uses(t, m)
               PROVE  /\ UsesUniquely(t, m) => owner[m] = t
                      /\ owner[m] = t \/ t \in sharers[m]
  BY DEF Uses
<1>2. call[t].mtx # m
  BY <1>1, ConstantsAssumption DEF Uses, UsesUniquely, Held, ReliesOn, Running
<1>3. /\ Agree(Seen(t, m), t) /\ counter_storage[t][m] \in Counters
      /\ CountsWith(t, m, Mine(t, m))
  BY TxMatchIsCountsWith DEF TxInv, CountersMatchMutex, TypeOK
<1>4. \A op \in CallOps : In(t, m, op) = 0
  BY <1>2 DEF In
<1>5. /\ Seen(t, m).op = "none" /\ Seen(t, m).counters = counter_storage[t][m]
      /\ Seen(t, m).owner = owner[m] /\ Seen(t, m).sharers = sharers[m]
  BY <1>2 DEF Seen, View
<1>6. /\ counter_storage[t][m].unique_lock_counter > 0 => owner[m] = t
      /\ counter_storage[t][m].shared_lock_counter > 0 =>
            owner[m] = t \/ t \in sharers[m]
  BY <1>3, <1>5 DEF Agree
<1>7. PICK k \in Counters : k = Mine(t, m)
  BY MineFacts DEF Beside
<1>8. /\ counter_storage[t][m].unique_lock_counter
            = Cardinality(Typed(t, m, "unique_locked")) + k.unique_lock_counter
      /\ counter_storage[t][m].shared_lock_counter
            = Cardinality(Typed(t, m, "shared_locked")) + k.shared_lock_counter
  BY <1>3, <1>4, <1>7, ObjectsFinite DEF CountsWith
<1>9. \A ty \in MtxLockType :
         Typed(t, m, ty) # {} => Cardinality(Typed(t, m, ty)) > 0
  BY ObjectsFinite, FS_EmptySet
<1>10. ASSUME Held(t), m \in tx[t].mtx_set
       PROVE  /\ tx[t].lock_type \in LockingTypes
              /\ tx[t].lock_type = "unique_locked" => k.unique_lock_counter > 0
              /\ tx[t].lock_type = "shared_locked" => k.shared_lock_counter > 0
  <2>1. tx[t] \in Transactions
    BY <1>10 DEF TxInv, TxOK, Held, NoTx
  <2>2. m \in Acquired(t)
    BY <1>10 DEF Held, Missing
  <2>3. tx[t].lock_type \in LockingTypes
    BY <2>1 DEF Transactions
  <2>4. k = OneOf(tx[t].lock_type)
    BY <1>7, <2>2 DEF Mine
  <2> QED
    BY <2>3, <2>4 DEF OneOf, One
<1>11. /\ ReliesOn(t, m, "unique_locked") =>
             counter_storage[t][m].unique_lock_counter > 0
       /\ ReliesOn(t, m, "shared_locked") =>
             counter_storage[t][m].shared_lock_counter > 0
  BY <1>8, <1>9, ObjectsFinite DEF ReliesOn
<1>12. Held(t) /\ m \in tx[t].mtx_set =>
          /\ tx[t].lock_type = "unique_locked" =>
                counter_storage[t][m].unique_lock_counter > 0
          /\ tx[t].lock_type = "shared_locked" =>
                counter_storage[t][m].shared_lock_counter > 0
          /\ tx[t].lock_type \in LockingTypes
  BY <1>8, <1>10, ObjectsFinite
<1> QED
  BY <1>1, <1>6, <1>11, <1>12 DEF Uses, UsesUniquely, LockingTypes

LEMMA ExclusionHolds == TxInv => TxExcludes
<1>1. ASSUME TxInv, NEW t \in Threads, NEW u \in Threads, NEW m \in Mutexes,
             t # u, UsesUniquely(t, m), Uses(u, m)
      PROVE  FALSE
  <2>1. owner[m] = t /\ (owner[m] = u \/ u \in sharers[m])
    BY <1>1, UseIsHolding
  <2>2. Agree(Seen(t, m), t)
    BY <1>1 DEF TxInv, CountersMatchMutex
  <2>3. Seen(t, m).owner = t /\ Seen(t, m).sharers = sharers[m] /\ t # NoThread
    BY <2>1, ConstantsAssumption DEF Seen, View
  <2>4. sharers[m] = {}
    BY <2>2, <2>3 DEF Agree
  <2> QED
    BY <1>1, <2>1, <2>4
<1> QED
  BY <1>1 DEF TxExcludes

LEMMA ExclusionHoldsNext == TxInv' => TxExcludes'
  BY ExclusionHolds, PTL

\* A unique transaction, like a unique lock object, is alone on each of its
\* mutexes: among transactions and lock objects of the other threads.
THEOREM TxExclusion == TxSpec => []TxExcludes
  BY ExclusionHolds, TxInvariance, PTL

-----------------------------------------------------------------------------
(* What a step of one thread leaves alone *)

\* Only t has moved; if it had its transaction before and has one after, it is
\* the same.
OnlyMoves(t) ==
    /\ \A u \in Threads \ {t} : tx'[u] = tx[u] /\ call'[u] = call[u]
    /\ Held(t) /\ Held(t)' => /\ tx'[t].mtx_set = tx[t].mtx_set
                              /\ tx'[t].lock_type = tx[t].lock_type

StepOf(t) ==
    \/ \E S \in SUBSET Mutexes, lock_type \in MtxLockType : TxBegin(t, S, lock_type)
    \/ TxRuns(t) \/ TxEnd(t) \/ TxGranted(t) \/ LockObjectStep(t)

LEMMA OneMoves ==
    ASSUME TxInv, NEW t \in Threads, StepOf(t)
    PROVE  OnlyMoves(t)
<1>0. /\ tx \in [Threads -> Transactions \cup {NoTx}]
      /\ call \in [Threads -> Calls]
  BY DEF TxInv, TxOK, TypeOK
<1>1. ASSUME NEW m, NEW w, Store(t, m, w)
      PROVE  \A u \in Threads \ {t} : call'[u] = call[u]
  BY <1>0, <1>1 DEF Store
<1>2. ASSUME NEW S, NEW lock_type, TxBegin(t, S, lock_type)
      PROVE  OnlyMoves(t)
  <2>1. ~Held(t)
    BY <1>2 DEF TxBegin, Held, NoTx
  <2> QED
    BY <1>0, <1>2, <2>1 DEF TxBegin, OnlyMoves, vars
<1>3. ASSUME TxFirst(t)
      PROVE  OnlyMoves(t)
  BY <1>0, <1>1, <1>3 DEF TxFirst, OnlyMoves, Transactions, NoTx
<1>4. ASSUME TxTry(t)
      PROVE  OnlyMoves(t)
  BY <1>0, <1>1, <1>4 DEF TxTry, OnlyMoves, Transactions, NoTx
<1>5. ASSUME TxBackOff(t)
      PROVE  OnlyMoves(t)
  <2>1. ~Held(t)
    BY <1>5 DEF TxBackOff, Held
  <2> QED
    BY <1>0, <1>1, <1>5, <2>1 DEF TxBackOff, Pop, OnlyMoves
<1>6. ASSUME TxEnd(t)
      PROVE  OnlyMoves(t)
  <2>1. ~Held(t)'
    BY <1>0, <1>6 DEF TxEnd, Held, NoTx, Transactions
  <2> QED
    BY <1>0, <1>1, <1>6, <2>1 DEF TxEnd, Pop, OnlyMoves
<1>7. ASSUME TxGranted(t)
      PROVE  OnlyMoves(t)
  BY <1>1, <1>7
     DEF TxGranted, Granted, LockGranted, LockSharedGranted,
         RelockSharedGranted, OnlyMoves
<1>8. ASSUME LockObjectStep(t)
      PROVE  OnlyMoves(t)
  BY <1>1, <1>8 DEF LockObjectStep, Construct, Destroy, OnlyMoves
<1> QED
  BY <1>2, <1>3, <1>4, <1>5, <1>6, <1>7, <1>8 DEF StepOf, TxRuns

-----------------------------------------------------------------------------
(* Transactions implement AtomicTransactions *)

HeldBy(t) ==
    IF Held(t) THEN [mtx_set |-> tx[t].mtx_set, lock_type |-> tx[t].lock_type]
    ELSE [mtx_set |-> {}, lock_type |-> "unlocked"]

HeldView == [t \in Threads |-> HeldBy(t)]

\* In the state in which t has its transaction no other thread has one that is
\* in its way.
LEMMA HeldCompatible ==
    ASSUME TxInv, NEW t \in Threads, Held(t), NEW u \in Threads \ {t}
    PROVE  AT!Compatible(HeldBy(t), HeldBy(u))
<1>1. CASE ~Held(u)
  BY <1>1 DEF HeldBy, AT!Compatible
<1>2. CASE Held(u)
  <2>1. tx[t].lock_type \in LockingTypes /\ tx[u].lock_type \in LockingTypes
    BY <1>2 DEF TxInv, TxOK, Held, NoTx, Transactions
  <2>2. /\ HeldBy(t) = [mtx_set |-> tx[t].mtx_set, lock_type |-> tx[t].lock_type]
        /\ HeldBy(u) = [mtx_set |-> tx[u].mtx_set, lock_type |-> tx[u].lock_type]
    BY <1>2 DEF HeldBy
  <2>3. ASSUME NEW m \in tx[t].mtx_set \cap tx[u].mtx_set
        PROVE  tx[t].lock_type # "unique_locked" /\ tx[u].lock_type # "unique_locked"
    <3>1. m \in Mutexes
      BY <1>2, <2>3 DEF TxInv, TxOK, Held, NoTx, Transactions
    <3> QED
      BY <1>2, <2>3, <3>1, ExclusionHolds DEF TxExcludes, UsesUniquely, Uses
  <2> QED
    BY <2>1, <2>2, <2>3 DEF AT!Compatible, LockingTypes
<1> QED
  BY <1>1, <1>2

NoneInTheWay ==
    \A t \in Threads : Held(t) =>
        \A u \in Threads \ {t} : AT!Compatible(HeldBy(t), HeldBy(u))

LEMMA NoneIsInTheWay == TxInv => NoneInTheWay
  BY HeldCompatible DEF NoneInTheWay

LEMMA NoneIsInTheWayNext == TxInv' => NoneInTheWay'
  BY NoneIsInTheWay, PTL

LEMMA MoveRefines ==
    ASSUME TxInv, TxInv', NEW t \in Threads, OnlyMoves(t)
    PROVE  AT!Next \/ HeldView' = HeldView
<1>1. \A u \in Threads \ {t} : HeldBy(u)' = HeldBy(u)
  BY DEF OnlyMoves, HeldBy, Held, Missing, Acquired
<1>2. HeldView' = [HeldView EXCEPT ![t] = HeldBy(t)']
  BY <1>1 DEF HeldView
<1>3. \A u \in Threads : HeldView[u] = HeldBy(u)
  BY DEF HeldView
<1>4. CASE Held(t) /\ Held(t)'
  <2>1. HeldBy(t)' = HeldBy(t)
    BY <1>4 DEF OnlyMoves, HeldBy
  <2> QED
    BY <1>1, <2>1 DEF HeldView
<1>5. CASE ~Held(t) /\ ~Held(t)'
  <2>1. HeldBy(t)' = HeldBy(t)
    BY <1>5 DEF HeldBy
  <2> QED
    BY <1>1, <2>1 DEF HeldView
<1>6. CASE Held(t) /\ ~Held(t)'
  <2>1. HeldBy(t)' = AT!Nothing
    BY <1>6 DEF HeldBy, AT!Nothing
  <2>2. HeldView[t] # AT!Nothing
    <3>1. tx[t].mtx_set # {}
      BY <1>6 DEF TxInv, TxOK, Held, NoTx, Transactions
    <3>2. HeldBy(t).mtx_set = tx[t].mtx_set /\ AT!Nothing.mtx_set = {}
      BY <1>6 DEF HeldBy, AT!Nothing
    <3> QED
      BY <1>3, <3>1, <3>2
  <2> QED
    BY <1>2, <2>1, <2>2 DEF AT!Next, AT!End, HeldView, HeldBy
<1>7. CASE ~Held(t) /\ Held(t)'
  <2>1. HeldBy(t)' \in AT!Transactions
    BY <1>7 DEF HeldBy, AT!Transactions, TxInv, TxOK, Held, NoTx, Transactions,
                LockingTypes
  <2>2. HeldView[t] = AT!Nothing
    BY <1>3, <1>7 DEF HeldBy, AT!Nothing
  <2>3. \A u \in Threads \ {t} : AT!Compatible(HeldBy(t)', HeldView[u])
    BY <1>1, <1>3, <1>7, NoneIsInTheWayNext DEF NoneInTheWay, AT!Compatible
  <2> QED
    BY <1>2, <2>1, <2>2, <2>3 DEF AT!Next, AT!Begin, HeldView, HeldBy
<1> QED
  BY <1>4, <1>5, <1>6, <1>7

\* However a transaction comes by its mutexes, one after the other and with
\* attempts that fail, to the others it begins and ends in one step.
THEOREM TxRefinement == TxSpec => ImplementsAtomicTransactions
<1>1. TxInit => AT!Init
  BY DEF TxInit, AT!Init, AT!Nothing, Held, NoTx
<1>2. TxInv /\ TxInv' /\ [TxNext]_txVars => [AT!Next]_HeldView
  <2> SUFFICES ASSUME TxInv, TxInv', [TxNext]_txVars
               PROVE  AT!Next \/ HeldView' = HeldView
    OBVIOUS
  <2>1. CASE TxNext
    BY <2>1, OneMoves, MoveRefines DEF TxNext, StepOf
  <2>2. CASE UNCHANGED txVars
    BY <2>2 DEF txVars, HeldView, HeldBy, Held, Missing, Acquired
  <2> QED
    BY <2>1, <2>2
<1> QED
  BY <1>1, <1>2, TxInvariance, PTL
     DEF TxSpec, ImplementsAtomicTransactions, AT!Spec, HeldView, HeldBy

-----------------------------------------------------------------------------
(* Without lock objects a transaction that waits holds nothing *)

\* Only the first mutex of an attempt is waited for.
WaitsForFirst ==
    \A t \in Threads : call[t] # Running => Acquired(t) = {call[t].mtx}

\* What a thread without lock objects counts is its stack.
LEMMA StackIsCounted ==
    ASSUME TxInv, Slots = {}, NEW t \in Threads, NEW m \in Mutexes,
           call[t].mtx # m
    PROVE  counter_storage[t][m] = Mine(t, m)
<1>1. CountsWith(t, m, Mine(t, m)) /\ counter_storage[t][m] \in Counters
  BY TxMatchIsCountsWith DEF TxInv, TypeOK
<1>2. \A op \in CallOps : In(t, m, op) = 0
  BY DEF In
<1>3. Objects(t, m) = {} /\ \A ty \in MtxLockType : Typed(t, m, ty) = {}
  BY DEF Objects, Typed
<1>4. Cardinality(Objects(t, m)) = 0
      /\ \A ty \in MtxLockType : Cardinality(Typed(t, m, ty)) = 0
  BY <1>3, FS_EmptySet
<1>5. PICK k \in Counters : k = Mine(t, m)
  BY MineFacts DEF Beside
<1>6. /\ counter_storage[t][m].wrapper_count = k.wrapper_count
      /\ counter_storage[t][m].shared_lock_counter = k.shared_lock_counter
      /\ counter_storage[t][m].unique_lock_counter = k.unique_lock_counter
  BY <1>1, <1>2, <1>4, <1>5 DEF CountsWith
<1> QED
  BY <1>1, <1>5, <1>6

LEMMA WaitsKept ==
    ASSUME WaitsForFirst, NEW t \in Threads, OnlyMoves(t),
           call'[t] # Running => Acquired(t)' = {call'[t].mtx}
    PROVE  WaitsForFirst'
  BY DEF WaitsForFirst, OnlyMoves, Acquired

LEMMA StoreCall ==
    ASSUME TypeOK, NEW t \in Threads, NEW m, NEW w, Store(t, m, w)
    PROVE  /\ \A u \in Threads \ {t} : call'[u] = call[u]
           /\ call'[t] = IF w.op = "none" THEN Running
                         ELSE [op |-> w.op, mtx |-> m]
  BY DEF Store, TypeOK

\* The other mutexes are only tried, and no lock that is given back is one
\* the thread has twice.
LEMMA NeverWaitsLater ==
    ASSUME TxInv, Slots = {}, NEW t \in Threads,
           TxTry(t) \/ TxBackOff(t) \/ TxEnd(t)
    PROVE  call'[t] = Running
<1>1. call[t] = Running /\ tx[t] \in Transactions /\ TypeOK
  BY DEF TxTry, TxBackOff, TxEnd, Held, TxInv, TxOK, NoTx
<1>2. PICK lock_type \in LockingTypes : lock_type = tx[t].lock_type
  BY <1>1 DEF Transactions
<1>3. ASSUME NEW m \in Mutexes
      PROVE  /\ View(t, m) \in Views /\ View(t, m).op = "none"
             /\ Agree(View(t, m), t) /\ View(t, m).counters = Mine(t, m)
  BY <1>1, ConstantsAssumption, RunningFacts, StackIsCounted DEF Running
<1>4. CASE TxTry(t)
  <2>1. Missing(t) \in SUBSET Mutexes /\ Missing(t) # {}
    BY <1>1, <1>4 DEF TxTry, Missing, Transactions
  <2>2. PICK m \in Missing(t) : m = Min(Missing(t))
    BY <2>1, MinIsIn
  <2>3. PICK v \in Views : v = View(t, m)
    BY <1>3, <2>1
  <2>4. v.counters = NoCounters
    BY <1>3, <2>1, <2>2, <2>3 DEF Mine, Missing
  <2>5. v.op = "none" /\ Agree(v, t) /\ v.owner = owner[m] /\ v.sharers = sharers[m]
    BY <1>3, <2>1, <2>3 DEF View
  <2>6. getLockType(v.counters) = "unlocked"
    BY <2>4 DEF getLockType, NoCounters
  <2>7. CASE /\ ~tryFails(t, m, lock_type)
             /\ Store(t, m, TryEnter(v, t, lock_type))
    <3>1. /\ v.owner = NoThread
          /\ lock_type = "unique_locked" => v.sharers = {}
      BY <2>3, <2>5, <2>6, <2>7 DEF tryFails, Free, ReadersEnter, View
    <3>2. PICK w \in Views : w = TryEnter(v, t, lock_type)
      BY <2>4, <2>5, <3>1, TryEnterFacts DEF ViewStep
    <3>3. w.op = "none"
      BY <2>4, <2>5, <2>6, <3>1, <3>2, TryEnterFacts
    <3> QED
      BY <1>1, <2>7, <3>2, <3>3, StoreCall
  <2>8. CASE Store(t, m, deleteCounterRef(createCountersRef(v), t))
    <3>1. PICK w \in Views : w = deleteCounterRef(createCountersRef(v), t)
      BY <2>4, <2>5, TryFailsFacts DEF ViewStep
    <3>2. Counting(v, w, 0, 0, 0)
      BY <2>4, <2>5, <3>1, TryFailsFacts
    <3>3. w.op = "none"
      BY <2>5, <3>2 DEF Counting
    <3> QED
      BY <1>1, <2>8, <3>1, <3>3, StoreCall
  <2> QED
    BY <1>2, <1>4, <2>2, <2>3, <2>7, <2>8 DEF TxTry
<1>5. CASE TxBackOff(t) \/ TxEnd(t)
  <2>1. tx[t].mtx_stack # <<>>
    <3>1. Range(<<>>) = {}
      BY DEF Range
    <3> QED
      BY <1>1, <1>5, <3>1
         DEF TxBackOff, TxEnd, Held, Missing, Acquired, Transactions
  <2>2. PICK m \in Mutexes : m = Last(tx[t].mtx_stack) /\ m \in Acquired(t)
    BY <1>1, <2>1, PopFacts DEF Transactions, Acquired
  <2>3. PICK v \in Views : v = View(t, m)
    BY <1>3
  <2>4. v.op = "none" /\ Agree(v, t) /\ v.counters = OneOf(lock_type)
    BY <1>2, <1>3, <2>2, <2>3 DEF Mine
  <2>5. /\ v.counters.wrapper_count = 1
        /\ v.counters.shared_lock_counter = One(lock_type = "shared_locked")
        /\ v.counters.unique_lock_counter = One(lock_type = "unique_locked")
        /\ lock_type = "shared_locked" => v.counters.shared_lock_counter > 0
        /\ lock_type = "unique_locked" => v.counters.unique_lock_counter > 0
    BY <2>4 DEF OneOf, One
  <2>6. lock_type \in MtxLockType
    BY DEF LockingTypes
  <2>7. PICK w \in Views : w = Leave(v, t, lock_type)
    BY <2>4, <2>5, <2>6, LeaveFacts DEF ViewStep
  <2>8. /\ w.op \in {"none", "relock_shared"} /\ Agree(w, t)
        /\ w.counters.shared_lock_counter
              = v.counters.shared_lock_counter - One(lock_type = "shared_locked")
    BY <2>4, <2>5, <2>6, <2>7, LeaveFacts DEF ViewStep
  <2>9. w.counters.shared_lock_counter = 0
    BY <2>5, <2>8 DEF One
  <2>10. w.op = "none"
    BY <2>8, <2>9 DEF Agree
  <2>11. Store(t, m, w)
    BY <1>2, <1>5, <2>2, <2>3, <2>7 DEF TxBackOff, TxEnd, Pop
  <2> QED
    BY <1>1, <2>10, <2>11, StoreCall
<1> QED
  BY <1>4, <1>5

LEMMA GrantedReturns ==
    ASSUME TypeOK, NEW t \in Threads, Granted(t)
    PROVE  call'[t] = Running
<1> DEFINE m == call[t].mtx
           v == View(t, m)
<1>1. PICK w : Store(t, m, w) /\ w.op = "none"
  <2>1. CASE LockGranted(t)
    <3> DEFINE y == CountUnique([v EXCEPT !.owner = t])
    <3>1. y.op = "none"
      BY DEF CountUnique, View
    <3>2. Store(t, m, y)
      BY <2>1 DEF LockGranted
    <3> QED
      BY <3>1, <3>2
  <2>2. CASE LockSharedGranted(t)
    <3> DEFINE y == CountShared([v EXCEPT !.sharers = @ \cup {t}])
    <3>1. y.op = "none"
      BY DEF CountShared, View
    <3>2. Store(t, m, y)
      BY <2>2 DEF LockSharedGranted
    <3> QED
      BY <3>1, <3>2
  <2>3. CASE RelockSharedGranted(t)
    <3> DEFINE x == [v EXCEPT !.sharers = @ \cup {t}]
               y == deleteCounterRef(x, t)
    <3>1. x.op = "none"
      BY DEF View
    <3>2. y.op = "none"
      <4> HIDE DEF x
      <4> QED
        BY <3>1 DEF deleteCounterRef, RawUnlock, RawUnlockShared
    <3>3. Store(t, m, y)
      BY <2>3 DEF RelockSharedGranted
    <3> QED
      BY <3>2, <3>3
  <2> QED
    BY <2>1, <2>2, <2>3 DEF Granted
<1> QED
  BY <1>1, StoreCall

LEMMA WaitsForFirstNext ==
    ASSUME TxInv, WaitsForFirst, Slots = {}, NEW t \in Threads, StepOf(t)
    PROVE  WaitsForFirst'
<1>1. TypeOK /\ tx \in [Threads -> Transactions \cup {NoTx}]
  BY DEF TxInv, TxOK
<1>2. SUFFICES call'[t] # Running => Acquired(t)' = {call'[t].mtx}
  BY OneMoves, WaitsKept
<1>3. ASSUME NEW S, NEW lock_type, TxBegin(t, S, lock_type)
      PROVE  call'[t] = Running
  BY <1>3 DEF TxBegin, vars
<1>4. CASE TxFirst(t)
  <2>1. /\ tx[t] \in Transactions /\ tx[t].mtx_stack = <<>> /\ TxOK
    BY <1>1, <1>4 DEF TxFirst, TxInv, TxOK, NoTx
  <2>2. Missing(t) = tx[t].mtx_set
    BY <2>1 DEF Missing, Acquired, Range
  <2>3. PICK m : m = Min(tx[t].mtx_set)
    OBVIOUS
  <2>4. m \in tx[t].mtx_set
    BY <2>1, <2>3, MinIsIn DEF Transactions
  <2>5. PICK w : w = Enter(View(t, m), t, tx[t].lock_type)
    OBVIOUS
  <2>6. /\ tx' = [tx EXCEPT ![t].mtx_stack = <<m>>] /\ Store(t, m, w)
    BY <1>4, <2>3, <2>5 DEF TxFirst
  <2>7. tx' = [tx EXCEPT ![t].mtx_stack = Append(@, m)]
    <3>1. Append(<<>>, m) = <<m>>
      OBVIOUS
    <3> QED
      BY <2>1, <2>6, <3>1
  <2>8. Acquired(t)' = Acquired(t) \cup {m}
    <3>1. tx[t] # NoTx
      BY <2>1 DEF NoTx, Transactions
    <3>2. m \in Missing(t)
      BY <2>2, <2>4
    <3> QED
      BY <2>1, <2>7, <3>1, <3>2, PushMine
  <2>9. Acquired(t)' = {m}
    BY <2>1, <2>8 DEF Acquired, Range
  <2>10. call'[t] = Running \/ call'[t].mtx = m
    <3>1. CASE w.op = "none"
      BY <1>1, <2>6, <3>1, StoreCall
    <3>2. CASE w.op # "none"
      <4>1. call'[t] = [op |-> w.op, mtx |-> m]
        BY <1>1, <2>6, <3>2, StoreCall
      <4> QED
        BY <4>1
    <3> QED
      BY <3>1, <3>2
  <2> QED
    BY <2>9, <2>10
<1>5. CASE TxTry(t) \/ TxBackOff(t) \/ TxEnd(t)
  BY <1>5, NeverWaitsLater
<1>6. CASE TxGranted(t)
  BY <1>1, <1>6, GrantedReturns DEF TxGranted
<1>7. ~LockObjectStep(t)
  BY DEF LockObjectStep
<1> QED
  BY <1>3, <1>4, <1>5, <1>6, <1>7 DEF StepOf, TxRuns

LEMMA WaitingHoldsNothing ==
    ASSUME TxInv, WaitsForFirst, Slots = {}
    PROVE  NoHoldAndWait
<1>1. ASSUME NEW t \in Threads, NEW m \in Mutexes, call[t] # Running
      PROVE  ~Holds(View(t, m), t)
  <2>1. Agree(Seen(t, m), t) /\ call[t] \in Calls
    BY DEF TxInv, CountersMatchMutex, TypeOK
  <2>2. /\ Seen(t, m).owner = owner[m] /\ Seen(t, m).sharers = sharers[m]
        /\ View(t, m).owner = owner[m] /\ View(t, m).sharers = sharers[m]
        /\ Seen(t, m).counters = counter_storage[t][m]
        /\ Seen(t, m).op = IF call[t].mtx = m THEN call[t].op ELSE "none"
    BY DEF Seen, View
  <2>3. CASE call[t].mtx = m
    <3>1. call[t].op # "none"
      BY <1>1, <2>1 DEF Calls
    <3> QED
      BY <2>1, <2>2, <2>3, <3>1 DEF Agree, Holds
  <2>4. CASE call[t].mtx # m
    <3>1. m \notin Acquired(t)
      BY <1>1, <2>4 DEF WaitsForFirst
    <3>2. counter_storage[t][m] = NoCounters
      BY <2>4, <3>1, StackIsCounted DEF Mine
    <3> QED
      BY <2>1, <2>2, <2>4, <3>2 DEF Agree, Holds, NoCounters
  <2> QED
    BY <2>3, <2>4
<1> QED
  BY <1>1 DEF NoHoldAndWait

\* With transactions alone a thread that waits has nothing another thread
\* could wait for: there can be no deadlock.
THEOREM TxWaitsEmptyHanded == Slots = {} => (TxSpec => []NoHoldAndWait)
<1> SUFFICES ASSUME Slots = {}
             PROVE  TxSpec => []NoHoldAndWait
  OBVIOUS
<1>1. TxInit => WaitsForFirst
  BY DEF TxInit, Init, WaitsForFirst
<1>2. TxInv /\ WaitsForFirst /\ [TxNext]_txVars => WaitsForFirst'
  <2> SUFFICES ASSUME TxInv, WaitsForFirst, [TxNext]_txVars
               PROVE  WaitsForFirst'
    OBVIOUS
  <2>1. CASE TxNext
    BY <2>1, WaitsForFirstNext DEF TxNext, StepOf
  <2>2. CASE UNCHANGED txVars
    BY <2>2 DEF txVars, WaitsForFirst, Acquired
  <2> QED
    BY <2>1, <2>2
<1>3. TxInv /\ WaitsForFirst => NoHoldAndWait
  BY WaitingHoldsNothing
<1> QED
  BY <1>1, <1>2, <1>3, TxInvariance, PTL DEF TxSpec

HIDE DEF Counters, CallOps

-----------------------------------------------------------------------------
(* Scripts *)

LockSteps   == [op : {"lock"}, mtx : Mutexes, lock_type : MtxLockType]
UnlockSteps == [op : {"unlock"}]
UseSteps    == [op : {"use"}, reads : SUBSET AllData, writes : SUBSET AllData]

ScriptSteps == LockSteps \cup UnlockSteps \cup UseSteps

\* d[i] lock objects are open before step i of script s.
DepthsOf(s, d) ==
    /\ d \in [1 .. Len(s) + 1 -> Nat]
    /\ d[1] = 0
    /\ \A i \in 1 .. Len(s) :
          /\ s[i].op = "lock" => d[i + 1] = d[i] + 1
          /\ s[i].op = "unlock" => d[i] = d[i + 1] + 1
          /\ s[i].op = "use" => d[i + 1] = d[i]

\* What a script opens it closes.
Nested(s) ==
    /\ s \in Seq(ScriptSteps)
    /\ \E d : DepthsOf(s, d) /\ d[Len(s) + 1] = 0

LEMMA StepKinds ==
    ASSUME NEW x \in ScriptSteps
    PROVE  /\ x.op \in {"lock", "unlock", "use"}
           /\ x.op = "lock" => x \in LockSteps
           /\ x.op = "use" => x \in UseSteps
  BY DEF ScriptSteps, LockSteps, UnlockSteps, UseSteps

LEMMA ConcatFacts ==
    ASSUME NEW a \in Seq(ScriptSteps), NEW b \in Seq(ScriptSteps)
    PROVE  LET c == a \o b
               n == Len(a)
               k == Len(b)
           IN /\ c \in Seq(ScriptSteps) /\ n \in Nat /\ k \in Nat /\ Len(c) = n + k
              /\ \A i \in 1 .. n : c[i] = a[i]
              /\ \A i \in 1 .. k : c[n + i] = b[i]
<1> DEFINE c == a \o b
           n == Len(a)
           k == Len(b)
<1>1. n \in Nat /\ k \in Nat
  BY LenProperties
<1>2. /\ c \in Seq(ScriptSteps) /\ Len(c) = n + k
      /\ \A i \in 1 .. n + k : c[i] = IF i <= n THEN a[i] ELSE b[i - n]
  BY ConcatProperties
<1> HIDE DEF c, n, k
<1>3. ASSUME NEW i \in 1 .. k PROVE c[n + i] = b[i]
  <2>1. n + i \in 1 .. n + k /\ ~(n + i <= n) /\ (n + i) - n = i
    BY <1>1
  <2> QED
    BY <1>2, <2>1
<1>4. \A i \in 1 .. n : c[i] = a[i]
  BY <1>1, <1>2
<1> QED
  BY <1>1, <1>2, <1>3, <1>4 DEF c, n, k

\* The depths of two scripts, one after the other.
Joined(a, b, f, g, d) ==
    /\ DepthsOf(a \o b, d) /\ d[Len(a \o b) + 1] = 0
    /\ \A i \in 1 .. Len(a) + 1 : d[i] = f[i]
    /\ \A i \in 1 .. Len(b) + 1 : d[Len(a) + i] = g[i]

LEMMA ConcatDepths ==
    ASSUME NEW a \in Seq(ScriptSteps), NEW b \in Seq(ScriptSteps),
           NEW f, DepthsOf(a, f), f[Len(a) + 1] = 0,
           NEW g, DepthsOf(b, g), g[Len(b) + 1] = 0
    PROVE  \E d : Joined(a, b, f, g, d)
<1> DEFINE c == a \o b
           n == Len(a)
           k == Len(b)
           d == [i \in 1 .. n + k + 1 |-> IF i <= n THEN f[i] ELSE g[i - n]]
<1>1. /\ n \in Nat /\ k \in Nat /\ Len(c) = n + k
      /\ \A i \in 1 .. n : c[i] = a[i]
      /\ \A i \in 1 .. k : c[n + i] = b[i]
  BY ConcatFacts
<1>2. n = Len(a) /\ k = Len(b)
  OBVIOUS
<1> HIDE DEF c, n, k
<1>3. d \in [1 .. n + k + 1 -> Nat]
  BY <1>1, <1>2 DEF DepthsOf
<1>4. /\ \A i \in 1 .. n + 1 : d[i] = f[i]
      /\ \A i \in 1 .. k + 1 : d[n + i] = g[i]
  BY <1>1, <1>2 DEF DepthsOf
<1> HIDE DEF d
<1>5. ASSUME NEW i \in 1 .. n + k
      PROVE  /\ c[i].op = "lock" => d[i + 1] = d[i] + 1
             /\ c[i].op = "unlock" => d[i] = d[i + 1] + 1
             /\ c[i].op = "use" => d[i + 1] = d[i]
  <2>1. CASE i <= n
    BY <1>1, <1>2, <1>4, <2>1 DEF DepthsOf
  <2>2. CASE i > n
    <3>1. PICK j \in 1 .. k : i = n + j
      <4>1. i - n \in 1 .. k /\ i = n + (i - n)
        BY <1>1, <2>2
      <4> QED
        BY <4>1
    <3>2. d[n + j] = g[j] /\ d[n + (j + 1)] = g[j + 1] /\ n + (j + 1) = i + 1
      BY <1>1, <1>4, <3>1
    <3>3. c[i] = b[j] /\ d[i] = g[j] /\ d[i + 1] = g[j + 1]
      BY <1>1, <3>1, <3>2
    <3> QED
      BY <1>2, <3>1, <3>3 DEF DepthsOf
  <2> QED
    BY <1>1, <2>1, <2>2
<1>6. d[1] = 0
  BY <1>1, <1>2, <1>4 DEF DepthsOf
<1>7. d[n + k + 1] = 0
  <2>1. d[n + (k + 1)] = g[k + 1] /\ n + (k + 1) = n + k + 1
    BY <1>1, <1>4
  <2> QED
    BY <1>2, <2>1
<1>8. DepthsOf(c, d) /\ d[Len(c) + 1] = 0
  BY <1>1, <1>3, <1>5, <1>6, <1>7 DEF DepthsOf
<1>9. Joined(a, b, f, g, d)
  BY <1>4, <1>8 DEF Joined, c, n, k
<1> QED
  BY <1>9

LEMMA NestedConcat ==
    ASSUME NEW a, NEW b, Nested(a), Nested(b)
    PROVE  Nested(a \o b)
<1>1. PICK f : DepthsOf(a, f) /\ f[Len(a) + 1] = 0
  BY DEF Nested
<1>2. PICK g : DepthsOf(b, g) /\ g[Len(b) + 1] = 0
  BY DEF Nested
<1>3. a \in Seq(ScriptSteps) /\ b \in Seq(ScriptSteps)
  BY DEF Nested
<1>4. a \o b \in Seq(ScriptSteps)
  BY <1>3, ConcatFacts
<1>5. PICK d : Joined(a, b, f, g, d)
  BY <1>1, <1>2, <1>3, ConcatDepths
<1> QED
  BY <1>4, <1>5 DEF Nested, Joined

LEMMA NestedUse ==
    ASSUME NEW r \in SUBSET AllData, NEW w \in SUBSET AllData
    PROVE  Nested(Use(r, w)) /\ Nested(<<>>)
<1>1. Nested(Use(r, w))
  <2> DEFINE u == [op |-> "use", reads |-> r, writes |-> w]
             s == <<u>>
             d == [i \in 1 .. 2 |-> 0]
  <2>1. u \in ScriptSteps
    BY DEF ScriptSteps, UseSteps
  <2>2. s \in Seq(ScriptSteps) /\ Len(s) = 1 /\ s[1].op = "use"
    BY <2>1
  <2>3. d \in [1 .. 2 -> Nat] /\ d[1] = 0 /\ d[2] = 0
    OBVIOUS
  <2> HIDE DEF s, d
  <2>4. DepthsOf(s, d) /\ d[Len(s) + 1] = 0
    BY <2>2, <2>3 DEF DepthsOf
  <2> QED
    BY <2>2, <2>4 DEF Nested, Use, s
<1>2. Nested(<<>>)
  <2> DEFINE s == <<>>
             d == [i \in 1 .. 1 |-> 0]
  <2>1. s \in Seq(ScriptSteps) /\ Len(s) = 0
    OBVIOUS
  <2>2. d \in [1 .. 1 -> Nat] /\ d[1] = 0
    OBVIOUS
  <2> HIDE DEF s, d
  <2>3. DepthsOf(s, d) /\ d[Len(s) + 1] = 0
    BY <2>1, <2>2 DEF DepthsOf
  <2> QED
    BY <2>1, <2>3 DEF Nested, s
<1> QED
  BY <1>1, <1>2

LEMMA LockedFacts ==
    ASSUME NEW x \in Mutexes, NEW lock_type \in MtxLockType,
           NEW b \in Seq(ScriptSteps)
    PROVE  LET s == Locked(x, lock_type, b)
           IN /\ s \in Seq(ScriptSteps) /\ Len(s) = Len(b) + 2 /\ Len(b) \in Nat
              /\ s[1] = [op |-> "lock", mtx |-> x, lock_type |-> lock_type]
              /\ \A i \in 1 .. Len(b) : s[i + 1] = b[i]
              /\ s[Len(b) + 2] = [op |-> "unlock"]
<1> DEFINE l == [op |-> "lock", mtx |-> x, lock_type |-> lock_type]
           u == [op |-> "unlock"]
           f == <<l>>
           e == <<u>>
           s == Locked(x, lock_type, b)
<1>1. l \in ScriptSteps /\ u \in ScriptSteps
  BY DEF ScriptSteps, LockSteps, UnlockSteps
<1>2. /\ f \in Seq(ScriptSteps) /\ Len(f) = 1 /\ f[1] = l
      /\ e \in Seq(ScriptSteps) /\ Len(e) = 1 /\ e[1] = u
  BY <1>1
<1>3. Len(b) \in Nat
  BY LenProperties
<1>4. s = f \o b \o e
  BY DEF Locked
<1> HIDE DEF l, u, f, e, s
<1>5. /\ f \o b \in Seq(ScriptSteps) /\ Len(f \o b) = 1 + Len(b)
      /\ \A i \in 1 .. 1 + Len(b) : (f \o b)[i] = IF i <= 1 THEN f[i] ELSE b[i - 1]
  <2>1. /\ f \o b \in Seq(ScriptSteps) /\ Len(f \o b) = Len(f) + Len(b)
        /\ \A i \in 1 .. Len(f) + Len(b) :
              (f \o b)[i] = IF i <= Len(f) THEN f[i] ELSE b[i - Len(f)]
    BY <1>2, ConcatProperties
  <2> QED
    BY <1>2, <2>1
<1>6. /\ s \in Seq(ScriptSteps) /\ Len(s) = Len(b) + 2
      /\ \A i \in 1 .. Len(b) + 2 :
            s[i] = IF i <= Len(b) + 1 THEN (f \o b)[i] ELSE e[i - (1 + Len(b))]
  BY <1>2, <1>3, <1>4, <1>5, ConcatProperties
<1>7. s[1] = l
  BY <1>2, <1>3, <1>5, <1>6
<1>8. s[Len(b) + 2] = u
  BY <1>2, <1>3, <1>6
<1>9. ASSUME NEW i \in 1 .. Len(b)
      PROVE  s[i + 1] = b[i]
  BY <1>3, <1>5, <1>6
<1> QED
  BY <1>3, <1>6, <1>7, <1>8, <1>9 DEF s, l, u

LEMMA LockedDepths ==
    ASSUME NEW x \in Mutexes, NEW lock_type \in MtxLockType,
           NEW b \in Seq(ScriptSteps),
           NEW f, DepthsOf(b, f), f[Len(b) + 1] = 0
    PROVE  LET s == Locked(x, lock_type, b)
           IN \E d : /\ DepthsOf(s, d) /\ d[Len(s) + 1] = 0
                     /\ \A i \in 1 .. Len(b) + 1 : d[i + 1] = f[i] + 1
<1> DEFINE s == Locked(x, lock_type, b)
           n == Len(b)
<1>1. /\ s \in Seq(ScriptSteps) /\ Len(s) = n + 2 /\ n \in Nat
      /\ s[1].op = "lock" /\ \A i \in 1 .. n : s[i + 1] = b[i]
      /\ s[n + 2].op = "unlock"
  <2>2. /\ s \in Seq(ScriptSteps) /\ Len(s) = n + 2 /\ n \in Nat
        /\ s[1] = [op |-> "lock", mtx |-> x, lock_type |-> lock_type]
        /\ \A i \in 1 .. n : s[i + 1] = b[i]
        /\ s[n + 2] = [op |-> "unlock"]
    BY LockedFacts
  <2> HIDE DEF s, n
  <2> QED
    BY <2>2
<1>2. DepthsOf(b, f) /\ f[n + 1] = 0
  OBVIOUS
<1>3. n = Len(b)
  OBVIOUS
<1> DEFINE d == [i \in 1 .. n + 3 |-> IF i = 1 \/ i = n + 3 THEN 0 ELSE f[i - 1] + 1]
<1> HIDE DEF s, n
<1>4. f \in [1 .. n + 1 -> Nat]
  BY <1>2, <1>3 DEF DepthsOf
<1>5. d \in [1 .. n + 3 -> Nat]
  BY <1>1, <1>4
<1>6. d[1] = 0 /\ d[n + 3] = 0 /\ \A i \in 1 .. n + 1 : d[i + 1] = f[i] + 1
  BY <1>1, <1>4
<1> HIDE DEF d
<1>7. ASSUME NEW i \in 1 .. n + 2
      PROVE  /\ s[i].op = "lock" => d[i + 1] = d[i] + 1
             /\ s[i].op = "unlock" => d[i] = d[i + 1] + 1
             /\ s[i].op = "use" => d[i + 1] = d[i]
  <2>1. CASE i = 1
    <3>1. d[2] = 1
      <4>1. f[1] = 0 /\ d[1 + 1] = f[1] + 1
        BY <1>1, <1>2, <1>6 DEF DepthsOf
      <4> QED
        BY <4>1
    <3> QED
      BY <1>1, <1>6, <2>1, <3>1
  <2>2. CASE i = n + 2
    <3>1. d[n + 2] = 1
      <4>1. d[(n + 1) + 1] = f[n + 1] + 1 /\ (n + 1) + 1 = n + 2
        BY <1>1, <1>6
      <4> QED
        BY <1>2, <4>1
    <3> QED
      BY <1>1, <1>6, <2>2, <3>1
  <2>3. CASE i # 1 /\ i # n + 2
    <3>1. PICK j \in 1 .. n : i = j + 1
      <4>1. i - 1 \in 1 .. n /\ i = (i - 1) + 1
        BY <1>1, <2>3
      <4> QED
        BY <4>1
    <3>2. s[i] = b[j] /\ d[i] = f[j] + 1 /\ d[i + 1] = f[j + 1] + 1
      BY <1>1, <1>6, <3>1
    <3>3. f[j] \in Nat /\ f[j + 1] \in Nat
      BY <1>1, <1>4
    <3>4. /\ b[j].op = "lock" => f[j + 1] = f[j] + 1
          /\ b[j].op = "unlock" => f[j] = f[j + 1] + 1
          /\ b[j].op = "use" => f[j + 1] = f[j]
      BY <1>2, <1>3 DEF DepthsOf
    <3> QED
      BY <3>2, <3>3, <3>4
  <2> QED
    BY <2>1, <2>2, <2>3
<1>8. DepthsOf(s, d) /\ d[Len(s) + 1] = 0
  <2>1. Len(s) + 1 = n + 3
    BY <1>1
  <2> QED
    BY <1>1, <1>5, <1>6, <1>7, <2>1 DEF DepthsOf
<1> QED
  BY <1>6, <1>8 DEF s, n

LEMMA NestedLocked ==
    ASSUME NEW x \in Mutexes, NEW lock_type \in MtxLockType, NEW b, Nested(b)
    PROVE  Nested(Locked(x, lock_type, b))
<1>1. PICK f : DepthsOf(b, f) /\ f[Len(b) + 1] = 0
  BY DEF Nested
<1>2. b \in Seq(ScriptSteps)
  BY DEF Nested
<1>3. Locked(x, lock_type, b) \in Seq(ScriptSteps)
  BY <1>2, LockedFacts
<1> QED
  BY <1>1, <1>2, <1>3, LockedDepths DEF Nested

-----------------------------------------------------------------------------
(* What a script uses *)

UsesIn(s, x) ==
    {i \in 1 .. Len(s) : s[i].op = "use" /\ x \in s[i].reads \cup s[i].writes}

LEMMA UsesConcat ==
    ASSUME NEW a \in Seq(ScriptSteps), NEW b \in Seq(ScriptSteps), NEW x
    PROVE  /\ \A i \in UsesIn(a, x) : i \in UsesIn(a \o b, x) /\ (a \o b)[i] = a[i]
           /\ \A i \in UsesIn(b, x) : /\ Len(a) + i \in UsesIn(a \o b, x)
                                    /\ (a \o b)[Len(a) + i] = b[i]
           /\ \A i \in UsesIn(a \o b, x) :
                 \/ i \in UsesIn(a, x)
                 \/ \E k \in UsesIn(b, x) : i = Len(a) + k
<1> DEFINE c == a \o b
           n == Len(a)
           k == Len(b)
<1>1. /\ n \in Nat /\ k \in Nat /\ Len(c) = n + k
      /\ \A i \in 1 .. n : c[i] = a[i]
      /\ \A i \in 1 .. k : c[n + i] = b[i]
  BY ConcatFacts
<1>2. n = Len(a) /\ k = Len(b)
  OBVIOUS
<1> HIDE DEF c, n, k
<1>3. \A i \in UsesIn(a, x) : i \in UsesIn(c, x) /\ c[i] = a[i]
  BY <1>1, <1>2 DEF UsesIn
<1>4. \A i \in UsesIn(b, x) : n + i \in UsesIn(c, x) /\ c[n + i] = b[i]
  <2>1. ASSUME NEW i \in UsesIn(b, x)
        PROVE  n + i \in UsesIn(c, x) /\ c[n + i] = b[i]
    <3>1. i \in 1 .. k /\ b[i].op = "use" /\ x \in b[i].reads \cup b[i].writes
      BY <1>2 DEF UsesIn
    <3>2. n + i \in 1 .. Len(c) /\ c[n + i] = b[i]
      BY <1>1, <3>1
    <3> QED
      BY <3>1, <3>2 DEF UsesIn
  <2> QED
    BY <2>1
<1>5. ASSUME NEW i \in UsesIn(c, x)
      PROVE  i \in UsesIn(a, x) \/ \E l \in UsesIn(b, x) : i = n + l
  <2>1. i \in 1 .. n + k /\ c[i].op = "use" /\ x \in c[i].reads \cup c[i].writes
    BY <1>1 DEF UsesIn
  <2>2. CASE i <= n
    <3>1. i \in 1 .. n
      BY <1>1, <2>1, <2>2
    <3> QED
      BY <1>1, <1>2, <2>1, <3>1 DEF UsesIn
  <2>3. CASE i > n
    <3>1. PICK l \in 1 .. k : i = n + l
      <4>1. i - n \in 1 .. k /\ i = n + (i - n)
        BY <1>1, <2>1, <2>3
      <4> QED
        BY <4>1
    <3>2. c[n + l] = b[l]
      BY <1>1
    <3> QED
      BY <1>2, <2>1, <3>1, <3>2 DEF UsesIn
  <2> QED
    BY <1>1, <2>1, <2>2, <2>3
<1> QED
  BY <1>2, <1>3, <1>4, <1>5 DEF c

LEMMA UsesLocked ==
    ASSUME NEW m \in Mutexes, NEW lock_type \in MtxLockType,
           NEW b \in Seq(ScriptSteps), NEW x
    PROVE  LET s == Locked(m, lock_type, b)
           IN /\ \A i \in UsesIn(b, x) : i + 1 \in UsesIn(s, x) /\ s[i + 1] = b[i]
              /\ \A i \in UsesIn(s, x) : \E k \in UsesIn(b, x) : i = k + 1
<1> DEFINE s == Locked(m, lock_type, b)
           n == Len(b)
<1>1. /\ Len(s) = n + 2 /\ n \in Nat
      /\ s[1].op = "lock" /\ \A i \in 1 .. n : s[i + 1] = b[i]
      /\ s[n + 2].op = "unlock"
  <2>2. /\ Len(s) = n + 2 /\ n \in Nat
        /\ s[1] = [op |-> "lock", mtx |-> m, lock_type |-> lock_type]
        /\ \A i \in 1 .. n : s[i + 1] = b[i]
        /\ s[n + 2] = [op |-> "unlock"]
    BY LockedFacts
  <2> HIDE DEF s, n
  <2> QED
    BY <2>2
<1>2. n = Len(b)
  OBVIOUS
<1> HIDE DEF s, n
<1>3. ASSUME NEW i \in UsesIn(b, x)
      PROVE  i + 1 \in UsesIn(s, x) /\ s[i + 1] = b[i]
  <2>1. i \in 1 .. n /\ b[i].op = "use" /\ x \in b[i].reads \cup b[i].writes
    BY <1>2 DEF UsesIn
  <2>2. i + 1 \in 1 .. Len(s) /\ s[i + 1] = b[i]
    BY <1>1, <2>1
  <2> QED
    BY <2>1, <2>2 DEF UsesIn
<1>4. ASSUME NEW i \in UsesIn(s, x)
      PROVE  \E k \in UsesIn(b, x) : i = k + 1
  <2>1. i \in 1 .. n + 2 /\ s[i].op = "use" /\ x \in s[i].reads \cup s[i].writes
    BY <1>1 DEF UsesIn
  <2>2. i # 1 /\ i # n + 2
    BY <1>1, <2>1
  <2>3. i - 1 \in 1 .. n /\ i = (i - 1) + 1
    BY <1>1, <2>1, <2>2
  <2>4. PICK k \in 1 .. n : i = k + 1
    BY <2>3
  <2>5. s[k + 1] = b[k]
    BY <1>1
  <2> QED
    BY <1>2, <2>1, <2>4, <2>5 DEF UsesIn
<1> QED
  BY <1>3, <1>4 DEF s

\* A script that closes what it opens and uses nothing outside T.
Shaped(s, T) == Nested(s) /\ \A x : x \notin T => UsesIn(s, x) = {}

LEMMA NoUses ==
    ASSUME NEW s, NEW T, Shaped(s, T), NEW x, x \notin T
    PROVE  UsesIn(s, x) = {}
  BY DEF Shaped

LEMMA ShapedMore ==
    ASSUME NEW s, NEW T, Shaped(s, T), NEW U, T \subseteq U
    PROVE  Shaped(s, U)
  BY DEF Shaped

LEMMA ShapedUse ==
    ASSUME NEW r \in SUBSET AllData, NEW w \in SUBSET AllData,
           NEW T, r \cup w \subseteq T
    PROVE  Shaped(Use(r, w), T) /\ Shaped(<<>>, T)
<1>1. Nested(Use(r, w)) /\ Nested(<<>>)
  BY NestedUse
<1>2. \A x : UsesIn(<<>>, x) = {}
  <2>1. Len(<<>>) = 0 /\ 1 .. 0 = {}
    OBVIOUS
  <2> QED
    BY <2>1 DEF UsesIn
<1>3. \A x : x \notin T => UsesIn(Use(r, w), x) = {}
  <2> DEFINE u == [op |-> "use", reads |-> r, writes |-> w]
             s == <<u>>
  <2>1. Len(s) = 1 /\ s[1] = u /\ u.reads = r /\ u.writes = w /\ 1 .. 1 = {1}
    OBVIOUS
  <2> HIDE DEF s, u
  <2>2. \A x : x \notin T => UsesIn(s, x) = {}
    BY <2>1 DEF UsesIn
  <2> QED
    BY <2>2 DEF Use, s, u
<1> QED
  BY <1>1, <1>2, <1>3 DEF Shaped

LEMMA ShapedConcat ==
    ASSUME NEW a, NEW T, Shaped(a, T), NEW b, Shaped(b, T)
    PROVE  Shaped(a \o b, T)
<1>1. Nested(a \o b) /\ a \in Seq(ScriptSteps) /\ b \in Seq(ScriptSteps)
  BY NestedConcat DEF Shaped, Nested
<1>2. ASSUME NEW x, x \notin T
      PROVE  UsesIn(a \o b, x) = {}
  <2>1. UsesIn(a, x) = {} /\ UsesIn(b, x) = {}
    BY <1>2 DEF Shaped
  <2> QED
    BY <1>1, <2>1, UsesConcat
<1> QED
  BY <1>1, <1>2 DEF Shaped

LEMMA ShapedLocked ==
    ASSUME NEW m \in Mutexes, NEW lock_type \in MtxLockType,
           NEW b, NEW T, Shaped(b, T)
    PROVE  Shaped(Locked(m, lock_type, b), T)
<1>1. Nested(Locked(m, lock_type, b)) /\ b \in Seq(ScriptSteps)
  BY NestedLocked DEF Shaped, Nested
<1>2. ASSUME NEW x, x \notin T
      PROVE  UsesIn(Locked(m, lock_type, b), x) = {}
  <2>1. UsesIn(b, x) = {}
    BY <1>2 DEF Shaped
  <2> QED
    BY <1>1, <2>1, UsesLocked
<1> QED
  BY <1>1, <1>2 DEF Shaped

LEMMA ObjectFacts ==
    /\ theTable \in Mutexes /\ theRow \in Mutexes /\ theColumn \in Mutexes
    /\ theTable # theRow /\ theTable # theColumn /\ theRow # theColumn
    /\ Variables \subseteq Mutexes /\ theColumn \notin Variables
    /\ theTable \in Variables /\ theRow \in Variables
    /\ theField \notin Mutexes /\ theField \notin Variables /\ theField # theColumn
    /\ Mutexes \subseteq AllData /\ theField \in AllData
<1>1. /\ theTable \in Mutexes /\ theRow \in Mutexes /\ theColumn \in Mutexes
      /\ Cardinality({theTable, theRow, theColumn}) = 3 /\ theField \notin Mutexes
  BY ObjectsAssumption
<1>2. ASSUME NEW a, NEW b PROVE Cardinality({a, b}) <= 2
  <2>1. IsFiniteSet({a}) /\ Cardinality({a}) = 1
    BY FS_Singleton
  <2>2. Cardinality({a} \cup {b}) \in {1, 2}
    BY <2>1, FS_AddElement
  <2>3. {a, b} = {a} \cup {b}
    OBVIOUS
  <2> QED
    BY <2>2, <2>3
<1>3. /\ theTable # theRow /\ theTable # theColumn /\ theRow # theColumn
  <2>1. CASE theTable = theRow
    <3>1. {theTable, theRow, theColumn} = {theTable, theColumn}
      BY <2>1
    <3>2. Cardinality({theTable, theColumn}) <= 2
      BY <1>2
    <3> QED
      BY <1>1, <3>1, <3>2
  <2>2. CASE theTable = theColumn
    <3>1. {theTable, theRow, theColumn} = {theTable, theRow}
      BY <2>2
    <3>2. Cardinality({theTable, theRow}) <= 2
      BY <1>2
    <3> QED
      BY <1>1, <3>1, <3>2
  <2>3. CASE theRow = theColumn
    <3>1. {theTable, theRow, theColumn} = {theTable, theRow}
      BY <2>3
    <3>2. Cardinality({theTable, theRow}) <= 2
      BY <1>2
    <3> QED
      BY <1>1, <3>1, <3>2
  <2> QED
    BY <2>1, <2>2, <2>3
<1> QED
  BY <1>1, <1>3 DEF Variables, AllData

\* One use, and one use in the scope of one lock.
LEMMA ShapedSimple ==
    ASSUME NEW x \in Mutexes, NEW T, x \in T
    PROVE  /\ Shaped(Read(x), T) /\ Shaped(Write(x), T)
           /\ Shaped(Reading(x), T) /\ Shaped(Changing(x), T)
           /\ Shaped(linked(x), T) /\ Shaped(cloneResource(x), T)
           /\ Shaped(operand(x), T)
<1>1. Shaped(Use({x}, {}), T) /\ Shaped(Use({}, {x}), T) /\ Shaped(<<>>, T)
  <2>1. {x} \in SUBSET AllData /\ {} \in SUBSET AllData
    BY DEF AllData
  <2>2. {x} \cup {} \subseteq T /\ {} \cup {x} \subseteq T
    OBVIOUS
  <2> QED
    BY <2>1, <2>2, ShapedUse
<1>2. Shaped(Read(x), T) /\ Shaped(Write(x), T)
  BY <1>1 DEF Read, Write
<1>3. Shaped(linked(x), T) /\ Shaped(Reading(x), T) /\ Shaped(Changing(x), T)
  BY <1>1, <1>2, ShapedLocked DEF linked, Reading, Changing
<1> QED
  BY <1>2, <1>3, ShapedConcat DEF cloneResource, operand

LEMMA ShapedLink ==
    ASSUME NEW x \in Mutexes, NEW T
    PROVE  Shaped(linked(x), T) /\ Shaped(<<>>, T)
<1>1. Shaped(<<>>, T)
  <2>1. {} \in SUBSET AllData /\ {} \cup {} \subseteq T
    OBVIOUS
  <2> QED
    BY <2>1, ShapedUse
<1> QED
  BY <1>1, ShapedLocked DEF linked

-----------------------------------------------------------------------------
(* Which lock is open while a script uses an object *)

\* The lock object that step j opens is open after it, up to step h.
OpenFrom(s, d, j, h, m, lock_type) ==
    /\ DepthsOf(s, d) /\ d[Len(s) + 1] = 0
    /\ j \in 1 .. Len(s) /\ h \in 1 .. Len(s)
    /\ s[j] = [op |-> "lock", mtx |-> m, lock_type |-> lock_type]
    /\ \A k \in j + 1 .. h : d[k] > d[j]

\* One lock object of m is open at all the steps in I and between them.
KeptOn(s, I, m, lock_type) ==
    /\ s \in Seq(ScriptSteps)
    /\ \E d, j, h : OpenFrom(s, d, j, h, m, lock_type) /\ I \subseteq j + 1 .. h

\* The lock outlasts the uses of x, or each use of x has such a lock.
Kept(s, x, m, lock_type) == KeptOn(s, UsesIn(s, x), m, lock_type)

Covered(s, x, m, lock_type) ==
    Nested(s) /\ \A i \in UsesIn(s, x) : KeptOn(s, {i}, m, lock_type)

\* x is used at most once, and not written.
ReadOnce(s, x) ==
    \E i : UsesIn(s, x) \subseteq {i} /\ \A k \in UsesIn(s, x) : x \notin s[k].writes

LEMMA KeptIsNested ==
    ASSUME NEW s, NEW I, NEW m, NEW lock_type, KeptOn(s, I, m, lock_type)
    PROVE  Nested(s)
  BY DEF KeptOn, OpenFrom, Nested

LEMMA KeptOuter ==
    ASSUME NEW m \in Mutexes, NEW lock_type \in MtxLockType, NEW b, Nested(b), NEW x
    PROVE  Kept(Locked(m, lock_type, b), x, m, lock_type)
<1> DEFINE s == Locked(m, lock_type, b)
           n == Len(b)
<1>1. b \in Seq(ScriptSteps)
  BY DEF Nested
<1>2. PICK f : DepthsOf(b, f) /\ f[n + 1] = 0
  BY DEF Nested
<1>3. PICK d : /\ DepthsOf(s, d) /\ d[Len(s) + 1] = 0
               /\ \A i \in 1 .. n + 1 : d[i + 1] = f[i] + 1
  BY <1>1, <1>2, LockedDepths
<1>4. /\ s \in Seq(ScriptSteps) /\ Len(s) = n + 2 /\ n \in Nat
      /\ s[1] = [op |-> "lock", mtx |-> m, lock_type |-> lock_type]
  BY <1>1, LockedFacts
<1>5. \A i \in UsesIn(s, x) : \E k \in UsesIn(b, x) : i = k + 1
  BY <1>1, UsesLocked
<1>6. UsesIn(b, x) \subseteq 1 .. n
  BY DEF UsesIn
<1>7. f \in [1 .. n + 1 -> Nat] /\ d[1] = 0
  BY <1>2, <1>3 DEF DepthsOf
<1> HIDE DEF s, n
<1>8. UsesIn(s, x) \subseteq 1 + 1 .. n + 1
  BY <1>4, <1>5, <1>6
<1>9. ASSUME NEW k \in 1 + 1 .. n + 1 PROVE d[k] > d[1]
  <2>1. k - 1 \in 1 .. n + 1 /\ (k - 1) + 1 = k
    BY <1>4
  <2>2. f[k - 1] \in Nat /\ d[k] = f[k - 1] + 1
    BY <1>3, <1>7, <2>1
  <2> QED
    BY <1>7, <2>2
<1>10. 1 \in 1 .. Len(s) /\ n + 1 \in 1 .. Len(s)
  BY <1>4
<1>11. OpenFrom(s, d, 1, n + 1, m, lock_type)
  BY <1>3, <1>4, <1>9, <1>10 DEF OpenFrom
<1> QED
  BY <1>4, <1>8, <1>11 DEF Kept, KeptOn, s

LEMMA KeptOnLocked ==
    ASSUME NEW n \in Mutexes, NEW type \in MtxLockType,
           NEW b, NEW I, NEW m, NEW lock_type, KeptOn(b, I, m, lock_type)
    PROVE  KeptOn(Locked(n, type, b), {i + 1 : i \in I}, m, lock_type)
<1> DEFINE s == Locked(n, type, b)
           l == Len(b)
<1>1. b \in Seq(ScriptSteps)
  BY DEF KeptOn
<1>2. PICK f, j, h : /\ OpenFrom(b, f, j, h, m, lock_type)
                     /\ I \subseteq j + 1 .. h
  BY DEF KeptOn
<1>3. /\ j \in 1 .. l /\ h \in 1 .. l
      /\ DepthsOf(b, f) /\ f[l + 1] = 0
      /\ b[j] = [op |-> "lock", mtx |-> m, lock_type |-> lock_type]
      /\ I \subseteq j + 1 .. h
      /\ \A k \in j + 1 .. h : f[k] > f[j]
  BY <1>2 DEF OpenFrom
<1>4. PICK d : /\ DepthsOf(s, d) /\ d[Len(s) + 1] = 0
               /\ \A i \in 1 .. l + 1 : d[i + 1] = f[i] + 1
  <2>1. DepthsOf(b, f) /\ f[Len(b) + 1] = 0
    BY <1>3
  <2> QED
    BY <1>1, <2>1, LockedDepths
<1>5. /\ s \in Seq(ScriptSteps) /\ Len(s) = l + 2 /\ l \in Nat
      /\ \A i \in 1 .. l : s[i + 1] = b[i]
  BY <1>1, LockedFacts
<1>6. f \in [1 .. l + 1 -> Nat]
  BY <1>3 DEF DepthsOf
<1> HIDE DEF s, l
<1>7. j + 1 \in 1 .. Len(s) /\ h + 1 \in 1 .. Len(s) /\ s[j + 1] = b[j]
  BY <1>3, <1>5
<1>8. {i + 1 : i \in I} \subseteq (j + 1) + 1 .. h + 1
  <2>1. ASSUME NEW i \in I PROVE i + 1 \in (j + 1) + 1 .. h + 1
    <3>1. i \in j + 1 .. h
      BY <1>3
    <3> QED
      BY <1>3, <1>5, <3>1
  <2> QED
    BY <2>1
<1>9. ASSUME NEW k \in (j + 1) + 1 .. h + 1 PROVE d[k] > d[j + 1]
  <2>1. k - 1 \in j + 1 .. h /\ k - 1 \in 1 .. l + 1 /\ (k - 1) + 1 = k
        /\ j \in 1 .. l + 1
    BY <1>3, <1>5
  <2>2. d[k] = f[k - 1] + 1 /\ d[j + 1] = f[j] + 1 /\ f[k - 1] > f[j]
    BY <1>3, <1>4, <2>1
  <2>3. f[k - 1] \in Nat /\ f[j] \in Nat
    BY <1>6, <2>1
  <2> QED
    BY <2>2, <2>3
<1>10. OpenFrom(s, d, j + 1, h + 1, m, lock_type)
  BY <1>3, <1>4, <1>7, <1>9 DEF OpenFrom
<1> QED
  BY <1>5, <1>8, <1>10 DEF KeptOn, s

LEMMA KeptOnLeft ==
    ASSUME NEW a, NEW I, NEW m, NEW lock_type, KeptOn(a, I, m, lock_type),
           NEW b, Nested(b)
    PROVE  KeptOn(a \o b, I, m, lock_type)
<1> DEFINE c == a \o b
           n == Len(a)
<1>1. a \in Seq(ScriptSteps) /\ b \in Seq(ScriptSteps)
  BY DEF KeptOn, Nested
<1>2. PICK f, j, h : /\ OpenFrom(a, f, j, h, m, lock_type)
                     /\ I \subseteq j + 1 .. h
  BY DEF KeptOn
<1>3. /\ j \in 1 .. n /\ h \in 1 .. n
      /\ DepthsOf(a, f) /\ f[n + 1] = 0
      /\ a[j] = [op |-> "lock", mtx |-> m, lock_type |-> lock_type]
      /\ I \subseteq j + 1 .. h
      /\ \A k \in j + 1 .. h : f[k] > f[j]
  BY <1>2 DEF OpenFrom
<1>4. PICK g : DepthsOf(b, g) /\ g[Len(b) + 1] = 0
  BY DEF Nested
<1>5. PICK d : /\ DepthsOf(c, d) /\ d[Len(c) + 1] = 0
               /\ \A i \in 1 .. n + 1 : d[i] = f[i]
               /\ \A i \in 1 .. Len(b) + 1 : d[n + i] = g[i]
  <2>1. /\ DepthsOf(a, f) /\ f[Len(a) + 1] = 0
        /\ DepthsOf(b, g) /\ g[Len(b) + 1] = 0
    BY <1>3, <1>4
  <2>2. PICK d : Joined(a, b, f, g, d)
    BY <1>1, <2>1, ConcatDepths
  <2> QED
    BY <2>2 DEF Joined
<1>6. /\ c \in Seq(ScriptSteps) /\ n \in Nat /\ Len(b) \in Nat /\ Len(c) = n + Len(b)
      /\ \A i \in 1 .. n : c[i] = a[i]
  BY <1>1, ConcatFacts
<1> HIDE DEF c, n
<1>7. j \in 1 .. Len(c) /\ h \in 1 .. Len(c) /\ c[j] = a[j]
  BY <1>3, <1>6
<1>8. ASSUME NEW k \in j + 1 .. h PROVE d[k] > d[j]
  <2>1. k \in 1 .. n + 1 /\ j \in 1 .. n + 1
    BY <1>3, <1>6
  <2>2. d[k] = f[k] /\ d[j] = f[j]
    BY <1>5, <2>1
  <2> QED
    BY <1>3, <2>2
<1>9. OpenFrom(c, d, j, h, m, lock_type)
  BY <1>3, <1>5, <1>7, <1>8 DEF OpenFrom
<1> QED
  BY <1>3, <1>6, <1>9 DEF KeptOn, c

LEMMA KeptOnRight ==
    ASSUME NEW b, NEW I, NEW m, NEW lock_type, KeptOn(b, I, m, lock_type),
           NEW a, Nested(a)
    PROVE  KeptOn(a \o b, {Len(a) + i : i \in I}, m, lock_type)
<1> DEFINE c == a \o b
           n == Len(a)
           l == Len(b)
<1>1. a \in Seq(ScriptSteps) /\ b \in Seq(ScriptSteps)
  BY DEF KeptOn, Nested
<1>2. PICK g, j, h : /\ OpenFrom(b, g, j, h, m, lock_type)
                     /\ I \subseteq j + 1 .. h
  BY DEF KeptOn
<1>3. /\ j \in 1 .. l /\ h \in 1 .. l
      /\ DepthsOf(b, g) /\ g[l + 1] = 0
      /\ b[j] = [op |-> "lock", mtx |-> m, lock_type |-> lock_type]
      /\ I \subseteq j + 1 .. h
      /\ \A k \in j + 1 .. h : g[k] > g[j]
  BY <1>2 DEF OpenFrom
<1>4. PICK f : DepthsOf(a, f) /\ f[Len(a) + 1] = 0
  BY DEF Nested
<1>5. PICK d : /\ DepthsOf(c, d) /\ d[Len(c) + 1] = 0
               /\ \A i \in 1 .. n + 1 : d[i] = f[i]
               /\ \A i \in 1 .. l + 1 : d[n + i] = g[i]
  <2>1. /\ DepthsOf(a, f) /\ f[Len(a) + 1] = 0
        /\ DepthsOf(b, g) /\ g[Len(b) + 1] = 0
    BY <1>3, <1>4
  <2>2. PICK d : Joined(a, b, f, g, d)
    BY <1>1, <2>1, ConcatDepths
  <2> QED
    BY <2>2 DEF Joined
<1>6. /\ c \in Seq(ScriptSteps) /\ n \in Nat /\ l \in Nat /\ Len(c) = n + l
      /\ \A i \in 1 .. l : c[n + i] = b[i]
  BY <1>1, ConcatFacts
<1>7. n = Len(a)
  OBVIOUS
<1> HIDE DEF c, n, l
<1>8. n + j \in 1 .. Len(c) /\ n + h \in 1 .. Len(c) /\ c[n + j] = b[j]
  BY <1>3, <1>6
<1>9. {n + i : i \in I} \subseteq (n + j) + 1 .. n + h
  <2>1. ASSUME NEW i \in I PROVE n + i \in (n + j) + 1 .. n + h
    <3>1. i \in j + 1 .. h
      BY <1>3
    <3> QED
      BY <1>3, <1>6, <3>1
  <2> QED
    BY <2>1
<1>10. ASSUME NEW k \in (n + j) + 1 .. n + h PROVE d[k] > d[n + j]
  <2>1. k - n \in j + 1 .. h /\ k - n \in 1 .. l + 1 /\ n + (k - n) = k
        /\ j \in 1 .. l + 1
    BY <1>3, <1>6
  <2>2. d[k] = g[k - n] /\ d[n + j] = g[j]
    BY <1>5, <2>1
  <2> QED
    BY <1>3, <2>1, <2>2
<1>11. OpenFrom(c, d, n + j, n + h, m, lock_type)
  BY <1>3, <1>5, <1>8, <1>10 DEF OpenFrom
<1> QED
  BY <1>6, <1>9, <1>11 DEF KeptOn, c, n

LEMMA KeptOnSubset ==
    ASSUME NEW s, NEW I, NEW m, NEW lock_type, KeptOn(s, I, m, lock_type),
           NEW J, J \subseteq I
    PROVE  KeptOn(s, J, m, lock_type)
  BY DEF KeptOn

LEMMA KeptLocked ==
    ASSUME NEW n \in Mutexes, NEW type \in MtxLockType,
           NEW b, NEW x, NEW m, NEW lock_type, Kept(b, x, m, lock_type)
    PROVE  Kept(Locked(n, type, b), x, m, lock_type)
<1> DEFINE s == Locked(n, type, b)
           I == {i + 1 : i \in UsesIn(b, x)}
<1>1. KeptOn(s, I, m, lock_type) /\ b \in Seq(ScriptSteps)
  BY KeptOnLocked DEF Kept, KeptOn
<1>2. UsesIn(s, x) \subseteq I
  BY <1>1, UsesLocked
<1> HIDE DEF s, I
<1> QED
  BY <1>1, <1>2, KeptOnSubset DEF Kept, s

LEMMA KeptLeft ==
    ASSUME NEW a, NEW x, NEW m, NEW lock_type, Kept(a, x, m, lock_type),
           NEW b, Nested(b), UsesIn(b, x) = {}
    PROVE  Kept(a \o b, x, m, lock_type)
<1>1. a \in Seq(ScriptSteps) /\ b \in Seq(ScriptSteps)
  BY DEF Kept, KeptOn, Nested
<1>2. KeptOn(a \o b, UsesIn(a, x), m, lock_type)
  BY KeptOnLeft DEF Kept
<1>3. UsesIn(a \o b, x) \subseteq UsesIn(a, x)
  BY <1>1, UsesConcat
<1> QED
  BY <1>2, <1>3, KeptOnSubset DEF Kept

LEMMA KeptRight ==
    ASSUME NEW b, NEW x, NEW m, NEW lock_type, Kept(b, x, m, lock_type),
           NEW a, Nested(a), UsesIn(a, x) = {}
    PROVE  Kept(a \o b, x, m, lock_type)
<1> DEFINE I == {Len(a) + i : i \in UsesIn(b, x)}
<1>1. a \in Seq(ScriptSteps) /\ b \in Seq(ScriptSteps)
  BY DEF Kept, KeptOn, Nested
<1>2. KeptOn(a \o b, I, m, lock_type)
  BY KeptOnRight DEF Kept
<1>3. UsesIn(a \o b, x) \subseteq I
  BY <1>1, UsesConcat
<1> HIDE DEF I
<1> QED
  BY <1>2, <1>3, KeptOnSubset DEF Kept

LEMMA KeptIsCovered ==
    ASSUME NEW s, NEW x, NEW m, NEW lock_type, Kept(s, x, m, lock_type)
    PROVE  Covered(s, x, m, lock_type)
<1>1. Nested(s)
  BY KeptIsNested DEF Kept
<1>2. \A i \in UsesIn(s, x) : KeptOn(s, {i}, m, lock_type)
  BY KeptOnSubset DEF Kept
<1> QED
  BY <1>1, <1>2 DEF Covered

LEMMA CoveredConcat ==
    ASSUME NEW a, NEW b, NEW x, NEW m, NEW lock_type,
           Covered(a, x, m, lock_type), Covered(b, x, m, lock_type)
    PROVE  Covered(a \o b, x, m, lock_type)
<1>1. /\ Nested(a) /\ Nested(b) /\ Nested(a \o b)
      /\ a \in Seq(ScriptSteps) /\ b \in Seq(ScriptSteps)
  BY NestedConcat DEF Covered, Nested
<1>2. ASSUME NEW i \in UsesIn(a \o b, x)
      PROVE  KeptOn(a \o b, {i}, m, lock_type)
  <2>1. CASE i \in UsesIn(a, x)
    BY <1>1, <2>1, KeptOnLeft DEF Covered
  <2>2. CASE \E k \in UsesIn(b, x) : i = Len(a) + k
    <3>1. PICK k \in UsesIn(b, x) : i = Len(a) + k
      BY <2>2
    <3>2. KeptOn(b, {k}, m, lock_type)
      BY DEF Covered
    <3>3. KeptOn(a \o b, {Len(a) + j : j \in {k}}, m, lock_type)
      BY <1>1, <3>2, KeptOnRight
    <3> QED
      BY <3>1, <3>3, KeptOnSubset
  <2> QED
    BY <1>1, <2>1, <2>2, UsesConcat
<1> QED
  BY <1>1, <1>2 DEF Covered

LEMMA CoveredLocked ==
    ASSUME NEW n \in Mutexes, NEW type \in MtxLockType,
           NEW b, NEW x, NEW m, NEW lock_type, Covered(b, x, m, lock_type)
    PROVE  Covered(Locked(n, type, b), x, m, lock_type)
<1> DEFINE s == Locked(n, type, b)
<1>1. Nested(s) /\ b \in Seq(ScriptSteps)
  BY NestedLocked DEF Covered, Nested
<1>2. \A i \in UsesIn(s, x) : \E k \in UsesIn(b, x) : i = k + 1
  BY <1>1, UsesLocked
<1>3. ASSUME NEW i \in UsesIn(s, x)
      PROVE  KeptOn(s, {i}, m, lock_type)
  <2>1. PICK k \in UsesIn(b, x) : i = k + 1
    BY <1>2
  <2>2. KeptOn(b, {k}, m, lock_type)
    BY DEF Covered
  <2>3. KeptOn(s, {j + 1 : j \in {k}}, m, lock_type)
    BY <2>2, KeptOnLocked
  <2> HIDE DEF s
  <2> QED
    BY <2>1, <2>3, KeptOnSubset
<1> QED
  BY <1>1, <1>3 DEF Covered

LEMMA UnusedIsCovered ==
    ASSUME NEW s, Nested(s), NEW x, UsesIn(s, x) = {}, NEW m, NEW lock_type
    PROVE  Covered(s, x, m, lock_type)
  BY DEF Covered

LEMMA ReadOnceUse ==
    ASSUME NEW r \in SUBSET AllData, NEW x
    PROVE  ReadOnce(Use(r, {}), x)
<1> DEFINE s == Use(r, {})
<1>1. Len(s) = 1 /\ s[1].writes = {}
  BY DEF Use
<1> HIDE DEF s
<1>2. UsesIn(s, x) \subseteq {1} /\ \A k \in UsesIn(s, x) : x \notin s[k].writes
  BY <1>1 DEF UsesIn
<1> QED
  BY <1>2 DEF ReadOnce, s

LEMMA ReadOnceLocked ==
    ASSUME NEW n \in Mutexes, NEW type \in MtxLockType,
           NEW b \in Seq(ScriptSteps), NEW x, ReadOnce(b, x)
    PROVE  ReadOnce(Locked(n, type, b), x)
<1> DEFINE s == Locked(n, type, b)
<1>1. /\ \A i \in UsesIn(b, x) : s[i + 1] = b[i]
      /\ \A i \in UsesIn(s, x) : \E k \in UsesIn(b, x) : i = k + 1
  BY UsesLocked
<1>2. PICK i : UsesIn(b, x) \subseteq {i} /\ \A k \in UsesIn(b, x) : x \notin b[k].writes
  BY DEF ReadOnce
<1> HIDE DEF s
<1>3. UsesIn(s, x) \subseteq {i + 1}
  BY <1>1, <1>2
<1>4. \A k \in UsesIn(s, x) : x \notin s[k].writes
  BY <1>1, <1>2
<1> QED
  BY <1>3, <1>4 DEF ReadOnce, s

LEMMA ReadOnceConcat ==
    ASSUME NEW a \in Seq(ScriptSteps), NEW b \in Seq(ScriptSteps), NEW x,
           \/ ReadOnce(a, x) /\ UsesIn(b, x) = {}
           \/ UsesIn(a, x) = {} /\ ReadOnce(b, x)
    PROVE  ReadOnce(a \o b, x)
<1> DEFINE c == a \o b
<1>1. /\ \A i \in UsesIn(a, x) : c[i] = a[i]
      /\ \A i \in UsesIn(b, x) : c[Len(a) + i] = b[i]
      /\ \A i \in UsesIn(c, x) : \/ i \in UsesIn(a, x)
                               \/ \E k \in UsesIn(b, x) : i = Len(a) + k
  <2>1. \A i \in UsesIn(a, x) : c[i] = a[i]
    BY ConcatFacts DEF UsesIn
  <2>2. \A i \in UsesIn(b, x) : c[Len(a) + i] = b[i]
    BY ConcatFacts DEF UsesIn
  <2>3. \A i \in UsesIn(c, x) : \/ i \in UsesIn(a, x)
                             \/ \E k \in UsesIn(b, x) : i = Len(a) + k
    BY UsesConcat
  <2> HIDE DEF c
  <2> QED
    BY <2>1, <2>2, <2>3
<1> HIDE DEF c
<1>2. CASE ReadOnce(a, x) /\ UsesIn(b, x) = {}
  <2>1. PICK i : UsesIn(a, x) \subseteq {i} /\ \A k \in UsesIn(a, x) : x \notin a[k].writes
    BY <1>2 DEF ReadOnce
  <2>2. UsesIn(c, x) \subseteq {i} /\ \A k \in UsesIn(c, x) : x \notin c[k].writes
    BY <1>1, <1>2, <2>1
  <2> QED
    BY <2>2 DEF ReadOnce, c
<1>3. CASE UsesIn(a, x) = {} /\ ReadOnce(b, x)
  <2>1. PICK i : UsesIn(b, x) \subseteq {i} /\ \A k \in UsesIn(b, x) : x \notin b[k].writes
    BY <1>3 DEF ReadOnce
  <2>2. UsesIn(c, x) \subseteq {Len(a) + i} /\ \A k \in UsesIn(c, x) : x \notin c[k].writes
    BY <1>1, <1>3, <2>1
  <2> QED
    BY <2>2 DEF ReadOnce, c
<1> QED
  BY <1>2, <1>3

-----------------------------------------------------------------------------
(* How each method keeps the others from what it uses *)

\* What the lock of the index protects.
Filed == {theColumn, theField}

\* A variable is used under a lock of its own.  The index and the field are
\* changed under the locks of the index and of the row; the field is read
\* under that of the row, or both under those of the table and of the index.
SafeFor(s, x) ==
    \/ UsesIn(s, x) = {}
    \/ x \in Variables /\ Kept(s, x, x, "unique_locked")
    \/ x \in Variables /\ Kept(s, x, x, "shared_locked") /\ ReadOnce(s, x)
    \/ /\ x \in Filed
       /\ Kept(s, x, theRow, "unique_locked")
       /\ Covered(s, x, theColumn, "unique_locked")
    \/ /\ x = theField
       /\ Kept(s, x, theRow, "shared_locked")
       /\ ReadOnce(s, x)
    \/ /\ x \in Filed
       /\ Kept(s, x, theTable, "shared_locked")
       /\ Kept(s, x, theColumn, "shared_locked")
       /\ ReadOnce(s, x)

\* A method that is safe for all but the objects in E.
Safe(s, E) ==
    /\ Nested(s) /\ s # <<>>
    /\ \A x \in AllData : x \notin E => SafeFor(s, x)

LEMMA UnusedIsSafe ==
    ASSUME NEW s, NEW T, Shaped(s, T), NEW x, x \notin T
    PROVE  SafeFor(s, x)
  BY NoUses DEF SafeFor

LEMMA LockedIsLong ==
    ASSUME NEW m \in Mutexes, NEW lock_type \in MtxLockType, NEW b, Nested(b)
    PROVE  Locked(m, lock_type, b) # <<>>
<1>1. b \in Seq(ScriptSteps)
  BY DEF Nested
<1>2. Len(Locked(m, lock_type, b)) = Len(b) + 2 /\ Len(b) \in Nat
  BY <1>1, LockedFacts
<1>3. Len(<<>>) = 0
  OBVIOUS
<1> QED
  BY <1>2, <1>3

LEMMA ConcatIsLong ==
    ASSUME NEW a, NEW b, Nested(a), Nested(b), a # <<>>
    PROVE  a \o b # <<>>
<1>1. a \in Seq(ScriptSteps) /\ b \in Seq(ScriptSteps)
  BY DEF Nested
<1>2. Len(a) \in Nat /\ Len(b) \in Nat /\ Len(a \o b) = Len(a) + Len(b)
  BY <1>1, ConcatFacts
<1>3. Len(a) # 0
  BY <1>1, EmptySeq
<1>4. Len(<<>>) = 0
  OBVIOUS
<1> QED
  BY <1>2, <1>3, <1>4

LEMMA SafeLess ==
    ASSUME NEW s, NEW E, Safe(s, E), NEW F, E \subseteq F
    PROVE  Safe(s, F)
  BY DEF Safe

\* A script that uses nothing but what is left out.
LEMMA SafeExposed ==
    ASSUME NEW s, NEW T, Shaped(s, T), s # <<>>
    PROVE  Safe(s, T)
  BY UnusedIsSafe DEF Safe, Shaped

\* One lock over the whole method, on the one object that is not left out.
LEMMA SafeLocked ==
    ASSUME NEW y \in Variables, NEW lock_type \in MtxLockType,
           NEW b, NEW T, Shaped(b, T), NEW E, T \subseteq {y} \cup E,
           \/ lock_type = "unique_locked"
           \/ lock_type = "shared_locked" /\ ReadOnce(b, y)
    PROVE  Safe(Locked(y, lock_type, b), E)
<1> DEFINE s == Locked(y, lock_type, b)
<1>1. y \in Mutexes /\ Nested(b) /\ b \in Seq(ScriptSteps)
  BY ObjectFacts DEF Shaped, Nested
<1>2. Shaped(s, T) /\ Nested(s) /\ s # <<>>
  BY <1>1, ShapedLocked, LockedIsLong DEF Shaped
<1>3. Kept(s, y, y, lock_type)
  BY <1>1, KeptOuter
<1>4. lock_type = "shared_locked" => ReadOnce(s, y)
  BY <1>1, ReadOnceLocked
<1> HIDE DEF s
<1>5. SafeFor(s, y)
  BY <1>3, <1>4 DEF SafeFor
<1>6. ASSUME NEW x, x \notin E, x # y
      PROVE  SafeFor(s, x)
  BY <1>2, <1>6, UnusedIsSafe
<1> QED
  BY <1>2, <1>5, <1>6 DEF Safe, s

LEMMA ReadIsOnce ==
    ASSUME NEW y \in Mutexes, NEW x
    PROVE  ReadOnce(Read(y), x)
<1>1. {y} \in SUBSET AllData
  BY DEF AllData
<1> QED
  BY <1>1, ReadOnceUse DEF Read

LEMMA OnceThenUnused ==
    ASSUME NEW a, Nested(a), NEW x, ReadOnce(a, x),
           NEW T, NEW b, Shaped(b, T), x \notin T
    PROVE  ReadOnce(a \o b, x)
<1>1. /\ a \in Seq(ScriptSteps) /\ b \in Seq(ScriptSteps) /\ UsesIn(b, x) = {}
  BY NoUses DEF Shaped, Nested
<1> QED
  BY <1>1, ReadOnceConcat

\* The methods on one variable.
LEMMA SimpleSafe ==
    ASSUME NEW y \in Variables
    PROVE  /\ Safe(Reading(y), {}) /\ Safe(Changing(y), {})
           /\ Safe(ReadingAlone(y), {}) /\ Safe(cloneResource(y), {y})
           /\ Safe(MapIndexing(y), {y}) /\ Safe(isPrintable(y), {y})
<1>1. y \in Mutexes /\ y \in {y} /\ {y} \subseteq {y} \cup {}
  BY ObjectFacts
<1>2. /\ Shaped(Read(y), {y}) /\ Shaped(Write(y), {y}) /\ Shaped(linked(y), {y})
      /\ Shaped(cloneResource(y), {y}) /\ Shaped(Reading(y), {y}) /\ Shaped(<<>>, {y})
  BY <1>1, ShapedSimple, ShapedLink
<1>3. Safe(Reading(y), {})
  BY <1>1, <1>2, ReadIsOnce, SafeLocked DEF Reading
<1>4. Safe(Changing(y), {}) /\ Safe(ReadingAlone(y), {})
  BY <1>1, <1>2, SafeLocked DEF Changing, ReadingAlone
<1>5. linked(y) # <<>> /\ Reading(y) # <<>>
  BY <1>1, <1>2, LockedIsLong DEF linked, Reading, Shaped
<1>6. Safe(cloneResource(y), {y})
  BY <1>2, <1>5, ConcatIsLong, SafeExposed DEF cloneResource, Shaped
<1>7. Safe(MapIndexing(y), {y})
  <2>1. {y} \in SUBSET AllData /\ {y} \cup {y} \subseteq {y}
    BY <1>1 DEF AllData
  <2>2. Shaped(Use({y}, {y}), {y})
    BY <2>1, ShapedUse
  <2>3. /\ Shaped(MapIndexing(y), {y}) /\ MapIndexing(y) # <<>>
    BY <1>1, <2>2, ShapedLocked, LockedIsLong DEF MapIndexing, Shaped
  <2> QED
    BY <2>3, SafeExposed
<1>8. Safe(isPrintable(y), {y})
  <2> DEFINE a == Reading(y) \o Reading(y)
             b == a \o Reading(y)
  <2>1. Shaped(a, {y}) /\ a # <<>>
    BY <1>2, <1>5, ShapedConcat, ConcatIsLong DEF Shaped
  <2> HIDE DEF a
  <2>2. Shaped(b, {y}) /\ b # <<>>
    BY <1>2, <2>1, ShapedConcat, ConcatIsLong DEF Shaped
  <2> HIDE DEF b
  <2>3. Shaped(b \o Read(y), {y}) /\ b \o Read(y) # <<>>
    BY <1>2, <2>2, ShapedConcat, ConcatIsLong DEF Shaped
  <2> QED
    BY <2>3, SafeExposed DEF isPrintable, a, b
<1> QED
  BY <1>3, <1>4, <1>6, <1>7, <1>8

\* The methods on two.
LEMMA PairsSafe ==
    ASSUME NEW y \in Variables, NEW z \in Variables, y # z
    PROVE  /\ Safe(assign(y, z), {z}) /\ Safe(merge(y, z), {z})
           /\ Safe(grow(y, z), {z}) /\ Safe(append(y, z), {z})
           /\ Safe(push(y, z), {}) /\ Safe(put(y, z), {})
           /\ Safe(element(y, z), {}) /\ Safe(getVariable(y, z), {z})
           /\ Safe(plus(y, z), {y, z})
<1> DEFINE T == {y, z}
<1>1. /\ y \in Mutexes /\ z \in Mutexes /\ y \in T /\ z \in T
      /\ T \subseteq {y} \cup {z} /\ {y} \subseteq {y} \cup {}
  BY ObjectFacts
<1>2. /\ Shaped(Read(y), T) /\ Shaped(Write(y), T) /\ Shaped(linked(z), T)
      /\ Shaped(cloneResource(z), T) /\ Shaped(cloneResource(y), T)
      /\ Shaped(Use({z}, {y}), T) /\ Shaped(Use({y, z}, {y}), T)
  <2>1. /\ {y} \in SUBSET AllData /\ {z} \in SUBSET AllData
        /\ {y, z} \in SUBSET AllData
    BY <1>1 DEF AllData
  <2>2. {z} \cup {y} \subseteq T /\ {y, z} \cup {y} \subseteq T
    OBVIOUS
  <2>3. Shaped(Use({z}, {y}), T) /\ Shaped(Use({y, z}, {y}), T)
    BY <2>1, <2>2, ShapedUse
  <2> QED
    BY <1>1, <2>3, ShapedSimple
<1>3. /\ Shaped(Read(y), {y}) /\ Shaped(Write(y), {y}) /\ Shaped(linked(z), {y})
      /\ Shaped(linked(z), {}) /\ Shaped(cloneResource(z), {z})
  BY <1>1, ShapedSimple, ShapedLink
<1> HIDE DEF T
<1>4. Safe(assign(y, z), {z}) /\ Safe(merge(y, z), {z})
  <2>1. /\ Shaped(linked(z) \o Use({z}, {y}), T)
        /\ Shaped(linked(z) \o Use({y, z}, {y}), T)
    BY <1>2, ShapedConcat
  <2> QED
    BY <1>1, <2>1, SafeLocked DEF assign, merge
<1>5. Safe(grow(y, z), {z}) /\ Safe(append(y, z), {z})
  <2>1. /\ Shaped(cloneResource(z) \o Write(y), T)
        /\ Shaped(Write(y) \o cloneResource(z), T)
    BY <1>2, ShapedConcat
  <2> QED
    BY <1>1, <2>1, SafeLocked DEF grow, append
<1>6. Safe(push(y, z), {}) /\ Safe(put(y, z), {})
  <2>1. Shaped(linked(z) \o Write(y), {y})
    BY <1>3, ShapedConcat
  <2>2. Shaped((linked(z) \o Write(y)) \o linked(z), {y})
    BY <1>3, <2>1, ShapedConcat
  <2> QED
    BY <1>1, <2>1, <2>2, SafeLocked DEF push, put
<1>7. Safe(element(y, z), {})
  <2>1. Shaped(Read(y) \o linked(z), {y})
    BY <1>3, ShapedConcat
  <2>2. ReadOnce(Read(y) \o linked(z), y)
    BY <1>1, <1>3, ReadIsOnce, OnceThenUnused DEF Shaped
  <2> QED
    BY <1>1, <2>1, <2>2, SafeLocked DEF element
<1>8. Safe(getVariable(y, z), {z})
  <2>1. Shaped(Read(y) \o cloneResource(z), T)
    BY <1>2, ShapedConcat
  <2>2. ReadOnce(Read(y) \o cloneResource(z), y)
    BY <1>1, <1>3, ReadIsOnce, OnceThenUnused DEF Shaped
  <2> QED
    BY <1>1, <2>1, <2>2, SafeLocked DEF getVariable
<1>9. Safe(plus(y, z), {y, z})
  <2>1. Shaped(plus(y, z), T)
    BY <1>2, ShapedConcat DEF plus
  <2>2. plus(y, z) # <<>>
    BY <1>2, SimpleSafe, ConcatIsLong DEF plus, Safe
  <2> QED
    BY <2>1, <2>2, SafeExposed DEF T
<1> QED
  BY <1>4, <1>5, <1>6, <1>7, <1>8, <1>9

\* The operators of numbers.
LEMMA OperatorsSafe ==
    ASSUME NEW y \in Variables, NEW z \in Variables, y # z
    PROVE  /\ Safe(compare(y, z), {z}) /\ Safe(binary(y, z), {z})
           /\ Safe(assignNumber(y, z), {y, z}) /\ Safe(compound(y, z), {z})
<1> DEFINE T == {y, z}
<1>1. /\ y \in Mutexes /\ z \in Mutexes /\ y \in T /\ z \in T
      /\ T \subseteq {y} \cup {z}
  BY ObjectFacts
<1>2. /\ Shaped(Read(y), T) /\ Shaped(Write(y), T) /\ Shaped(operand(z), T)
      /\ Shaped(Changing(y), T) /\ Shaped(operand(z), {z}) /\ Shaped(Write(y), {y})
  BY <1>1, ShapedSimple
<1> HIDE DEF T
<1>3. /\ Shaped(Read(y) \o operand(z), T) /\ Shaped(operand(z) \o Write(y), T)
      /\ Shaped(operand(z) \o Changing(y), T)
  BY <1>2, ShapedConcat
<1>4. Safe(binary(y, z), {z})
  BY <1>1, <1>3, SafeLocked DEF binary
<1>5. Safe(compare(y, z), {z})
  <2>1. ReadOnce(Read(y) \o operand(z), y)
    BY <1>1, <1>2, ReadIsOnce, OnceThenUnused DEF Shaped
  <2> QED
    BY <1>1, <1>3, <2>1, SafeLocked DEF compare
<1>6. /\ Shaped(assignNumber(y, z), T) /\ assignNumber(y, z) # <<>>
      /\ Shaped(compound(y, z), T) /\ compound(y, z) # <<>>
  BY <1>1, <1>3, ShapedLocked, LockedIsLong DEF assignNumber, compound, Shaped
<1>7. Safe(assignNumber(y, z), {y, z})
  BY <1>6, SafeExposed DEF T
<1>8. Safe(compound(y, z), {z})
  <2>1. Kept(Changing(y), y, y, "unique_locked")
    BY <1>1, <1>2, KeptOuter DEF Changing, Shaped
  <2>2. UsesIn(operand(z), y) = {}
    BY <1>2, NoUses
  <2>3. Kept(operand(z) \o Changing(y), y, y, "unique_locked")
    BY <1>2, <2>1, <2>2, KeptRight DEF Shaped
  <2>4. Kept(compound(y, z), y, y, "unique_locked")
    BY <1>1, <2>3, KeptLocked DEF compound
  <2>5. SafeFor(compound(y, z), y)
    BY <2>4 DEF SafeFor
  <2>6. \A x : x \notin T => SafeFor(compound(y, z), x)
    BY <1>6, UnusedIsSafe
  <2> QED
    BY <1>6, <2>5, <2>6 DEF Safe, Shaped, T
<1> QED
  BY <1>4, <1>5, <1>7, <1>8

-----------------------------------------------------------------------------
(* A table, its row and an index *)

\* A script whose uses of the index and the field are under the index's lock.
CoversFiled(s) ==
    Nested(s) /\ \A x \in Filed : Covered(s, x, theColumn, "unique_locked")

\* ... and all of whose uses are under a lock of the row.
Guarding(s) ==
    CoversFiled(s) /\ \A x : Kept(s, x, theRow, "unique_locked")

LEMMA CoversConcat ==
    ASSUME NEW a, NEW b, CoversFiled(a), CoversFiled(b)
    PROVE  CoversFiled(a \o b)
<1>1. Nested(a \o b)
  BY NestedConcat DEF CoversFiled
<1>2. ASSUME NEW x \in Filed
      PROVE  Covered(a \o b, x, theColumn, "unique_locked")
  BY CoveredConcat DEF CoversFiled
<1> QED
  BY <1>1, <1>2 DEF CoversFiled

LEMMA CoversLocked ==
    ASSUME NEW m \in Mutexes, NEW b, CoversFiled(b)
    PROVE  CoversFiled(Locked(m, "unique_locked", b))
<1>1. Nested(Locked(m, "unique_locked", b))
  BY NestedLocked DEF CoversFiled
<1>2. ASSUME NEW x \in Filed
      PROVE  Covered(Locked(m, "unique_locked", b), x, theColumn, "unique_locked")
  BY CoveredLocked DEF CoversFiled
<1> QED
  BY <1>1, <1>2 DEF CoversFiled

\* The pieces that methods on rows are made of.
LEMMA CoversPieces ==
    /\ CoversFiled(Write(theRow)) /\ CoversFiled(Write(theTable))
    /\ CoversFiled(linked(theRow)) /\ CoversFiled(<<>>)
    /\ \A r \in SUBSET AllData : CoversFiled(InColumn(r))
<1>1. theRow \in {theRow} /\ theTable \in {theTable} /\ {theRow} \cap Filed = {}
      /\ {theTable} \cap Filed = {}
  BY ObjectFacts DEF Filed
<1>2. ASSUME NEW s, NEW T, Shaped(s, T), T \cap Filed = {}
      PROVE  CoversFiled(s)
  <2>1. Nested(s) /\ \A x \in Filed : UsesIn(s, x) = {}
    BY <1>2 DEF Shaped
  <2> QED
    BY <2>1, UnusedIsCovered DEF CoversFiled
<1>3. Shaped(Write(theRow), {theRow}) /\ Shaped(Write(theTable), {theTable})
      /\ Shaped(linked(theRow), {}) /\ Shaped(<<>>, {})
  BY <1>1, ObjectFacts, ShapedSimple, ShapedLink
<1>4. ASSUME NEW r \in SUBSET AllData
      PROVE  CoversFiled(InColumn(r))
  <2> DEFINE u == Use(r, Filed)
  <2>1. Filed \in SUBSET AllData
    BY ObjectFacts DEF Filed
  <2>2. Nested(u)
    BY <2>1, NestedUse
  <2>3. InColumn(r) = Locked(theColumn, "unique_locked", u)
    BY DEF InColumn, Filed
  <2> HIDE DEF u
  <2>4. /\ Nested(InColumn(r))
        /\ \A x \in Filed : Kept(InColumn(r), x, theColumn, "unique_locked")
    BY <2>2, <2>3, NestedLocked, KeptOuter, ObjectFacts
  <2> QED
    BY <2>4, KeptIsCovered DEF CoversFiled
<1>5. CoversFiled(Write(theRow)) /\ CoversFiled(Write(theTable))
  BY <1>1, <1>2, <1>3
<1>6. CoversFiled(linked(theRow)) /\ CoversFiled(<<>>)
  <2>1. {} \cap Filed = {}
    OBVIOUS
  <2> QED
    BY <1>2, <1>3, <2>1
<1> QED
  BY <1>4, <1>5, <1>6

LEMMA LockGuards ==
    ASSUME NEW b, CoversFiled(b)
    PROVE  Guarding(Locked(theRow, "unique_locked", b))
  BY CoversLocked, KeptOuter, ObjectFacts DEF Guarding, CoversFiled

\* What uses neither the table nor others, and is guarded, is safe.
LEMMA GuardingIsSafe ==
    ASSUME NEW b, CoversFiled(b), NEW T, Shaped(b, T),
           T \subseteq {theRow} \cup Filed
    PROVE  Safe(Locked(theRow, "unique_locked", b), {})
<1> DEFINE s == Locked(theRow, "unique_locked", b)
<1>1. Guarding(s)
  BY LockGuards
<1>2. Shaped(s, T) /\ Nested(s) /\ s # <<>>
  BY ShapedLocked, LockedIsLong, ObjectFacts DEF Shaped
<1> HIDE DEF s
<1>3. ASSUME NEW x PROVE SafeFor(s, x)
  <2>1. CASE x = theRow
    BY <1>1, <2>1, ObjectFacts DEF Guarding, SafeFor
  <2>2. CASE x \in Filed
    BY <1>1, <2>2 DEF Guarding, CoversFiled, SafeFor
  <2>3. CASE x \notin T
    BY <1>2, <2>3, UnusedIsSafe
  <2> QED
    BY <2>1, <2>2, <2>3
<1> QED
  BY <1>2, <1>3 DEF Safe, s

\* A row that is changed under the lock of its table, after a script of which
\* E are the objects it uses that a lock of the row should protect.
LEMMA GuardedInTable ==
    ASSUME NEW a, NEW T, Shaped(a, T), T \subseteq Variables \cup Filed,
           NEW k, Guarding(k), Shaped(k, Variables \cup Filed),
           NEW E, T \subseteq {theTable} \cup E
    PROVE  Safe(Locked(theTable, "unique_locked", a \o k), E)
<1> DEFINE s == Locked(theTable, "unique_locked", a \o k)
           all == Variables \cup Filed
<1>1. Shaped(a, all) /\ Nested(a) /\ Nested(k)
  BY ShapedMore DEF Shaped
<1>2. Shaped(a \o k, all)
  BY <1>1, ShapedConcat
<1>3. Nested(a \o k) /\ Shaped(s, all) /\ Nested(s) /\ s # <<>>
  BY <1>2, ShapedLocked, LockedIsLong, ObjectFacts DEF Shaped
<1>4. Kept(s, theTable, theTable, "unique_locked")
  BY <1>3, KeptOuter, ObjectFacts
<1>5. ASSUME NEW x, x \notin E, x # theTable
      PROVE  Kept(s, x, theRow, "unique_locked")
  <2>1. UsesIn(a, x) = {} /\ Kept(k, x, theRow, "unique_locked")
    BY <1>5, NoUses DEF Guarding
  <2>2. Kept(a \o k, x, theRow, "unique_locked")
    BY <1>1, <2>1, KeptRight
  <2> QED
    BY <2>2, KeptLocked, ObjectFacts
<1>6. ASSUME NEW x \in Filed, x \notin E
      PROVE  Covered(s, x, theColumn, "unique_locked")
  <2>1. UsesIn(a, x) = {} /\ Covered(k, x, theColumn, "unique_locked")
    BY <1>6, NoUses, ObjectFacts DEF Guarding, CoversFiled, Filed
  <2>2. Covered(a, x, theColumn, "unique_locked")
    BY <1>1, <2>1, UnusedIsCovered
  <2>3. Covered(a \o k, x, theColumn, "unique_locked")
    BY <2>1, <2>2, CoveredConcat
  <2> QED
    BY <2>3, CoveredLocked, ObjectFacts
<1> HIDE DEF s
<1>7. ASSUME NEW x, x \notin E
      PROVE  SafeFor(s, x)
  <2>1. CASE x = theTable
    BY <1>4, <2>1, ObjectFacts DEF SafeFor
  <2>2. CASE x = theRow
    BY <1>5, <1>7, <2>2, ObjectFacts DEF SafeFor
  <2>3. CASE x \in Filed
    BY <1>5, <1>6, <1>7, <2>3, ObjectFacts DEF SafeFor, Filed
  <2>4. CASE x \notin all
    BY <1>3, <2>4, UnusedIsSafe
  <2> QED
    BY <2>1, <2>2, <2>3, <2>4 DEF Variables
<1> QED
  BY <1>3, <1>7 DEF Safe, s

\* The uses of methods on rows.
LEMMA ShapedRows ==
    LET all == Variables \cup Filed
        row == {theRow, theField}
    IN /\ Shaped(Write(theRow), {theRow} \cup Filed) /\ Shaped(Write(theTable), all)
       /\ \A r \in SUBSET {theRow} : Shaped(InColumn(r), {theRow} \cup Filed)
       /\ Shaped(InColumn({}), {theTable} \cup Filed)
       /\ Shaped(lookup, {theTable} \cup Filed)
       /\ Shaped(testMap, row) /\ Shaped(testMultiMap, row) /\ Shaped(copyRow, row)
       /\ Shaped(Use(row, {}), row) /\ Shaped(Use({theRow}, row), row)
<1> DEFINE all == Variables \cup Filed
           row == {theRow, theField}
<1>1. /\ theRow \in Mutexes /\ theTable \in Mutexes /\ theColumn \in Mutexes
      /\ {} \in SUBSET AllData /\ row \in SUBSET AllData /\ {theRow} \in SUBSET AllData
      /\ Filed \in SUBSET AllData /\ {theTable} \cup Filed \in SUBSET AllData
  BY ObjectFacts DEF Filed
<1>2. Shaped(Write(theRow), {theRow} \cup Filed) /\ Shaped(Write(theTable), all)
  BY <1>1, ShapedSimple DEF Variables
<1>3. ASSUME NEW r \in SUBSET {theRow}
      PROVE  Shaped(InColumn(r), {theRow} \cup Filed)
  <2>1. r \in SUBSET AllData /\ r \cup Filed \subseteq {theRow} \cup Filed
    BY <1>1
  <2>2. Shaped(Use(r, Filed), {theRow} \cup Filed)
    BY <1>1, <2>1, ShapedUse
  <2> QED
    BY <1>1, <2>2, ShapedLocked DEF InColumn, Filed
<1>4. Shaped(InColumn({}), {theTable} \cup Filed)
  <2>1. {} \cup Filed \subseteq {theTable} \cup Filed
    OBVIOUS
  <2>2. Shaped(Use({}, Filed), {theTable} \cup Filed)
    BY <1>1, <2>1, ShapedUse
  <2> QED
    BY <1>1, <2>2, ShapedLocked DEF InColumn, Filed
<1>5. Shaped(lookup, {theTable} \cup Filed)
  <2>1. ({theTable} \cup Filed) \cup {} \subseteq {theTable} \cup Filed
        /\ {theTable} \cup Filed = {theTable, theColumn, theField}
    BY DEF Filed
  <2>2. Shaped(Use({theTable} \cup Filed, {}), {theTable} \cup Filed)
    BY <1>1, <2>1, ShapedUse
  <2> QED
    BY <2>1, <2>2 DEF lookup
<1>6. Shaped(Use(row, {}), row) /\ Shaped(Use({theRow}, row), row)
  <2>1. row \cup {} \subseteq row /\ {theRow} \cup row \subseteq row
    OBVIOUS
  <2> QED
    BY <1>1, <2>1, ShapedUse
<1>7. Shaped(Read(theRow), row) /\ Shaped(linked(theRow), row)
  BY <1>1, ShapedSimple
<1>8. Shaped(testMap, row) /\ Shaped(copyRow, row)
  BY <1>1, <1>6, <1>7, ShapedLocked, ShapedConcat DEF testMap, copyRow
<1>9. Shaped(testMultiMap, row)
  <2>1. Shaped(Locked(theRow, "unique_locked", Read(theRow)), row)
    BY <1>1, <1>7, ShapedLocked
  <2> QED
    BY <1>6, <2>1, ShapedConcat DEF testMultiMap
<1> QED
  BY <1>2, <1>3, <1>4, <1>5, <1>6, <1>8, <1>9

\* The row's own change, the filing of its fields and what comes last.
LEMMA RowChangeGuards ==
    ASSUME NEW last \in {Write(theTable), InColumn({})}
    PROVE  LET k == Locked(theRow, "unique_locked",
                           Write(theRow) \o InColumn({theRow}) \o last)
           IN Guarding(k) /\ Shaped(k, Variables \cup Filed)
<1> DEFINE w == Write(theRow)
           c == InColumn({theRow})
           b == (w \o c) \o last
           k == Locked(theRow, "unique_locked", b)
           all == Variables \cup Filed
<1>1. {theRow} \in SUBSET AllData /\ {} \in SUBSET AllData
  BY ObjectFacts
<1>2. CoversFiled(w) /\ CoversFiled(c) /\ CoversFiled(last)
  BY <1>1, CoversPieces
<1>3. Shaped(w, all) /\ Shaped(c, all) /\ Shaped(last, all)
  <2>1. /\ Shaped(w, {theRow} \cup Filed) /\ Shaped(c, {theRow} \cup Filed)
        /\ Shaped(Write(theTable), all) /\ Shaped(InColumn({}), {theTable} \cup Filed)
    BY ShapedRows
  <2>2. {theRow} \cup Filed \subseteq all /\ {theTable} \cup Filed \subseteq all
    BY DEF Variables
  <2> QED
    BY <2>1, <2>2, ShapedMore
<1> HIDE DEF w, c, all
<1>4. CoversFiled(b) /\ Shaped(b, all)
  <2>1. CoversFiled(w \o c) /\ Shaped(w \o c, all)
    BY <1>2, <1>3, CoversConcat, ShapedConcat
  <2> QED
    BY <1>2, <1>3, <2>1, CoversConcat, ShapedConcat
<1> HIDE DEF b
<1>5. Guarding(k) /\ Shaped(k, all)
  BY <1>4, LockGuards, ShapedLocked, ObjectFacts
<1> QED
  BY <1>5 DEF k, b, w, c, all

LEMMA GuardsAfterLink ==
    ASSUME NEW k, Guarding(k), NEW T, Shaped(k, T)
    PROVE  Guarding(linked(theRow) \o k) /\ Shaped(linked(theRow) \o k, T)
<1> DEFINE q == linked(theRow)
<1>1. Shaped(q, T) /\ Shaped(q, {}) /\ CoversFiled(q)
  BY ShapedLink, CoversPieces, ObjectFacts
<1> HIDE DEF q
<1>2. Nested(q) /\ \A x : UsesIn(q, x) = {}
  BY <1>1 DEF Shaped
<1>3. \A x : Kept(q \o k, x, theRow, "unique_locked")
  BY <1>2, KeptRight DEF Guarding
<1>4. CoversFiled(q \o k) /\ Shaped(q \o k, T)
  BY <1>1, CoversConcat, ShapedConcat DEF Guarding
<1> QED
  BY <1>3, <1>4 DEF Guarding, q

LEMMA dropRowGuards == Guarding(dropRow) /\ Shaped(dropRow, Variables \cup Filed)
  BY RowChangeGuards, GuardsAfterLink DEF dropRow

LEMMA InsertsSafe ==
    ASSUME NEW last \in {Write(theTable), InColumn({})}
    PROVE  /\ Safe(insertRow(<<>>, last), {})
           /\ \A test \in {testMap, testMultiMap} :
                 Safe(insertRow(test, last), {theRow, theField})
<1> DEFINE k == Locked(theRow, "unique_locked",
                       Write(theRow) \o InColumn({theRow}) \o last)
           q == linked(theRow)
           row == {theRow, theField}
<1>1. Guarding(k) /\ Shaped(k, Variables \cup Filed)
  BY RowChangeGuards
<1>2. Shaped(q, {}) /\ Shaped(q, row) /\ Shaped(<<>>, {})
  BY ShapedLink, ObjectFacts
<1>3. Shaped(testMap, row) /\ Shaped(testMultiMap, row)
  BY ShapedRows
<1>4. \A check : insertRow(check, last) = Locked(theTable, "unique_locked", (q \o check) \o k)
  BY DEF insertRow
<1> HIDE DEF k, q
<1>5. Shaped(q \o <<>>, {})
  BY <1>2, ShapedConcat
<1>6. Safe(insertRow(<<>>, last), {})
  <2> DEFINE none == {}
             a == q \o <<>>
  <2>1. insertRow(<<>>, last) = Locked(theTable, "unique_locked", a \o k)
    BY <1>4
  <2>2. /\ none \subseteq Variables \cup Filed /\ none \subseteq {theTable} \cup none
        /\ Shaped(a, none)
    BY <1>5
  <2> HIDE DEF a, none
  <2>3. Safe(Locked(theTable, "unique_locked", a \o k), none)
    BY <1>1, <2>2, GuardedInTable
  <2> QED
    BY <2>1, <2>3 DEF none
<1>7. ASSUME NEW test \in {testMap, testMultiMap}
      PROVE  Safe(insertRow(test, last), row)
  <2>1. Shaped(test, row)
    BY <1>3
  <2> HIDE DEF row
  <2>2. Shaped(q \o test, row)
    BY <1>2, <2>1, ShapedConcat
  <2>3. row \subseteq Variables \cup Filed /\ row \subseteq {theTable} \cup row
    BY DEF row, Variables, Filed
  <2> QED
    BY <1>1, <1>4, <2>2, <2>3, GuardedInTable
<1> QED
  BY <1>6, <1>7

LEMMA RemovesSafe ==
    Safe(removeRow, {}) /\ Safe(removeValue, Filed)
<1>1. Guarding(dropRow) /\ Shaped(dropRow, Variables \cup Filed)
  BY dropRowGuards
<1>2. Safe(removeValue, Filed)
  <2>1. Shaped(lookup, {theTable} \cup Filed)
    BY ShapedRows
  <2>2. {theTable} \cup Filed \subseteq Variables \cup Filed
    BY DEF Variables
  <2> QED
    BY <1>1, <2>1, <2>2, GuardedInTable DEF removeValue
<1>3. Safe(removeRow, {})
  <2> DEFINE k == Locked(theRow, "unique_locked",
                         Write(theRow) \o InColumn({theRow}) \o Write(theTable))
             q == linked(theRow)
  <2>1. Guarding(k) /\ Shaped(k, Variables \cup Filed)
    BY RowChangeGuards
  <2>2. Shaped(q, {})
    BY ShapedLink, ObjectFacts
  <2>3. removeRow = Locked(theTable, "unique_locked", q \o k)
    BY DEF removeRow, dropRow
  <2> HIDE DEF k, q
  <2> QED
    BY <2>1, <2>2, <2>3, GuardedInTable
<1> QED
  BY <1>2, <1>3

\* Rows that are looked for without the lock of the index.
LEMMA WhereSafe ==
    ASSUME NEW test, Shaped(test, {theRow, theField})
    PROVE  LET E == {theRow, theColumn, theField}
           IN /\ Safe(removeWhere(test), E) /\ Safe(changeWhere(test), E)
              /\ Safe(findAndMove(test), E)
              /\ \A found : Shaped(found, {theRow, theField})
                               => Safe(findRows(test, found), E)
<1> DEFINE E == {theRow, theColumn, theField}
           all == Variables \cup Filed
           move == Locked(theRow, "unique_locked", Use({theRow}, {theRow, theField}))
           look == lookup
           see == look \o test
<1>1. /\ all \subseteq {theTable} \cup E /\ {theRow, theField} \subseteq E
      /\ {theRow} \cup Filed \subseteq E /\ theTable \notin E
      /\ {theTable} \cup Filed \subseteq all /\ E \subseteq all
  BY ObjectFacts DEF Variables, Filed
<1>2. Shaped(look, all) /\ Shaped(test, E) /\ Shaped(test, all)
  BY <1>1, ShapedRows, ShapedMore
<1>3. Shaped(move, E)
  <2>1. Shaped(Use({theRow}, {theRow, theField}), E)
    BY <1>1, ShapedRows, ShapedMore
  <2> QED
    BY <2>1, ShapedLocked, ObjectFacts
<1>4. Shaped(rowInsert, E)
  <2>1. {theRow} \in SUBSET {theRow}
    OBVIOUS
  <2>2. Shaped(InColumn({theRow}), {theRow} \cup Filed)
    BY <2>1, ShapedRows
  <2>3. Shaped(Write(theRow) \o InColumn({theRow}), {theRow} \cup Filed)
    BY <2>2, ShapedRows, ShapedConcat
  <2> QED
    BY <1>1, <2>3, ShapedMore, ShapedLocked, ObjectFacts DEF rowInsert
<1>5. ReadOnce(look, theTable)
  <2>1. {theTable, theColumn, theField} \in SUBSET AllData
    BY ObjectFacts
  <2> QED
    BY <2>1, ReadOnceUse DEF lookup
<1>6. /\ removeWhere(test) = Locked(theTable, "unique_locked", see \o dropRow)
      /\ changeWhere(test) = Locked(theTable, "unique_locked", see \o rowInsert)
      /\ findAndMove(test) = Locked(theTable, "shared_locked", see \o move)
      /\ \A found : findRows(test, found) = Locked(theTable, "shared_locked", see \o found)
  BY DEF removeWhere, changeWhere, findAndMove, findRows
<1> HIDE DEF E, all, move, look
<1>7. Shaped(see, all) /\ ReadOnce(see, theTable)
  BY <1>1, <1>2, <1>5, ShapedConcat, OnceThenUnused DEF Shaped
<1> HIDE DEF see
<1>8. Safe(removeWhere(test), E)
  <2>1. Shaped(see \o dropRow, all)
    BY <1>7, dropRowGuards, ShapedConcat DEF all
  <2> QED
    BY <1>1, <1>6, <2>1, SafeLocked, ObjectFacts
<1>9. Safe(changeWhere(test), E)
  <2>1. Shaped(see \o rowInsert, all)
    BY <1>1, <1>4, <1>7, ShapedMore, ShapedConcat
  <2> QED
    BY <1>1, <1>6, <2>1, SafeLocked, ObjectFacts
<1>10. ASSUME NEW found, Shaped(found, E)
       PROVE  Safe(Locked(theTable, "shared_locked", see \o found), E)
  <2>1. Shaped(see \o found, all) /\ ReadOnce(see \o found, theTable)
    BY <1>1, <1>7, <1>10, ShapedMore, ShapedConcat, OnceThenUnused DEF Shaped
  <2> QED
    BY <1>1, <2>1, SafeLocked, ObjectFacts
<1>11. Safe(findAndMove(test), E)
  BY <1>3, <1>6, <1>10
<1>12. ASSUME NEW found, Shaped(found, {theRow, theField})
       PROVE  Safe(findRows(test, found), E)
  <2>1. Shaped(found, E)
    BY <1>1, <1>12, ShapedMore
  <2>2. findRows(test, found) = Locked(theTable, "shared_locked", see \o found)
    BY <1>6
  <2> QED
    BY <1>10, <2>1, <2>2
<1> QED
  BY <1>8, <1>9, <1>11, <1>12 DEF E

LEMMA clearTableSafe == Safe(clearTable, Filed)
<1>1. Shaped(InColumn({}), {theTable} \cup Filed)
  BY ShapedRows
<1>2. Shaped(Write(theTable), {theTable} \cup Filed)
  BY ShapedSimple, ObjectFacts
<1>3. Shaped(InColumn({}) \o Write(theTable), {theTable} \cup Filed)
  BY <1>1, <1>2, ShapedConcat
<1> QED
  BY <1>3, SafeLocked, ObjectFacts DEF clearTable

\* The index is read under its lock and under that of the table.
LEMMA getRowSafe == Safe(getRow, {})
<1> DEFINE u == Use(Filed, {})
           b == u \o linked(theRow)
           c == Locked(theColumn, "shared_locked", b)
<1>1. getRow = Locked(theTable, "shared_locked", c)
  BY DEF getRow, Filed
<1>2. Shaped(u, Filed) /\ \A x : ReadOnce(u, x)
  <2>1. Filed \in SUBSET AllData /\ {} \in SUBSET AllData /\ Filed \cup {} \subseteq Filed
    BY ObjectFacts DEF Filed
  <2> QED
    BY <2>1, ShapedUse, ReadOnceUse
<1>3. Shaped(linked(theRow), Filed) /\ Shaped(linked(theRow), {})
  BY ShapedLink, ObjectFacts
<1> HIDE DEF u
<1>4. Shaped(b, Filed) /\ \A x : ReadOnce(b, x)
  BY <1>2, <1>3, ShapedConcat, OnceThenUnused DEF Shaped
<1> HIDE DEF b
<1>5. /\ Shaped(c, Filed) /\ \A x : ReadOnce(c, x)
      /\ \A x : Kept(c, x, theColumn, "shared_locked")
  BY <1>4, ShapedLocked, ReadOnceLocked, KeptOuter, ObjectFacts DEF Shaped, Nested
<1> HIDE DEF c
<1>6. /\ Shaped(getRow, Filed) /\ Nested(getRow) /\ getRow # <<>>
      /\ \A x : ReadOnce(getRow, x)
      /\ \A x : Kept(getRow, x, theColumn, "shared_locked")
      /\ \A x : Kept(getRow, x, theTable, "shared_locked")
  BY <1>1, <1>5, ShapedLocked, ReadOnceLocked, KeptOuter, KeptLocked, LockedIsLong,
     ObjectFacts DEF Shaped, Nested
<1>7. ASSUME NEW x PROVE SafeFor(getRow, x)
  <2>1. CASE x \in Filed
    BY <1>6, <2>1 DEF SafeFor
  <2>2. CASE x \notin Filed
    BY <1>6, <2>2, UnusedIsSafe
  <2> QED
    BY <2>1, <2>2
<1> QED
  BY <1>6, <1>7 DEF Safe

\* The methods of a row that a table does not call.
LEMMA RowCallsSafe ==
    /\ Safe(rowInsert, {}) /\ Safe(rowRemove, {}) /\ Safe(rowRename, {})
    /\ Safe(copyRow, {theRow, theField})
<1> DEFINE T == {theRow} \cup Filed
           w == Write(theRow)
           in == InColumn({theRow})
           out == InColumn({})
           back == Locked(theRow, "unique_locked", in)
           b == ((w \o out) \o back) \o w
<1>1. /\ rowInsert = Locked(theRow, "unique_locked", w \o in)
      /\ rowRemove = Locked(theRow, "unique_locked", w \o out)
      /\ rowRename = Locked(theRow, "unique_locked", b)
  BY DEF rowInsert, rowRemove, rowRename
<1>2. CoversFiled(w) /\ CoversFiled(in) /\ CoversFiled(out)
  <2>1. {theRow} \in SUBSET AllData /\ {} \in SUBSET AllData
    BY ObjectFacts
  <2> QED
    BY <2>1, CoversPieces
<1>3. Shaped(w, T) /\ Shaped(in, T) /\ Shaped(out, T)
  <2>1. {theRow} \in SUBSET {theRow} /\ {} \in SUBSET {theRow}
    OBVIOUS
  <2> QED
    BY <2>1, ShapedRows
<1> HIDE DEF w, in, out, T
<1>4. CoversFiled(back) /\ Shaped(back, T)
  BY <1>2, <1>3, CoversLocked, ShapedLocked, ObjectFacts
<1> HIDE DEF back
<1>5. /\ CoversFiled(w \o in) /\ Shaped(w \o in, T)
      /\ CoversFiled(w \o out) /\ Shaped(w \o out, T)
  BY <1>2, <1>3, CoversConcat, ShapedConcat
<1>6. CoversFiled((w \o out) \o back) /\ Shaped((w \o out) \o back, T)
  BY <1>4, <1>5, CoversConcat, ShapedConcat
<1>7. CoversFiled(b) /\ Shaped(b, T)
  BY <1>2, <1>3, <1>6, CoversConcat, ShapedConcat
<1> HIDE DEF b
<1>8. T \subseteq {theRow} \cup Filed
  BY DEF T
<1>9. Safe(rowInsert, {}) /\ Safe(rowRemove, {}) /\ Safe(rowRename, {})
  BY <1>1, <1>5, <1>7, <1>8, GuardingIsSafe
<1>10. Safe(copyRow, {theRow, theField})
  <2>1. Shaped(copyRow, {theRow, theField})
    BY ShapedRows
  <2>2. copyRow # <<>>
    <3>1. Shaped(<<>>, {}) /\ Shaped(linked(theRow), {})
      BY ShapedLink, ObjectFacts
    <3>2. linked(theRow) # <<>>
      BY <3>1, LockedIsLong, ObjectFacts DEF linked, Shaped
    <3>3. Nested(Use({theRow, theField}, {}))
      BY ShapedRows DEF Shaped
    <3> QED
      BY <3>1, <3>2, <3>3, ConcatIsLong DEF copyRow, Shaped
  <2> QED
    BY <2>1, <2>2, SafeExposed
<1> QED
  BY <1>9, <1>10

LEMMA readRowSafe == Safe(readRow, {})
<1> DEFINE row == {theRow, theField}
           u == Use(row, {})
<1>1. readRow = Locked(theRow, "shared_locked", u)
  BY DEF readRow
<1>2. Shaped(u, row) /\ \A x : ReadOnce(u, x)
  <2>1. row \in SUBSET AllData
    BY ObjectFacts
  <2> QED
    BY <2>1, ShapedRows, ReadOnceUse
<1> HIDE DEF u
<1>3. /\ Shaped(readRow, row) /\ Nested(readRow) /\ readRow # <<>>
      /\ \A x : ReadOnce(readRow, x) /\ Kept(readRow, x, theRow, "shared_locked")
  BY <1>1, <1>2, ShapedLocked, LockedIsLong, ReadOnceLocked, KeptOuter, ObjectFacts
     DEF Shaped, Nested
<1>4. ASSUME NEW x PROVE SafeFor(readRow, x)
  <2>1. CASE x \in row
    BY <1>3, <2>1, ObjectFacts DEF SafeFor
  <2>2. CASE x \notin row
    BY <1>3, <2>2, UnusedIsSafe
  <2> QED
    BY <2>1, <2>2
<1> QED
  BY <1>3, <1>4 DEF Safe

-----------------------------------------------------------------------------
(* The classes *)

\* The uses of s that are listed among those that others can disturb.
ExposedBy(s) == {x \in AllData : <<s, x>> \in Exposed}

LEMMA PairFacts ==
    ASSUME NEW p \in Pairs
    PROVE  p[1] \in Variables /\ p[2] \in Variables /\ p[1] # p[2]
  BY DEF Pairs

LEMMA SafeBesides ==
    ASSUME NEW s, NEW E, Safe(s, E), \A x \in E : <<s, x>> \in Exposed
    PROVE  Safe(s, ExposedBy(s))
  BY DEF Safe, ExposedBy

LEMMA SafeThroughout ==
    ASSUME NEW s, Safe(s, {})
    PROVE  Safe(s, ExposedBy(s))
  BY DEF Safe

LEMMA VariableMethodsSafe ==
    ASSUME ExposedCopies \subseteq Exposed, NEW s \in VariableMethods
    PROVE  Safe(s, ExposedBy(s))
<1>1. ASSUME NEW y \in Variables, s = Reading(y)
      PROVE  Safe(s, ExposedBy(s))
  BY <1>1, SimpleSafe, SafeThroughout
<1>2. ASSUME NEW y \in Variables, s = cloneResource(y)
      PROVE  Safe(s, ExposedBy(s))
  <2>1. <<s, y>> \in Exposed
    BY <1>2 DEF ExposedCopies
  <2> QED
    BY <1>2, <2>1, SimpleSafe, SafeBesides
<1>3. ASSUME NEW p \in Pairs, s = assign(p[1], p[2])
      PROVE  Safe(s, ExposedBy(s))
  <2>1. <<s, p[2]>> \in Exposed
    BY <1>3 DEF ExposedCopies
  <2>2. Safe(s, {p[2]})
    BY <1>3, PairFacts, PairsSafe
  <2> QED
    BY <2>1, <2>2, SafeBesides
<1> QED
  BY <1>1, <1>2, <1>3 DEF VariableMethods

LEMMA NumberMethodsSafe ==
    ASSUME ExposedOperands \subseteq Exposed, NEW s \in NumberMethods
    PROVE  Safe(s, ExposedBy(s))
<1>1. ASSUME NEW y \in Variables, s = Changing(y)
      PROVE  Safe(s, ExposedBy(s))
  BY <1>1, SimpleSafe, SafeThroughout
<1>2. ASSUME NEW p \in Pairs, s \in {compare(p[1], p[2]), binary(p[1], p[2]),
                                     assignNumber(p[1], p[2]), compound(p[1], p[2])}
      PROVE  Safe(s, ExposedBy(s))
  <2> DEFINE first(q) == {compare(q[1], q[2]), binary(q[1], q[2]),
                          assignNumber(q[1], q[2]), compound(q[1], q[2])} \X {q[2]}
             second == {<<assignNumber(q[1], q[2]), q[1]>> : q \in Pairs}
  <2>1. second \cup UNION {first(q) : q \in Pairs} \subseteq Exposed
    BY DEF ExposedOperands
  <2>2. <<s, p[2]>> \in first(p)
    BY <1>2
  <2>3. s = assignNumber(p[1], p[2]) => <<s, p[1]>> \in second
    OBVIOUS
  <2> HIDE DEF first, second
  <2>4. <<s, p[2]>> \in Exposed
    BY <2>1, <2>2
  <2>5. s = assignNumber(p[1], p[2]) => <<s, p[1]>> \in Exposed
    BY <2>1, <2>3
  <2>6. CASE s = assignNumber(p[1], p[2])
    <3>1. Safe(s, {p[1], p[2]})
      BY <2>6, PairFacts, OperatorsSafe
    <3> QED
      BY <2>4, <2>5, <2>6, <3>1, SafeBesides
  <2>7. CASE s # assignNumber(p[1], p[2])
    <3>1. Safe(s, {p[2]})
      BY <1>2, <2>7, PairFacts, OperatorsSafe
    <3> QED
      BY <2>4, <3>1, SafeBesides
  <2> QED
    BY <2>6, <2>7
<1> QED
  BY <1>1, <1>2 DEF NumberMethods

\* Methods on one variable, and on two, of which a class exposes the second.
LEMMA OneSafe ==
    ASSUME NEW s, NEW y \in Variables, s \in {Changing(y), ReadingAlone(y)}
    PROVE  Safe(s, ExposedBy(s))
  BY SimpleSafe, SafeThroughout

LEMMA SelfExposed ==
    ASSUME NEW s, NEW y \in Variables, s \in {MapIndexing(y), isPrintable(y)},
           <<s, y>> \in Exposed
    PROVE  Safe(s, ExposedBy(s))
<1>1. Safe(s, {y})
  BY SimpleSafe
<1> QED
  BY <1>1, SafeBesides

LEMMA TwoSafe ==
    ASSUME NEW s, NEW p \in Pairs,
           s \in {push(p[1], p[2]), put(p[1], p[2]), element(p[1], p[2])}
    PROVE  Safe(s, ExposedBy(s))
<1>1. Safe(s, {})
  BY PairFacts, PairsSafe
<1> QED
  BY <1>1, SafeThroughout

LEMMA SecondExposed ==
    ASSUME NEW s, NEW p \in Pairs, <<s, p[2]>> \in Exposed,
           s \in {grow(p[1], p[2]), append(p[1], p[2]), getVariable(p[1], p[2]),
                  merge(p[1], p[2])}
    PROVE  Safe(s, ExposedBy(s))
<1>1. Safe(s, {p[2]})
  BY PairFacts, PairsSafe
<1> QED
  BY <1>1, SafeBesides

LEMMA ArrayMethodsSafe ==
    ASSUME class = "Array", NEW s \in ArrayMethods
    PROVE  Safe(s, ExposedBy(s))
<1>1. {<<grow(p[1], p[2]), p[2]>> : p \in Pairs} \subseteq Exposed
  BY DEF Exposed, ExposedOf
<1>2. CASE \E y \in Variables : s = Changing(y)
  BY <1>2, OneSafe
<1>3. CASE \E p \in Pairs : s \in {push(p[1], p[2]), element(p[1], p[2])}
  BY <1>3, TwoSafe
<1>4. CASE \E p \in Pairs : s = grow(p[1], p[2])
  BY <1>1, <1>4, SecondExposed
<1> QED
  BY <1>2, <1>3, <1>4 DEF ArrayMethods, Modifiers

LEMMA ListMethodsSafe ==
    ASSUME class = "List", NEW s \in ListMethods
    PROVE  Safe(s, ExposedBy(s))
<1>1. {<<append(p[1], p[2]), p[2]>> : p \in Pairs} \subseteq Exposed
  BY DEF Exposed, ExposedOf
<1>2. CASE \E y \in Variables : s = Changing(y)
  BY <1>2, OneSafe
<1>3. CASE \E p \in Pairs : s = append(p[1], p[2])
  BY <1>1, <1>3, SecondExposed
<1> QED
  BY <1>2, <1>3 DEF ListMethods, Modifiers

LEMMA BufferArrayMethodsSafe ==
    ASSUME class = "BufferArray", NEW s \in BufferArrayMethods
    PROVE  Safe(s, ExposedBy(s))
<1>1. {<<isPrintable(x), x>> : x \in Variables} \subseteq Exposed
  BY DEF Exposed, ExposedOf
<1>2. CASE \E y \in Variables : s = Changing(y)
  BY <1>2, OneSafe
<1>3. CASE \E y \in Variables : s = isPrintable(y)
  BY <1>1, <1>3, SelfExposed
<1> QED
  BY <1>2, <1>3 DEF BufferArrayMethods, Modifiers

LEMMA MultiMapMethodsSafe ==
    ASSUME NEW s \in MultiMapMethods
    PROVE  Safe(s, ExposedBy(s))
<1>1. CASE \E y \in Variables : s \in {Changing(y), ReadingAlone(y)}
  BY <1>1, OneSafe
<1>2. CASE \E p \in Pairs : s = put(p[1], p[2])
  BY <1>2, TwoSafe
<1> QED
  BY <1>1, <1>2 DEF MultiMapMethods, Modifiers

LEMMA MapMethodsSafe ==
    ASSUME class = "Map", NEW s \in MapMethods
    PROVE  Safe(s, ExposedBy(s))
<1>1. /\ {<<MapIndexing(x), x>> : x \in Variables} \subseteq Exposed
      /\ {<<getVariable(p[1], p[2]), p[2]>> : p \in Pairs} \subseteq Exposed
  BY DEF Exposed, ExposedOf
<1>2. CASE \E y \in Variables : s = MapIndexing(y)
  BY <1>1, <1>2, SelfExposed
<1>3. CASE \E p \in Pairs : s = getVariable(p[1], p[2])
  BY <1>1, <1>3, SecondExposed
<1> QED
  BY <1>2, <1>3, MultiMapMethodsSafe DEF MapMethods

LEMMA TableMethodsSafe ==
    ASSUME class = "Table", NEW s \in TableMethods
    PROVE  Safe(s, ExposedBy(s))
<1>1. /\ {<<merge(p[1], p[2]), p[2]>> : p \in Pairs} \subseteq Exposed
      /\ UNION {{plus(p[1], p[2])} \X Variables : p \in Pairs} \subseteq Exposed
  BY DEF Exposed, ExposedOf
<1>2. CASE \E y \in Variables : s \in {Changing(y), ReadingAlone(y)}
  BY <1>2, OneSafe
<1>3. CASE \E p \in Pairs : s = merge(p[1], p[2])
  BY <1>1, <1>3, SecondExposed
<1>4. CASE \E p \in Pairs : s = plus(p[1], p[2])
  <2>1. PICK p \in Pairs : s = plus(p[1], p[2])
    BY <1>4
  <2>2. Safe(s, {p[1], p[2]})
    BY <2>1, PairFacts, PairsSafe
  <2>3. \A x \in {p[1], p[2]} : <<s, x>> \in {plus(p[1], p[2])} \X Variables
    BY <2>1, PairFacts
  <2>4. \A x \in {p[1], p[2]} : <<s, x>> \in Exposed
    BY <1>1, <2>3
  <2> QED
    BY <2>2, <2>4, SafeBesides
<1> QED
  BY <1>2, <1>3, <1>4 DEF TableMethods, Modifiers

\* A row of either class, which differ in how a row is tested and found.
LEMMA TableCallsSafe ==
    ASSUME NEW test \in {testMap, testMultiMap},
           NEW found, Shaped(found, {theRow, theField}),
           ExposedRows(test, found) \subseteq Exposed,
           NEW s \in TableCalls(test, found) \cup RowCalls
    PROVE  Safe(s, ExposedBy(s))
<1> DEFINE E == {theRow, theColumn, theField}
           row == {theRow, theField}
           lasts == {Write(theTable), InColumn({})}
<1>1. Shaped(test, row)
  BY ShapedRows
<1>2. /\ {findRows(test, found), findAndMove(test), removeWhere(test), changeWhere(test)}
             \X E \subseteq Exposed
      /\ {removeValue, clearTable} \X {theColumn, theField} \subseteq Exposed
      /\ {insertRow(test, last) : last \in lasts} \X row \subseteq Exposed
      /\ {copyRow} \X row \subseteq Exposed
  BY DEF ExposedRows
<1>3. CASE s \in {findRows(test, found), findAndMove(test), removeWhere(test),
                  changeWhere(test)}
  <2>1. Safe(s, E)
    BY <1>1, <1>3, WhereSafe
  <2>2. \A x \in E : <<s, x>> \in {findRows(test, found), findAndMove(test),
                                   removeWhere(test), changeWhere(test)} \X E
    BY <1>3
  <2>3. \A x \in E : <<s, x>> \in Exposed
    BY <1>2, <2>2
  <2> QED
    BY <2>1, <2>3, SafeBesides
<1>4. CASE s \in {removeValue, clearTable}
  <2>1. Safe(s, Filed)
    BY <1>4, RemovesSafe, clearTableSafe
  <2>2. \A x \in Filed : <<s, x>> \in {removeValue, clearTable} \X {theColumn, theField}
    BY <1>4 DEF Filed
  <2>3. \A x \in Filed : <<s, x>> \in Exposed
    BY <1>2, <2>2
  <2> QED
    BY <2>1, <2>3, SafeBesides
<1>5. CASE \E last \in lasts : s = insertRow(test, last)
  <2>1. PICK last \in lasts : s = insertRow(test, last)
    BY <1>5
  <2>2. Safe(s, row)
    BY <2>1, InsertsSafe
  <2>3. s \in {insertRow(test, l) : l \in lasts}
    BY <2>1
  <2>4. \A x \in row : <<s, x>> \in Exposed
    <3> HIDE DEF lasts, row
    <3> QED
      BY <1>2, <2>3
  <2> QED
    BY <2>2, <2>4, SafeBesides
<1>6. CASE \E last \in lasts : s = insertRow(<<>>, last)
  <2>1. Safe(s, {})
    BY <1>6, InsertsSafe
  <2> QED
    BY <2>1, SafeThroughout
<1>7. CASE s = copyRow
  <2>1. Safe(s, row)
    BY <1>7, RowCallsSafe
  <2>2. \A x \in row : <<s, x>> \in {copyRow} \X row
    BY <1>7
  <2>3. \A x \in row : <<s, x>> \in Exposed
    BY <1>2, <2>2
  <2> QED
    BY <2>1, <2>3, SafeBesides
<1>8. CASE s \in {removeRow, getRow, readRow} \cup RowChanges
  <2>1. Safe(s, {})
    BY <1>8, RemovesSafe, getRowSafe, readRowSafe, RowCallsSafe DEF RowChanges
  <2> QED
    BY <2>1, SafeThroughout
<1>9. \/ s \in {findRows(test, found), findAndMove(test), removeWhere(test),
                changeWhere(test)}
      \/ s \in {removeValue, clearTable}
      \/ \E last \in lasts : s = insertRow(test, last) \/ s = insertRow(<<>>, last)
      \/ s = copyRow
      \/ s \in {removeRow, getRow, readRow} \cup RowChanges
  <2>1. CASE s \in RowCalls
    BY <2>1 DEF RowCalls
  <2>2. CASE s \in TableCalls(test, found)
    <3> HIDE DEF lasts
    <3>1. \/ s \in {insertRow(check, last) : check \in {<<>>, test}, last \in lasts}
          \/ s \in {removeRow, removeValue, removeWhere(test), changeWhere(test),
                    clearTable, getRow, findRows(test, found), findAndMove(test)}
      BY <2>2 DEF TableCalls, lasts
    <3>2. CASE s \in {insertRow(check, last) : check \in {<<>>, test}, last \in lasts}
      BY <3>2
    <3> QED
      BY <3>1, <3>2
  <2> QED
    BY <2>1, <2>2
<1> QED
  BY <1>3, <1>4, <1>5, <1>6, <1>7, <1>8, <1>9

LEMMA RowMethodsSafe ==
    ASSUME class \in {"MapRow", "MultiMapRow"}, NEW s \in MethodsOf[class]
    PROVE  Safe(s, ExposedBy(s))
<1>1. Shaped(copyRow, {theRow, theField}) /\ Shaped(linked(theRow), {theRow, theField})
  BY ShapedRows, ShapedLink, ObjectFacts
<1>2. CASE class = "MapRow"
  <2>1. /\ ExposedRows(testMap, copyRow) \subseteq Exposed
        /\ <<MapIndexing(theRow), theRow>> \in Exposed
    BY <1>2 DEF Exposed, ExposedOf
  <2>2. s \in TableCalls(testMap, copyRow) \cup RowCalls \/ s = MapIndexing(theRow)
    BY <1>2 DEF MethodsOf
  <2>3. CASE s \in TableCalls(testMap, copyRow) \cup RowCalls
    BY <1>1, <2>1, <2>3, TableCallsSafe
  <2>4. CASE s = MapIndexing(theRow)
    BY <2>1, <2>4, SelfExposed, ObjectFacts
  <2> QED
    BY <2>2, <2>3, <2>4
<1>3. CASE class = "MultiMapRow"
  <2>1. ExposedRows(testMultiMap, linked(theRow)) \subseteq Exposed
    BY <1>3 DEF Exposed, ExposedOf
  <2>2. s \in TableCalls(testMultiMap, linked(theRow)) \cup RowCalls
    BY <1>3 DEF MethodsOf
  <2> QED
    BY <1>1, <2>1, <2>2, TableCallsSafe
<1> QED
  BY <1>2, <1>3

\* Every method closes what it opens, and has no use of an object that others
\* are not kept from, but for those that Exposed names.
LEMMA MethodsSafe ==
    ASSUME class \in DOMAIN MethodsOf, NEW s \in MethodsOf[class]
    PROVE  Safe(s, ExposedBy(s))
<1>1. class \in {"Number", "Array", "List", "BitArray", "BufferArray", "Map",
                 "MultiMap", "Table", "MapRow", "MultiMapRow"}
  BY DEF MethodsOf
<1>2. CASE class \in {"MapRow", "MultiMapRow"}
  BY <1>2, RowMethodsSafe
<1>3. CASE class \notin {"MapRow", "MultiMapRow"}
  <2>1. ExposedCopies \subseteq Exposed
    BY <1>1, <1>3 DEF Exposed, ExposedOf
  <2>2. CASE s \in VariableMethods
    BY <2>1, <2>2, VariableMethodsSafe
  <2>3. CASE s \notin VariableMethods
    <3>1. CASE class = "Number"
      <4>1. ExposedOperands \subseteq Exposed /\ s \in NumberMethods
        BY <2>3, <3>1 DEF MethodsOf, Exposed, ExposedOf
      <4> QED
        BY <4>1, NumberMethodsSafe
    <3>2. CASE class = "Array"
      <4>1. s \in ArrayMethods
        BY <2>3, <3>2 DEF MethodsOf
      <4> QED
        BY <3>2, <4>1, ArrayMethodsSafe
    <3>3. CASE class = "List"
      <4>1. s \in ListMethods
        BY <2>3, <3>3 DEF MethodsOf
      <4> QED
        BY <3>3, <4>1, ListMethodsSafe
    <3>4. CASE class = "BitArray"
      <4>1. \E y \in Variables : s \in {Changing(y), ReadingAlone(y)}
        BY <2>3, <3>4 DEF MethodsOf, BitArrayMethods, Modifiers
      <4> QED
        BY <4>1, OneSafe
    <3>5. CASE class = "BufferArray"
      <4>1. s \in BufferArrayMethods
        BY <2>3, <3>5 DEF MethodsOf
      <4> QED
        BY <3>5, <4>1, BufferArrayMethodsSafe
    <3>6. CASE class = "Map"
      <4>1. s \in MapMethods
        BY <2>3, <3>6 DEF MethodsOf
      <4> QED
        BY <3>6, <4>1, MapMethodsSafe
    <3>7. CASE class = "MultiMap"
      <4>1. s \in MultiMapMethods
        BY <2>3, <3>7 DEF MethodsOf
      <4> QED
        BY <4>1, MultiMapMethodsSafe
    <3>8. CASE class = "Table"
      <4>1. s \in TableMethods
        BY <2>3, <3>8 DEF MethodsOf
      <4> QED
        BY <3>8, <4>1, TableMethodsSafe
    <3> QED
      BY <1>1, <1>3, <3>1, <3>2, <3>3, <3>4, <3>5, <3>6, <3>7, <3>8
  <2> QED
    BY <2>2, <2>3
<1> QED
  BY <1>2, <1>3

-----------------------------------------------------------------------------
(* A thread that has a mutex for itself does not wait for it *)

ClaimsUniquely(t, m) ==
    \/ Typed(t, m, "unique_locked") # {}
    \/ m \in Acquired(t) /\ tx[t].lock_type = "unique_locked"

ClaimsHold ==
    \A t \in Threads, m \in Mutexes :
        ClaimsUniquely(t, m) =>
            /\ call[t].mtx # m =>
                  owner[m] = t /\ counter_storage[t][m].unique_lock_counter > 0
            /\ call[t] # [op |-> "relock_shared", mtx |-> m]

LEMMA ClaimsAreHeld == TxInv => ClaimsHold
<1> SUFFICES ASSUME TxInv, NEW t \in Threads, NEW m \in Mutexes, ClaimsUniquely(t, m)
             PROVE  /\ call[t].mtx # m =>
                          /\ owner[m] = t
                          /\ counter_storage[t][m].unique_lock_counter > 0
                    /\ call[t] # [op |-> "relock_shared", mtx |-> m]
  BY DEF ClaimsHold
<1>1. /\ Agree(Seen(t, m), t) /\ counter_storage[t][m] \in Counters
      /\ CountsWith(t, m, Mine(t, m))
  BY TxMatchIsCountsWith DEF TxInv, CountersMatchMutex, TypeOK
<1>2. PICK k \in Counters : k = Mine(t, m)
  BY MineFacts DEF Beside
<1>3. counter_storage[t][m].unique_lock_counter
         = Cardinality(Typed(t, m, "unique_locked")) + k.unique_lock_counter
           - In(t, m, "lock")
  BY <1>1, <1>2 DEF CountsWith
<1>4. /\ Cardinality(Typed(t, m, "unique_locked")) \in Nat
      /\ Typed(t, m, "unique_locked") # {} =>
            Cardinality(Typed(t, m, "unique_locked")) > 0
  BY ObjectsFinite, FS_EmptySet
<1>5. m \in Acquired(t) /\ tx[t].lock_type = "unique_locked" =>
         k.unique_lock_counter > 0
  BY <1>2 DEF Mine, OneOf, One
<1>6. In(t, m, "lock") = 0 => counter_storage[t][m].unique_lock_counter > 0
  <2>1. PICK c \in Nat : c = Cardinality(Typed(t, m, "unique_locked"))
    BY <1>4
  <2>2. k.unique_lock_counter \in Nat
    BY <1>2 DEF Counters
  <2>3. c > 0 \/ k.unique_lock_counter > 0
    BY <1>4, <1>5, <2>1 DEF ClaimsUniquely
  <2> QED
    BY <1>3, <2>1, <2>2, <2>3
<1>7. ASSUME call[t].mtx # m
      PROVE  owner[m] = t /\ counter_storage[t][m].unique_lock_counter > 0
  <2>1. In(t, m, "lock") = 0
    BY <1>7 DEF In
  <2>2. /\ Seen(t, m).op = "none" /\ Seen(t, m).counters = counter_storage[t][m]
        /\ Seen(t, m).owner = owner[m]
    BY <1>7 DEF Seen, View
  <2> QED
    BY <1>1, <1>6, <2>1, <2>2 DEF Agree
<1>8. ASSUME call[t] = [op |-> "relock_shared", mtx |-> m]
      PROVE  FALSE
  <2>1. call[t].mtx = m /\ call[t].op = "relock_shared"
    BY <1>8
  <2>2. In(t, m, "lock") = 0
    BY <2>1 DEF In
  <2>3. Seen(t, m).op = "relock_shared" /\ Seen(t, m).counters = counter_storage[t][m]
    BY <2>1 DEF Seen, View
  <2>4. counter_storage[t][m].unique_lock_counter = 0
    BY <1>1, <2>3 DEF Agree
  <2> QED
    BY <1>6, <2>2, <2>4
<1> QED
  BY <1>7, <1>8

LEMMA ClaimsAreHeldNext == TxInv' => ClaimsHold'
  BY ClaimsAreHeld, PTL

LEMMA EnterAtOnce ==
    ASSUME NEW t, NEW v \in Views, v.op = "none", v.counters.unique_lock_counter > 0,
           v.counters.wrapper_count = 0 => v.counters = NoCounters,
           NEW lock_type \in MtxLockType
    PROVE  Enter(v, t, lock_type).op = "none"
<1> DEFINE w == createCountersRef(v)
<1>1. Counting(v, w, 1, 0, 0)
  BY createFacts
<1>2. v.counters.unique_lock_counter \in Nat
  BY DEF Views, Counters
<1> HIDE DEF w
<1>3. w \in Views /\ w.op = "none" /\ w.counters.unique_lock_counter > 0
  BY <1>1, <1>2 DEF Counting
<1>4. getLockType(w.counters) = "unique_locked"
  BY <1>3 DEF getLockType
<1>5. lock(w, t) = CountUnique(w) /\ lockShared(w, t) = CountShared(w)
  BY <1>4 DEF lock, lockShared
<1>6. CountUnique(w).op = "none" /\ CountShared(w).op = "none"
  BY <1>3, CountFacts DEF Counting
<1>7. Enter(v, t, lock_type) \in {w, lock(w, t), lockShared(w, t)}
  BY DEF Enter, w
<1> QED
  BY <1>3, <1>5, <1>6, <1>7

LEMMA LeaveOps ==
    ASSUME NEW t, NEW v \in Views, v.op = "none", NEW lock_type \in MtxLockType
    PROVE  Leave(v, t, lock_type).op \in {"none", "relock_shared"}
<1> DEFINE w == CASE lock_type = "unlocked" -> v
                  [] lock_type = "shared_locked" -> unlockShared(v, t)
                  [] lock_type = "unique_locked" -> unlock(v, t)
<1>1. unlockShared(v, t).op = "none"
  BY DEF unlockShared, RawUnlockShared, Views
<1>2. unlock(v, t).op \in {"none", "relock_shared"}
  BY DEF unlock, RawUnlock, RawCall, Views
<1>3. w.op \in {"none", "relock_shared"}
  BY <1>1, <1>2
<1> HIDE DEF w
<1>4. ASSUME NEW x PROVE deleteCounterRef(x, t).op = x.op
  BY DEF deleteCounterRef, RawUnlock, RawUnlockShared
<1> QED
  BY <1>3, <1>4 DEF Leave, w

\* The mutexes it claims before and after it opens or closes a lock object.
LEMMA ClaimsAreFree ==
    ASSUME TxInv, TxInv', NEW t \in Threads, NEW m \in Mutexes, call[t] = Running,
           ClaimsUniquely(t, m), ClaimsUniquely(t, m)',
           \/ \E s \in Slots, n \in Mutexes, lock_type \in MtxLockType :
                 Construct(t, s, n, lock_type)
           \/ \E s \in Slots : Destroy(t, s)
    PROVE  call'[t].mtx # m
<1>1. /\ TypeOK /\ NoMutex # m /\ Running.mtx = NoMutex
      /\ counter_storage[t][m].unique_lock_counter > 0
  <2>1. TypeOK /\ ClaimsHold
    BY ClaimsAreHeld DEF TxInv
  <2>2. NoMutex # m /\ Running.mtx = NoMutex
    BY ConstantsAssumption DEF Running
  <2> QED
    BY <2>1, <2>2 DEF ClaimsHold
<1>2. ASSUME NEW s \in Slots, NEW n \in Mutexes, NEW lock_type \in MtxLockType,
             Construct(t, s, n, lock_type)
      PROVE  call'[t].mtx # m
  <2> DEFINE w == Enter(View(t, n), t, lock_type)
  <2>1. Store(t, n, w)
    BY <1>2 DEF Construct
  <2>2. call'[t] = IF w.op = "none" THEN Running ELSE [op |-> w.op, mtx |-> n]
    BY <1>1, <2>1, StoreCall
  <2>3. n = m => w.op = "none"
    BY <1>1, RunningFacts, EnterAtOnce
  <2> HIDE DEF w
  <2> QED
    BY <1>1, <2>2, <2>3
<1>3. ASSUME NEW s \in Slots, Destroy(t, s)
      PROVE  call'[t].mtx # m
  <2>1. locks[t][s] \in LockObjects /\ locks[t][s] # NoLock
    BY <1>1, <1>3 DEF Destroy, TypeOK
  <2>2. CASE locks[t][s].mtx = NoMutex
    <3>1. call'[t] = Running
      BY <1>3, <2>2 DEF Destroy
    <3> QED
      BY <1>1, <3>1
  <2>3. CASE locks[t][s].mtx # NoMutex
    <3>1. PICK n \in Mutexes : n = locks[t][s].mtx
      BY <2>1, <2>3 DEF LockObjects, NoLock, MovedFrom
    <3>2. PICK lock_type \in MtxLockType : lock_type = locks[t][s].lock_type
      BY <2>1, <2>3 DEF LockObjects, NoLock, MovedFrom
    <3> DEFINE w == Leave(View(t, n), t, lock_type)
    <3>3. Store(t, n, w)
      BY <1>3, <2>3, <3>1, <3>2 DEF Destroy
    <3>4. call'[t] = IF w.op = "none" THEN Running ELSE [op |-> w.op, mtx |-> n]
      BY <1>1, <3>3, StoreCall
    <3>5. w.op \in {"none", "relock_shared"}
      BY <1>1, SeenFacts, LeaveOps
    <3>6. call'[t] # [op |-> "relock_shared", mtx |-> m]
      BY ClaimsAreHeldNext DEF ClaimsHold
    <3> HIDE DEF w
    <3> QED
      BY <1>1, <3>4, <3>5, <3>6
  <2> QED
    BY <2>2, <2>3
<1> QED
  BY <1>2, <1>3

-----------------------------------------------------------------------------
(* The invariant of the methods *)

\* The lock objects of t are those its script has opened so far.  One that was
\* opened for unique use is not waited for any more once its thread is past.
StackOf(t, d) ==
    /\ {k \in Slots : locks[t][k] # NoLock} = 1 .. d[pc[t]]
    /\ \A j \in 1 .. pc[t] - 1, m \in Mutexes, lock_type \in MtxLockType :
          (/\ script[t][j] = [op |-> "lock", mtx |-> m, lock_type |-> lock_type]
           /\ \A k \in j + 1 .. pc[t] : d[k] > d[j])
              => /\ d[j] + 1 \in Slots
                 /\ locks[t][d[j] + 1] = [mtx |-> m, lock_type |-> lock_type]
                 /\ lock_type = "unique_locked" /\ j + 1 < pc[t] /\ ~Done(t)
                       => call[t].mtx # m

OnStack(t) == \A d : DepthsOf(script[t], d) => StackOf(t, d)

InScope(t) == careful /\ Busy(t) /\ NeedsTransaction(script[t])

\* A careful client has its transaction from the first step of the method to
\* its last, and no thread has another.
TxScope(t) ==
    /\ ~InScope(t) => tx[t] = NoTx
    /\ InScope(t) =>
          /\ tx[t] = NoTx => Done(t)
          /\ tx[t] # NoTx => /\ tx[t].mtx_set = Variables
                             /\ tx[t].lock_type = "unique_locked"
          /\ pc[t] = 1 => tx[t].phase \in {"locking", "backing_off"}
          /\ pc[t] > 1 => /\ tx[t].phase # "backing_off"
                          /\ tx[t].phase = "locking" => Missing(t) = {}
          /\ pc[t] > 1 /\ ~Done(t) => /\ tx[t].phase = "locking"
                                      /\ call[t].mtx \notin Variables

FTypes ==
    /\ class \in DOMAIN MethodsOf
    /\ careful \in BOOLEAN
    /\ script \in [Threads -> MethodsOf[class] \cup {<<>>}]
    /\ pc \in [Threads -> Nat]
    /\ \A t \in Threads : pc[t] \in 1 .. Len(script[t]) + 1

FInv ==
    /\ TxInv
    /\ FTypes
    /\ \A t \in Threads : OnStack(t) /\ TxScope(t)

LEMMA ScriptFacts ==
    ASSUME FTypes, NEW t \in Threads
    PROVE  /\ Nested(script[t]) /\ script[t] \in Seq(ScriptSteps)
           /\ Len(script[t]) \in Nat /\ pc[t] \in 1 .. Len(script[t]) + 1
           /\ Done(t) <=> pc[t] = Len(script[t]) + 1
<1>1. script[t] \in MethodsOf[class] \cup {<<>>} /\ pc[t] \in 1 .. Len(script[t]) + 1
  BY DEF FTypes
<1>2. Nested(script[t])
  <2>1. CASE script[t] = <<>>
    BY <2>1, NestedUse
  <2>2. CASE script[t] \in MethodsOf[class]
    <3>1. PICK s \in MethodsOf[class] : s = script[t]
      BY <2>2
    <3>2. class \in DOMAIN MethodsOf
      BY DEF FTypes
    <3> QED
      BY <3>1, <3>2, MethodsSafe DEF Safe
  <2> QED
    BY <1>1, <2>1, <2>2
<1>3. script[t] \in Seq(ScriptSteps)
  BY <1>2 DEF Nested
<1>4. Len(script[t]) \in Nat
  BY <1>3, LenProperties
<1> QED
  BY <1>1, <1>2, <1>3, <1>4 DEF Done

LEMMA StepKeepsTxInv ==
    ASSUME TxInv, NEW t \in Threads, StepOf(t)
    PROVE  TxInv'
<1>1. CASE \E S \in SUBSET Mutexes, lock_type \in MtxLockType : TxBegin(t, S, lock_type)
  BY <1>1, TxBeginInv
<1>2. CASE TxRuns(t)
  BY <1>2, TxFirstInv, TxTryInv, TxBackOffInv DEF TxRuns
<1>3. CASE TxEnd(t)
  BY <1>3, TxEndInv
<1>4. CASE TxGranted(t)
  BY <1>4, TxGrantedInv
<1>5. CASE LockObjectStep(t)
  BY <1>5, LockObjectInv
<1> QED
  BY <1>1, <1>2, <1>3, <1>4, <1>5 DEF StepOf

\* What a step of the script is to the locks.
LEMMA ScriptStep ==
    ASSUME FTypes, NEW t \in Threads, Step(t)
    PROVE  /\ call[t] = Running /\ ClientRuns(t) /\ Busy(t)
           /\ pc[t] \in 1 .. Len(script[t])
           /\ \/ \E d \in Slots, m \in Mutexes, lock_type \in MtxLockType :
                    /\ script[t][pc[t]]
                          = [op |-> "lock", mtx |-> m, lock_type |-> lock_type]
                    /\ d = Depth(t) + 1
                    /\ Construct(t, d, m, lock_type)
              \/ \E d \in Slots : /\ script[t][pc[t]].op = "unlock"
                                  /\ d = Depth(t)
                                  /\ Destroy(t, d)
              \/ script[t][pc[t]].op = "use" /\ UNCHANGED vars
<1>1. call[t] = Running /\ ClientRuns(t) /\ Busy(t) /\ ~Done(t)
  BY DEF Step, Ready
<1>2. pc[t] \in 1 .. Len(script[t]) /\ script[t] \in Seq(ScriptSteps)
  BY <1>1, ScriptFacts
<1>3. PICK s \in ScriptSteps : s = script[t][pc[t]]
  BY <1>2
<1>4. s.op \in {"lock", "unlock", "use"} /\ (s.op = "lock" => s \in LockSteps)
  BY StepKinds
<1>5. CASE s.op = "lock"
  <2>1. /\ s.mtx \in Mutexes /\ s.lock_type \in MtxLockType
        /\ s = [op |-> "lock", mtx |-> s.mtx, lock_type |-> s.lock_type]
    BY <1>4, <1>5 DEF LockSteps
  <2>2. \E d \in Slots : d = Depth(t) + 1 /\ Construct(t, d, s.mtx, s.lock_type)
    BY <1>3, <1>5 DEF Step
  <2> QED
    BY <1>1, <1>2, <1>3, <2>1, <2>2
<1>6. CASE s.op = "unlock"
  BY <1>1, <1>2, <1>3, <1>6 DEF Step
<1>7. CASE s.op = "use"
  BY <1>1, <1>2, <1>3, <1>7 DEF Step
<1> QED
  BY <1>4, <1>5, <1>6, <1>7

LEMMA ScriptStepInv ==
    ASSUME TxInv, FTypes, NEW t \in Threads, Step(t)
    PROVE  TxInv'
<1>1. UNCHANGED tx /\ ClientRuns(t)
  BY ScriptStep DEF Step
<1>2. CASE UNCHANGED vars
  <2>1. UNCHANGED txVars
    BY <1>1, <1>2 DEF txVars, vars
  <2> QED
    BY <2>1, TxStutterInv
<1>3. CASE ~UNCHANGED vars
  <2>1. LockObjectStep(t)
    BY <1>1, <1>3, ScriptStep DEF LockObjectStep
  <2> QED
    BY <2>1, LockObjectInv
<1> QED
  BY <1>2, <1>3

LEMMA DepthIs ==
    ASSUME NEW t, NEW d, NEW n \in Nat, d[pc[t]] = n, StackOf(t, d)
    PROVE  Depth(t) = n
<1>1. {k \in Slots : locks[t][k] # NoLock} = 1 .. n
  BY DEF StackOf
<1>2. Cardinality(1 .. n) = n
  BY FS_Interval
<1> QED
  BY <1>1, <1>2 DEF Depth

\* The stack of a thread whose script goes one step further.
LEMMA StackStep ==
    ASSUME FInv, TxInv', NEW t \in Threads, Step(t)
    PROVE  OnStack(t)'
<1> SUFFICES ASSUME NEW d, DepthsOf(script'[t], d)
             PROVE  StackOf(t, d)'
  BY DEF OnStack
<1>1. /\ TxInv /\ FTypes /\ OnStack(t) /\ TypeOK
      /\ script'[t] = script[t] /\ pc'[t] = pc[t] + 1
  BY DEF FInv, FTypes, TxInv, Step
<1>2. PICK s : s = script[t]
  OBVIOUS
<1>3. PICK p \in 1 .. Len(s) : p = pc[t]
  BY <1>1, <1>2, ScriptStep
<1>4. s \in Seq(ScriptSteps) /\ Len(s) \in Nat /\ script'[t] = s /\ pc'[t] = p + 1
  BY <1>1, <1>2, <1>3, ScriptFacts
<1>5. /\ DepthsOf(s, d) /\ d \in [1 .. Len(s) + 1 -> Nat]
      /\ d[p] \in Nat /\ d[p + 1] \in Nat
  <2>1. DepthsOf(s, d)
    BY <1>4
  <2>2. d \in [1 .. Len(s) + 1 -> Nat]
    BY <2>1 DEF DepthsOf
  <2>3. p \in 1 .. Len(s) + 1 /\ p + 1 \in 1 .. Len(s) + 1
    BY <1>3, <1>4
  <2> QED
    BY <2>1, <2>2, <2>3
<1>6. StackOf(t, d)
  BY <1>1, <1>2, <1>5 DEF OnStack
<1>7. /\ {k \in Slots : locks[t][k] # NoLock} = 1 .. d[p]
      /\ \A j \in 1 .. p - 1, m \in Mutexes, lock_type \in MtxLockType :
            (/\ s[j] = [op |-> "lock", mtx |-> m, lock_type |-> lock_type]
             /\ \A k \in j + 1 .. p : d[k] > d[j])
                => /\ d[j] + 1 \in Slots
                   /\ locks[t][d[j] + 1] = [mtx |-> m, lock_type |-> lock_type]
  BY <1>2, <1>3, <1>6 DEF StackOf
<1>8. Depth(t) = d[p]
  BY <1>3, <1>5, <1>6, DepthIs
\* What the stack must look like after the step.
<1> DEFINE Open(j, m, lock_type) ==
              /\ s[j] = [op |-> "lock", mtx |-> m, lock_type |-> lock_type]
              /\ \A k \in j + 1 .. p + 1 : d[k] > d[j]
           Placed(j, m, lock_type) ==
              /\ d[j] + 1 \in Slots
              /\ locks'[t][d[j] + 1] = [mtx |-> m, lock_type |-> lock_type]
           Claimed(j, m, lock_type) ==
              lock_type = "unique_locked" /\ j < p => call'[t].mtx # m
<1>9. ASSUME NEW j \in 1 .. p - 1, NEW m \in Mutexes, NEW lock_type \in MtxLockType,
             Open(j, m, lock_type)
      PROVE  /\ d[j] + 1 \in Slots /\ d[j] + 1 <= d[p] /\ d[j] + 1 <= d[p + 1]
             /\ locks[t][d[j] + 1] = [mtx |-> m, lock_type |-> lock_type]
  <2>1. PICK a \in Nat, b \in Nat, c \in Nat : a = d[j] /\ b = d[p] /\ c = d[p + 1]
    BY <1>3, <1>4, <1>5
  <2>2. \A k \in j + 1 .. p : d[k] > d[j]
    BY <1>3, <1>4, <1>9
  <2>3. b > a /\ c > a
    BY <1>3, <1>4, <1>9, <2>1
  <2>4. a + 1 <= b /\ a + 1 <= c
    BY <2>3
  <2>5. /\ d[j] + 1 \in Slots
        /\ locks[t][d[j] + 1] = [mtx |-> m, lock_type |-> lock_type]
    BY <1>7, <1>9, <2>2
  <2> QED
    BY <2>1, <2>4, <2>5
<1>10. ASSUME {k \in Slots : locks'[t][k] # NoLock} = 1 .. d[p + 1],
              \A j \in 1 .. p, m \in Mutexes, lock_type \in MtxLockType :
                 Open(j, m, lock_type)
                    => Placed(j, m, lock_type) /\ Claimed(j, m, lock_type)
       PROVE  StackOf(t, d)'
  <2>1. 1 .. pc'[t] - 1 = 1 .. p /\ pc'[t] = p + 1 /\ script'[t] = s
    BY <1>3, <1>4
  <2>2. ASSUME NEW j \in 1 .. p
        PROVE  j + 1 < p + 1 <=> j < p
    BY <1>3, <1>4
  <2>3. {k \in Slots : locks'[t][k] # NoLock} = 1 .. d[pc'[t]]
    BY <1>10, <2>1
  <2>4. ASSUME NEW j \in 1 .. p, NEW m \in Mutexes, NEW lock_type \in MtxLockType,
               script'[t][j] = [op |-> "lock", mtx |-> m, lock_type |-> lock_type],
               \A k \in j + 1 .. pc'[t] : d[k] > d[j]
        PROVE  /\ d[j] + 1 \in Slots
               /\ locks'[t][d[j] + 1] = [mtx |-> m, lock_type |-> lock_type]
               /\ lock_type = "unique_locked" /\ j + 1 < pc'[t] /\ ~Done(t)'
                     => call'[t].mtx # m
    <3>1. Open(j, m, lock_type)
      BY <2>1, <2>4
    <3>2. Placed(j, m, lock_type) /\ Claimed(j, m, lock_type)
      BY <1>10, <3>1
    <3> QED
      BY <2>1, <2>2, <3>2
  <2> QED
    BY <2>1, <2>3, <2>4 DEF StackOf
<1>11. ASSUME NEW j \in 1 .. p - 1, NEW m \in Mutexes, NEW lock_type \in MtxLockType,
              Open(j, m, lock_type), Placed(j, m, lock_type)
       PROVE  Claimed(j, m, lock_type)
  <2> SUFFICES ASSUME lock_type = "unique_locked" PROVE call'[t].mtx # m
    OBVIOUS
  <2> DEFINE k == d[j] + 1
  <2>1. /\ k \in Slots
        /\ locks[t][k] = [mtx |-> m, lock_type |-> "unique_locked"]
        /\ locks'[t][k] = [mtx |-> m, lock_type |-> "unique_locked"]
    BY <1>9, <1>11
  <2> HIDE DEF k
  <2>2. k \in Typed(t, m, "unique_locked") /\ k \in Typed(t, m, "unique_locked")'
    BY <2>1 DEF Typed, Objects
  <2>3. ClaimsUniquely(t, m) /\ ClaimsUniquely(t, m)'
    BY <2>2 DEF ClaimsUniquely
  <2>4. CASE UNCHANGED vars
    <3>1. call'[t] = Running
      BY <1>1, <2>4, ScriptStep DEF vars
    <3> QED
      BY <3>1, ConstantsAssumption DEF Running
  <2>5. CASE ~UNCHANGED vars
    BY <1>1, <2>3, <2>5, ScriptStep, ClaimsAreFree
  <2> QED
    BY <2>4, <2>5
<1> HIDE DEF Claimed
<1>12. CASE s[p].op = "lock"
  <2>1. d[p + 1] = d[p] + 1
    BY <1>3, <1>5, <1>12 DEF DepthsOf
  <2>2. PICK m \in Mutexes, lock_type \in MtxLockType :
           /\ s[p] = [op |-> "lock", mtx |-> m, lock_type |-> lock_type]
           /\ \E e \in Slots : e = Depth(t) + 1 /\ Construct(t, e, m, lock_type)
    BY <1>1, <1>2, <1>3, <1>12, ScriptStep
  <2>3. PICK e \in Slots : e = d[p] + 1 /\ Construct(t, e, m, lock_type)
    BY <1>8, <2>2
  <2>4. /\ locks'[t][e] = [mtx |-> m, lock_type |-> lock_type]
        /\ \A k \in Slots \ {e} : locks'[t][k] = locks[t][k]
    BY <1>1, <2>3 DEF Construct, TypeOK
  <2>5. locks'[t][e] # NoLock
    BY <2>4, ConstantsAssumption DEF NoLock
  <2>6. {k \in Slots : locks'[t][k] # NoLock} = 1 .. d[p + 1]
    <3>1. {k \in Slots : locks'[t][k] # NoLock}
             = {k \in Slots : locks[t][k] # NoLock} \cup {e}
      BY <2>4, <2>5
    <3>2. (1 .. d[p]) \cup {e} = 1 .. d[p + 1]
      BY <1>5, <2>1, <2>3
    <3> QED
      BY <1>7, <3>1, <3>2
  <2>7. ASSUME NEW j \in 1 .. p, NEW n \in Mutexes, NEW type \in MtxLockType,
               Open(j, n, type)
        PROVE  Placed(j, n, type) /\ Claimed(j, n, type)
    <3>1. CASE j = p
      <4>1. n = m /\ type = lock_type /\ e = d[j] + 1
        BY <2>2, <2>3, <2>7, <3>1
      <4>2. ~(j < p)
        BY <1>3, <1>4, <3>1
      <4> QED
        BY <2>4, <4>1, <4>2 DEF Claimed
    <3>2. CASE j # p
      <4>1. j \in 1 .. p - 1
        BY <1>3, <1>4, <3>2
      <4>2. d[j] + 1 # e
        <5>1. PICK a \in Nat, b \in Nat : a = d[j] /\ b = d[p]
          BY <1>4, <1>5, <4>1
        <5>2. a + 1 <= b
          BY <1>9, <2>7, <4>1, <5>1
        <5> QED
          BY <2>3, <5>1, <5>2
      <4>3. Placed(j, n, type)
        BY <1>9, <2>4, <2>7, <4>1, <4>2
      <4> HIDE DEF Open, Placed
      <4> QED
        BY <1>11, <2>7, <4>1, <4>3
    <3> QED
      BY <3>1, <3>2
  <2> HIDE DEF Open, Placed
  <2> QED
    BY <1>10, <2>6, <2>7
<1>13. CASE s[p].op = "unlock"
  <2>1. d[p] = d[p + 1] + 1
    BY <1>3, <1>5, <1>13 DEF DepthsOf
  <2>2. PICK e \in Slots : e = d[p] /\ Destroy(t, e)
    <3>1. s[p].op # "lock" /\ s[p].op # "use" /\ s[p] = script[t][pc[t]]
      BY <1>2, <1>3, <1>13
    <3>2. \A m \in Mutexes, lock_type \in MtxLockType :
             s[p] # [op |-> "lock", mtx |-> m, lock_type |-> lock_type]
      BY <3>1
    <3>3. \E e \in Slots : e = Depth(t) /\ Destroy(t, e)
      BY <1>1, <3>1, <3>2, ScriptStep
    <3> QED
      BY <1>8, <3>3
  <2>3. /\ locks'[t][e] = NoLock
        /\ \A k \in Slots \ {e} : locks'[t][k] = locks[t][k]
    BY <1>1, <2>2 DEF Destroy, TypeOK
  <2>4. {k \in Slots : locks'[t][k] # NoLock} = 1 .. d[p + 1]
    <3>1. {k \in Slots : locks'[t][k] # NoLock}
             = {k \in Slots : locks[t][k] # NoLock} \ {e}
      BY <2>3
    <3>2. (1 .. d[p]) \ {e} = 1 .. d[p + 1]
      BY <1>5, <2>1, <2>2
    <3> QED
      BY <1>7, <3>1, <3>2
  <2>5. ASSUME NEW j \in 1 .. p, NEW n \in Mutexes, NEW type \in MtxLockType,
               Open(j, n, type)
        PROVE  Placed(j, n, type) /\ Claimed(j, n, type)
    <3>1. j # p
      BY <1>13, <2>5
    <3>2. j \in 1 .. p - 1
      BY <1>3, <1>4, <3>1
    <3>3. d[j] + 1 # e /\ d[j] + 1 \in Slots
      <4>1. PICK a \in Nat, b \in Nat : a = d[j] /\ b = d[p + 1]
        BY <1>4, <1>5, <3>2
      <4>2. d[j] + 1 \in Slots /\ d[j] + 1 <= d[p + 1]
        BY <1>9, <2>5, <3>2
      <4>3. a + 1 <= b /\ e = b + 1
        BY <2>1, <2>2, <4>1, <4>2
      <4>4. e # a + 1
        BY <4>3
      <4> QED
        BY <4>1, <4>2, <4>4
    <3>4. Placed(j, n, type)
      BY <1>9, <2>3, <2>5, <3>2, <3>3
    <3> HIDE DEF Open, Placed
    <3> QED
      BY <1>11, <2>5, <3>2, <3>4
  <2> HIDE DEF Open, Placed
  <2> QED
    BY <1>10, <2>4, <2>5
<1>14. CASE s[p].op = "use"
  <2>1. d[p] = d[p + 1]
    BY <1>3, <1>5, <1>14 DEF DepthsOf
  <2>2. locks' = locks
    <3>1. s[p].op # "lock" /\ s[p].op # "unlock" /\ s[p] = script[t][pc[t]]
      BY <1>2, <1>3, <1>14
    <3>2. \A m \in Mutexes, lock_type \in MtxLockType :
             s[p] # [op |-> "lock", mtx |-> m, lock_type |-> lock_type]
      BY <3>1
    <3>3. UNCHANGED vars
      BY <1>1, <3>1, <3>2, ScriptStep
    <3> QED
      BY <3>3 DEF vars
  <2>3. ASSUME NEW j \in 1 .. p, NEW n \in Mutexes, NEW type \in MtxLockType,
               Open(j, n, type)
        PROVE  Placed(j, n, type) /\ Claimed(j, n, type)
    <3>1. j # p
      BY <1>14, <2>3
    <3>2. j \in 1 .. p - 1
      BY <1>3, <1>4, <3>1
    <3>3. Placed(j, n, type)
      BY <1>9, <2>2, <2>3, <3>2
    <3> HIDE DEF Open, Placed
    <3> QED
      BY <1>11, <2>3, <3>2, <3>3
  <2>4. {k \in Slots : locks'[t][k] # NoLock} = 1 .. d[p + 1]
    BY <1>7, <2>1, <2>2
  <2> HIDE DEF Open, Placed
  <2> QED
    BY <1>10, <2>3, <2>4
<1>15. s[p].op \in {"lock", "unlock", "use"}
  BY <1>3, <1>4, StepKinds
<1> QED
  BY <1>12, <1>13, <1>14, <1>15

-----------------------------------------------------------------------------
(* What a step of one thread leaves of the invariant for the others *)

LEMMA ExposedKept == class' = class => Exposed' = Exposed
  BY DEF Exposed

LEMMA InScopeKept ==
    ASSUME NEW u, class' = class, careful' = careful, script'[u] = script[u]
    PROVE  InScope(u)' <=> InScope(u)
  BY ExposedKept DEF InScope, Busy, NeedsTransaction

LEMMA OnStackKept ==
    ASSUME NEW u, OnStack(u), script'[u] = script[u], pc'[u] = pc[u],
           locks'[u] = locks[u],
           call'[u] \in {call[u], Running} \/ Done(u) \/ pc[u] = 1
    PROVE  OnStack(u)'
<1> SUFFICES ASSUME NEW d, DepthsOf(script'[u], d)
             PROVE  StackOf(u, d)'
  BY DEF OnStack
<1>1. StackOf(u, d)
  BY DEF OnStack
<1>2. (Done(u)' <=> Done(u)) /\ Running.mtx \notin Mutexes
  BY ConstantsAssumption DEF Done, Running
<1>3. CASE pc[u] = 1
  <2>1. 1 .. pc[u] - 1 = {}
    BY <1>3
  <2> QED
    BY <1>1, <2>1 DEF StackOf
<1>4. CASE pc[u] # 1
  <2>1. {k \in Slots : locks'[u][k] # NoLock} = 1 .. d[pc'[u]]
    BY <1>1 DEF StackOf
  <2>2. ASSUME NEW j \in 1 .. pc[u] - 1, NEW m \in Mutexes,
               NEW lock_type \in MtxLockType,
               script[u][j] = [op |-> "lock", mtx |-> m, lock_type |-> lock_type],
               \A k \in j + 1 .. pc[u] : d[k] > d[j]
        PROVE  /\ d[j] + 1 \in Slots
               /\ locks'[u][d[j] + 1] = [mtx |-> m, lock_type |-> lock_type]
               /\ lock_type = "unique_locked" /\ j + 1 < pc[u] /\ ~Done(u)
                     => call'[u].mtx # m
    <3>1. /\ d[j] + 1 \in Slots
          /\ locks[u][d[j] + 1] = [mtx |-> m, lock_type |-> lock_type]
          /\ lock_type = "unique_locked" /\ j + 1 < pc[u] /\ ~Done(u)
                => call[u].mtx # m
      BY <1>1, <2>2 DEF StackOf
    <3>2. Done(u) \/ call'[u] = call[u] \/ call'[u] = Running
      BY <1>4
    <3> QED
      BY <1>2, <3>1, <3>2
  <2> QED
    BY <1>2, <2>1, <2>2 DEF StackOf
<1> QED
  BY <1>3, <1>4

LEMMA TxScopeKept ==
    ASSUME NEW u, TxScope(u), class' = class, careful' = careful,
           script'[u] = script[u], pc'[u] = pc[u], tx'[u] = tx[u],
           call'[u] \in {call[u], Running}
    PROVE  TxScope(u)'
<1>1. (InScope(u)' <=> InScope(u)) /\ (Done(u)' <=> Done(u))
  BY InScopeKept DEF Done
<1>2. Missing(u)' = Missing(u)
  BY DEF Missing, Acquired
<1>3. Running.mtx \notin Variables
  BY ConstantsAssumption, ObjectFacts DEF Running
<1> QED
  BY <1>1, <1>2, <1>3 DEF TxScope

LEMMA OthersLeft ==
    ASSUME TxInv, NEW t \in Threads, StepOf(t) \/ UNCHANGED txVars,
           NEW u \in Threads \ {t}
    PROVE  tx'[u] = tx[u] /\ call'[u] = call[u] /\ locks'[u] = locks[u]
<1>1. CASE UNCHANGED txVars
  BY <1>1 DEF txVars
<1>2. CASE StepOf(t)
  <2>1. tx'[u] = tx[u] /\ call'[u] = call[u]
    BY <1>2, OneMoves DEF OnlyMoves
  <2>2. TypeOK
    BY DEF TxInv
  <2>3. locks'[u] = locks[u]
    <3>1. CASE LockObjectStep(t)
      BY <2>2, <3>1 DEF LockObjectStep, Construct, Destroy, TypeOK
    <3>2. CASE ~LockObjectStep(t)
      <4>1. UNCHANGED locks
        BY <1>2, <3>2
           DEF StepOf, TxBegin, vars, TxRuns, TxFirst, TxTry, TxBackOff, TxEnd,
               TxGranted, Granted, LockGranted, LockSharedGranted,
               RelockSharedGranted
      <4> QED
        BY <4>1
    <3> QED
      BY <3>1, <3>2
  <2> QED
    BY <2>1, <2>3
<1> QED
  BY <1>1, <1>2

\* A step is looked at where it happens: at its own thread.
LEMMA StepInv ==
    ASSUME FInv, NEW t \in Threads, StepOf(t) \/ UNCHANGED txVars,
           UNCHANGED <<class, careful>>,
           \A u \in Threads \ {t} : script'[u] = script[u] /\ pc'[u] = pc[u],
           TxInv', FTypes', OnStack(t)', TxScope(t)'
    PROVE  FInv'
<1>1. ASSUME NEW u \in Threads
      PROVE  OnStack(u)' /\ TxScope(u)'
  <2>1. CASE u = t
    BY <2>1
  <2>2. CASE u # t
    <3>1. OnStack(u) /\ TxScope(u) /\ TxInv
      BY DEF FInv
    <3>2. /\ script'[u] = script[u] /\ pc'[u] = pc[u]
          /\ tx'[u] = tx[u] /\ call'[u] = call[u] /\ locks'[u] = locks[u]
      BY <2>2, <3>1, OthersLeft
    <3> QED
      BY <3>1, <3>2, OnStackKept, TxScopeKept
  <2> QED
    BY <2>1, <2>2
<1> QED
  BY <1>1 DEF FInv

\* Before its first step and after its last a thread has no lock object.
LEMMA StackAtFirst ==
    ASSUME NEW t \in Threads, Nested(script[t]), OnStack(t),
           pc[t] = 1 \/ pc[t] = Len(script[t]) + 1,
           locks' = locks, pc'[t] = 1
    PROVE  OnStack(t)'
<1> SUFFICES ASSUME NEW d, DepthsOf(script'[t], d)
             PROVE  StackOf(t, d)'
  BY DEF OnStack
<1>1. PICK f : DepthsOf(script[t], f) /\ f[Len(script[t]) + 1] = 0
  BY DEF Nested
<1>2. StackOf(t, f) /\ f[pc[t]] = 0
  BY <1>1 DEF OnStack, DepthsOf
<1>3. {k \in Slots : locks'[t][k] # NoLock} = 1 .. 0
  BY <1>2 DEF StackOf
<1>4. d[pc'[t]] = 0 /\ 1 .. pc'[t] - 1 = {}
  BY DEF DepthsOf
<1> QED
  BY <1>3, <1>4 DEF StackOf

-----------------------------------------------------------------------------
(* Each action keeps the invariant *)

LEMMA FTypesKept ==
    ASSUME FTypes, UNCHANGED <<class, careful, script, pc>>
    PROVE  FTypes'
  BY DEF FTypes

LEMMA CallInv ==
    ASSUME FInv, NEW t \in Threads, NEW s \in MethodsOf[class], Call(t, s)
    PROVE  FInv'
<1>1. /\ TxInv /\ FTypes /\ OnStack(t) /\ TxScope(t)
      /\ call[t] \in Calls /\ tx \in [Threads -> Transactions \cup {NoTx}]
  BY DEF FInv, TxInv, TypeOK, TxOK
<1>2. /\ script[t] = <<>> /\ pc[t] = 1 /\ pc'[t] = 1 /\ script'[t] = s
      /\ UNCHANGED <<class, careful, pc>>
      /\ \A u \in Threads \ {t} : script'[u] = script[u] /\ pc'[u] = pc[u]
  BY <1>1 DEF Call, Busy, FTypes
<1>3. /\ Nested(s) /\ s \in Seq(ScriptSteps) /\ Len(s) \in Nat /\ s # <<>>
      /\ Nested(script[t])
  <2>1. Nested(s) /\ s # <<>>
    BY <1>1, MethodsSafe DEF FTypes, Safe
  <2>2. Nested(script[t])
    BY <1>1, ScriptFacts
  <2> QED
    BY <2>1, <2>2, LenProperties DEF Nested
<1>4. FTypes'
  <2>1. ASSUME NEW u \in Threads
        PROVE  pc'[u] \in 1 .. Len(script'[u]) + 1
    <3>1. CASE u = t
      BY <1>2, <1>3, <3>1
    <3>2. CASE u # t
      BY <1>1, <1>2, <3>2 DEF FTypes
    <3> QED
      BY <3>1, <3>2
  <2>2. script' = [script EXCEPT ![t] = s]
    BY DEF Call
  <2> QED
    BY <1>1, <1>2, <2>1, <2>2 DEF FTypes
<1>5. CASE careful /\ NeedsTransaction(s)
  <2>1. TxBegin(t, Variables, "unique_locked")
    BY <1>5 DEF Call
  <2>2. StepOf(t)
    BY <2>1, ObjectFacts DEF StepOf, MtxLockType
  <2>3. TxInv'
    BY <1>1, <2>2, StepKeepsTxInv
  <2>4. locks' = locks /\ tx'[t].phase = "locking" /\ tx'[t].mtx_set = Variables
        /\ tx'[t].lock_type = "unique_locked"
    BY <1>1, <2>1 DEF TxBegin, vars, NoTx
  <2>5. OnStack(t)'
    BY <1>1, <1>2, <1>3, <2>4, StackAtFirst
  <2>6. TxScope(t)'
    <3>1. InScope(t)'
      BY <1>2, <1>3, <1>5, ExposedKept DEF InScope, Busy, NeedsTransaction
    <3>2. tx'[t] # NoTx
      BY <2>4 DEF NoTx
    <3> QED
      BY <1>2, <2>4, <3>1, <3>2 DEF TxScope
  <2> QED
    BY <1>2, <1>4, <2>2, <2>3, <2>5, <2>6, StepInv
<1>6. CASE ~(careful /\ NeedsTransaction(s))
  <2>1. UNCHANGED txVars
    BY <1>6 DEF Call
  <2>2. TxInv'
    BY <1>1, <2>1, TxStutterInv
  <2>3. locks' = locks /\ tx' = tx
    BY <2>1 DEF txVars
  <2>4. OnStack(t)'
    BY <1>1, <1>2, <1>3, <2>3, StackAtFirst
  <2>5. TxScope(t)'
    <3>1. ~InScope(t)'
      BY <1>2, <1>6, ExposedKept DEF InScope, NeedsTransaction
    <3>2. ~InScope(t)
      BY <1>2 DEF InScope, Busy
    <3> QED
      BY <1>1, <2>3, <3>1, <3>2 DEF TxScope
  <2> QED
    BY <1>2, <1>4, <2>1, <2>2, <2>4, <2>5, StepInv
<1> QED
  BY <1>5, <1>6

LEMMA StepActionInv ==
    ASSUME FInv, NEW t \in Threads, Step(t)
    PROVE  FInv'
<1>1. /\ TxInv /\ FTypes /\ TxScope(t)
      /\ call[t] = Running /\ ClientRuns(t) /\ pc[t] \in 1 .. Len(script[t])
  BY ScriptStep DEF FInv
<1>2. TxInv'
  BY <1>1, ScriptStepInv
<1>3. OnStack(t)'
  BY <1>2, StackStep
<1>4. /\ UNCHANGED <<tx, class, careful, script>>
      /\ pc' = [pc EXCEPT ![t] = @ + 1] /\ pc'[t] = pc[t] + 1
      /\ \A u \in Threads \ {t} : script'[u] = script[u] /\ pc'[u] = pc[u]
  BY <1>1 DEF Step, FTypes
<1>5. Len(script[t]) \in Nat
  BY <1>1, ScriptFacts
<1>6. FTypes'
  <2>1. pc'[t] \in 1 .. Len(script[t]) + 1 /\ pc'[t] \in Nat
    BY <1>1, <1>4, <1>5
  <2>2. \A u \in Threads : pc'[u] \in 1 .. Len(script'[u]) + 1
    BY <1>1, <1>4, <2>1 DEF FTypes
  <2> QED
    BY <1>1, <1>4, <2>1, <2>2 DEF FTypes
<1>7. ~Done(t) /\ pc'[t] > 1 /\ pc'[t] # 1
  BY <1>1, <1>4, <1>5 DEF Done
<1>8. TxScope(t)'
  <2>1. InScope(t)' <=> InScope(t)
    BY <1>4, InScopeKept
  <2>2. CASE ~InScope(t)
    BY <1>1, <1>4, <2>1, <2>2 DEF TxScope
  <2>3. CASE InScope(t)
    <3>1. /\ tx[t] # NoTx /\ tx[t].mtx_set = Variables
          /\ tx[t].lock_type = "unique_locked"
      BY <1>1, <1>7, <2>3 DEF TxScope
    <3>2. tx[t].phase # "none"
      BY <1>1, <3>1 DEF TxInv, TxOK, Transactions
    <3>3. tx[t].phase = "locking" /\ Missing(t) = {}
      BY <1>1, <3>2 DEF ClientRuns, Held
    <3>4. Missing(t)' = {}
      BY <1>4, <3>3 DEF Missing, Acquired
    <3>5. ASSUME NEW m \in Variables
          PROVE  call'[t].mtx # m
      <4>1. m \in Mutexes
        BY ObjectFacts
      <4>2. m \in Acquired(t) /\ m \in Acquired(t)'
        BY <1>4, <3>1, <3>3 DEF Missing, Acquired
      <4>3. ClaimsUniquely(t, m) /\ ClaimsUniquely(t, m)'
        BY <1>4, <3>1, <4>2 DEF ClaimsUniquely
      <4>4. CASE UNCHANGED vars
        <5>1. call'[t] = Running
          BY <1>1, <4>4 DEF vars
        <5> QED
          BY <4>1, <5>1, ConstantsAssumption DEF Running
      <4>5. CASE ~UNCHANGED vars
        BY <1>1, <1>2, <4>1, <4>3, <4>5, ScriptStep, ClaimsAreFree
      <4> QED
        BY <4>4, <4>5
    <3> QED
      BY <1>4, <1>7, <2>1, <2>3, <3>1, <3>3, <3>4, <3>5 DEF TxScope
  <2> QED
    BY <2>2, <2>3
<1>9. StepOf(t) \/ UNCHANGED txVars
  <2>1. CASE UNCHANGED vars
    BY <1>4, <2>1 DEF vars, txVars
  <2>2. CASE ~UNCHANGED vars
    BY <1>1, <1>4, <2>2, ScriptStep DEF StepOf, LockObjectStep
  <2> QED
    BY <2>1, <2>2
<1> QED
  BY <1>2, <1>3, <1>4, <1>6, <1>8, <1>9, StepInv

LEMMA EndScopeInv ==
    ASSUME FInv, NEW t \in Threads, EndScope(t)
    PROVE  FInv'
<1>1. /\ TxInv /\ FTypes /\ OnStack(t) /\ TxScope(t)
      /\ tx \in [Threads -> Transactions \cup {NoTx}]
  BY DEF FInv, TxInv, TxOK
<1>2. /\ Busy(t) /\ Done(t) /\ TxEnd(t) /\ locks' = locks
      /\ UNCHANGED <<class, careful, script, pc>>
  BY DEF EndScope, TxEnd
<1>3. StepOf(t)
  BY <1>2 DEF StepOf
<1>4. TxInv' /\ FTypes'
  BY <1>1, <1>2, <1>3, StepKeepsTxInv, FTypesKept
<1>5. OnStack(t)'
  BY <1>1, <1>2, OnStackKept
<1>6. tx[t] # NoTx
  BY <1>2 DEF TxEnd, Held, NoTx
<1>7. InScope(t) /\ InScope(t)'
  BY <1>1, <1>2, <1>6, InScopeKept DEF TxScope
<1>8. pc[t] # 1 /\ Done(t)'
  <2>1. /\ script[t] \in Seq(ScriptSteps) /\ Len(script[t]) \in Nat
        /\ pc[t] = Len(script[t]) + 1
    BY <1>1, <1>2, ScriptFacts
  <2>2. Len(script[t]) # 0
    BY <1>2, <2>1, EmptySeq DEF Busy
  <2> QED
    BY <1>2, <2>1, <2>2 DEF Done
<1>9. \/ tx'[t] = NoTx
      \/ /\ tx'[t].phase = "ending" /\ tx'[t].mtx_set = Variables
         /\ tx'[t].lock_type = "unique_locked"
  <2>1. /\ tx[t].mtx_set = Variables /\ tx[t].lock_type = "unique_locked"
        /\ tx[t] \in Transactions
    BY <1>1, <1>6, <1>7 DEF TxScope
  <2> QED
    BY <1>1, <1>2, <2>1 DEF TxEnd, Transactions
<1>10. TxScope(t)'
  <2>1. NoTx.phase = "none"
    BY DEF NoTx
  <2> QED
    BY <1>2, <1>7, <1>8, <1>9, <2>1 DEF TxScope
<1> QED
  BY <1>2, <1>3, <1>4, <1>5, <1>10, StepInv

LEMMA ReturnInv ==
    ASSUME FInv, NEW t \in Threads, Return(t)
    PROVE  FInv'
<1>1. TxInv /\ FTypes /\ OnStack(t)
  BY DEF FInv
<1>2. /\ Done(t) /\ tx[t] = NoTx /\ UNCHANGED <<txVars, class, careful>>
      /\ locks' = locks /\ tx' = tx
      /\ script' = [script EXCEPT ![t] = <<>>] /\ pc' = [pc EXCEPT ![t] = 1]
  BY DEF Return, txVars
<1>3. /\ script'[t] = <<>> /\ pc'[t] = 1
      /\ \A u \in Threads \ {t} : script'[u] = script[u] /\ pc'[u] = pc[u]
  BY <1>1, <1>2 DEF FTypes
<1>4. TxInv'
  BY <1>1, <1>2, TxStutterInv
<1>5. FTypes'
  <2>1. Len(<<>>) = 0
    OBVIOUS
  <2>2. \A u \in Threads : pc'[u] \in 1 .. Len(script'[u]) + 1
    BY <1>1, <1>3, <2>1 DEF FTypes
  <2> QED
    BY <1>1, <1>2, <2>2 DEF FTypes
<1>6. OnStack(t)'
  BY <1>1, <1>2, <1>3, ScriptFacts, StackAtFirst
<1>7. TxScope(t)'
  <2>1. ~InScope(t)'
    BY <1>3 DEF InScope, Busy
  <2> QED
    BY <1>2, <2>1 DEF TxScope
<1> QED
  BY <1>2, <1>3, <1>4, <1>5, <1>6, <1>7, StepInv

\* A transaction that is being made stays one of its kind.
LEMMA TxRunsFacts ==
    ASSUME TxInv, NEW t \in Threads, TxRuns(t)
    PROVE  /\ tx[t].phase = "backing_off"
                 \/ (tx[t].phase = "locking" /\ Missing(t) # {})
           /\ tx'[t].phase \in {"locking", "backing_off"}
           /\ tx'[t].mtx_set = tx[t].mtx_set
           /\ tx'[t].lock_type = tx[t].lock_type
           /\ locks' = locks
<1>1. tx \in [Threads -> Transactions \cup {NoTx}]
  BY DEF TxInv, TxOK
<1>2. tx[t].phase # "none" => tx[t] \in Transactions
  BY <1>1 DEF NoTx
<1>3. CASE TxFirst(t)
  <2>1. /\ tx[t].phase = "locking" /\ tx[t].mtx_stack = <<>>
        /\ tx[t] \in Transactions /\ locks' = locks
    BY <1>2, <1>3 DEF TxFirst
  <2>2. tx[t].mtx_set # {} /\ Acquired(t) = {}
    BY <2>1 DEF Transactions, Acquired, Range
  <2>3. \E m : tx' = [tx EXCEPT ![t].mtx_stack = <<m>>]
    BY <1>3 DEF TxFirst
  <2> QED
    BY <1>1, <2>1, <2>2, <2>3 DEF Missing, Transactions
<1>4. CASE TxTry(t)
  <2>1. /\ tx[t].phase = "locking" /\ Missing(t) # {}
        /\ tx[t] \in Transactions /\ locks' = locks
    BY <1>2, <1>4 DEF TxTry
  <2>2. \/ \E m : tx' = [tx EXCEPT ![t].mtx_stack = Append(@, m)]
        \/ tx' = [tx EXCEPT ![t].phase = "backing_off"]
    BY <1>4 DEF TxTry
  <2> QED
    BY <1>1, <2>1, <2>2 DEF Transactions
<1>5. CASE TxBackOff(t)
  <2>1. /\ tx[t].phase = "backing_off" /\ tx[t] \in Transactions /\ locks' = locks
    BY <1>2, <1>5 DEF TxBackOff
  <2> QED
    BY <1>1, <1>5, <2>1 DEF TxBackOff, Transactions
<1> QED
  BY <1>3, <1>4, <1>5 DEF TxRuns

LEMMA LocksRunInv ==
    ASSUME FInv, NEW t \in Threads, LocksRun(t)
    PROVE  FInv'
<1>1. TxInv /\ FTypes /\ OnStack(t) /\ TxScope(t) /\ TypeOK
  BY DEF FInv, TxInv
<1>2. StepOf(t) /\ UNCHANGED <<class, careful, script, pc>>
  BY DEF LocksRun, StepOf
<1>3. TxInv' /\ FTypes'
  BY <1>1, <1>2, StepKeepsTxInv, FTypesKept
<1>4. OnStack(t)' /\ TxScope(t)'
  <2>1. CASE TxGranted(t)
    <3>1. call'[t] = Running /\ tx' = tx
      BY <1>1, <2>1, GrantedReturns DEF TxGranted
    <3>2. locks' = locks
      BY <2>1 DEF TxGranted, Granted, LockGranted, LockSharedGranted,
                  RelockSharedGranted
    <3> QED
      BY <1>1, <1>2, <3>1, <3>2, OnStackKept, TxScopeKept
  <2>2. CASE TxRuns(t)
    <3>1. /\ tx[t].phase = "backing_off"
                \/ (tx[t].phase = "locking" /\ Missing(t) # {})
          /\ tx'[t].phase \in {"locking", "backing_off"}
          /\ tx'[t].mtx_set = tx[t].mtx_set
          /\ tx'[t].lock_type = tx[t].lock_type
          /\ locks' = locks
      BY <1>1, <2>2, TxRunsFacts
    <3>2. tx[t] # NoTx /\ tx'[t] # NoTx
      BY <3>1 DEF NoTx
    <3>3. InScope(t) /\ InScope(t)'
      BY <1>1, <1>2, <3>2, InScopeKept DEF TxScope
    <3>4. pc[t] = 1
      <4>1. pc[t] \in Nat /\ pc[t] >= 1
        BY <1>1 DEF FTypes
      <4>2. ~(pc[t] > 1)
        BY <1>1, <3>1, <3>3 DEF TxScope
      <4> QED
        BY <4>1, <4>2
    <3>5. OnStack(t)'
      BY <1>1, <1>2, <3>1, <3>4, OnStackKept
    <3>6. TxScope(t)'
      BY <1>1, <1>2, <3>1, <3>2, <3>3, <3>4 DEF TxScope
    <3> QED
      BY <3>5, <3>6
  <2> QED
    BY <2>1, <2>2 DEF LocksRun
<1> QED
  BY <1>2, <1>3, <1>4, StepInv

LEMMA InitFInv == ASSUME FInit PROVE FInv
<1>1. TxInv
  BY InitTxInv DEF FInit
<1>2. /\ class \in DOMAIN MethodsOf /\ careful \in BOOLEAN
      /\ script = [t \in Threads |-> <<>>] /\ pc = [t \in Threads |-> 1]
  BY DEF FInit
<1>3. FTypes
  <2>1. Len(<<>>) = 0
    OBVIOUS
  <2>2. \A u \in Threads : pc[u] \in 1 .. Len(script[u]) + 1
    BY <1>2, <2>1
  <2> QED
    BY <1>2, <2>2 DEF FTypes
<1>4. ASSUME NEW t \in Threads
      PROVE  OnStack(t) /\ TxScope(t)
  <2>1. script[t] = <<>> /\ pc[t] = 1 /\ tx[t] = NoTx
    BY <1>2 DEF FInit, TxInit
  <2>2. {k \in Slots : locks[t][k] # NoLock} = {}
    BY DEF FInit, TxInit, Init
  <2>3. OnStack(t)
    <3> SUFFICES ASSUME NEW d, DepthsOf(script[t], d)
                 PROVE  StackOf(t, d)
      BY DEF OnStack
    <3>1. d[pc[t]] = 0 /\ 1 .. 0 = {} /\ 1 .. pc[t] - 1 = {}
      BY <2>1 DEF DepthsOf
    <3> QED
      BY <2>2, <3>1 DEF StackOf
  <2>4. ~InScope(t)
    BY <2>1 DEF InScope, Busy
  <2> QED
    BY <2>1, <2>3, <2>4 DEF TxScope
<1> QED
  BY <1>1, <1>3, <1>4 DEF FInv

LEMMA FStutterInv == ASSUME FInv, UNCHANGED facadeVars PROVE FInv'
<1>1. /\ UNCHANGED txVars /\ UNCHANGED <<class, careful, script, pc>>
      /\ tx' = tx /\ call' = call /\ locks' = locks
  BY DEF facadeVars, txVars
<1>2. TxInv' /\ FTypes'
  BY <1>1, TxStutterInv, FTypesKept DEF FInv
<1>3. ASSUME NEW u \in Threads
      PROVE  OnStack(u)' /\ TxScope(u)'
  BY <1>1, OnStackKept, TxScopeKept DEF FInv
<1> QED
  BY <1>2, <1>3 DEF FInv

\* The lock objects, the transaction and the step of every method agree, in
\* every class and for clients of both kinds.
THEOREM FInvariance == FSpec => []FInv
<1>1. FInit => FInv
  BY InitFInv
<1>2. FInv /\ [FNext]_facadeVars => FInv'
  <2> SUFFICES ASSUME FInv, [FNext]_facadeVars PROVE FInv'
    OBVIOUS
  <2>1. CASE UNCHANGED facadeVars
    BY <2>1, FStutterInv
  <2>2. ASSUME NEW t \in Threads, NEW s \in MethodsOf[class], Call(t, s)
        PROVE  FInv'
    BY <2>2, CallInv
  <2>3. ASSUME NEW t \in Threads, Runs(t)
        PROVE  FInv'
    BY <2>3, StepActionInv, EndScopeInv, ReturnInv, LocksRunInv DEF Runs
  <2> QED
    BY <2>1, <2>2, <2>3 DEF FNext
<1> QED
  BY <1>1, <1>2, PTL DEF FSpec

-----------------------------------------------------------------------------
(* Who uses an object is inside a mutex that keeps the others out *)

Inside(t, m) == owner[m] = t \/ t \in sharers[m]

LEMMA OwnerIsAlone ==
    ASSUME TxInv, NEW t \in Threads, NEW u \in Threads, t # u,
           NEW m \in Mutexes, owner[m] = t
    PROVE  ~Inside(u, m)
<1>1. Agree(Seen(t, m), t)
  BY DEF TxInv, CountersMatchMutex
<1>2. Seen(t, m).owner = t /\ Seen(t, m).sharers = sharers[m] /\ t # NoThread
  BY ConstantsAssumption DEF Seen, View
<1>3. sharers[m] = {}
  BY <1>1, <1>2 DEF Agree
<1> QED
  BY <1>3 DEF Inside

LEMMA ReliesIsInside ==
    ASSUME TxInv, NEW t \in Threads, NEW m \in Mutexes, NEW lock_type \in LockingTypes,
           ReliesOn(t, m, lock_type)
    PROVE  Inside(t, m) /\ (lock_type = "unique_locked" => owner[m] = t)
  BY UseIsHolding DEF Uses, UsesUniquely, LockingTypes, Inside

\* Within(t, x), over the script alone.
LEMMA WithinFacts ==
    ASSUME FTypes, NEW t \in Threads, NEW x, Within(t, x)
    PROVE  \E i, k \in UsesIn(script[t], x) :
              /\ i <= pc[t] /\ pc[t] <= k
              /\ i < pc[t] \/ (i = pc[t] /\ Ready(t))
              /\ i \in 1 .. Len(script[t]) /\ k \in 1 .. Len(script[t])
              /\ ~Done(t)
<1>1. script[t] \in Seq(ScriptSteps) /\ Len(script[t]) \in Nat /\ pc[t] \in Nat
  BY ScriptFacts DEF FTypes
<1>2. UsesOf(t, x) = UsesIn(script[t], x)
  BY <1>1 DEF UsesOf, UsesIn
<1>3. PICK i \in UsesIn(script[t], x) : i < pc[t] \/ (i = pc[t] /\ Ready(t))
  BY <1>2 DEF Within
<1>4. PICK k \in UsesIn(script[t], x) : pc[t] <= k
  BY <1>2 DEF Within
<1>5. i \in 1 .. Len(script[t]) /\ k \in 1 .. Len(script[t])
  BY DEF UsesIn
<1>6. i <= pc[t] /\ ~Done(t)
  BY <1>1, <1>3, <1>4, <1>5 DEF Done
<1> QED
  BY <1>3, <1>4, <1>5, <1>6

\* The lock object that is open from step i to step k is relied on between.
LEMMA KeptIsRelied ==
    ASSUME FInv, NEW t \in Threads, NEW I, NEW m \in Mutexes,
           NEW lock_type \in MtxLockType, KeptOn(script[t], I, m, lock_type),
           NEW i \in I, NEW k \in I, i <= pc[t], pc[t] <= k,
           call[t] = Running \/ (lock_type = "unique_locked" /\ i < pc[t])
    PROVE  ReliesOn(t, m, lock_type)
<1>1. OnStack(t) /\ FTypes
  BY DEF FInv
<1>2. PICK s : s = script[t]
  OBVIOUS
<1>3. PICK p \in 1 .. Len(s) + 1 : p = pc[t]
  BY <1>1, <1>2 DEF FTypes
<1>4. PICK d, j, h : OpenFrom(s, d, j, h, m, lock_type) /\ I \subseteq j + 1 .. h
  BY <1>2 DEF KeptOn
<1>5. Len(s) \in Nat
  BY <1>1, <1>2, ScriptFacts
<1>6. /\ j \in 1 .. p - 1 /\ p <= h /\ h <= Len(s)
      /\ i < p => j + 1 < p
  <2>1. /\ j \in 1 .. Len(s) /\ h \in 1 .. Len(s)
        /\ i \in j + 1 .. h /\ k \in j + 1 .. h
    BY <1>4 DEF OpenFrom
  <2> QED
    BY <1>3, <1>5, <2>1
<1>7. StackOf(t, d)
  BY <1>1, <1>2, <1>4 DEF OnStack, OpenFrom
<1>8. s[j] = [op |-> "lock", mtx |-> m, lock_type |-> lock_type]
  BY <1>4 DEF OpenFrom
<1>9. \A n \in j + 1 .. p : d[n] > d[j]
  <2>1. \A n \in j + 1 .. h : d[n] > d[j]
    BY <1>4 DEF OpenFrom
  <2>2. \A n \in j + 1 .. p : n \in j + 1 .. h
    BY <1>3, <1>4, <1>5, <1>6 DEF OpenFrom
  <2> QED
    BY <2>1, <2>2
<1>10. ~Done(t)
  BY <1>2, <1>3, <1>4, <1>5, <1>6 DEF Done, OpenFrom
<1>11. /\ d[j] + 1 \in Slots
       /\ locks[t][d[j] + 1] = [mtx |-> m, lock_type |-> lock_type]
       /\ (lock_type = "unique_locked" /\ j + 1 < pc[t] /\ ~Done(t)) => call[t].mtx # m
  BY <1>2, <1>3, <1>6, <1>7, <1>8, <1>9 DEF StackOf
<1>12. Typed(t, m, lock_type) # {}
  <2>1. PICK n \in Slots : locks[t][n] = [mtx |-> m, lock_type |-> lock_type]
    BY <1>11
  <2> QED
    BY <2>1 DEF Typed, Objects
<1>13. call[t].mtx # m
  <2>1. CASE call[t] = Running
    BY <2>1, ConstantsAssumption DEF Running
  <2>2. CASE lock_type = "unique_locked" /\ i < pc[t]
    BY <1>3, <1>6, <1>10, <1>11, <2>2
  <2> QED
    BY <2>1, <2>2
<1> QED
  BY <1>12, <1>13 DEF ReliesOn

\* One lock over all the uses, of the right kind.
LEMMA WithinIsInside ==
    ASSUME FInv, NEW t \in Threads, NEW x, Within(t, x), NEW m \in Mutexes,
           NEW lock_type \in LockingTypes, Kept(script[t], x, m, lock_type),
           lock_type = "unique_locked" \/ ReadOnce(script[t], x)
    PROVE  Inside(t, m) /\ (lock_type = "unique_locked" => owner[m] = t)
<1>1. TxInv /\ FTypes
  BY DEF FInv
<1>2. PICK i \in UsesIn(script[t], x), k \in UsesIn(script[t], x) :
         /\ i <= pc[t] /\ pc[t] <= k
         /\ i < pc[t] \/ (i = pc[t] /\ Ready(t))
         /\ i \in 1 .. Len(script[t]) /\ k \in 1 .. Len(script[t])
  BY <1>1, WithinFacts
<1>3. call[t] = Running \/ (lock_type = "unique_locked" /\ i < pc[t])
  <2>1. Ready(t) => call[t] = Running
    BY DEF Ready
  <2>2. CASE ReadOnce(script[t], x)
    <3>1. i = k
      BY <2>2 DEF ReadOnce
    <3>2. pc[t] \in Nat
      BY <1>1 DEF FTypes
    <3>3. ~(i < pc[t])
      BY <1>2, <3>1, <3>2
    <3> QED
      BY <1>2, <2>1, <3>3
  <2>3. CASE lock_type = "unique_locked"
    BY <1>2, <2>1, <2>3
  <2> QED
    BY <2>2, <2>3
<1>4. lock_type \in MtxLockType
  BY DEF LockingTypes, MtxLockType
<1>5. ReliesOn(t, m, lock_type)
  BY <1>2, <1>3, <1>4, KeptIsRelied DEF Kept
<1> QED
  BY <1>1, <1>5, ReliesIsInside

LEMMA WritesFacts ==
    ASSUME FTypes, NEW t \in Threads, NEW x, WritesNow(t, x)
    PROVE  /\ Within(t, x) /\ ~ReadOnce(script[t], x) /\ call[t] = Running
           /\ pc[t] \in UsesIn(script[t], x)
<1>1. /\ script[t] \in Seq(ScriptSteps) /\ Len(script[t]) \in Nat /\ pc[t] \in Nat
      /\ pc[t] \in 1 .. Len(script[t]) + 1
  BY ScriptFacts DEF FTypes
<1>2. /\ Ready(t) /\ ~Done(t) /\ call[t] = Running
      /\ script[t][pc[t]].op = "use" /\ x \in script[t][pc[t]].writes
  BY DEF WritesNow, Ready
<1>3. pc[t] \in 1 .. Len(script[t])
  BY <1>1, <1>2 DEF Done
<1>4. pc[t] \in UsesIn(script[t], x) /\ pc[t] \in UsesOf(t, x)
  BY <1>1, <1>2, <1>3 DEF UsesIn, UsesOf
<1> QED
  BY <1>1, <1>2, <1>4 DEF Within, ReadOnce

LEMMA CoveredIsInside ==
    ASSUME FInv, NEW t \in Threads, NEW x, WritesNow(t, x), NEW m \in Mutexes,
           Covered(script[t], x, m, "unique_locked")
    PROVE  owner[m] = t
<1>1. TxInv /\ FTypes
  BY DEF FInv
<1>2. call[t] = Running /\ pc[t] \in UsesIn(script[t], x) /\ pc[t] <= pc[t]
  BY <1>1, WritesFacts DEF FTypes
<1>3. PICK i \in UsesIn(script[t], x) : i = pc[t]
  BY <1>2
<1>4. KeptOn(script[t], {i}, m, "unique_locked")
  BY DEF Covered
<1>5. i \in {i} /\ i <= pc[t] /\ pc[t] <= i
  BY <1>2, <1>3
<1>6. ReliesOn(t, m, "unique_locked")
  BY <1>2, <1>4, <1>5, KeptIsRelied DEF MtxLockType
<1> QED
  BY <1>1, <1>6, ReliesIsInside DEF LockingTypes

\* What a thread that is within its uses of x is inside of, without and with
\* a transaction.
GuardedBy(t, x) ==
    \/ x \in Variables /\ Inside(t, x)
    \/ x \in Filed /\ owner[theRow] = t
    \/ x = theField /\ Inside(t, theRow)
    \/ x \in Filed /\ Inside(t, theTable) /\ Inside(t, theColumn)

WriteGuardedBy(t, x) ==
    \/ x \in Variables /\ owner[x] = t
    \/ x \in Filed /\ owner[theRow] = t /\ owner[theColumn] = t

LEMMA SafeUsesAreGuarded ==
    ASSUME FInv, NEW t \in Threads, NEW x, Within(t, x), SafeFor(script[t], x)
    PROVE  GuardedBy(t, x) /\ (WritesNow(t, x) => WriteGuardedBy(t, x))
<1>1. /\ theTable \in Mutexes /\ theRow \in Mutexes /\ theColumn \in Mutexes
      /\ Variables \subseteq Mutexes
      /\ "shared_locked" \in LockingTypes /\ "unique_locked" \in LockingTypes
  BY ObjectFacts DEF LockingTypes
<1>2. UsesIn(script[t], x) # {}
  BY WithinFacts DEF FInv
<1>3. WritesNow(t, x) => ~ReadOnce(script[t], x)
  BY WritesFacts DEF FInv
<1>4. CASE x \in Variables /\ Kept(script[t], x, x, "unique_locked")
  <2>1. owner[x] = t
    BY <1>1, <1>4, WithinIsInside
  <2> QED
    BY <1>4, <2>1 DEF GuardedBy, WriteGuardedBy, Inside
<1>5. CASE /\ x \in Variables /\ Kept(script[t], x, x, "shared_locked")
           /\ ReadOnce(script[t], x)
  <2>1. Inside(t, x)
    BY <1>1, <1>5, WithinIsInside
  <2> QED
    BY <1>3, <1>5, <2>1 DEF GuardedBy
<1>6. CASE /\ x \in Filed
           /\ Kept(script[t], x, theRow, "unique_locked")
           /\ Covered(script[t], x, theColumn, "unique_locked")
  <2>1. owner[theRow] = t
    BY <1>1, <1>6, WithinIsInside
  <2>2. WritesNow(t, x) => owner[theColumn] = t
    BY <1>1, <1>6, CoveredIsInside
  <2> QED
    BY <1>6, <2>1, <2>2 DEF GuardedBy, WriteGuardedBy
<1>7. CASE /\ x \in Filed
           /\ Kept(script[t], x, theTable, "shared_locked")
           /\ Kept(script[t], x, theColumn, "shared_locked")
           /\ ReadOnce(script[t], x)
  <2>1. Inside(t, theTable) /\ Inside(t, theColumn)
    BY <1>1, <1>7, WithinIsInside
  <2> QED
    BY <1>3, <1>7, <2>1 DEF GuardedBy
<1>8. CASE /\ x = theField /\ Kept(script[t], x, theRow, "shared_locked")
           /\ ReadOnce(script[t], x)
  <2>1. Inside(t, theRow)
    BY <1>1, <1>8, WithinIsInside
  <2> QED
    BY <1>3, <1>8, <2>1 DEF GuardedBy
<1> QED
  BY <1>2, <1>4, <1>5, <1>6, <1>7, <1>8 DEF SafeFor

\* Past its first step and before its last, and at any step it can make, a
\* method in a transaction has both variables for itself, also while it waits
\* for a mutex that the transaction does not name.
LEMMA TransactionIsInside ==
    ASSUME FInv, NEW t \in Threads, NEW x, Within(t, x), InScope(t),
           NEW m \in Variables
    PROVE  owner[m] = t
<1>1. TxInv /\ FTypes /\ TxScope(t) /\ m \in Mutexes
  BY ObjectFacts DEF FInv
<1>2. PICK i \in UsesIn(script[t], x) :
         /\ i < pc[t] \/ (i = pc[t] /\ Ready(t))
         /\ i \in 1 .. Len(script[t]) /\ ~Done(t)
  BY <1>1, WithinFacts
<1>3. /\ tx[t] # NoTx /\ tx[t].mtx_set = Variables
      /\ tx[t].lock_type = "unique_locked"
  BY <1>1, <1>2 DEF TxScope
<1>4. Missing(t) = {} /\ call[t].mtx # m
  <2>1. CASE pc[t] > 1
    BY <1>1, <1>2, <2>1 DEF TxScope
  <2>2. CASE ~(pc[t] > 1)
    <3>1. Ready(t)
      BY <1>1, <1>2, <2>2 DEF FTypes
    <3>2. tx[t].phase # "none"
      BY <1>1, <1>3 DEF TxInv, TxOK, Transactions
    <3> QED
      BY <1>1, <3>1, <3>2, ConstantsAssumption DEF Ready, ClientRuns, Held, Running
  <2> QED
    BY <2>1, <2>2
<1>5. ClaimsUniquely(t, m)
  BY <1>3, <1>4 DEF ClaimsUniquely, Missing
<1> QED
  BY <1>1, <1>4, <1>5, ClaimsAreHeld DEF ClaimsHold

LEMMA NoDisturbance ==
    ASSUME FInv, NEW t \in Threads, NEW u \in Threads, NEW x,
           InScope(t) \/ SafeFor(script[t], x),
           InScope(u) \/ SafeFor(script[u], x)
    PROVE  ~Disturbs(t, u, x)
<1> SUFFICES ASSUME t # u, WritesNow(t, x), Within(u, x)
             PROVE  FALSE
  BY DEF Disturbs
<1>1. /\ TxInv /\ Within(t, x)
      /\ theTable \in Variables /\ theRow \in Variables
      /\ theTable \in Mutexes /\ theRow \in Mutexes /\ theColumn \in Mutexes
      /\ Variables \subseteq Mutexes
      /\ \A y \in Filed : y \notin Variables
  BY WritesFacts, ObjectFacts DEF FInv, Variables, Filed
<1>2. ASSUME NEW m \in Mutexes, owner[m] = t
      PROVE  ~Inside(u, m)
  BY <1>1, <1>2, OwnerIsAlone
<1>3. InScope(t) => owner[theTable] = t /\ owner[theRow] = t
                    /\ (x \in Variables => owner[x] = t)
  BY <1>1, TransactionIsInside
<1>4. InScope(u) => Inside(u, theTable) /\ Inside(u, theRow)
                    /\ (x \in Variables => Inside(u, x))
  BY <1>1, TransactionIsInside DEF Inside
<1>5. ~InScope(t) => WriteGuardedBy(t, x)
  BY <1>1, SafeUsesAreGuarded
<1>6. ~InScope(u) => GuardedBy(u, x)
  BY SafeUsesAreGuarded
<1>7. owner[theRow] = u => Inside(u, theRow)
  BY DEF Inside
<1>8. CASE InScope(t)
  BY <1>1, <1>2, <1>3, <1>4, <1>6, <1>7, <1>8, ObjectFacts DEF GuardedBy, Filed
<1>9. CASE ~InScope(t)
  BY <1>1, <1>2, <1>4, <1>5, <1>6, <1>7, <1>9, ObjectFacts
     DEF GuardedBy, WriteGuardedBy, Filed
<1> QED
  BY <1>8, <1>9

LEMMA UnexposedIsSafe ==
    ASSUME FInv, NEW t \in Threads, NEW x \in AllData,
           Busy(t) => <<script[t], x>> \notin Exposed
    PROVE  SafeFor(script[t], x)
<1>1. class \in DOMAIN MethodsOf /\ script[t] \in MethodsOf[class] \cup {<<>>}
  BY DEF FInv, FTypes
<1>2. CASE script[t] = <<>>
  <2>1. Shaped(<<>>, {})
    BY ShapedLink, ObjectFacts
  <2>2. SafeFor(<<>>, x)
    BY <2>1, UnusedIsSafe
  <2> QED
    BY <1>2, <2>2
<1>3. CASE script[t] # <<>>
  <2>1. PICK s \in MethodsOf[class] : s = script[t]
    BY <1>1, <1>3
  <2>2. x \notin ExposedBy(s)
    BY <1>3, <2>1 DEF Busy, ExposedBy
  <2> QED
    BY <1>1, <2>1, <2>2, MethodsSafe DEF Safe
<1> QED
  BY <1>2, <1>3

LEMMA OnlyExposedInterfereHolds == FInv => OnlyExposedInterfere
<1> SUFFICES ASSUME FInv, NEW t \in Threads, NEW u \in Threads, NEW x \in AllData,
                    Disturbs(t, u, x), ~careful,
                    <<script[t], x>> \notin Exposed, <<script[u], x>> \notin Exposed
             PROVE  FALSE
  BY DEF OnlyExposedInterfere
<1>1. SafeFor(script[t], x) /\ SafeFor(script[u], x)
  BY UnexposedIsSafe
<1> QED
  BY <1>1, NoDisturbance

LEMMA TransactionsIsolateHolds == FInv => TransactionsIsolate
<1> SUFFICES ASSUME FInv, careful,
                    NEW t \in Threads, NEW u \in Threads, NEW x \in AllData
             PROVE  ~Disturbs(t, u, x)
  BY DEF TransactionsIsolate
<1>1. ASSUME NEW v \in Threads
      PROVE  InScope(v) \/ SafeFor(script[v], x)
  <2>1. CASE ~InScope(v)
    <3>1. Busy(v) => <<script[v], x>> \notin Exposed
      BY <2>1 DEF InScope, NeedsTransaction
    <3> QED
      BY <3>1, UnexposedIsSafe
  <2> QED
    BY <2>1
<1> QED
  BY <1>1, NoDisturbance

\* Nothing but the uses that Exposed lists interferes, in any of the classes,
\* for any number of threads and of mutexes.
THEOREM OnlyExposedUsesInterfere == FSpec => []OnlyExposedInterfere
  BY FInvariance, OnlyExposedInterfereHolds, PTL

\* A transaction over both variables around each method that needs one keeps
\* all methods apart, the ones that are called without one included.
THEOREM TransactionsIsolateMethods == FSpec => []TransactionsIsolate
  BY FInvariance, TransactionsIsolateHolds, PTL

\* The composition keeps what the transactions and the locks promise by
\* themselves: methods never break the contract of std::shared_mutex.
THEOREM MethodsNeverMisuse == FSpec => [](NoMisuse /\ TxExcludes)
<1>1. FInv => NoMisuse /\ TxExcludes
  BY ExclusionHolds DEF FInv, TxInv
<1> QED
  BY <1>1, FInvariance, PTL

=============================================================================
