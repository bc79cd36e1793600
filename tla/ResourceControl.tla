--------------------------- MODULE ResourceControl ---------------------------
(***************************************************************************)
(* libbinom/binom_impl/resource_control: the reference counting under      *)
(* every Variable.  A Link counts for one SharedResource; elements of      *)
(* arrays, lists, maps and tables are Links too, so a resource that dies   *)
(* drops the links of its elements, in the thread that let go of it last.  *)
(*                                                                         *)
(* The mutex of a resource is used at the level of ReadersWriters.  A step *)
(* ends where a mutex call may block and at each change of a counter,      *)
(* which is the only atomic variable that threads share without the mutex. *)
(***************************************************************************)
EXTENDS Integers, FiniteSets

CONSTANTS
    Threads,
    Resources,     \* addresses of SharedResources; one is reused when freed
    Links,         \* Link objects: variables of threads, and elements
    NoResource,    \* resource == nullptr
    Nowhere,       \* the home of a Link that is not constructed
    Disciplined    \* do clients keep the three rules of "Discipline" below?

ASSUME ResourcesAssumption ==
    /\ IsFiniteSet(Links)
    /\ Threads \cap Resources = {}
    /\ NoResource \notin Threads \cup Resources
    /\ Nowhere \notin Threads \cup Resources
    /\ Disciplined \in BOOLEAN

VARIABLES
    allocated,      \* the resources that are not deleted
    link_counter,   \* link_counter[r]: the atomic counter of r
    target,         \* target[l]: Link::resource
    home,           \* home[l]: the thread or container l is a part of
    doomed,         \* doomed[t]: elements of containers that t is destroying
    lock,           \* lock[t]: the lock of a resource t has by getLock()
    call            \* call[t]: the mutex call t is blocked in, and what for

vars == <<allocated, link_counter, target, home, doomed, lock, call>>

Unlocked == [res |-> NoResource, type |-> "unlocked"]

LockTypes == {"shared_locked", "unique_locked"}

Idle == [op |-> "none"]

Calls ==
    {Idle}
    \cup [op : {"copy"}, res : Resources, link : Links]
    \cup [op : {"lock"}, res : Resources, type : LockTypes]
    \cup [op : {"delete"}, res : Resources]

TypeOK ==
    /\ allocated \in SUBSET Resources
    /\ link_counter \in [Resources -> Nat]
    /\ target \in [Links -> Resources \cup {NoResource}]
    /\ home \in [Links -> Threads \cup Resources \cup {Nowhere}]
    /\ doomed \in [Threads -> SUBSET Links]
    /\ lock \in [Threads -> [res : Resources, type : LockTypes] \cup {Unlocked}]
    /\ call \in [Threads -> Calls]

Init ==
    /\ allocated = {}
    /\ link_counter = [r \in Resources |-> 0]
    /\ target = [l \in Links |-> NoResource]
    /\ home = [l \in Links |-> Nowhere]
    /\ doomed = [t \in Threads |-> {}]
    /\ lock = [t \in Threads |-> Unlocked]
    /\ call = [t \in Threads |-> Idle]

-----------------------------------------------------------------------------
\* The thread is in client code, not inside a constructor or destructor.
Running(t) == call[t] = Idle /\ doomed[t] = {}

Variables(t) == {l \in Links : home[l] = t /\ l \notin doomed[t]}

Elements(c) == {l \in Links : home[l] = c}

ReachesByVariable(t, r) == \E l \in Variables(t) : target[l] = r

\* Elements are looked up under the lock of their container; a row of a table
\* through the WeakLink of one of its indexed fields likewise.
ReachesByElement(t, r) == \E l \in Elements(lock[t].res) : target[l] = r

\* Does r contain c, directly or through its elements?  Whatever has r in it
\* and the elements of all it has in it has c in it.
Contains(r, c) ==
    \A D \in SUBSET (Resources \cup {NoResource}) :
        r \in D /\ (\A l \in Links : home[l] \in D => target[l] \in D) => c \in D

(***************************************************************************)
(* Discipline: what a client has to keep to itself, since no code checks   *)
(* it.  A lock lies in the scope of a variable of its thread that keeps    *)
(* the resource alive; under the lock of a container only its elements are *)
(* copied; and no container is put, by whatever path, into itself.         *)
(***************************************************************************)
LockStaysCovered(t, r, l) ==
    \/ lock[t].res # r
    \/ \E k \in Variables(t) \ {l} : target[k] = r

OrderlyCopy(t, r) == lock[t] = Unlocked \/ ReachesByElement(t, r)

-----------------------------------------------------------------------------
(* std::shared_mutex of a resource, as promised by ReadersWriters *)

LockedBy(r) == {u \in Threads : lock[u].res = r}

SharedFree(t, r) ==
    \A u \in LockedBy(r) \ {t} : lock[u].type = "shared_locked"

UniqueFree(t, r) == LockedBy(r) \ {t} = {}

-----------------------------------------------------------------------------
(* Link *)

\* A new resource with its first link: new SharedResource starts at counter.
New(t, l, r, counter) ==
    /\ Running(t)
    /\ home[l] = Nowhere
    /\ r \notin allocated
    /\ allocated' = allocated \cup {r}
    /\ link_counter' = [link_counter EXCEPT ![r] = counter]
    /\ target' = [target EXCEPT ![l] = r]
    /\ home' = [home EXCEPT ![l] = t]
    /\ UNCHANGED <<doomed, lock, call>>

\* Link(ResourceData)
Create(t, l, r) == New(t, l, r, 1)

\* Faulty: Link(SharedResource&) has counted the link once more.
CreateMap_CountsTwice(t, l, r) == New(t, l, r, 2)

\* createMap, createMultiMap and cloneResource: Link(SharedResource&) raises
\* the counter to 2, link_counter = 1 puts it right.
CreateMap(t, l, r) == New(t, l, r, 1)

\* Link(const Link&), Link(const WeakLink&): with isExist() false the new link
\* stays null; else it waits for a shared lock.
Copy(t, l, r) ==
    /\ Running(t)
    /\ home[l] = Nowhere
    /\ ReachesByVariable(t, r) \/ ReachesByElement(t, r)
    /\ Disciplined => OrderlyCopy(t, r)
    /\ link_counter[r] # 0
    /\ home' = [home EXCEPT ![l] = t]
    /\ call' = [call EXCEPT ![t] = [op |-> "copy", res |-> r, link |-> l]]
    /\ UNCHANGED <<allocated, link_counter, target, doomed, lock>>

\* Faulty: the copy does not count.
CopyGranted_Uncounted(t) ==
    /\ call[t].op = "copy"
    /\ SharedFree(t, call[t].res)
    /\ target' = [target EXCEPT ![call[t].link] = call[t].res]
    /\ call' = [call EXCEPT ![t] = Idle]
    /\ UNCHANGED <<allocated, link_counter, home, doomed, lock>>

\* The lock is granted, the link counted, and the lock given back.
CopyGranted(t) ==
    /\ call[t].op = "copy"
    /\ SharedFree(t, call[t].res)
    /\ link_counter' = [link_counter EXCEPT ![call[t].res] = @ + 1]
    /\ target' = [target EXCEPT ![call[t].link] = call[t].res]
    /\ call' = [call EXCEPT ![t] = Idle]
    /\ UNCHANGED <<allocated, home, doomed, lock>>

\* ~Link: whoever takes the counter to 0 goes on to delete the resource.
Forget(t, l) ==
    LET r == target[l]
    IN /\ target' = [target EXCEPT ![l] = NoResource]
       /\ home' = [home EXCEPT ![l] = Nowhere]
       /\ link_counter' = [link_counter EXCEPT ![r] = @ - 1]
       /\ call' = [call EXCEPT ![t] = IF link_counter[r] = 1
                                      THEN [op |-> "delete", res |-> r]
                                      ELSE Idle]

\* Link(Link&&): the link changes hands.  Within a thread the model does not
\* see it; a thread gets its first links from the one that starts it.
HandOver(t, l, u) ==
    /\ Running(t)
    /\ l \in Variables(t)
    /\ Disciplined => LockStaysCovered(t, target[l], l)
    /\ home' = [home EXCEPT ![l] = u]
    /\ UNCHANGED <<allocated, link_counter, target, doomed, lock, call>>

\* A variable of t goes out of scope.
Drop(t, l) ==
    /\ Running(t)
    /\ l \in Variables(t)
    /\ Disciplined => LockStaysCovered(t, target[l], l)
    /\ Forget(t, l)
    /\ UNCHANGED <<allocated, doomed, lock>>

\* The next element of a container that t is destroying.
DropDoomed(t, l) ==
    /\ call[t] = Idle
    /\ l \in doomed[t]
    /\ doomed' = [doomed EXCEPT ![t] = @ \ {l}]
    /\ Forget(t, l)
    /\ UNCHANGED <<allocated, lock>>

\* Faulty: the implementation, and so its elements, are left behind.
Destroy_LeavesElements(t, r) == UNCHANGED <<doomed, home>>

\* SharedResource::destroy deletes the implementation: its elements go, one
\* after the other.
Destroy(t, r) ==
    /\ doomed' = [doomed EXCEPT ![t] = @ \cup Elements(r)]
    /\ home' = [l \in Links |-> IF l \in Elements(r) THEN t ELSE home[l]]

\* Faulty: the resource is deleted under those who have it locked.
DeleteGranted_NoLock(t) ==
    /\ call[t].op = "delete"
    /\ allocated' = allocated \ {call[t].res}
    /\ Destroy(t, call[t].res)
    /\ call' = [call EXCEPT ![t] = Idle]
    /\ UNCHANGED <<link_counter, target, lock>>

\* mtx.lock(), mtx.unlock(), delete.  The raw mutex knows nothing of what the
\* thread itself has locked: then it never returns.
DeleteGranted(t) ==
    /\ call[t].op = "delete"
    /\ LockedBy(call[t].res) = {}
    /\ allocated' = allocated \ {call[t].res}
    /\ Destroy(t, call[t].res)
    /\ call' = [call EXCEPT ![t] = Idle]
    /\ UNCHANGED <<link_counter, target, lock>>

-----------------------------------------------------------------------------
(* Link::getLock, and the lock object it returns *)

GetLock(t, r, type) ==
    /\ Running(t)
    /\ lock[t] = Unlocked
    /\ ReachesByVariable(t, r)
    /\ link_counter[r] # 0
    /\ call' = [call EXCEPT ![t] = [op |-> "lock", res |-> r, type |-> type]]
    /\ UNCHANGED <<allocated, link_counter, target, home, doomed, lock>>

LockGranted(t) ==
    /\ call[t].op = "lock"
    /\ IF call[t].type = "shared_locked" THEN SharedFree(t, call[t].res)
                                         ELSE UniqueFree(t, call[t].res)
    /\ lock' = [lock EXCEPT ![t] = [res |-> call[t].res, type |-> call[t].type]]
    /\ call' = [call EXCEPT ![t] = Idle]
    /\ UNCHANGED <<allocated, link_counter, target, home, doomed>>

Unlock(t) ==
    /\ Running(t)
    /\ lock[t] # Unlocked
    /\ lock' = [lock EXCEPT ![t] = Unlocked]
    /\ UNCHANGED <<allocated, link_counter, target, home, doomed, call>>

-----------------------------------------------------------------------------
(* Containers: every change is made under the unique lock of the container *)

Writes(t, c) == lock[t] = [res |-> c, type |-> "unique_locked"]

\* pushBack, insert, ...: the variable is moved into the container.
Insert(t, l, c) ==
    /\ Running(t)
    /\ Writes(t, c)
    /\ l \in Variables(t)
    /\ Disciplined => /\ ~Contains(target[l], c)
                      /\ LockStaysCovered(t, target[l], l)
    /\ home' = [home EXCEPT ![l] = c]
    /\ UNCHANGED <<allocated, link_counter, target, doomed, lock, call>>

\* popBack, remove, ...
Erase(t, l, c) ==
    /\ Running(t)
    /\ Writes(t, c)
    /\ l \in Elements(c)
    /\ Forget(t, l)
    /\ UNCHANGED <<allocated, doomed, lock>>

\* clear(), and operator= with a value that has no elements:
\* overwriteWithResourceCopy begins with destroy().
Overwrite(t, c) ==
    /\ Running(t)
    /\ Writes(t, c)
    /\ Elements(c) # {}
    /\ Destroy(t, c)
    /\ UNCHANGED <<allocated, link_counter, target, lock, call>>

Granted(t) == CopyGranted(t) \/ LockGranted(t) \/ DeleteGranted(t)

Next ==
    \E t \in Threads :
        \/ \E l \in Links, r \in Resources :
              \/ Create(t, l, r)
              \/ CreateMap(t, l, r)
              \/ Copy(t, l, r)
              \/ Insert(t, l, r)
              \/ Erase(t, l, r)
        \/ \E l \in Links : Drop(t, l) \/ DropDoomed(t, l)
        \/ \E l \in Links, u \in Threads \ {t} : HandOver(t, l, u)
        \/ \E r \in Resources, type \in LockTypes : GetLock(t, r, type)
        \/ \E r \in Resources : Overwrite(t, r)
        \/ Unlock(t)
        \/ Granted(t)

Spec == Init /\ [][Next]_vars

\* A thread goes on when its call can return, finishes a destructor it is in,
\* and leaves the scopes of its locks and variables.
FairSpec ==
    /\ Spec
    /\ \A t \in Threads : /\ WF_vars(Granted(t))
                          /\ WF_vars(\E l \in Links : DropDoomed(t, l))
                          /\ WF_vars(Unlock(t))
                          /\ WF_vars(\E l \in Links : Drop(t, l))

-----------------------------------------------------------------------------
(* Correctness *)

LinksTo(r) == {l \in Links : target[l] = r}

\* The counter of a resource is the number of links to it: variables of any
\* thread, elements of any container, and elements on their way out.
CountersExact ==
    \A r \in Resources : link_counter[r] = Cardinality(LinksTo(r))

\* No link, no lock and no call that is under way refers to a deleted
\* resource, even if a client's lock outlives the link it was taken through.
NoUseAfterFree ==
    /\ \A l \in Links :
          /\ target[l] # NoResource => target[l] \in allocated
          /\ home[l] \in Resources => home[l] \in allocated
    /\ \A t \in Threads :
          /\ lock[t] # Unlocked => lock[t].res \in allocated
          /\ call[t] # Idle => call[t].res \in allocated

\* The thread that deletes a resource is the only one that still knows it:
\* nobody waits for its mutex or has it locked, and nobody else deletes it.
\* So the raw lock() in ~Link returns at once, in clients with discipline.
DeleterIsAlone ==
    \A t \in Threads :
        call[t].op = "delete" =>
            /\ LinksTo(call[t].res) = {}
            /\ LockedBy(call[t].res) = {}
            /\ \A u \in Threads \ {t} :
                  call[u] # Idle => call[u].res # call[t].res

\* A resource that is not freed yet can still be reached from a variable, or
\* is being taken apart: with discipline nothing leaks.
NothingLeaks ==
    \A r \in allocated :
        \/ \E t \in Threads :
              call[t].op = "delete" /\ Contains(call[t].res, r)
        \/ \E l \in Links :
              /\ home[l] \in Threads /\ target[l] # NoResource
              /\ Contains(target[l], r)

NoNewWork ==
    [][/\ \A l \in Links :
             /\ home[l] = Nowhere => home'[l] = Nowhere
             /\ home[l] \in Threads => home'[l] \notin Threads \ {home[l]}
       /\ \A t \in Threads :
             call[t] = Idle => call'[t].op \in {"none", "delete"}]_vars

\* When the clients only let go, all memory is given back in the end: chains
\* of containers come apart, and no destructor waits for ever.
EverythingReclaimed == <>NoNewWork => <>[](allocated = {})
=============================================================================
