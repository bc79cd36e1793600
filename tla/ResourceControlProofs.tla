----------------------- MODULE ResourceControlProofs -----------------------
(***************************************************************************)
(* Theorems about ResourceControl, for any threads and resources and every *)
(* finite number of links: counters are exact, nothing is used after it is *)
(* freed, and, with discipline, a deleter is alone and nothing leaks.      *)
(***************************************************************************)
EXTENDS ResourceControl, FiniteSetTheorems, TLAPS

-----------------------------------------------------------------------------
(* The inductive invariant *)

\* A link is null when it is not constructed, or while its constructor waits
\* for the resource to copy from.  Doomed elements belong to their destroyer,
\* and a thread that copies or locks is not destroying.
LinksPlaced ==
    /\ \A l \in Links :
          /\ home[l] = Nowhere => target[l] = NoResource
          /\ home[l] # Nowhere /\ target[l] = NoResource =>
                \E t \in Threads : call[t].op = "copy" /\ call[t].link = l
    /\ \A t \in Threads :
          /\ call[t].op = "copy" =>
                home[call[t].link] = t /\ target[call[t].link] = NoResource
          /\ \A l \in doomed[t] : home[l] = t
          /\ call[t].op \in {"copy", "lock"} => doomed[t] = {}

\* The mutexes of resources exclude each other.
LocksCompatible ==
    \A t, u \in Threads :
        t # u /\ lock[t] # Unlocked /\ lock[u].res = lock[t].res =>
            lock[t].type = "shared_locked"

\* What a thread waits for to copy or to lock, it can still reach: through its
\* own variable, or through an element of the container it has locked.
CallsReach ==
    \A t \in Threads :
        /\ call[t].op = "lock" => ReachesByVariable(t, call[t].res)
        /\ call[t].op = "copy" => \/ ReachesByVariable(t, call[t].res)
                                  \/ ReachesByElement(t, call[t].res)

\* A resource that is being deleted has no links, and one deleter.
DeletersApart ==
    \A t \in Threads :
        call[t].op = "delete" =>
            /\ LinksTo(call[t].res) = {}
            /\ \A u \in Threads \ {t} :
                  call[u] # Idle => call[u].res # call[t].res

RInv == /\ TypeOK
        /\ CountersExact
        /\ NoUseAfterFree
        /\ LinksPlaced
        /\ LocksCompatible
        /\ CallsReach
        /\ DeletersApart

-----------------------------------------------------------------------------
(* Counting links *)

LEMMA LinksFinite ==
    ASSUME NEW r
    PROVE  IsFiniteSet(LinksTo(r)) /\ Cardinality(LinksTo(r)) \in Nat
  BY ResourcesAssumption, FS_Subset, FS_CardinalityType DEF LinksTo

\* A link that was null is set.
LEMMA LinkSet ==
    ASSUME TypeOK, NEW l \in Links, NEW r \in Resources,
           target[l] = NoResource,
           target' = [target EXCEPT ![l] = r]
    PROVE  /\ LinksTo(r)' = LinksTo(r) \cup {l}
           /\ Cardinality(LinksTo(r)') = Cardinality(LinksTo(r)) + 1
           /\ \A q \in Resources \ {r} : LinksTo(q)' = LinksTo(q)
<1>1. target \in [Links -> Resources \cup {NoResource}]
  BY DEF TypeOK
<1>2. LinksTo(r)' = LinksTo(r) \cup {l}
  BY <1>1 DEF LinksTo
<1>3. l \notin LinksTo(r)
  BY ResourcesAssumption DEF LinksTo
<1>4. \A q \in Resources \ {r} : LinksTo(q)' = LinksTo(q)
  BY <1>1, ResourcesAssumption DEF LinksTo
<1>5. Cardinality(LinksTo(r) \cup {l}) = Cardinality(LinksTo(r)) + 1
  BY <1>3, LinksFinite, FS_AddElement
<1> QED
  BY <1>2, <1>4, <1>5

\* A link that was set becomes null.
LEMMA LinkCleared ==
    ASSUME TypeOK, NEW l \in Links, NEW r \in Resources,
           target[l] = r,
           target' = [target EXCEPT ![l] = NoResource]
    PROVE  /\ LinksTo(r)' = LinksTo(r) \ {l}
           /\ Cardinality(LinksTo(r)') = Cardinality(LinksTo(r)) - 1
           /\ \A q \in Resources \ {r} : LinksTo(q)' = LinksTo(q)
<1>1. target \in [Links -> Resources \cup {NoResource}]
  BY DEF TypeOK
<1>2. LinksTo(r)' = LinksTo(r) \ {l}
  BY <1>1, ResourcesAssumption DEF LinksTo
<1>3. l \in LinksTo(r)
  BY DEF LinksTo
<1>4. \A q \in Resources \ {r} : LinksTo(q)' = LinksTo(q)
  BY <1>1, ResourcesAssumption DEF LinksTo
<1>5. Cardinality(LinksTo(r) \ {l}) = Cardinality(LinksTo(r)) - 1
  BY <1>3, LinksFinite, FS_RemoveElement
<1> QED
  BY <1>2, <1>4, <1>5

\* The fields of calls and locks.
LEMMA CallFields ==
    ASSUME TypeOK, NEW t \in Threads
    PROVE  /\ call[t].op \in {"none", "copy", "lock", "delete"}
           /\ call[t].op = "none" <=> call[t] = Idle
           /\ call[t].op # "none" => call[t].res \in Resources
           /\ call[t].op = "copy" => call[t].link \in Links
           /\ call[t].op = "lock" => call[t].type \in LockTypes
           /\ lock[t] # Unlocked =>
                 lock[t].res \in Resources /\ lock[t].type \in LockTypes
           /\ lock[t] = Unlocked <=> lock[t].res = NoResource
  BY ResourcesAssumption DEF TypeOK, Calls, Idle, Unlocked, LockTypes

\* A resource that a thread can reach has a link, so it is allocated and
\* nobody deletes it.
LEMMA ReachedIsAlive ==
    ASSUME RInv, NEW t \in Threads, NEW r \in Resources,
           ReachesByVariable(t, r) \/ ReachesByElement(t, r)
    PROVE  /\ r \in allocated
           /\ LinksTo(r) # {}
           /\ \A u \in Threads : call[u].op = "delete" => call[u].res # r
<1>1. PICK l \in Links : target[l] = r
  BY DEF ReachesByVariable, ReachesByElement, Variables, Elements
<1>2. r \in allocated
  BY <1>1, ResourcesAssumption DEF RInv, NoUseAfterFree
<1>3. l \in LinksTo(r)
  BY <1>1 DEF LinksTo
<1> QED
  BY <1>2, <1>3 DEF RInv, DeletersApart

LEMMA InitRInv == Init => RInv
<1> SUFFICES ASSUME Init PROVE RInv
  OBVIOUS
<1>1. TypeOK
  BY ResourcesAssumption DEF Init, TypeOK, Calls, Idle, Unlocked
<1>2. CountersExact
  <2>1. \A r \in Resources : LinksTo(r) = {}
    BY ResourcesAssumption DEF Init, LinksTo
  <2> QED
    BY <2>1, FS_EmptySet DEF Init, CountersExact
<1>3. NoUseAfterFree /\ LinksPlaced /\ LocksCompatible
  BY ResourcesAssumption DEF Init, NoUseAfterFree, LinksPlaced, LocksCompatible, Idle, Unlocked
<1>4. CallsReach /\ DeletersApart
  BY DEF Init, CallsReach, DeletersApart, Idle
<1> QED
  BY <1>1, <1>2, <1>3, <1>4 DEF RInv

-----------------------------------------------------------------------------
(* The actions *)

LEMMA NewInv ==
    ASSUME RInv, NEW t \in Threads, NEW l \in Links, NEW r \in Resources,
           New(t, l, r, 1)
    PROVE  RInv'
<1> USE DEF New
<1>1. TypeOK /\ target[l] = NoResource /\ LinksTo(r) = {}
  BY ResourcesAssumption DEF RInv, LinksPlaced, NoUseAfterFree, LinksTo
<1>2. TypeOK'
  BY <1>1 DEF TypeOK
<1>3. CountersExact'
  <2>0. Cardinality(LinksTo(r)) = 0
    BY <1>1, FS_EmptySet
  <2>a. Cardinality(LinksTo(r)') = Cardinality(LinksTo(r)) + 1
    BY <1>1, LinkSet
  <2>1. Cardinality(LinksTo(r)') = 1
    BY <2>0, <2>a
  <2>2. \A q \in Resources \ {r} : LinksTo(q)' = LinksTo(q)
    BY <1>1, LinkSet
  <2>3. ASSUME NEW q \in Resources PROVE link_counter'[q] = Cardinality(LinksTo(q)')
    BY <2>1, <2>2 DEF RInv, CountersExact, TypeOK
  <2> QED
    BY <2>3 DEF CountersExact
<1>4. NoUseAfterFree'
  BY <1>1, ResourcesAssumption DEF RInv, NoUseAfterFree, TypeOK
<1>5. LinksPlaced'
  BY <1>1, ResourcesAssumption DEF RInv, LinksPlaced, TypeOK, Running, Idle
<1>6. LocksCompatible'
  BY DEF RInv, LocksCompatible
<1>7. CallsReach'
  BY <1>1, ResourcesAssumption, CallFields
     DEF RInv, CallsReach, ReachesByVariable, ReachesByElement, Variables, Elements, TypeOK
<1>8. DeletersApart'
  <2>1. \A u \in Threads : call[u].op = "delete" =>
           call[u].res \in Resources /\ call[u].res # r
    BY <1>1, CallFields DEF RInv, NoUseAfterFree, Idle
  <2>2. \A q \in Resources \ {r} : LinksTo(q)' = LinksTo(q)
    BY <1>1, LinkSet
  <2> QED
    BY <2>1, <2>2 DEF RInv, DeletersApart
<1> QED
  BY <1>2, <1>3, <1>4, <1>5, <1>6, <1>7, <1>8 DEF RInv

LEMMA CopyInv ==
    ASSUME RInv, NEW t \in Threads, NEW l \in Links, NEW r \in Resources,
           Copy(t, l, r)
    PROVE  RInv'
<1> USE DEF Copy
<1>1. TypeOK /\ target[l] = NoResource /\ r \in allocated
      /\ \A u \in Threads : call[u].op = "delete" => call[u].res # r
  BY ReachedIsAlive DEF RInv, LinksPlaced
<1>2. TypeOK'
  BY <1>1 DEF TypeOK, Calls
<1>3. CountersExact'
  BY DEF RInv, CountersExact, LinksTo
<1>4. NoUseAfterFree'
  BY <1>1, ResourcesAssumption DEF RInv, NoUseAfterFree, TypeOK, Idle
<1>5. LinksPlaced'
  BY <1>1, ResourcesAssumption DEF RInv, LinksPlaced, TypeOK, Running, Idle
<1>6. LocksCompatible'
  BY DEF RInv, LocksCompatible
<1>7. CallsReach'
  BY <1>1, ResourcesAssumption, CallFields
     DEF RInv, CallsReach, ReachesByVariable, ReachesByElement, Variables, Elements, TypeOK, Running
<1>8. DeletersApart'
  BY <1>1, CallFields DEF RInv, DeletersApart, LinksTo, TypeOK, Running, Idle
<1> QED
  BY <1>2, <1>3, <1>4, <1>5, <1>6, <1>7, <1>8 DEF RInv

LEMMA CopyGrantedInv ==
    ASSUME RInv, NEW t \in Threads, CopyGranted(t)
    PROVE  RInv'
<1>a. call[t].link \in Links /\ call[t].res \in Resources
  BY CallFields DEF RInv, CopyGranted
<1> PICK l \in Links : call[t].link = l
  BY <1>a
<1> PICK r \in Resources : call[t].res = r
  BY <1>a
<1> USE DEF CopyGranted
<1>1. /\ TypeOK /\ l \in Links /\ r \in Resources
      /\ target[l] = NoResource /\ home[l] = t /\ r \in allocated
      /\ \A u \in Threads : call[u].op = "delete" => call[u].res # r
  BY CallFields, ReachedIsAlive DEF RInv, LinksPlaced, CallsReach
<1>0. /\ target' = [target EXCEPT ![l] = r]
      /\ link_counter' = [link_counter EXCEPT ![r] = @ + 1]
      /\ call[t].op = "copy"
      /\ call' = [call EXCEPT ![t] = Idle]
      /\ UNCHANGED <<allocated, home, doomed, lock>>
  OBVIOUS
<1> HIDE DEF CopyGranted
<1>2. TypeOK'
  BY <1>0, <1>1 DEF TypeOK, Calls
<1>3. CountersExact'
  <2>1. /\ Cardinality(LinksTo(r)') = Cardinality(LinksTo(r)) + 1
        /\ \A q \in Resources \ {r} : LinksTo(q)' = LinksTo(q)
    BY <1>0, <1>1, LinkSet
  <2>2. ASSUME NEW q \in Resources PROVE link_counter'[q] = Cardinality(LinksTo(q)')
    BY <1>0, <1>1, <2>1 DEF RInv, CountersExact, TypeOK
  <2> QED
    BY <2>2 DEF CountersExact
<1>4. NoUseAfterFree'
  BY <1>0, <1>1, ResourcesAssumption DEF RInv, NoUseAfterFree, TypeOK, Idle
<1>5. LinksPlaced'
  BY <1>0, <1>1, ResourcesAssumption DEF RInv, LinksPlaced, TypeOK, Idle
<1>6. LocksCompatible'
  BY <1>0 DEF RInv, LocksCompatible
<1>7. CallsReach'
  BY <1>0, <1>1, ResourcesAssumption, CallFields
     DEF RInv, CallsReach, ReachesByVariable, ReachesByElement, Variables, Elements, TypeOK, Idle
<1>8. DeletersApart'
  <2>1. \A q \in Resources \ {r} : LinksTo(q)' = LinksTo(q)
    BY <1>0, <1>1, LinkSet
  <2>2. \A u \in Threads : call'[u].op = "delete" =>
           u # t /\ call'[u] = call[u] /\ call[u].res \in Resources \ {r}
    BY <1>0, <1>1, CallFields DEF TypeOK, Idle
  <2>3. \A u \in Threads : call'[u] # Idle => call'[u] = call[u]
    BY <1>0, <1>1 DEF TypeOK
  <2> QED
    BY <2>1, <2>2, <2>3 DEF RInv, DeletersApart
<1> QED
  BY <1>2, <1>3, <1>4, <1>5, <1>6, <1>7, <1>8 DEF RInv

\* Forget by a thread that has the link: as its variable, as an element it is
\* dropping, or as an element of a container it has locked uniquely.
LEMMA ForgetInv ==
    ASSUME RInv, NEW t \in Threads, NEW l \in Links,
           Forget(t, l), call[t] = Idle,
           \/ home[l] = t
           \/ home[l] \in Resources /\ Writes(t, home[l]),
           doomed' = [doomed EXCEPT ![t] = @ \ {l}],
           UNCHANGED <<allocated, lock>>
    PROVE  RInv'
<1>1. /\ TypeOK /\ target[l] \in Resources /\ target[l] \in allocated
      /\ \A u \in Threads : call[u].op = "copy" => call[u].link # l
      /\ \A u \in Threads : call[u].op = "delete" => call[u].res # target[l]
      /\ l \in LinksTo(target[l])
  <2>1. TypeOK /\ target[l] \in Resources \cup {NoResource} /\ home[l] # Nowhere
    BY ResourcesAssumption DEF RInv, TypeOK
  <2>2. \A u \in Threads : call[u].op = "copy" => call[u].link # l
    BY ResourcesAssumption DEF RInv, LinksPlaced, Idle
  <2>3. target[l] # NoResource
    BY <2>1, <2>2 DEF RInv, LinksPlaced
  <2>4. l \in LinksTo(target[l])
    BY DEF LinksTo
  <2> QED
    BY <2>1, <2>2, <2>3, <2>4 DEF RInv, NoUseAfterFree, DeletersApart
<1> PICK r \in Resources : target[l] = r
  BY <1>1
<1>0. /\ target' = [target EXCEPT ![l] = NoResource]
      /\ home' = [home EXCEPT ![l] = Nowhere]
      /\ link_counter' = [link_counter EXCEPT ![r] = @ - 1]
      /\ call' = [call EXCEPT ![t] = IF link_counter[r] = 1
                                     THEN [op |-> "delete", res |-> r]
                                     ELSE Idle]
  BY DEF Forget
<1>2. /\ LinksTo(r)' = LinksTo(r) \ {l}
      /\ Cardinality(LinksTo(r)') = Cardinality(LinksTo(r)) - 1
      /\ \A q \in Resources \ {r} : LinksTo(q)' = LinksTo(q)
  BY <1>0, <1>1, LinkCleared
<1>3. /\ link_counter[r] = Cardinality(LinksTo(r)) /\ link_counter[r] \in Nat
      /\ link_counter[r] # 0
  BY <1>1, LinksFinite, FS_EmptySet DEF RInv, CountersExact
<1>4. TypeOK'
  BY <1>0, <1>1, <1>3 DEF TypeOK, Calls
<1>5. CountersExact'
  <2>1. ASSUME NEW q \in Resources PROVE link_counter'[q] = Cardinality(LinksTo(q)')
    BY <1>0, <1>1, <1>2, <1>3 DEF RInv, CountersExact, TypeOK
  <2> QED
    BY <2>1 DEF CountersExact
<1>6. NoUseAfterFree'
  BY <1>0, <1>1, ResourcesAssumption DEF RInv, NoUseAfterFree, TypeOK, Idle
<1>7. LinksPlaced'
  BY <1>0, <1>1, ResourcesAssumption DEF RInv, LinksPlaced, TypeOK, Idle
<1>8. LocksCompatible'
  BY DEF RInv, LocksCompatible
<1>9. ASSUME NEW u \in Threads, call[u].op \in {"copy", "lock"}
      PROVE  /\ u # t /\ call'[u] = call[u] /\ lock'[u] = lock[u]
             /\ l \notin Variables(u) /\ l \notin Elements(lock[u].res)
             /\ Variables(u) \ {l} \subseteq Variables(u)'
             /\ Elements(lock[u].res) \ {l} \subseteq Elements(lock[u].res)'
  <2>1. u # t /\ call'[u] = call[u] /\ lock'[u] = lock[u]
    BY <1>0, <1>1, <1>9 DEF TypeOK, Idle
  <2>2. l \notin Variables(u)
    BY <2>1, ResourcesAssumption DEF Variables
  <2>3. l \notin Elements(lock[u].res)
    BY <2>1, CallFields, ResourcesAssumption DEF RInv, LocksCompatible, Elements, Writes, Unlocked
  <2>4. Variables(u) \ {l} \subseteq Variables(u)'
    BY <1>0, <1>1 DEF Variables, TypeOK
  <2>5. Elements(lock[u].res) \ {l} \subseteq Elements(lock[u].res)'
    BY <1>0, <1>1, <2>1 DEF Elements, TypeOK
  <2> QED
    BY <2>1, <2>2, <2>3, <2>4, <2>5
<1>10. \A k \in Links \ {l} : target'[k] = target[k]
  BY <1>0, <1>1 DEF TypeOK
<1>11. \A u \in Threads : call'[u].op \in {"copy", "lock"} => call[u].op \in {"copy", "lock"}
  BY <1>0, <1>1 DEF TypeOK, Idle
<1>12. CallsReach'
  BY <1>0, <1>1, <1>9, <1>10, <1>11 DEF RInv, CallsReach, ReachesByVariable, ReachesByElement, Variables, Elements
<1>13. DeletersApart'
  <2>1. ASSUME link_counter[r] = 1
        PROVE  LinksTo(r)' = {}
    BY <1>2, <1>3, <2>1, LinksFinite, FS_RemoveElement, FS_Subset, FS_EmptySet
  <2>2. ASSUME link_counter[r] = 1, NEW u \in Threads \ {t}, call[u] # Idle
        PROVE  call[u].res # r
    <3>1. call'[u] = call[u] /\ call[u].op # "none"
      BY <1>0, <1>1, <2>2, CallFields DEF TypeOK
    <3> QED
      BY <1>0, <1>1, <1>12, <2>1, <2>2, <3>1, CallFields
         DEF CallsReach, ReachesByVariable, ReachesByElement, Variables, Elements, LinksTo
  <2>3. \A u \in Threads : call'[u].op = "delete" =>
           \/ u # t /\ call[u] = call'[u]
           \/ u = t /\ call'[u].res = r /\ link_counter[r] = 1
    BY <1>0, <1>1 DEF TypeOK, Idle
  <2>4. \A u \in Threads \ {t} : call'[u] = call[u]
    BY <1>0, <1>1 DEF TypeOK
  <2>5. call'[t] # Idle => call'[t].res = r
    BY <1>0, <1>1 DEF TypeOK
  <2>6. \A u \in Threads : call[u].op = "delete" =>
           call[u].res \in Resources \ {r} /\ LinksTo(call[u].res)' = LinksTo(call[u].res)
    BY <1>0, <1>1, <1>2, CallFields
  <2> QED
    BY <1>0, <1>1, <2>1, <2>2, <2>3, <2>4, <2>5, <2>6, CallFields DEF RInv, DeletersApart
<1> QED
  BY <1>4, <1>5, <1>6, <1>7, <1>8, <1>12, <1>13 DEF RInv

\* A variable of t moves to another thread or into a container t writes.
LEMMA MoveInv ==
    ASSUME RInv, NEW t \in Threads, NEW l \in Links,
           NEW d \in Threads \cup Resources,
           Running(t), l \in Variables(t),
           d \in Threads \ {t} \/ Writes(t, d),
           home' = [home EXCEPT ![l] = d],
           UNCHANGED <<allocated, link_counter, target, doomed, lock, call>>
    PROVE  RInv'
<1>1. /\ TypeOK /\ home[l] = t /\ call[t] = Idle /\ l \notin doomed[t]
      /\ d \in Resources => d \in allocated
      /\ \A u \in Threads : call[u].op = "copy" => call[u].link # l
      /\ \A u \in Threads : l \notin doomed[u]
  BY ResourcesAssumption
     DEF RInv, Variables, Running, Writes, NoUseAfterFree, LinksPlaced, Idle, Unlocked
<1>2. TypeOK'
  BY <1>1 DEF TypeOK
<1>3. CountersExact' /\ DeletersApart' /\ LocksCompatible'
  BY DEF RInv, CountersExact, DeletersApart, LocksCompatible, LinksTo
<1>4. NoUseAfterFree'
  BY <1>1, ResourcesAssumption DEF RInv, NoUseAfterFree, TypeOK
<1>5. LinksPlaced'
  BY <1>1, ResourcesAssumption DEF RInv, LinksPlaced, TypeOK
<1>6. ASSUME NEW u \in Threads, call[u].op \in {"copy", "lock"}
      PROVE  /\ Variables(u) \subseteq Variables(u)'
             /\ Elements(lock[u].res) \subseteq Elements(lock[u].res)'
  <2>1. u # t /\ home[l] # u
    BY <1>1, <1>6 DEF Idle
  <2>2. home[l] # lock[u].res
    BY <1>1, CallFields, ResourcesAssumption DEF Unlocked
  <2> QED
    BY <1>1, <2>1, <2>2 DEF Variables, Elements, TypeOK
<1>7. CallsReach'
  BY <1>6 DEF RInv, CallsReach, ReachesByVariable, ReachesByElement
<1> QED
  BY <1>2, <1>3, <1>4, <1>5, <1>7 DEF RInv

\* The elements of a container c are doomed: its writer clears it, or its
\* deleter destroys it when nobody has it locked.
LEMMA DestroyInv ==
    ASSUME RInv, NEW t \in Threads, NEW c \in Resources,
           Destroy(t, c),
           call' = [call EXCEPT ![t] = Idle],
           UNCHANGED <<link_counter, target, lock>>,
           \/ call[t] = Idle /\ Writes(t, c) /\ allocated' = allocated
           \/ /\ call[t].op = "delete" /\ call[t].res = c
              /\ LockedBy(c) = {} /\ allocated' = allocated \ {c}
    PROVE  RInv'
<1>1. /\ TypeOK /\ call[t].op \notin {"copy", "lock"}
      /\ \A u \in Threads \ {t} : lock[u].res # c
  <2>1. CASE Writes(t, c)
    BY <2>1, ResourcesAssumption DEF RInv, LocksCompatible, Writes, Unlocked, Idle
  <2>2. CASE LockedBy(c) = {}
    BY <2>2 DEF RInv, LockedBy, Idle
  <2> QED
    BY <2>1, <2>2
<1>2. /\ doomed' = [doomed EXCEPT ![t] = @ \cup Elements(c)]
      /\ home' = [l \in Links |-> IF home[l] = c THEN t ELSE home[l]]
  BY DEF Destroy, Elements
<1>3. TypeOK'
  BY <1>1, <1>2 DEF TypeOK, Calls, Elements
<1>4. CountersExact' /\ LocksCompatible'
  BY DEF RInv, CountersExact, LocksCompatible, LinksTo
<1>5. NoUseAfterFree'
  <2>1. CASE allocated' = allocated
    BY <1>1, <1>2, <2>1, ResourcesAssumption DEF RInv, NoUseAfterFree, TypeOK
  <2>2. CASE /\ call[t].op = "delete" /\ call[t].res = c
             /\ LockedBy(c) = {} /\ allocated' = allocated \ {c}
    <3>1. /\ LinksTo(c) = {}
          /\ \A u \in Threads \ {t} : call[u] # Idle => call[u].res # c
      BY <2>2 DEF RInv, DeletersApart
    <3> QED
      BY <1>1, <1>2, <2>2, <3>1, ResourcesAssumption
         DEF RInv, NoUseAfterFree, TypeOK, LinksTo, LockedBy
  <2> QED
    BY <2>1, <2>2
<1>6. LinksPlaced'
  <2>1. \A l \in Links :
           /\ home'[l] = Nowhere => target'[l] = NoResource
           /\ home'[l] # Nowhere /\ target'[l] = NoResource => home[l] # Nowhere
    BY <1>1, <1>2, ResourcesAssumption DEF RInv, LinksPlaced
  <2>2. \A u \in Threads : call[u].op \in {"copy", "lock"} => call'[u] = call[u]
    BY <1>1 DEF TypeOK
  <2>3. \A u \in Threads : call'[u].op \in {"copy", "lock"} =>
           u # t /\ call'[u] = call[u]
    BY <1>1 DEF TypeOK, Idle
  <2>4. \A u \in Threads, l \in Links : home[l] = u => home'[l] = u
    BY <1>2, ResourcesAssumption
  <2>5. \A u \in Threads : \A l \in doomed'[u] : home'[l] = u
    BY <1>1, <1>2, ResourcesAssumption DEF RInv, LinksPlaced, Elements, TypeOK
  <2>6. \A u \in Threads \ {t} : doomed'[u] = doomed[u]
    BY <1>1, <1>2 DEF TypeOK
  <2> QED
    BY <1>1, <2>1, <2>2, <2>3, <2>4, <2>5, <2>6, CallFields DEF RInv, LinksPlaced
<1>7. CallsReach'
  <2>1. ASSUME NEW u \in Threads, call'[u].op \in {"copy", "lock"}
        PROVE  /\ call'[u] = call[u]
               /\ Variables(u) \subseteq Variables(u)'
               /\ Elements(lock[u].res) \subseteq Elements(lock[u].res)'
    <3>1. u # t /\ call'[u] = call[u]
      BY <1>1, <2>1 DEF TypeOK, Idle
    <3>2. lock[u].res # c
      BY <1>1, <3>1
    <3> QED
      BY <1>1, <1>2, <3>1, <3>2, ResourcesAssumption DEF Variables, Elements, TypeOK
  <2> QED
    BY <2>1 DEF RInv, CallsReach, ReachesByVariable, ReachesByElement
<1>8. DeletersApart'
  <2>1. \A u \in Threads : call'[u] # Idle => u # t /\ call'[u] = call[u]
    BY <1>1 DEF TypeOK
  <2>2. \A u \in Threads : call'[u].op = "delete" => call'[u] # Idle
    BY DEF Idle
  <2> QED
    BY <2>1, <2>2 DEF RInv, DeletersApart, LinksTo
<1> QED
  BY <1>3, <1>4, <1>5, <1>6, <1>7, <1>8 DEF RInv

LEMMA GetLockInv ==
    ASSUME RInv, NEW t \in Threads, NEW r \in Resources, NEW type \in LockTypes,
           GetLock(t, r, type)
    PROVE  RInv'
<1> USE DEF GetLock
<1>1. /\ TypeOK /\ r \in allocated /\ call[t] = Idle /\ doomed[t] = {}
      /\ \A u \in Threads : call[u].op = "delete" => call[u].res # r
  BY ReachedIsAlive DEF RInv, Running
<1>2. TypeOK'
  BY <1>1 DEF TypeOK, Calls
<1>3. CountersExact' /\ LocksCompatible'
  BY DEF RInv, CountersExact, LocksCompatible, LinksTo
<1>4. NoUseAfterFree'
  BY <1>1 DEF RInv, NoUseAfterFree, TypeOK, Idle
<1>5. LinksPlaced'
  BY <1>1 DEF RInv, LinksPlaced, TypeOK, Idle
<1>6. CallsReach'
  BY <1>1 DEF RInv, CallsReach, ReachesByVariable, ReachesByElement, Variables, Elements, TypeOK
<1>7. DeletersApart'
  BY <1>1, CallFields DEF RInv, DeletersApart, LinksTo, TypeOK, Idle
<1> QED
  BY <1>2, <1>3, <1>4, <1>5, <1>6, <1>7 DEF RInv

LEMMA LockGrantedInv ==
    ASSUME RInv, NEW t \in Threads, LockGranted(t)
    PROVE  RInv'
<1> USE DEF LockGranted
<1>1. /\ TypeOK /\ call[t].res \in Resources /\ call[t].type \in LockTypes
      /\ call[t].res \in allocated
  BY CallFields DEF RInv, NoUseAfterFree, Idle
<1>2. TypeOK'
  BY <1>1 DEF TypeOK, Calls
<1>3. CountersExact'
  BY DEF RInv, CountersExact, LinksTo
<1>4. NoUseAfterFree'
  BY <1>1 DEF RInv, NoUseAfterFree, TypeOK, Idle
<1>5. LinksPlaced'
  BY <1>1 DEF RInv, LinksPlaced, TypeOK, Idle
<1>6. LocksCompatible'
  <2>1. \A u \in Threads \ {t} : lock'[u] = lock[u]
    BY <1>1 DEF TypeOK
  <2>2. lock'[t].res = call[t].res /\ lock'[t].type = call[t].type
    BY <1>1 DEF TypeOK
  <2>3. \A u \in Threads \ {t} : lock[u].res = call[t].res =>
           call[t].type = "shared_locked" /\ lock[u].type = "shared_locked"
    BY <1>1 DEF SharedFree, UniqueFree, LockedBy, LockTypes
  <2>4. ASSUME NEW u \in Threads, NEW v \in Threads, u # v, lock'[u] # Unlocked,
               lock'[v].res = lock'[u].res
        PROVE  lock'[u].type = "shared_locked"
    BY <2>1, <2>2, <2>3, <2>4 DEF RInv, LocksCompatible
  <2> QED
    BY <2>4 DEF LocksCompatible
<1>7. CallsReach'
  BY <1>1 DEF RInv, CallsReach, ReachesByVariable, ReachesByElement, Variables, Elements, TypeOK, Idle
<1>8. DeletersApart'
  BY <1>1 DEF RInv, DeletersApart, LinksTo, TypeOK, Idle
<1> QED
  BY <1>2, <1>3, <1>4, <1>5, <1>6, <1>7, <1>8 DEF RInv

LEMMA UnlockInv ==
    ASSUME RInv, NEW t \in Threads, Unlock(t)
    PROVE  RInv'
<1> USE DEF Unlock
<1>1. TypeOK /\ call[t] = Idle
  BY DEF RInv, Running
<1>2. TypeOK' /\ CountersExact' /\ LinksPlaced' /\ DeletersApart'
  BY <1>1 DEF RInv, TypeOK, CountersExact, LinksPlaced, DeletersApart, LinksTo
<1>3. NoUseAfterFree'
  BY <1>1 DEF RInv, NoUseAfterFree, TypeOK
<1>4. LocksCompatible'
  <2>1. \A u \in Threads : lock'[u] # Unlocked => u # t /\ lock'[u] = lock[u]
    BY <1>1 DEF TypeOK
  <2>2. lock'[t].res = NoResource
    BY <1>1 DEF TypeOK, Unlocked
  <2>3. \A u \in Threads : lock'[u] # Unlocked => lock'[u].res # NoResource
    BY <1>1, <2>1, CallFields
  <2>4. \A u \in Threads \ {t} : lock'[u] = lock[u]
    BY <1>1 DEF TypeOK
  <2> QED
    BY <2>1, <2>2, <2>3, <2>4 DEF RInv, LocksCompatible
<1>5. CallsReach'
  BY <1>1 DEF RInv, CallsReach, ReachesByVariable, ReachesByElement, Variables, Elements, TypeOK, Idle
<1> QED
  BY <1>2, <1>3, <1>4, <1>5 DEF RInv

LEMMA StepRInv == RInv /\ [Next]_vars => RInv'
<1> SUFFICES ASSUME RInv, [Next]_vars PROVE RInv'
  OBVIOUS
<1>1. ASSUME NEW t \in Threads, NEW l \in Links, NEW r \in Resources,
             Create(t, l, r) \/ CreateMap(t, l, r)
      PROVE  RInv'
  BY <1>1, NewInv DEF Create, CreateMap
<1>2. ASSUME NEW t \in Threads, NEW l \in Links, NEW r \in Resources, Copy(t, l, r)
      PROVE  RInv'
  BY <1>2, CopyInv
<1>3. ASSUME NEW t \in Threads, NEW l \in Links, NEW r \in Resources, Insert(t, l, r)
      PROVE  RInv'
  BY <1>3, MoveInv DEF Insert
<1>4. ASSUME NEW t \in Threads, NEW l \in Links, NEW u \in Threads \ {t}, HandOver(t, l, u)
      PROVE  RInv'
  BY <1>4, MoveInv DEF HandOver
<1>5. ASSUME NEW t \in Threads, NEW l \in Links, NEW r \in Resources, Erase(t, l, r)
      PROVE  RInv'
  <2>1. home[l] = r /\ Running(t) /\ Writes(t, home[l]) /\ Forget(t, l)
    BY <1>5 DEF Erase, Elements
  <2>2. doomed' = [doomed EXCEPT ![t] = @ \ {l}]
    BY <1>5 DEF Erase, Running, RInv, TypeOK
  <2> QED
    BY <1>5, <2>1, <2>2, ForgetInv DEF Erase, Running
<1>6. ASSUME NEW t \in Threads, NEW l \in Links, Drop(t, l)
      PROVE  RInv'
  <2>1. doomed' = [doomed EXCEPT ![t] = @ \ {l}]
    BY <1>6 DEF Drop, Running, RInv, TypeOK
  <2> QED
    BY <1>6, <2>1, ForgetInv DEF Drop, Running, Variables
<1>7. ASSUME NEW t \in Threads, NEW l \in Links, DropDoomed(t, l)
      PROVE  RInv'
  BY <1>7, ForgetInv DEF DropDoomed, RInv, LinksPlaced
<1>8. ASSUME NEW t \in Threads, NEW r \in Resources, NEW type \in LockTypes,
             GetLock(t, r, type)
      PROVE  RInv'
  BY <1>8, GetLockInv
<1>9. ASSUME NEW t \in Threads, NEW c \in Resources, Overwrite(t, c)
      PROVE  RInv'
  <2>1. call' = [call EXCEPT ![t] = Idle]
    BY <1>9 DEF Overwrite, Running, RInv, TypeOK
  <2> QED
    BY <1>9, <2>1, DestroyInv DEF Overwrite, Running
<1>10. ASSUME NEW t \in Threads, DeleteGranted(t)
       PROVE  RInv'
  BY <1>10, DestroyInv, CallFields DEF DeleteGranted, RInv
<1>11. CASE UNCHANGED vars
  BY <1>11
     DEF vars, RInv, TypeOK, CountersExact, LinksTo, NoUseAfterFree, LinksPlaced,
         LocksCompatible, CallsReach, ReachesByVariable, ReachesByElement,
         Variables, Elements, DeletersApart
<1> QED
  BY <1>1, <1>2, <1>3, <1>4, <1>5, <1>6, <1>7, <1>8, <1>9, <1>10, <1>11,
     CopyGrantedInv, LockGrantedInv, UnlockInv DEF Next, Granted

\* What keeps the counters right: each link is placed once, each lock that is
\* held has one compatible with it, each pending call reaches its resource.
THEOREM Invariance == Spec => []RInv
  BY InitRInv, StepRInv, PTL DEF Spec

\* Calls, locks and links keep to the values the code can give them.
THEOREM TypesKept == Spec => []TypeOK
  BY Invariance, PTL DEF RInv

\* Whatever threads and clients do, the counter of a resource is the number
\* of links to it.
THEOREM CountersKept == Spec => []CountersExact
  BY Invariance, PTL DEF RInv

\* No link, lock or pending call ever refers to a resource that is deleted,
\* not even in a client that lets a lock outlive its variable.
THEOREM NothingDangles == Spec => []NoUseAfterFree
  BY Invariance, PTL DEF RInv

-----------------------------------------------------------------------------
(* With discipline *)

\* A lock lies in the scope of a variable of its thread for the same resource.
LockCovered ==
    Disciplined =>
        \A t \in Threads : lock[t] # Unlocked => ReachesByVariable(t, lock[t].res)

\* A covered lock stays covered in a step that touches no link but l, if l
\* is not a variable of the thread or not the only one for its resource.
LEMMA CoverKept ==
    ASSUME RInv, NEW u \in Threads, NEW l \in Links, NEW h, NEW v,
           lock[u] # Unlocked, ReachesByVariable(u, lock[u].res),
           l \notin Variables(u) \/ LockStaysCovered(u, target[l], l),
           home' = [home EXCEPT ![l] = h],
           target' = [target EXCEPT ![l] = v],
           doomed'[u] \subseteq doomed[u], lock'[u] = lock[u]
    PROVE  ReachesByVariable(u, lock[u].res)'
<1>1. PICK k \in Variables(u) \ {l} : target[k] = lock[u].res
  BY DEF ReachesByVariable, LockStaysCovered
<1>2. home'[k] = home[k] /\ target'[k] = target[k]
  BY <1>1 DEF RInv, TypeOK, Variables
<1>3. k \in Variables(u)'
  BY <1>1, <1>2 DEF Variables
<1> QED
  BY <1>1, <1>2, <1>3 DEF ReachesByVariable

\* The elements of a container are not variables, so nothing that destroys it
\* uncovers a lock.
LEMMA CoverKeptByDestroy ==
    ASSUME RInv, NEW u \in Threads, NEW t \in Threads, NEW c \in Resources,
           ReachesByVariable(u, lock[u].res),
           Destroy(t, c), UNCHANGED <<target, lock>>
    PROVE  ReachesByVariable(u, lock[u].res)'
<1>1. PICK k \in Variables(u) : target[k] = lock[u].res
  BY DEF ReachesByVariable
<1>2. home[k] = u /\ k \notin Elements(c) /\ k \notin doomed[u] /\ k \in Links
  BY <1>1, ResourcesAssumption DEF Variables, Elements
<1>3. home'[k] = u /\ k \notin doomed'[u]
  BY <1>2 DEF Destroy, RInv, TypeOK
<1>4. k \in Variables(u)'
  BY <1>2, <1>3 DEF Variables
<1> QED
  BY <1>1, <1>4 DEF ReachesByVariable

\* LockCovered is inductive, given RInv.
LEMMA StepLockCovered == RInv /\ LockCovered /\ [Next]_vars => LockCovered'
<1> SUFFICES ASSUME RInv, LockCovered, [Next]_vars, Disciplined,
                    NEW u \in Threads, lock'[u] # Unlocked
             PROVE  ReachesByVariable(u, lock[u].res)'
  BY DEF LockCovered
<1>1. lock[u] # Unlocked => ReachesByVariable(u, lock[u].res)
  BY DEF LockCovered
<1>2. TypeOK
  BY DEF RInv
<1>3. ASSUME NEW t \in Threads, NEW l \in Links, NEW r \in Resources,
             Create(t, l, r) \/ CreateMap(t, l, r) \/ Copy(t, l, r)
      PROVE  ReachesByVariable(u, lock[u].res)'
  <2>1. l \notin Variables(u)
    BY <1>3, ResourcesAssumption DEF Create, CreateMap, New, Copy, Variables
  <2>2. target = [target EXCEPT ![l] = target[l]]
    BY <1>2 DEF TypeOK
  <2> QED
    BY <1>1, <1>3, <2>1, <2>2, CoverKept DEF Create, CreateMap, New, Copy
<1>4. ASSUME NEW t \in Threads, NEW l \in Links, NEW d \in Threads \cup Resources,
             HandOver(t, l, d) \/ Insert(t, l, d)
      PROVE  ReachesByVariable(u, lock[u].res)'
  <2>1. l \notin Variables(u) \/ LockStaysCovered(u, target[l], l)
    BY <1>4 DEF HandOver, Insert, Variables
  <2>2. target = [target EXCEPT ![l] = target[l]]
    BY <1>2 DEF TypeOK
  <2> QED
    BY <1>1, <1>4, <2>1, <2>2, CoverKept DEF HandOver, Insert
<1>5. ASSUME NEW t \in Threads, NEW l \in Links,
             Drop(t, l) \/ DropDoomed(t, l) \/ \E r \in Resources : Erase(t, l, r)
      PROVE  ReachesByVariable(u, lock[u].res)'
  <2>1. l \notin Variables(u) \/ LockStaysCovered(u, target[l], l)
    BY <1>5, ResourcesAssumption
       DEF Drop, DropDoomed, Erase, Variables, Elements, RInv, LinksPlaced
  <2>2. doomed'[u] \subseteq doomed[u]
    BY <1>2, <1>5 DEF Drop, DropDoomed, Erase, TypeOK
  <2>3. lock' = lock /\ Forget(t, l)
    BY <1>5 DEF Drop, DropDoomed, Erase
  <2> QED
    BY <1>1, <2>1, <2>2, <2>3, CoverKept DEF Forget
<1>6. ASSUME NEW t \in Threads, CopyGranted(t)
      PROVE  ReachesByVariable(u, lock[u].res)'
  <2>1. /\ call[t].link \in Links /\ home[call[t].link] = t
        /\ target[call[t].link] = NoResource
    BY <1>2, <1>6, CallFields DEF CopyGranted, RInv, LinksPlaced
  <2> PICK l \in Links : l = call[t].link
    BY <2>1
  <2>2. lock[u] # Unlocked /\ lock[u].res # NoResource
    BY <1>2, <1>6, CallFields DEF CopyGranted
  <2>3. LockStaysCovered(u, target[l], l)
    BY <2>1, <2>2 DEF LockStaysCovered
  <2>4. home = [home EXCEPT ![l] = home[l]]
    BY <1>2 DEF TypeOK
  <2> QED
    BY <1>1, <1>6, <2>2, <2>3, <2>4, CoverKept DEF CopyGranted
<1>7. ASSUME NEW t \in Threads, NEW c \in Resources,
             Overwrite(t, c) \/ (DeleteGranted(t) /\ call[t].res = c)
      PROVE  ReachesByVariable(u, lock[u].res)'
  BY <1>1, <1>7, CoverKeptByDestroy DEF Overwrite, DeleteGranted
<1>8. ASSUME NEW t \in Threads, NEW r \in Resources, NEW type \in LockTypes,
             GetLock(t, r, type)
      PROVE  ReachesByVariable(u, lock[u].res)'
  BY <1>1, <1>8 DEF GetLock, ReachesByVariable, Variables
<1>9. ASSUME NEW t \in Threads, LockGranted(t)
      PROVE  ReachesByVariable(u, lock[u].res)'
  <2>1. CASE u = t
    <3>1. lock'[u].res = call[t].res /\ ReachesByVariable(t, call[t].res)
      BY <1>2, <1>9, <2>1 DEF LockGranted, TypeOK, RInv, CallsReach
    <3> QED
      BY <1>9, <2>1, <3>1 DEF LockGranted, ReachesByVariable, Variables
  <2>2. CASE u # t
    <3>1. lock'[u] = lock[u]
      BY <1>2, <1>9, <2>2 DEF LockGranted, TypeOK
    <3> QED
      BY <1>1, <1>9, <3>1 DEF LockGranted, ReachesByVariable, Variables
  <2> QED
    BY <2>1, <2>2
<1>10. ASSUME NEW t \in Threads, Unlock(t)
       PROVE  ReachesByVariable(u, lock[u].res)'
  <2>1. lock'[u] = lock[u]
    BY <1>2, <1>10 DEF Unlock, TypeOK
  <2> QED
    BY <1>1, <1>10, <2>1 DEF Unlock, ReachesByVariable, Variables
<1>11. CASE UNCHANGED vars
  BY <1>1, <1>11 DEF vars, ReachesByVariable, Variables
<1>12. ASSUME NEW t \in Threads, DeleteGranted(t)
       PROVE  ReachesByVariable(u, lock[u].res)'
  BY <1>2, <1>7, <1>12, CallFields DEF DeleteGranted
<1> QED
  BY <1>3, <1>4, <1>5, <1>6, <1>7, <1>8, <1>9, <1>10, <1>11, <1>12 DEF Next, Granted

LEMMA InitLockCovered == Init => LockCovered
  BY DEF Init, LockCovered

\* A resource nobody has a link to is locked by nobody.
LEMMA DeleterAlone == RInv /\ LockCovered /\ Disciplined => DeleterIsAlone
<1> SUFFICES ASSUME RInv, LockCovered, Disciplined,
                    NEW t \in Threads, call[t].op = "delete"
             PROVE  LockedBy(call[t].res) = {}
  BY DEF DeleterIsAlone, RInv, DeletersApart
<1>1. call[t].res \in Resources /\ LinksTo(call[t].res) = {}
  BY CallFields DEF RInv, DeletersApart
<1>2. ASSUME NEW u \in Threads, lock[u].res = call[t].res
      PROVE  FALSE
  <2>1. lock[u] # Unlocked
    BY <1>1, <1>2, ResourcesAssumption DEF Unlocked
  <2> QED
    BY <1>1, <1>2, <2>1 DEF LockCovered, ReachesByVariable, Variables, LinksTo
<1> QED
  BY <1>2 DEF LockedBy

\* In clients with discipline the thread that takes a counter to 0 is the
\* only one that still knows the resource: its lock() never waits, and no
\* second thread deletes it.
THEOREM DeletersAreAlone == Disciplined => (Spec => []DeleterIsAlone)
<1>1. RInv /\ LockCovered /\ [Next]_vars => (RInv /\ LockCovered)'
  BY StepRInv, StepLockCovered
<1>2. Init => RInv /\ LockCovered
  BY InitRInv, InitLockCovered
<1>3. SUFFICES ASSUME Disciplined PROVE Spec => []DeleterIsAlone
  OBVIOUS
<1>4. RInv /\ LockCovered => DeleterIsAlone
  BY <1>3, DeleterAlone
<1> QED
  BY <1>1, <1>2, <1>4, PTL DEF Spec

-----------------------------------------------------------------------------
(* Nothing leaks *)

\* Who is allocated has a link, or a thread that is about to delete it.
Owned ==
    \A r \in allocated :
        \/ LinksTo(r) # {}
        \/ \E t \in Threads : call[t].op = "delete" /\ call[t].res = r

\* With discipline no containers contain each other: among any there is one
\* that is an element of none of them.
NoCycles ==
    Disciplined =>
        \A S \in SUBSET Resources :
            S # {} => \E r \in S : \A l \in Links : target[l] = r => home[l] \notin S

\* Only Insert adds an element to a container.
LEMMA NoNewElements ==
    ASSUME NoCycles,
           \A l \in Links : home'[l] \in Resources =>
                               home'[l] = home[l] /\ target'[l] = target[l]
    PROVE  NoCycles'
<1> SUFFICES ASSUME Disciplined, NEW S \in SUBSET Resources, S # {}
             PROVE  \E r \in S : \A l \in Links : target'[l] = r => home'[l] \notin S
  BY DEF NoCycles
<1>1. PICK r \in S : \A l \in Links : target[l] = r => home[l] \notin S
  BY DEF NoCycles
<1> QED
  BY <1>1

\* What is inserted into c does not contain c, so it closes no cycle: of the
\* containers in S, take one that what is inserted does not contain, if any.
LEMMA InsertNoCycles ==
    ASSUME RInv, NoCycles,
           NEW t \in Threads, NEW l \in Links, NEW c \in Resources, Insert(t, l, c)
    PROVE  NoCycles'
<1> SUFFICES ASSUME Disciplined, NEW S \in SUBSET Resources, S # {}
             PROVE  \E r \in S : \A k \in Links : target'[k] = r => home'[k] \notin S
  BY DEF NoCycles
<1>1. /\ target' = target /\ home' = [home EXCEPT ![l] = c]
      /\ home \in [Links -> Threads \cup Resources \cup {Nowhere}]
      /\ ~Contains(target[l], c)
  BY DEF Insert, RInv, TypeOK
<1>2. PICK D \in SUBSET (Resources \cup {NoResource}) :
           /\ target[l] \in D /\ c \notin D
           /\ \A k \in Links : home[k] \in D => target[k] \in D
  BY <1>1 DEF Contains
<1>3. home'[l] = c /\ \A k \in Links \ {l} : home'[k] = home[k]
  BY <1>1
<1>4. CASE S \subseteq D
  <2>1. PICK r \in S : \A k \in Links : target[k] = r => home[k] \notin S
    BY DEF NoCycles
  <2> QED
    BY <1>1, <1>2, <1>3, <1>4, <2>1
<1>5. CASE ~(S \subseteq D)
  <2>1. PICK r \in S \ D : \A k \in Links : target[k] = r => home[k] \notin S \ D
    BY <1>5 DEF NoCycles
  <2>2. \A k \in Links : target[k] = r => home[k] \notin S
    BY <1>2, <2>1
  <2> QED
    BY <1>1, <1>2, <1>3, <2>1, <2>2
<1> QED
  BY <1>4, <1>5

LEMMA StepNoCycles == RInv /\ NoCycles /\ [Next]_vars => NoCycles'
<1> SUFFICES ASSUME RInv, NoCycles, [Next]_vars PROVE NoCycles'
  OBVIOUS
<1>1. TypeOK
  BY DEF RInv
<1>2. ASSUME NEW t \in Threads, NEW l \in Links, NEW r \in Resources,
             \/ Create(t, l, r) \/ CreateMap(t, l, r) \/ Copy(t, l, r)
      PROVE  NoCycles'
  BY <1>1, <1>2, ResourcesAssumption, NoNewElements
     DEF Create, CreateMap, New, Copy, TypeOK
<1>3. ASSUME NEW t \in Threads, NEW l \in Links,
             Drop(t, l) \/ DropDoomed(t, l) \/ \E r \in Resources : Erase(t, l, r)
      PROVE  NoCycles'
  <2>1. Forget(t, l)
    BY <1>3 DEF Drop, DropDoomed, Erase
  <2> QED
    BY <1>1, <2>1, ResourcesAssumption, NoNewElements DEF Forget, TypeOK
<1>4. ASSUME NEW t \in Threads, NEW l \in Links, NEW u \in Threads, HandOver(t, l, u)
      PROVE  NoCycles'
  BY <1>1, <1>4, ResourcesAssumption, NoNewElements DEF HandOver, TypeOK
<1>5. ASSUME NEW t \in Threads, CopyGranted(t)
      PROVE  NoCycles'
  <2>1. call[t].link \in Links /\ home[call[t].link] = t
    BY <1>1, <1>5, CallFields DEF CopyGranted, RInv, LinksPlaced
  <2> QED
    BY <1>1, <1>5, <2>1, ResourcesAssumption, NoNewElements DEF CopyGranted, TypeOK
<1>6. ASSUME NEW t \in Threads, NEW c \in Resources, Destroy(t, c), target' = target
      PROVE  NoCycles'
  BY <1>1, <1>6, ResourcesAssumption, NoNewElements DEF Destroy, TypeOK
<1>7. ASSUME home' = home, target' = target
      PROVE  NoCycles'
  BY <1>7, NoNewElements
<1>8. ASSUME NEW t \in Threads, DeleteGranted(t)
      PROVE  NoCycles'
  BY <1>1, <1>6, <1>8, CallFields DEF DeleteGranted
<1>9. ASSUME NEW t \in Threads, LockGranted(t) \/ Unlock(t)
      PROVE  NoCycles'
  BY <1>7, <1>9 DEF LockGranted, Unlock
<1>10. ASSUME NEW t \in Threads, NEW r \in Resources, Overwrite(t, r)
       PROVE  NoCycles'
  BY <1>6, <1>10 DEF Overwrite
<1>11. ASSUME NEW t \in Threads, NEW r \in Resources, NEW type \in LockTypes,
              GetLock(t, r, type)
       PROVE  NoCycles'
  BY <1>7, <1>11 DEF GetLock
<1>12. CASE UNCHANGED vars
  BY <1>7, <1>12 DEF vars
<1> QED
  BY <1>2, <1>3, <1>4, <1>5, <1>8, <1>9, <1>10, <1>11, <1>12, InsertNoCycles
     DEF Next, Granted

\* The last link to a resource goes in Forget, whose thread deletes it.
LEMMA ForgetOwned ==
    ASSUME RInv, Owned, NEW t \in Threads, NEW l \in Links, Forget(t, l),
           call[t] = Idle, home[l] # Nowhere, allocated' = allocated
    PROVE  Owned'
<1>1. /\ TypeOK
      /\ target' = [target EXCEPT ![l] = NoResource]
      /\ call' = [call EXCEPT ![t] = IF link_counter[target[l]] = 1
                                     THEN [op |-> "delete", res |-> target[l]]
                                     ELSE Idle]
  BY DEF RInv, Forget
<1>2. ASSUME NEW r \in allocated, LinksTo(r) # {}, LinksTo(r)' = {}
      PROVE  call'[t].op = "delete" /\ call'[t].res = r
  <2>1. PICK k \in Links : target[k] = r /\ target'[k] # r
    BY <1>2 DEF LinksTo
  <2>2. k = l /\ r \in Resources /\ r = target[l]
    BY <1>1, <1>2, <2>1 DEF TypeOK
  <2>3. /\ Cardinality(LinksTo(r)') = Cardinality(LinksTo(r)) - 1
        /\ Cardinality(LinksTo(r)') = 0
        /\ Cardinality(LinksTo(r)) \in Nat
    BY <1>1, <1>2, <2>2, LinkCleared, LinksFinite, FS_EmptySet
  <2>4. link_counter[r] = 1
    BY <2>2, <2>3 DEF RInv, CountersExact
  <2> QED
    BY <1>1, <2>2, <2>4 DEF TypeOK
<1>3. ASSUME NEW r \in allocated
      PROVE  \/ LinksTo(r)' # {}
             \/ \E u \in Threads : call'[u].op = "delete" /\ call'[u].res = r
  <2>1. CASE LinksTo(r) # {}
    BY <1>2, <2>1
  <2>2. CASE \E u \in Threads : call[u].op = "delete" /\ call[u].res = r
    <3>1. PICK u \in Threads : call[u].op = "delete" /\ call[u].res = r
      BY <2>2
    <3>2. u # t
      BY <3>1 DEF Idle
    <3>3. call'[u] = call[u]
      BY <1>1, <3>2 DEF TypeOK
    <3> QED
      BY <3>1, <3>3
  <2> QED
    BY <2>1, <2>2 DEF Owned
<1> QED
  BY <1>3 DEF Owned

\* A step that clears no link and ends no deletion.
LEMMA OwnedKept ==
    ASSUME Owned, allocated' \subseteq allocated,
           \A l \in Links : target[l] # NoResource => target'[l] = target[l],
           NoResource \notin allocated,
           \A t \in Threads : call[t].op = "delete" =>
               call'[t] = call[t] \/ call[t].res \notin allocated'
    PROVE  Owned'
<1> SUFFICES ASSUME NEW r \in allocated'
             PROVE  \/ LinksTo(r)' # {}
                    \/ \E t \in Threads : call'[t].op = "delete" /\ call'[t].res = r
  BY DEF Owned
<1>1. CASE LinksTo(r) # {}
  BY <1>1 DEF LinksTo
<1>2. CASE \E t \in Threads : call[t].op = "delete" /\ call[t].res = r
  BY <1>2
<1> QED
  BY <1>1, <1>2 DEF Owned

LEMMA StepOwned == RInv /\ Owned /\ [Next]_vars => Owned'
<1> SUFFICES ASSUME RInv, Owned, [Next]_vars PROVE Owned'
  OBVIOUS
<1>1. TypeOK /\ NoResource \notin allocated
  BY ResourcesAssumption DEF RInv, TypeOK
<1>2. ASSUME NEW t \in Threads, NEW l \in Links, NEW r \in Resources,
             Create(t, l, r) \/ CreateMap(t, l, r)
      PROVE  Owned'
  <2>1. /\ target[l] = NoResource /\ target' = [target EXCEPT ![l] = r]
        /\ allocated' = allocated \cup {r} /\ call' = call
    BY <1>2 DEF Create, CreateMap, New, RInv, LinksPlaced
  <2>2. /\ target'[l] = r /\ l \in LinksTo(r)'
        /\ \A q \in allocated : LinksTo(q) \subseteq LinksTo(q)'
    BY <1>1, <2>1 DEF TypeOK, LinksTo
  <2> QED
    BY <2>1, <2>2 DEF Owned
<1>3. ASSUME NEW t \in Threads, NEW l \in Links, NEW r \in Resources,
             Copy(t, l, r) \/ Insert(t, l, r)
      PROVE  Owned'
  BY <1>1, <1>3, OwnedKept DEF Copy, Insert, Running, TypeOK, Idle
<1>4. ASSUME NEW t \in Threads, NEW l \in Links,
             Drop(t, l) \/ DropDoomed(t, l) \/ \E r \in Resources : Erase(t, l, r)
      PROVE  Owned'
  <2>1. /\ Forget(t, l) /\ call[t] = Idle /\ allocated' = allocated
    BY <1>4 DEF Drop, DropDoomed, Erase, Running
  <2>2. home[l] # Nowhere
    BY <1>4, ResourcesAssumption
       DEF Drop, DropDoomed, Erase, Variables, Elements, RInv, LinksPlaced
  <2> QED
    BY <2>1, <2>2, ForgetOwned
<1>5. ASSUME NEW t \in Threads, NEW l \in Links, NEW u \in Threads, HandOver(t, l, u)
      PROVE  Owned'
  BY <1>1, <1>5, OwnedKept DEF HandOver
<1>6. ASSUME NEW t \in Threads, NEW r \in Resources, Overwrite(t, r)
      PROVE  Owned'
  BY <1>1, <1>6, OwnedKept DEF Overwrite
<1>7. ASSUME NEW t \in Threads, NEW r \in Resources, NEW type \in LockTypes,
             GetLock(t, r, type)
      PROVE  Owned'
  BY <1>1, <1>7, OwnedKept DEF GetLock, Running, TypeOK, Idle
<1>8. ASSUME NEW t \in Threads, Unlock(t)
      PROVE  Owned'
  BY <1>1, <1>8, OwnedKept DEF Unlock
<1>9. ASSUME NEW t \in Threads, LockGranted(t)
      PROVE  Owned'
  BY <1>1, <1>9, OwnedKept DEF LockGranted, TypeOK
<1>10. ASSUME NEW t \in Threads, CopyGranted(t)
       PROVE  Owned'
  <2>1. call[t].link \in Links /\ target[call[t].link] = NoResource
    BY <1>1, <1>10, CallFields DEF CopyGranted, RInv, LinksPlaced
  <2> QED
    BY <1>1, <1>10, <2>1, OwnedKept DEF CopyGranted, TypeOK
<1>11. ASSUME NEW t \in Threads, DeleteGranted(t)
       PROVE  Owned'
  BY <1>1, <1>11, OwnedKept DEF DeleteGranted, TypeOK
<1>12. CASE UNCHANGED vars
  BY <1>1, <1>12, OwnedKept DEF vars
<1> QED
  BY <1>2, <1>3, <1>4, <1>5, <1>6, <1>7, <1>8, <1>9, <1>10, <1>11, <1>12
     DEF Next, Granted

\* Something contains what it is, and the elements of what it contains.
LEMMA ContainsElements ==
    /\ \A r : Contains(r, r)
    /\ \A r : \A l \in Links : Contains(r, home[l]) => Contains(r, target[l])
  BY DEF Contains

\* Of the resources that are lost, one is an element of no lost container.  Its
\* link is a variable, or an element of a container that is not lost; both ways
\* it is not lost itself.
LEMMA NothingLost == RInv /\ Owned /\ NoCycles /\ Disciplined => NothingLeaks
<1> SUFFICES ASSUME RInv, Owned, NoCycles, Disciplined PROVE NothingLeaks
  OBVIOUS
<1> DEFINE Kept(r) ==
        \/ \E t \in Threads : call[t].op = "delete" /\ Contains(call[t].res, r)
        \/ \E l \in Links : /\ home[l] \in Threads /\ target[l] # NoResource
                            /\ Contains(target[l], r)
           Lost == {r \in allocated : ~Kept(r)}
<1>1. SUFFICES ASSUME Lost # {} PROVE FALSE
  BY <1>1 DEF NothingLeaks
<1>2. Lost \subseteq Resources
  BY DEF RInv, TypeOK
<1>3. PICK r \in Lost : \A l \in Links : target[l] = r => home[l] \notin Lost
  BY <1>1, <1>2 DEF NoCycles
<1>4. r \in Resources /\ r \in allocated /\ ~Kept(r)
  BY <1>2
<1>5. CASE \E t \in Threads : call[t].op = "delete" /\ call[t].res = r
  BY <1>4, <1>5, ContainsElements
<1>6. CASE LinksTo(r) # {}
  <2>1. PICK l \in Links : target[l] = r
    BY <1>6 DEF LinksTo
  <2>2. home[l] # Nowhere /\ home[l] \in Threads \cup Resources
    BY <1>4, <2>1, ResourcesAssumption DEF RInv, LinksPlaced, TypeOK
  <2>3. CASE home[l] \in Threads
    BY <1>4, <2>1, <2>3, ContainsElements, ResourcesAssumption
  <2>4. CASE home[l] \in Resources
    <3>1. home[l] \in allocated /\ Kept(home[l])
      BY <1>3, <2>1, <2>4 DEF RInv, NoUseAfterFree
    <3>2. \A q : Contains(q, home[l]) => Contains(q, r)
      BY <2>1, ContainsElements
    <3> QED
      BY <1>4, <3>1, <3>2
  <2> QED
    BY <2>2, <2>3, <2>4
<1> QED
  BY <1>4, <1>5, <1>6 DEF Owned

LEMMA InitNothingLost == Init => Owned /\ NoCycles
<1>1. Init => Owned
  BY DEF Init, Owned
<1>2. Init => NoCycles
  BY ResourcesAssumption DEF Init, NoCycles
<1> QED
  BY <1>1, <1>2

\* In clients with discipline, what is not freed can be reached from a variable
\* of some thread, through containers, or is being taken apart.
THEOREM NothingLeaksEver == Disciplined => (Spec => []NothingLeaks)
<1>1. RInv /\ Owned /\ NoCycles /\ [Next]_vars => (RInv /\ Owned /\ NoCycles)'
  BY StepRInv, StepOwned, StepNoCycles
<1>2. Init => RInv /\ Owned /\ NoCycles
  BY InitRInv, InitNothingLost
<1>3. SUFFICES ASSUME Disciplined PROVE Spec => []NothingLeaks
  OBVIOUS
<1>4. RInv /\ Owned /\ NoCycles => NothingLeaks
  BY <1>3, NothingLost
<1> QED
  BY <1>1, <1>2, <1>4, PTL DEF Spec
=============================================================================
