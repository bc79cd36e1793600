--------------------------- MODULE ReadersWriters ---------------------------
(***************************************************************************)
(* What a lock of BinOM promises, with nothing of how it is done: at every *)
(* moment a thread holds a mutex not at all, shared, or uniquely, and a    *)
(* unique holder is alone.  Changing from shared to unique (and back)      *)
(* passes through "unlocked": the promise does not include an atomic       *)
(* upgrade, and a client that upgrades may find what it read overwritten.  *)
(***************************************************************************)
CONSTANTS Threads, Mutexes

VARIABLE mode   \* mode[t][m]: how thread t holds mutex m

Modes == {"unlocked", "shared_locked", "unique_locked"}

TypeOK == mode \in [Threads -> [Mutexes -> Modes]]

Init == mode = [t \in Threads |-> [m \in Mutexes |-> "unlocked"]]

Others(t) == Threads \ {t}

AcquireShared(t, m) ==
    /\ mode[t][m] = "unlocked"
    /\ \A u \in Others(t) : mode[u][m] # "unique_locked"
    /\ mode' = [mode EXCEPT ![t][m] = "shared_locked"]

AcquireUnique(t, m) ==
    /\ mode[t][m] = "unlocked"
    /\ \A u \in Others(t) : mode[u][m] = "unlocked"
    /\ mode' = [mode EXCEPT ![t][m] = "unique_locked"]

Release(t, m) ==
    /\ mode[t][m] # "unlocked"
    /\ mode' = [mode EXCEPT ![t][m] = "unlocked"]

Next ==
    \E t \in Threads, m \in Mutexes :
        \/ AcquireShared(t, m)
        \/ AcquireUnique(t, m)
        \/ Release(t, m)

Spec == Init /\ [][Next]_mode
=============================================================================
