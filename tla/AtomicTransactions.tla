------------------------- MODULE AtomicTransactions -------------------------
(***************************************************************************)
(* What Variable::makeTransaction promises: a transaction holds all of its *)
(* mutexes or none, and it never shares one with a transaction that holds  *)
(* it uniquely.  How it comes by them one after the other does not show.   *)
(***************************************************************************)
CONSTANTS Threads, Mutexes

VARIABLE held   \* held[t]: the mutexes of t's transaction, and how it has them

Nothing == [mtx_set |-> {}, lock_type |-> "unlocked"]

Transactions ==
    [mtx_set   : (SUBSET Mutexes) \ {{}},
     lock_type : {"shared_locked", "unique_locked"}]

Compatible(x, y) ==
    \/ x.mtx_set \cap y.mtx_set = {}
    \/ x.lock_type = "shared_locked" /\ y.lock_type = "shared_locked"

Init == held = [t \in Threads |-> Nothing]

Begin(t, x) ==
    /\ held[t] = Nothing
    /\ \A u \in Threads \ {t} : Compatible(x, held[u])
    /\ held' = [held EXCEPT ![t] = x]

End(t) ==
    /\ held[t] # Nothing
    /\ held' = [held EXCEPT ![t] = Nothing]

Next == \E t \in Threads : End(t) \/ \E x \in Transactions : Begin(t, x)

Spec == Init /\ [][Next]_held
=============================================================================
