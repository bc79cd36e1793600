-------------------------- MODULE MCTransactionLock --------------------------
(* TransactionLock on small sets of threads and mutexes. *)
EXTENDS TransactionLock, TLC

\* Mutexes are numbers, their addresses; threads and slots can be exchanged.
Symmetry == Permutations(Threads) \cup Permutations(Slots)
=============================================================================
