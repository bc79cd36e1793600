----------------------- MODULE MCSharedRecursiveMutex -----------------------
(* SharedRecursiveMutex on small sets of threads, mutexes and lock objects. *)
EXTENDS SharedRecursiveMutex, TLC

\* Threads, mutexes and the slots of a thread are interchangeable.
Symmetry ==
    Permutations(Threads) \cup Permutations(Mutexes) \cup Permutations(Slots)
=============================================================================
