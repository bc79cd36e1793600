-------------------------- MODULE MCResourceControl --------------------------
(* ResourceControl on small sets of threads, resources and links. *)
EXTENDS ResourceControl, TLC

\* Threads, addresses and link objects can be exchanged.
Symmetry ==
    Permutations(Threads) \cup Permutations(Resources) \cup Permutations(Links)
=============================================================================
