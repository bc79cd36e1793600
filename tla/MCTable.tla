------------------------------- MODULE MCTable -------------------------------
(* Instances of Table.  Maps are interchangeable, and so are tables. *)
EXTENDS Table

Symmetry == Permutations(Rows) \cup Permutations(Tables)
=============================================================================
