---------------------------- MODULE MCFacadeLocks ----------------------------
(* FacadeLocks for two threads on a table, one row and one column, or on two *)
(* variables of any other class.                                             *)
EXTENDS FacadeLocks
=============================================================================
