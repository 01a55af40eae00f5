----------------------------- MODULE MCJobLease -----------------------------
(***************************************************************************)
(* JobLease on small instances: the workers are interchangeable, and every *)
(* bound is in the .cfg files.                                             *)
(***************************************************************************)
EXTENDS JobLease, TLC

Symmetry == Permutations(Workers)
=============================================================================
