----------------------------- MODULE MCDelivery -----------------------------
(***************************************************************************)
(* Delivery on small instances: the workers are interchangeable, and the   *)
(* runs, and every bound is in the .cfg files.                             *)
(***************************************************************************)
EXTENDS Delivery, TLC

Symmetry == Permutations(Workers) \cup Permutations(Runs)
=============================================================================
