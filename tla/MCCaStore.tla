----------------------------- MODULE MCCaStore -----------------------------
(***************************************************************************)
(* Model checking of CaStore: processes and key pairs are interchangeable. *)
(***************************************************************************)
EXTENDS CaStore, TLC

Symmetry == Permutations(Proc) \cup Permutations(Ca)
=============================================================================
