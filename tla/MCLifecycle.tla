---------------------------- MODULE MCLifecycle ----------------------------
(***************************************************************************)
(* Model checking of Lifecycle: the PIDs are interchangeable.              *)
(***************************************************************************)
EXTENDS Lifecycle, TLC

Symmetry == Permutations(Pid)
=============================================================================
