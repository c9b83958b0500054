------------------------------- MODULE MCVmm -------------------------------
(***************************************************************************)
(* Model-checking instance of Vmm: two address spaces.  A block lost by a   *)
(* remapping keeps its count, so a later fork meets the cap on counts.     *)
(***************************************************************************)
EXTENDS Vmm, TLC

Symmetry == Permutations(Spaces) \cup Permutations(Blocks)
=============================================================================
