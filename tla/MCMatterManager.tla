-------------------------- MODULE MCMatterManager --------------------------
(* Symmetry for the runs of MatterManager.                                 *)
EXTENDS MatterManager, TLC

Symmetry == Permutations(Ids)
=============================================================================
