-------------------------- MODULE MCDeviceManager --------------------------
(* Symmetry for the runs of DeviceManager.                                 *)
EXTENDS DeviceManager, TLC

Symmetry == Permutations(Ids) \cup Permutations(Configs) \cup Permutations(Objs)
=============================================================================
