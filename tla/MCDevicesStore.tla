--------------------------- MODULE MCDevicesStore ---------------------------
(* Constants and mutants for the runs of DevicesStore.                     *)
EXTENDS DevicesStore, TLC

\* An entry without a structure, and one with a structure.
MCWeight == [s \in Structures \cup {NoStructure} |-> IF s = NoStructure THEN 1 ELSE 4]

Symmetry == Permutations(Ids) \cup Permutations(Configs)
=============================================================================
