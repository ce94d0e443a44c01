------------------------- MODULE MC_NuRaftReplication -------------------------
(* Model-checking instance of NuRaftReplication: three voters, servers as  *)
(* model values, symmetry over servers when there are no learners.         *)
EXTENDS NuRaftReplication

ServerSymmetry == Permutations(Server)
=============================================================================
