-------------------------- MODULE MCCommandBuffer --------------------------
(* Instances of CommandBuffer for TLC. *)
EXTENDS CommandBuffer, TLC

Symmetry ==
  Permutations(Commands) \cup Permutations(Pools) \cup Permutations(Semaphores)
=============================================================================
