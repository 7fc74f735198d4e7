-------------------------- MODULE MCLockFreeQueue --------------------------
(* Instances of LockFreeQueue for TLC. *)
EXTENDS LockFreeQueue, TLC

Symmetry == Permutations(Producers) \cup Permutations(Consumers)
=============================================================================
