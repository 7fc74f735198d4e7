---------------------------- MODULE MCHeapTimer ----------------------------
(* Instances of HeapTimer for TLC. *)
EXTENDS HeapTimer, TLC

Symmetry == Permutations(Ids)
=============================================================================
