------------------------------ MODULE MCServer ------------------------------
(* Instances of Server for TLC. *)
EXTENDS Server, TLC

\* Workers, connections and descriptors are interchangeable in the safety runs.
Symmetry == Permutations(Workers) \cup Permutations(Conns) \cup Permutations(Fds)
=============================================================================
