------------------------------- MODULE MCGame -------------------------------
(* Instances of Game for TLC. *)
EXTENDS Game
=============================================================================
