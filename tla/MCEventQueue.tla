------------------------------- MODULE MCEventQueue -------------------------------
(* An instance of EventQueue for TLC. *)
EXTENDS EventQueue, TLC

Symmetry == Permutations(Procs)
=============================================================================
