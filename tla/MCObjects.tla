------------------------------ MODULE MCObjects ------------------------------
(* An instance of Objects for TLC. *)
EXTENDS Objects, TLC

Symmetry == Permutations(Res) \cup Permutations(Procs \ {Shell})
=============================================================================
