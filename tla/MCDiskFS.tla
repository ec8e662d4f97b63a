------------------------------ MODULE MCDiskFS ------------------------------
(* An instance of DiskFS for TLC. *)
EXTENDS DiskFS, TLC

Symmetry == Permutations(Procs) \cup Permutations(Dirents \ {Root}) \cup Permutations(Names)
=============================================================================
