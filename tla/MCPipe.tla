------------------------------- MODULE MCPipe -------------------------------
(* An instance of Pipe for TLC. *)
EXTENDS Pipe, TLC

Symmetry == Permutations(Procs)

\* What follows an overrun or a collision is not explored.
UntilBroken == ~broken
=============================================================================
