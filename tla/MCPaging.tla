------------------------------ MODULE MCPaging ------------------------------
(* Instances of Paging for TLC. *)
EXTENDS Paging, TLC
Programs == Permutations(Processes \ {Shell})
=============================================================================
