------------------------------- MODULE KList -------------------------------
(***************************************************************************)
(* The lists of kernel/list.c as their users see them: the sequence of the *)
(* elements from head to tail.  list_push_tail is Append and list_pop_head *)
(* is Head and Tail; list_remove is below.                                 *)
(***************************************************************************)
EXTENDS Integers, Sequences, FiniteSetsExt, Functions

\* The elements of s outside K, in their order: what is left of a list after
\* list_remove of each of K.  The j-th survivor is found by counting, so that
\* the definition has no recursion in it.
Without(s, K) ==
  LET kept == {i \in DOMAIN s : s[i] \notin K}
  IN  [j \in 1 .. Cardinality(kept) |->
         s[CHOOSE i \in kept : Cardinality({k \in kept : k <= i}) = j]]
=============================================================================
