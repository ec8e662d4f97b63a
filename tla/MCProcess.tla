----------------------------- MODULE MCProcess -----------------------------
(* Instances of Process for TLC. *)
EXTENDS Process, SequencesExt

Symmetry == Permutations(Procs)

\* Without counts survivors so that it can be proved about; it is SelectSeq.
ASSUME WithoutIsSelectSeq ==
  \A s \in BoundedSeq(1 .. 3, 4), K \in SUBSET (1 .. 3) :
    Without(s, K) = SelectSeq(s, LAMBDA e : e \notin K)
=============================================================================
