---------------------------- MODULE MCBlockCache ----------------------------
(* An instance of BlockCache for TLC. *)
EXTENDS BlockCache, TLC

Symmetry == Permutations(Procs) \cup Permutations(Blocks) \cup Permutations(Entries)

\* Next stops at a race.  After a failed write-back only TypeOK, Bounded and
\* OnlyAllocated say anything; BlockCacheProofs proves them of that, too.
UntilRace == ~raced /\ ~lost
=============================================================================
