----------------------------- MODULE BlockStore -----------------------------
(***************************************************************************)
(* What callers of the block cache expect of a disk: a read answers what   *)
(* the last write to the block put there.  Once broken it promises nothing.*)
(***************************************************************************)
CONSTANTS Procs, Blocks, Data

VARIABLES content, answer, broken

vars == <<content, answer, broken>>

Init ==
  /\ \E d \in Data : content = [b \in Blocks |-> d]
  /\ \E d \in Data : answer = [p \in Procs |-> d]
  /\ broken = FALSE

\* p learns what block b holds.
Read(p, b) ==
  /\ answer' = [answer EXCEPT ![p] = content[b]]
  /\ UNCHANGED <<content, broken>>

Write(b, d) ==
  /\ content' = [content EXCEPT ![b] = d]
  /\ UNCHANGED <<answer, broken>>

Break == broken'

Next ==
  \/ \E p \in Procs, b \in Blocks : Read(p, b)
  \/ \E b \in Blocks, d \in Data : Write(b, d)
  \/ Break

Spec == Init /\ [][Next]_vars
=============================================================================
