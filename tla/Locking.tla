------------------------------ MODULE Locking ------------------------------
\* What mutex_lock and mutex_unlock promise, in a kernel whose process_kill does
\* not look at what its victim was doing: nobody or one process is between the two
\* calls, it alone ends that, and a death there is for good.
CONSTANT Procs

VARIABLES
  holders,  \* who has returned from mutex_lock and not called mutex_unlock
  killed    \* who has been killed, a holder or not

\* mutex_lock returns to p.
Enter(p) ==
  /\ p \notin killed /\ holders = {}
  /\ holders' = {p}
  /\ UNCHANGED killed

\* p calls mutex_unlock.
Leave(p) ==
  /\ p \in holders \ killed
  /\ holders' = holders \ {p}
  /\ UNCHANGED killed

\* A dead holder stays one.
Die(p) ==
  /\ killed' = killed \cup {p}
  /\ UNCHANGED holders

Unused == holders = {} /\ killed = {}

Locks == [][\E p \in Procs : Enter(p) \/ Leave(p) \/ Die(p)]_<<holders, killed>>

Spec == Unused /\ Locks
=============================================================================
