------------------------------- MODULE Mutex -------------------------------
(***************************************************************************)
(* kernel/mutex.c, used by the disk driver (kernel/ata.c): a flag and a    *)
(* queue of waiters on a single CPU.  Interrupts are off inside both calls *)
(* except while process_wait has switched away, so a call is one step up   *)
(* to the switch, and one more each time the waiter runs again.            *)
(***************************************************************************)
EXTENDS Sched

CONSTANT Waiters   \* the name of m->waitqueue
ASSUME MutexAssumption == Waiters \in Queues

VARIABLES
  locked,   \* m->locked
  pc,       \* "out"; "try": inside the loop of mutex_lock; "in": holds m
  orphaned  \* history: a kill took the holder, or a waiter just woken

mutexVars == <<current, ready, queue, dead, locked, pc, orphaned>>

\* Mutant: the waiter does not test the flag again when it wakes.
lock_without_loop ==
  /\ current # NoProc /\ pc[current] \in {"out", "try"}
  /\ IF locked /\ pc[current] = "out"
     THEN /\ Block(Waiters)
          /\ pc' = [pc EXCEPT ![current] = "try"]
          /\ UNCHANGED <<locked, orphaned>>
     ELSE /\ locked' = TRUE
          /\ pc' = [pc EXCEPT ![current] = "in"]
          /\ UNCHANGED <<schedVars, orphaned>>

\* mutex_lock, from the call or from the return of process_wait.
mutex_lock ==
  /\ current # NoProc /\ pc[current] \in {"out", "try"}
  /\ IF locked
     THEN /\ Block(Waiters)
          /\ pc' = [pc EXCEPT ![current] = "try"]
          /\ UNCHANGED <<locked, orphaned>>
     ELSE /\ locked' = TRUE
          /\ pc' = [pc EXCEPT ![current] = "in"]
          /\ UNCHANGED <<schedVars, orphaned>>

\* Mutant: nobody is woken.
unlock_silent ==
  /\ current # NoProc /\ pc[current] = "in"
  /\ locked' = FALSE
  /\ pc' = [pc EXCEPT ![current] = "out"]
  /\ UNCHANGED <<schedVars, orphaned>>

mutex_unlock ==
  /\ current # NoProc /\ pc[current] = "in"
  /\ locked' = FALSE
  /\ WakeOne(Waiters)
  /\ pc' = [pc EXCEPT ![current] = "out"]
  /\ UNCHANGED orphaned

MutexOthers == (Dispatch \/ Yield) /\ UNCHANGED <<locked, pc, orphaned>>

Woken(p) == pc[p] = "try" /\ (p = current \/ p \in Range(ready))

\* Nothing in process_kill looks at what its victim was doing.
kill(p) ==
  /\ Kill(p)
  /\ orphaned' = (orphaned \/ pc[p] = "in" \/ Woken(p))
  /\ UNCHANGED <<locked, pc>>

MutexInit ==
  /\ SchedInit
  /\ locked = FALSE
  /\ pc = [p \in Procs |-> "out"]
  /\ orphaned = FALSE

MutexNext == mutex_lock \/ mutex_unlock \/ MutexOthers \/ \E p \in Procs : kill(p)

MutexSpec == MutexInit /\ [][MutexNext]_mutexVars

\* A holder or waiter that gets to run again and again gets on with its call;
\* the CPU does not idle with somebody ready; and every process gives up the CPU
\* in the end, as the loop of ata_wait does.
Fairness ==
  /\ \A p \in Procs : SF_mutexVars(current = p /\ pc[p] # "out" /\ (mutex_lock \/ mutex_unlock))
  /\ WF_mutexVars(Dispatch /\ MutexOthers)
  /\ SF_mutexVars(Yield /\ MutexOthers)

FairSpec == MutexSpec /\ Fairness
-----------------------------------------------------------------------------
MutexTypeOK ==
  /\ SchedType
  /\ locked \in BOOLEAN
  /\ pc \in [Procs -> {"out", "try", "in"}]
  /\ orphaned \in BOOLEAN

\* Two processes are never between mutex_lock and mutex_unlock, although the
\* waiter that is woken competes with any process that comes to lock first.  A
\* killed holder never unlocks, and nobody else gets the mutex either.
MutualExclusion ==
  \A p, q \in Procs : pc[p] = "in" /\ pc[q] = "in" => p = q

\* No lost wakeup: while the mutex is free and somebody waits for it, a woken
\* process is on its way to take it, so that there will be another unlock.
NoStrandedWaiter ==
  ~locked /\ ~orphaned /\ queue[Waiters] # <<>> => \E p \in Procs : Woken(p)

\* The mutex is a lock, that nobody but its live holder gives up and nobody dead takes.
holders == {p \in Procs : pc[p] = "in"}
Abstract == INSTANCE Locking WITH killed <- dead
IsLock == Abstract!Spec

\* A waiter is woken in the end, unless a kill has orphaned the mutex.
\* (It may then find the mutex taken again: that it gets it is not promised.)
WaiterIsWoken ==
  \A p \in Procs :
    p \in Range(queue[Waiters]) ~> p \notin Range(queue[Waiters]) \/ orphaned
=============================================================================
