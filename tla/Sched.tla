------------------------------- MODULE Sched -------------------------------
(***************************************************************************)
(* The scheduler of Process, reduced to what the parts that block a        *)
(* process see of it: who runs, who is ready, and who waits on which       *)
(* queue.  Each operator is the effect of one call of process.c on the     *)
(* lists; Process itself has the states, the pids and the deaths.          *)
(***************************************************************************)
EXTENDS KList

CONSTANTS
  Procs,    \* the processes of the instance
  NoProc,   \* the null pointer: the CPU idles
  Queues    \* the wait queues of the part

ASSUME SchedAssumption == IsFiniteSet(Procs) /\ NoProc \notin Procs

VARIABLES
  current,  \* the running process
  ready,    \* ready_list
  queue,    \* the wait queues
  dead      \* the processes that have been killed

schedVars == <<current, ready, queue, dead>>

\* process_switch once it has filed the old process away.
Run(r) ==
  IF r = <<>> THEN current' = NoProc /\ ready' = r
              ELSE current' = Head(r) /\ ready' = Tail(r)

\* The idle loop of process_switch.
Dispatch ==
  /\ current = NoProc /\ ready # <<>>
  /\ Run(ready)
  /\ UNCHANGED <<queue, dead>>

\* process_yield, and process_preempt from the clock interrupt.
Yield ==
  /\ current # NoProc
  /\ Run(Append(ready, current))
  /\ UNCHANGED <<queue, dead>>

\* process_wait.
Block(q) ==
  /\ current # NoProc
  /\ queue' = [queue EXCEPT ![q] = Append(@, current)]
  /\ Run(ready)
  /\ UNCHANGED dead

\* Mutant: the head is pushed on the ready list even if there is none.
WakeOne_null(q) ==
  /\ queue' = [queue EXCEPT ![q] = IF @ = <<>> THEN @ ELSE Tail(@)]
  /\ ready' = Append(ready, IF queue[q] = <<>> THEN NoProc ELSE Head(queue[q]))
  /\ UNCHANGED <<current, dead>>

\* process_wakeup; nothing happens if nobody waits.
WakeOne(q) ==
  /\ IF queue[q] = <<>> THEN UNCHANGED <<queue, ready>>
     ELSE /\ queue' = [queue EXCEPT ![q] = Tail(@)]
          /\ ready' = Append(ready, Head(queue[q]))
  /\ UNCHANGED <<current, dead>>

\* process_wakeup_all.
WakeAll(q) ==
  /\ queue' = [queue EXCEPT ![q] = <<>>]
  /\ ready' = ready \o queue[q]
  /\ UNCHANGED <<current, dead>>

Waiting(p) == \E q \in Queues : p \in Range(queue[q])

\* process_make_dead of a process that does not run: off whatever list it is
\* on, and never back.  (A process ends itself only outside these parts.)
Kill(p) ==
  /\ p # current /\ p \notin dead
  /\ ready' = Without(ready, {p})
  /\ queue' = [q \in Queues |-> Without(queue[q], {p})]
  /\ dead' = dead \cup {p}
  /\ UNCHANGED current

\* Every process is about to run, in any order.
SchedInit ==
  /\ current = NoProc
  /\ ready \in {s \in [1 .. Cardinality(Procs) -> Procs] : IsInjective(s)}
  /\ queue = [q \in Queues |-> <<>>]
  /\ dead = {}

SchedType ==
  /\ current \in Procs \cup {NoProc}
  /\ ready \in Seq(Procs)
  /\ queue \in [Queues -> Seq(Procs)]
  /\ dead \in SUBSET Procs
=============================================================================
