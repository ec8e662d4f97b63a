------------------------------- MODULE Clock -------------------------------
(***************************************************************************)
(* kernel/clock.c with the part of kernel/interrupt.c and kernel/pic.c it  *)
(* depends on.  clock_interrupt may switch processes before                *)
(* interrupt_handler acknowledges the interrupt, and until then the        *)
(* controller delivers no other one: the process that is left inside the   *)
(* handler acknowledges it when it runs again.                             *)
(*                                                                         *)
(* Time is kept as the ticks since each process last read the clock, so    *)
(* that it needs no bound; Readings is what makes this the same as the     *)
(* difference of two readings.                                             *)
(***************************************************************************)
EXTENDS Sched

CONSTANTS
  CLICKS_PER_SECOND,
  Sleepers,   \* the name of queue, which clock_wait waits on
  MaxTicks    \* elapsed times are told apart up to this many ticks

ASSUME ClockAssumption ==
  /\ CLICKS_PER_SECOND \in Nat \ {0}
  /\ \E millis \in 1 .. 1000 : millis * CLICKS_PER_SECOND = 1000
  /\ MaxTicks \in Nat
  /\ Sleepers \in Queues

VARIABLES
  clicks,
  since,    \* ticks since clock_read gave the process its start, -1 if unused
  inside    \* the process switched away from inside clock_interrupt

clockVars == <<clicks, since, inside>>

\* clock_read, after so many ticks.
clock_read(ticks) ==
  [seconds |-> ticks \div CLICKS_PER_SECOND,
   millis  |-> (1000 * (ticks % CLICKS_PER_SECOND)) \div CLICKS_PER_SECOND]

clock_diff(start, stop) ==
  IF stop.millis < start.millis
  THEN [seconds |-> stop.seconds - 1 - start.seconds,
        millis  |-> stop.millis + 1000 - start.millis]
  ELSE [seconds |-> stop.seconds - start.seconds,
        millis  |-> stop.millis - start.millis]

\* What clock_wait and ata_wait make of a difference.
total(elapsed) == elapsed.millis + elapsed.seconds * 1000

\* The time since the process read its start, from readings at these phases.
Elapsed(p) ==
  LET start == (clicks - since[p]) % CLICKS_PER_SECOND
  IN total(clock_diff(clock_read(start), clock_read(start + since[p])))

Later ==
  [p \in Procs |-> IF since[p] \in 0 .. MaxTicks - 1 THEN since[p] + 1 ELSE since[p]]

\* Mutant: a second has one click too many.
interrupt_late ==
  LET woken  == ready \o queue[Sleepers]
      second == clicks + 1 > CLICKS_PER_SECOND
  IN /\ inside = NoProc
     /\ queue' = [queue EXCEPT ![Sleepers] = <<>>]
     /\ clicks' = IF second THEN 0 ELSE clicks + 1
     /\ since' = Later
     /\ IF second /\ current # NoProc /\ woken # <<>>
        THEN Run(Append(woken, current)) /\ inside' = current
        ELSE ready' = woken /\ UNCHANGED <<current, inside>>
     /\ UNCHANGED dead

\* clock_interrupt, and the acknowledgement if it has not switched away.
clock_interrupt ==
  LET woken  == ready \o queue[Sleepers]
      second == clicks + 1 >= CLICKS_PER_SECOND
  IN /\ inside = NoProc
     /\ queue' = [queue EXCEPT ![Sleepers] = <<>>]
     /\ clicks' = IF second THEN 0 ELSE clicks + 1
     /\ since' = Later
     /\ IF second /\ current # NoProc /\ woken # <<>>
        THEN Run(Append(woken, current)) /\ inside' = current
        ELSE ready' = woken /\ UNCHANGED <<current, inside>>
     /\ UNCHANGED dead

\* Mutant: what is left of the handler does not acknowledge.
acknowledge_lost ==
  /\ current # NoProc /\ inside = current
  /\ UNCHANGED <<schedVars, clicks, since, inside>>

\* interrupt_acknowledge by the process that was switched away from.
acknowledge ==
  /\ current # NoProc /\ inside = current
  /\ inside' = NoProc
  /\ UNCHANGED <<schedVars, clicks, since>>

\* The running process, back from any interrupt.
Runs(p) == current = p /\ inside # p

ClockInit == clicks = 0 /\ since = [p \in Procs |-> -1] /\ inside = NoProc

ClockType ==
  /\ clicks \in 0 .. CLICKS_PER_SECOND - 1
  /\ since \in [Procs -> -1 .. MaxTicks]
  /\ inside \in Procs \cup {NoProc}
=============================================================================
