-------------------------------- MODULE Ata --------------------------------
(***************************************************************************)
(* kernel/ata.c, on one channel with two units: commands under ata_mutex,  *)
(* probes outside it, the polling of ata_wait with its time limit, and the *)
(* resets.  The calls come from user processes and from the kernel shell;  *)
(* a process in Hogs only computes.  The units are external: they answer   *)
(* late, never, or with an error.                                          *)
(*                                                                         *)
(* One action is one look at the status, the flag or the time and what     *)
(* follows from it; a preemption by the clock falls between actions.  So   *)
(* the transfer of one sector, and the writing of the registers of one     *)
(* command after its last wait, are not divided.                           *)
(***************************************************************************)
EXTENDS Clock

CONSTANTS
  Hogs,      \* the processes that compute and never call the kernel
  Probers,   \* those that open devices: the kernel shell
  Kind,      \* the units, each "disk" or "cdrom"
  First,     \* the unit a reset selects
  NBlocks,   \* the sectors of one call of device_read or device_write
  ATA_TIMEOUT, ATA_IDENTIFY_TIMEOUT,   \* in milliseconds
  Waiters,   \* the name of ata_mutex.waitqueue
  MaxKills   \* bound

ASSUME AtaAssumption ==
  /\ Hogs \subseteq Procs /\ Probers \subseteq Procs /\ First \in DOMAIN Kind /\ NBlocks \in Nat \ {0}
  /\ Queues = {Sleepers, Waiters}
  /\ MaxTicks * 1000 > ATA_TIMEOUT * CLICKS_PER_SECOND

Units == DOMAIN Kind

VARIABLES
  locked,                \* ata_mutex.locked
  identify_in_progress,
  pc,    \* where each process is in its call: the wait it polls in, a sleep
  job,   \* the call: what, of which unit, where ata_reset returns to, and
         \* whether ata_wait took the limit of a probe
  done,  \* the loop's i: the transfers made
  dev,   \* the channel: unit, reset bit, status, last command, sectors left
  mixed,     \* history: processes that moved a sector of another's command
  overlap    \* history: a probe and a command, or two probes, at a time

ataVars == <<locked, identify_in_progress, pc, job, done, dev, mixed, overlap>>
vars == <<schedVars, clockVars, ataVars>>

NoJob == [op |-> "none", unit |-> First, back |-> "failed", hurried |-> FALSE]
Transfers(op) == IF op = "packet" THEN NBlocks + 1   \* the packet, the sectors
                 ELSE IF op = "transfer" THEN NBlocks ELSE 1
Identify == {"identify_ata", "identify_atapi"}

Probing(p) == job[p].op \in Identify
InMutex(p) == pc[p] \notin {"user", "lock"} /\ ~Probing(p)

-----------------------------------------------------------------------------
(* The units. *)

Idle(u) == IF Kind[u] = "disk" THEN {"RDY"} ELSE {}

\* inb(ATA_STATUS): that of the selected unit.
Status == IF dev.reset THEN {"BSY"} ELSE dev.status

\* The unit has something to say: the next sector, the end, or an error.
Answer ==
  /\ "BSY" \in dev.status /\ ~dev.reset
  /\ \E s \in {IF dev.left > 0 THEN {"DRQ"} ELSE {}, {"ERR"}} :
       dev' = [dev EXCEPT !.status = s \cup Idle(dev.unit)]
  /\ UNCHANGED <<schedVars, clockVars, locked, identify_in_progress, pc, job, done,
                 mixed, overlap>>

\* A unit answers a command that is not its own with an error.
Takes(u, op) == op \in (IF Kind[u] = "disk" THEN {"transfer", "identify_ata"}
                                            ELSE {"packet", "identify_atapi"})

-----------------------------------------------------------------------------
(* The driver. *)

\* clock_wait, up to the switch: its start is the present.
Sleep(p) == Block(Sleepers) /\ since' = [since EXCEPT ![p] = 0]

\* ata_reset, up to its first sleep.
Reset(p) ==
  /\ dev' = [unit |-> First, reset |-> TRUE, status |-> Idle(First), by |-> NoProc, left |-> 0]
  /\ Sleep(p)
  /\ pc' = [pc EXCEPT ![p] = "reset"]

Continue(p, next) ==
  /\ pc' = [pc EXCEPT ![p] = next]
  /\ since' = [since EXCEPT ![p] = IF next \in {"success", "failed"} THEN -1 ELSE 0]
  /\ job' = [job EXCEPT ![p].hurried = identify_in_progress' /\ next \notin {"success", "failed"}]

\* The rest of the call, as far as the next wait: ata_wait reads the clock and
\* chooses its limit.
Goto(p, next) ==
  /\ UNCHANGED <<schedVars, identify_in_progress>>
  /\ Continue(p, next)

timeout_millis(p) == IF job[p].hurried THEN ATA_IDENTIFY_TIMEOUT ELSE ATA_TIMEOUT

\* Mutant: the loop of ata_wait does not look at the clock.
poll_untimed(p) ==
  /\ IF "ERR" \in Status THEN Reset(p) ELSE Yield /\ UNCHANGED <<since, pc, dev>>
  /\ UNCHANGED <<job, done, mixed, identify_in_progress>>

\* ata_wait, when the status is not the one it waits for.
poll(p) ==
  /\ IF "ERR" \in Status \/ Elapsed(p) > timeout_millis(p)
     THEN Reset(p)
     ELSE Yield /\ UNCHANGED <<since, pc, dev>>
  /\ UNCHANGED <<job, done, mixed, identify_in_progress>>

\* ata_begin and atapi_begin: BSY has to go, then the unit is selected.
Calm(p) ==
  IF "BSY" \notin Status
  THEN /\ dev' = IF dev.unit = job[p].unit THEN dev
                 ELSE [dev EXCEPT !.unit = job[p].unit, !.status = Idle(job[p].unit)]
       /\ Goto(p, "ready")
       /\ UNCHANGED <<done, mixed>>
  ELSE poll(p)

\* The packet commands do not ask for RDY.
Unready == {"packet", "identify_atapi"}

\* ... then the unit has to be ready; the arguments and the command go to it.
Ready(p) ==
  IF "BSY" \notin Status /\ (job[p].op \in Unready \/ "RDY" \in Status)
  THEN /\ dev' = [unit |-> job[p].unit, reset |-> FALSE,
                  status |-> IF Takes(job[p].unit, job[p].op) THEN {"BSY"}
                             ELSE {"ERR"} \cup Idle(job[p].unit),
                  by |-> p, left |-> Transfers(job[p].op)]
       /\ Goto(p, "data")
       /\ UNCHANGED <<done, mixed>>
  ELSE poll(p)

\* The loop of the transfers, with ata_pio_read or ata_pio_write; the reads
\* and writes of a disk end with one more wait.
Data(p) ==
  IF "DRQ" \in Status
  THEN /\ mixed' = IF dev.by = p /\ dev.left = Transfers(job[p].op) - done[p]
                   THEN mixed ELSE mixed \cup {p}
       /\ dev' = [dev EXCEPT !.left = @ - 1, !.status = {"BSY"}]
       /\ done' = [done EXCEPT ![p] = @ + 1]
       /\ Goto(p, IF done'[p] < Transfers(job[p].op) THEN "data"
                  ELSE IF job[p].op = "transfer" THEN "finish" ELSE "success")
  ELSE poll(p)

\* Only BSY is looked at: an error of the last sector passes for success.
Finish(p) ==
  IF "BSY" \notin Status
  THEN Goto(p, "success") /\ UNCHANGED <<dev, done, mixed>>
  ELSE poll(p)

\* ata_reset after its first clock_wait.
Release(p) ==
  /\ IF Elapsed(p) < 1 THEN UNCHANGED <<pc, dev>>
     ELSE /\ dev' = [dev EXCEPT !.reset = FALSE]
          /\ pc' = [pc EXCEPT ![p] = "settle"]
  /\ Sleep(p)
  /\ UNCHANGED <<job, done, mixed, identify_in_progress>>

\* ... and after the second: ata_wait has failed, or the probe goes on with
\* ata_identify.
Settle(p) ==
  /\ UNCHANGED <<dev, done, mixed>>
  /\ IF Elapsed(p) < 1
     THEN Sleep(p) /\ UNCHANGED <<pc, job, identify_in_progress>>
     ELSE /\ UNCHANGED schedVars
          /\ identify_in_progress' = (identify_in_progress \/ job[p].back = "calm")
          /\ pc' = [pc EXCEPT ![p] = job[p].back]
          /\ since' = [since EXCEPT ![p] = IF job[p].back = "calm" THEN 0 ELSE -1]
          /\ job' = [job EXCEPT ![p].back = "failed", ![p].hurried = job[p].back = "calm"]

Wait(p) ==
  /\ CASE pc[p] = "calm"   -> Calm(p)
       [] pc[p] = "ready"  -> Ready(p)
       [] pc[p] = "data"   -> Data(p)
       [] pc[p] = "finish" -> Finish(p)
       [] pc[p] = "reset"  -> Release(p)
       [] pc[p] = "settle" -> Settle(p)
  /\ UNCHANGED <<locked, overlap>>

\* Mutant: the calls do not look whether somebody has the mutex.
lock_untested(p) ==
  /\ locked' = TRUE
  /\ Goto(p, "calm")
  /\ overlap' = (overlap \/ \E q \in Procs \ dead : Probing(q))
  /\ UNCHANGED <<dev, done, mixed>>

\* mutex_lock, from the call or from the return of process_wait.
lock(p) ==
  /\ IF locked
     THEN Block(Waiters) /\ UNCHANGED <<locked, identify_in_progress, pc, since, job, overlap>>
     ELSE /\ locked' = TRUE
          /\ Goto(p, "calm")
          /\ overlap' = (overlap \/ \E q \in Procs \ dead : Probing(q))
  /\ UNCHANGED <<dev, done, mixed>>

\* ata_read and ata_write ("transfer") and atapi_read, up to mutex_lock.  device_open gives
\* out the driver its probe has found, so the call is one the unit takes.
Call(p) ==
  /\ \E u \in Units, op \in {"transfer", "packet"} :
       /\ Takes(u, op)
       /\ job' = [job EXCEPT ![p].op = op, ![p].unit = u]
  /\ pc' = [pc EXCEPT ![p] = "lock"]
  /\ UNCHANGED <<schedVars, since, locked, identify_in_progress, done, dev, mixed, overlap>>

\* ata_probe and atapi_probe, from device_open: no mutex.  (A channel with
\* nothing attached at all, which reads 0xff, is left out.)
Probe(p) ==
  /\ p \in Probers
  /\ \E u \in Units, op \in Identify :
       job' = [job EXCEPT ![p] = [op |-> op, unit |-> u, back |-> "calm", hurried |-> FALSE]]
  /\ Reset(p)
  /\ overlap' = (overlap \/ \E q \in Procs \ (dead \cup {p}) : InMutex(q) \/ Probing(q))
  /\ UNCHANGED <<locked, identify_in_progress, done, mixed>>

\* The end of ata_identify, or mutex_unlock.
Return(p) ==
  /\ IF Probing(p)
     THEN identify_in_progress' = FALSE /\ UNCHANGED <<schedVars, locked>>
     ELSE locked' = FALSE /\ WakeOne(Waiters) /\ UNCHANGED identify_in_progress
  /\ pc' = [pc EXCEPT ![p] = "user"]
  /\ job' = [job EXCEPT ![p] = NoJob]
  /\ done' = [done EXCEPT ![p] = 0]
  /\ mixed' = mixed \ {p}
  /\ UNCHANGED <<since, dev, overlap>>

Pause(p) == Yield /\ UNCHANGED <<since, ataVars>>

\* process_kill of somebody else, who stays where it was in its call.
kill(p, q) ==
  /\ Cardinality(dead) < MaxKills
  /\ Kill(q)
  /\ since' = [since EXCEPT ![q] = -1]
  /\ UNCHANGED <<locked, identify_in_progress, pc, job, done, dev, mixed, overlap>>

Pauses(p) ==
  /\ Runs(p) /\ p \notin Hogs /\ pc[p] = "user"
  /\ Pause(p) /\ UNCHANGED <<clicks, inside>>

Step(p) ==
  /\ Runs(p) /\ p \notin Hogs
  /\ \/ pc[p] = "user" /\ (Call(p) \/ Probe(p) \/ \E q \in Procs : kill(p, q))
     \/ pc[p] = "lock" /\ lock(p)
     \/ pc[p] \in {"calm", "ready", "data", "finish", "reset", "settle"} /\ Wait(p)
     \/ pc[p] \in {"success", "failed"} /\ Return(p)
  /\ UNCHANGED <<clicks, inside>>

Tick == clock_interrupt /\ UNCHANGED ataVars
Acknowledge == acknowledge /\ UNCHANGED ataVars
Idling == Dispatch /\ UNCHANGED <<clockVars, ataVars>>

Init ==
  /\ SchedInit /\ ClockInit
  /\ locked = FALSE /\ identify_in_progress = FALSE
  /\ pc = [p \in Procs |-> "user"]
  /\ job = [p \in Procs |-> NoJob]
  /\ done = [p \in Procs |-> 0]
  /\ dev = [unit |-> First, reset |-> FALSE, status |-> Idle(First), by |-> NoProc, left |-> 0]
  /\ mixed = {} /\ overlap = FALSE

Next == Answer \/ Tick \/ Acknowledge \/ Idling \/ \E p \in Procs : Step(p) \/ Pauses(p)

Spec == Init /\ [][Next]_vars

\* The clock ticks, interrupts return, the CPU does not idle with somebody
\* ready; and every process but the hogs gets on when it runs again and again,
\* and between its calls gives up the CPU in the end.  The units promise nothing.
Fairness ==
  /\ WF_vars(Tick) /\ WF_vars(Acknowledge) /\ WF_vars(Idling)
  /\ \A p \in Procs \ Hogs : SF_vars(pc[p] # "user" /\ Step(p)) /\ SF_vars(Pauses(p))

FairSpec == Spec /\ Fairness
-----------------------------------------------------------------------------
TypeOK ==
  /\ SchedType /\ ClockType
  /\ locked \in BOOLEAN /\ identify_in_progress \in BOOLEAN
  /\ pc \in [Procs -> {"user", "lock", "calm", "ready", "data", "finish", "reset",
                      "settle", "success", "failed"}]
  /\ job \in [Procs -> [op : {"none", "transfer", "packet"} \cup Identify,
                       unit : Units, back : {"failed", "calm"}, hurried : BOOLEAN]]
  /\ done \in [Procs -> 0 .. NBlocks + 1]
  /\ dev \in [unit : Units, reset : BOOLEAN, status : SUBSET {"BSY", "RDY", "DRQ", "ERR"},
              by : Procs \cup {NoProc}, left : 0 .. NBlocks + 1]
  /\ mixed \subseteq Procs
  /\ overlap \in BOOLEAN

\* A call that reports success has moved exactly its own sectors, in order: the
\* selection, the waits and the resets of the others have not come between, as
\* the mutex keeps them out.  A probe, which does not take it, may.
OwnData ==
  \A p \in Procs : pc[p] = "success" /\ ~overlap =>
    p \notin mixed /\ done[p] = Transfers(job[p].op)

\* The controller will deliver no interrupt again: the process that has to
\* acknowledge the last one is dead, or waits behind one that does not yield and
\* that no interrupt can preempt.
Stopped == inside # NoProc /\ (inside \in dead \/ (current \in Hogs /\ inside # current))

\* Otherwise time goes on, although the interrupt stays unacknowledged while
\* others run, and these may all be polling for a time to pass.
TimeGoesOn == ([]<>(clicks = 0) /\ []<>(clicks # 0)) \/ <>Stopped

\* And then every call that has got the mutex gives it up, whatever the units
\* do: by its data, by an error, or by the time limit and the two sleeps of the
\* reset.  This holds with a probe in between too.
HolderFinishes ==
  \A p \in Procs : InMutex(p) ~> ~InMutex(p) \/ p \in dead \/ Stopped
=============================================================================
