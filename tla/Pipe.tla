-------------------------------- MODULE Pipe --------------------------------
(***************************************************************************)
(* kernel/pipe.c: a ring of bytes that any process may read and write, with *)
(* one queue for those who wait, whichever way.  A system call starts with *)
(* interrupts off; once it has slept they are on, and then the clock may   *)
(* preempt it between any two of the steps below.                          *)
(***************************************************************************)
EXTENDS Sched

CONSTANTS
  PIPE_SIZE,
  Bytes,
  Sleepers,   \* the name of p->queue
  MaxSize     \* bound: bytes asked for in one call

ASSUME PipeAssumption ==
  Queues = {Sleepers} /\ PIPE_SIZE \in Nat \ {0, 1} /\ MaxSize \in Nat /\ Bytes # {}

VARIABLES
  buffer, read_pos, write_pos, flushed,
  call,       \* the call each process is in
  last,       \* history: the byte read last
  unannounced, \* history: since the last wakeup of all, a nonblocking call has moved a
               \* byte, a call that has moved some has slept or been cut short, or a
               \* process has gone to sleep on an old test
  broken      \* history: see overrun and collision below

pipeVars == <<buffer, read_pos, write_pos, flushed>>
history == <<last, unannounced, broken>>
vars == <<schedVars, pipeVars, call, history>>

\* at: the next thing the call does; size, done: the bytes asked for and moved;
\* byte: the one on its way; irq: interrupts are on.
Call == [at : {"out", "test", "sleep", "advance"}, op : {"read", "write"},
         blocking : BOOLEAN, size : 0 .. MaxSize, done : 0 .. MaxSize,
         byte : Bytes, irq : BOOLEAN]

SomeByte == CHOOSE b \in Bytes : TRUE
NoCall == [at |-> "out", op |-> "read", blocking |-> FALSE, size |-> 0, done |-> 0,
           byte |-> SomeByte, irq |-> TRUE]

this == call[current]
At(l) == current # NoProc /\ this.at = l

\* The remainder of C takes the sign of the dividend.
Remainder(a, n) == IF a < 0 THEN -((-a) % n) ELSE a % n

Empty == read_pos = write_pos

\* Mutant: the end of the ring is not seen.
Full_unwrapped == write_pos + 1 = read_pos

Full == (write_pos + 1) % PIPE_SIZE = read_pos

\* Whether the loop of a call does not move another byte.
Blocked(r) ==
  CASE r.op = "read" -> Empty
    [] r.op = "write" /\ r.blocking -> Full
    [] r.op = "write" /\ ~r.blocking -> write_pos = Remainder(read_pos - 1, PIPE_SIZE)

pipe_call ==
  /\ At("out")
  /\ \E op \in {"read", "write"}, blocking \in BOOLEAN, n \in 1 .. MaxSize :
       call' = [call EXCEPT ![current] =
                 [at |-> "test", op |-> op, blocking |-> blocking, size |-> n, done |-> 0,
                  byte |-> SomeByte, irq |-> FALSE]]
  /\ UNCHANGED <<schedVars, pipeVars, history>>

Return == call' = [call EXCEPT ![current] = NoCall]

\* Mutant: the end of a call wakes the first of the sleepers only.
finish_one ==
  /\ At("test") /\ (this.done = this.size \/ (~this.blocking /\ Blocked(this)))
  /\ flushed' = FALSE
  /\ Return
  /\ IF this.blocking THEN WakeOne(Sleepers) /\ unannounced' = FALSE
                      ELSE UNCHANGED <<schedVars, unannounced>>
  /\ UNCHANGED <<buffer, read_pos, write_pos, last, broken>>

\* All is moved, or all that can be without blocking; then nobody is woken.
finish ==
  /\ At("test") /\ (this.done = this.size \/ (~this.blocking /\ Blocked(this)))
  /\ flushed' = FALSE
  /\ Return
  /\ IF this.blocking THEN WakeAll(Sleepers) /\ unannounced' = FALSE
                      ELSE UNCHANGED <<schedVars, unannounced>>
  /\ UNCHANGED <<buffer, read_pos, write_pos, last, broken>>

\* A blocked call of a flushed pipe returns what it has moved, and wakes nobody.
cut_short ==
  /\ At("test") /\ this.done < this.size /\ this.blocking /\ Blocked(this) /\ flushed
  /\ flushed' = FALSE
  /\ Return
  /\ unannounced' = (unannounced \/ this.done > 0)
  /\ UNCHANGED <<schedVars, buffer, read_pos, write_pos, last, broken>>

decide_to_sleep ==
  /\ At("test") /\ this.done < this.size /\ this.blocking /\ Blocked(this) /\ ~flushed
  /\ call' = [call EXCEPT ![current].at = "sleep"]
  /\ UNCHANGED <<schedVars, pipeVars, history>>

sleep ==
  /\ At("sleep")
  /\ Block(Sleepers)
  /\ call' = [call EXCEPT ![current].at = "test", ![current].irq = TRUE]
  /\ unannounced' = (unannounced \/ this.done > 0 \/ ~Blocked(this))
  /\ UNCHANGED <<pipeVars, last, broken>>

\* Another call has copied its byte and not yet moved the position.
Collision == \E p \in Procs \ {current} : call[p].at = "advance" /\ call[p].op = this.op

\* One byte is copied, to the ring or out of it.  A write into a full ring is an
\* overrun: only the test of the nonblocking loop lets it happen.
copy ==
  /\ At("test") /\ this.done < this.size /\ ~Blocked(this)
  /\ \E b \in Bytes :
       /\ IF this.op = "write" THEN buffer' = [buffer EXCEPT ![write_pos] = b]
                               ELSE b = buffer[read_pos] /\ UNCHANGED buffer
       /\ call' = [call EXCEPT ![current].at = "advance", ![current].byte = b]
  /\ broken' = (broken \/ Collision \/ (this.op = "write" /\ Full))
  /\ UNCHANGED <<schedVars, read_pos, write_pos, flushed, last, unannounced>>

\* Mutant: the position is not wrapped in time.
wrapped_late(i) == IF i = PIPE_SIZE THEN 0 ELSE i + 1

wrapped(i) == (i + 1) % PIPE_SIZE

\* ... and the position moves on.
advance ==
  /\ At("advance")
  /\ IF this.op = "write" THEN write_pos' = wrapped(write_pos) /\ UNCHANGED <<read_pos, last>>
     ELSE read_pos' = wrapped(read_pos) /\ last' = this.byte /\ UNCHANGED write_pos
  /\ call' = [call EXCEPT ![current].at = "test", ![current].done = @ + 1,
                          ![current].byte = SomeByte]
  /\ unannounced' = (unannounced \/ ~this.blocking)
  /\ UNCHANGED <<schedVars, buffer, flushed, broken>>

\* From kobject_close; it wakes nobody.
pipe_flush ==
  /\ At("out")
  /\ flushed' = TRUE
  /\ UNCHANGED <<schedVars, buffer, read_pos, write_pos, call, history>>

\* A process is preempted if its interrupts are on.
Others ==
  /\ Dispatch \/ (Yield /\ this.irq)
  /\ UNCHANGED <<pipeVars, call, history>>

Init ==
  /\ SchedInit
  /\ buffer = [i \in 0 .. PIPE_SIZE - 1 |-> SomeByte]
  /\ read_pos = 0 /\ write_pos = 0 /\ flushed = FALSE
  /\ call = [p \in Procs |-> NoCall]
  /\ last = SomeByte /\ unannounced = FALSE /\ broken = FALSE

Next ==
  \/ pipe_call \/ finish \/ cut_short \/ decide_to_sleep \/ sleep \/ copy \/ advance
  \/ pipe_flush \/ Others

Spec == Init /\ [][Next]_vars
-----------------------------------------------------------------------------
TypeOK ==
  /\ SchedType
  /\ buffer \in [0 .. PIPE_SIZE - 1 -> Bytes]
  /\ read_pos \in 0 .. PIPE_SIZE - 1 /\ write_pos \in 0 .. PIPE_SIZE - 1
  /\ flushed \in BOOLEAN /\ call \in [Procs -> Call]
  /\ last \in Bytes /\ unannounced \in BOOLEAN /\ broken \in BOOLEAN

\* The bytes between the positions.
Contents ==
  [i \in 1 .. (write_pos - read_pos) % PIPE_SIZE |-> buffer[(read_pos + i - 1) % PIPE_SIZE]]

\* Bytes are neither lost nor doubled nor put out of order, and no more than
\* PIPE_SIZE - 1 are held: until a nonblocking write overruns the ring, or two calls
\* of the same direction are interleaved inside one byte.
Queue == INSTANCE Fifo WITH contents <- Contents, Capacity <- PIPE_SIZE - 1
IsFifo == Queue!Spec

Asleep == Range(queue[Sleepers])

\* A blocking call that has moved bytes and will wake everybody when it ends.
Transferring(p) == call[p].blocking /\ call[p].done > 0 /\ p \notin Asleep

\* Nobody sleeps who could move a byte, unless a transfer is still running or the
\* change was never announced.
NoStrandedSleeper ==
  (\E p \in Asleep : ~Blocked(call[p])) => unannounced \/ \E p \in Procs : Transferring(p)
=============================================================================
