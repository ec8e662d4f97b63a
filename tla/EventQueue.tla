----------------------------- MODULE EventQueue -----------------------------
(***************************************************************************)
(* kernel/event_queue.c: a ring of events that interrupt handlers fill and  *)
(* any process with the window or console empties.  event_queue_read_raw   *)
(* blocks interrupts once, at its start; when it has slept they are on.    *)
(***************************************************************************)
EXTENDS Sched

CONSTANTS
  EVENT_BUFFER_SIZE,
  Events,
  Readers,    \* the name of q->process_queue
  MaxSize     \* bound: events asked for in one call

ASSUME EventQueueAssumption ==
  /\ Readers \in Queues /\ EVENT_BUFFER_SIZE \in Nat \ {0, 1}
  /\ MaxSize \in Nat /\ Events # {}

VARIABLES
  buffer, head, tail,
  call,      \* the read each process is in
  last,      \* history: the event read last
  lapsed,    \* history: a reader has gone to sleep on an old test
  broken     \* history: two readers have met inside one event

queueVars == <<buffer, head, tail>>
eventVars == <<schedVars, queueVars, call, last, lapsed, broken>>

\* at: the next thing the read does; size, total: the events asked for and read;
\* event: the one copied; irq: interrupts are on.
ReadCall == [at : {"out", "test", "sleep", "advance"}, blocking : BOOLEAN,
         size : 0 .. MaxSize, total : 0 .. MaxSize, event : Events, irq : BOOLEAN]

SomeEvent == CHOOSE e \in Events : TRUE
NoCall == [at |-> "out", blocking |-> FALSE, size |-> 0, total |-> 0,
           event |-> SomeEvent, irq |-> TRUE]

c == call[current]
At(l) == current # NoProc /\ c.at = l
Empty == head = tail

\* Mutant: the last slot is used too, and the full ring looks empty.
Full_not == FALSE

Full == (head + 1) % EVENT_BUFFER_SIZE = tail

\* Mutant: no one is woken.
Store_silent(e) ==
  /\ buffer' = [buffer EXCEPT ![head] = e]
  /\ head' = (head + 1) % EVENT_BUFFER_SIZE
  /\ UNCHANGED schedVars

Store(e) ==
  /\ buffer' = [buffer EXCEPT ![head] = e]
  /\ head' = (head + 1) % EVENT_BUFFER_SIZE
  /\ WakeOne(Readers)

InterruptsOn == IF current = NoProc THEN TRUE ELSE c.irq

\* event_queue_post, from an interrupt, or from a process that posts to a console.
\* An event that finds the ring full is dropped.
event_queue_post ==
  /\ InterruptsOn
  /\ IF Full THEN UNCHANGED <<schedVars, buffer, head>>
     ELSE \E e \in Events : Store(e)
  /\ UNCHANGED <<tail, call, last, lapsed, broken>>

read_call ==
  /\ At("out")
  /\ \E blocking \in BOOLEAN, n \in 1 .. MaxSize :
       call' = [call EXCEPT ![current] =
                 [at |-> "test", blocking |-> blocking, size |-> n, total |-> 0,
                  event |-> SomeEvent, irq |-> FALSE]]
  /\ UNCHANGED <<schedVars, queueVars, last, lapsed, broken>>

read_return ==
  /\ At("test")
  /\ \/ c.total = c.size
     \/ Empty /\ (~c.blocking \/ c.total > 0)
  /\ call' = [call EXCEPT ![current] = NoCall]
  /\ UNCHANGED <<schedVars, queueVars, last, lapsed, broken>>

decide_to_sleep ==
  /\ At("test") /\ c.total = 0 /\ Empty /\ c.blocking
  /\ call' = [call EXCEPT ![current].at = "sleep"]
  /\ UNCHANGED <<schedVars, queueVars, last, lapsed, broken>>

sleep ==
  /\ At("sleep")
  /\ Block(Readers)
  /\ call' = [call EXCEPT ![current].at = "test", ![current].irq = TRUE]
  /\ lapsed' = (lapsed \/ ~Empty)
  /\ UNCHANGED <<queueVars, last, broken>>

copy ==
  /\ At("test") /\ c.total < c.size /\ ~Empty
  /\ call' = [call EXCEPT ![current].at = "advance", ![current].event = buffer[tail]]
  /\ broken' = (broken \/ \E p \in Procs \ {current} : call[p].at = "advance")
  /\ UNCHANGED <<schedVars, queueVars, last, lapsed>>

\* Mutant: the position is not wrapped in time.
wrapped_late(i) == IF i = EVENT_BUFFER_SIZE THEN 0 ELSE i + 1

wrapped(i) == (i + 1) % EVENT_BUFFER_SIZE

advance ==
  /\ At("advance")
  /\ tail' = wrapped(tail)
  /\ last' = c.event
  /\ call' = [call EXCEPT ![current].at = "test", ![current].total = @ + 1,
                          ![current].event = SomeEvent]
  /\ UNCHANGED <<schedVars, buffer, head, lapsed, broken>>

Others ==
  /\ Dispatch \/ (Yield /\ c.irq)
  /\ UNCHANGED <<queueVars, call, last, lapsed, broken>>

EventInit ==
  /\ SchedInit
  /\ buffer = [i \in 0 .. EVENT_BUFFER_SIZE - 1 |-> SomeEvent]
  /\ head = 0 /\ tail = 0
  /\ call = [p \in Procs |-> NoCall]
  /\ last = SomeEvent /\ lapsed = FALSE /\ broken = FALSE

EventNext ==
  \/ event_queue_post \/ read_call \/ read_return \/ decide_to_sleep \/ sleep
  \/ copy \/ advance \/ Others

EventSpec == EventInit /\ [][EventNext]_eventVars
-----------------------------------------------------------------------------
EventTypeOK ==
  /\ SchedType
  /\ buffer \in [0 .. EVENT_BUFFER_SIZE - 1 -> Events]
  /\ head \in 0 .. EVENT_BUFFER_SIZE - 1 /\ tail \in 0 .. EVENT_BUFFER_SIZE - 1
  /\ call \in [Procs -> ReadCall]
  /\ last \in Events /\ lapsed \in BOOLEAN /\ broken \in BOOLEAN

Contents ==
  [i \in 1 .. (head - tail) % EVENT_BUFFER_SIZE |-> buffer[(tail + i - 1) % EVENT_BUFFER_SIZE]]

\* Events come out once, in the order of the interrupts, or are dropped whole when
\* the ring is full: until two readers are interleaved inside one event.
Ring == INSTANCE Fifo WITH contents <- Contents, Bytes <- Events,
                           Capacity <- EVENT_BUFFER_SIZE - 1
IsFifo == Ring!Spec

Asleep == Range(queue[Readers])

\* Awake inside a read and without an event so far.
Hungry == {p \in Procs \ Asleep : call[p].at # "out" /\ call[p].total = 0}

\* No keystroke waits for the next one: while a reader sleeps, every event in the
\* ring has a reader that is awake to take it; unless somebody slept on an old test,
\* or two readers have met and moved the tail past the head.
NoEventWaits ==
  Asleep # {} => lapsed \/ broken \/ Len(Contents) <= Cardinality(Hungry)
=============================================================================
