----------------------------- MODULE DeviceProofs -----------------------------
(***************************************************************************)
(* Theorems about the two queues of devices, for any number of processes.  *)
(* EventQueue, for any ring and any requests: types, that no event waits   *)
(* beside a sleeper, and that the ring implements Fifo.  Ata, for any      *)
(* units and numbers of sectors, and for any rate of the clock it measures *)
(* its time limits with: types, own data, and one holder.                  *)
(***************************************************************************)
EXTENDS EventQueue, Ata, SchedProofs, TLAPS
-----------------------------------------------------------------------------
(* The event queue.                                                        *)

held == Distance(tail, head, EVENT_BUFFER_SIZE)

\* Where the calls are: only a reader with nothing goes to sleep, and one that
\* has copied an event still has room for it.
InCall ==
  /\ \A p \in Asleep : call[p].at = "test" /\ call[p].total = 0
  /\ \A p \in Procs : /\ call[p].at = "sleep" => call[p].total = 0
                      /\ call[p].at = "advance" => call[p].total < call[p].size
                      /\ call[p].at # "out" => call[p].size > 0

\* Until two meet, the one reader inside an event has the oldest one.
OneReader ==
  ~broken => \A p \in Procs : call[p].at = "advance" =>
    ~Empty /\ call[p].event = buffer[tail] /\ \A q \in Procs : call[q].at = "advance" => q = p

EInv == EventTypeOK /\ SchedInv /\ InCall /\ OneReader /\ NoEventWaits

LEMMA ReadersQueue == Readers \in Queues
BY EventQueueAssumption

LEMMA SomeEventIs == SomeEvent \in Events
BY EventQueueAssumption DEF SomeEvent

LEMMA NoCallIs ==
  /\ NoCall \in ReadCall /\ NoCall.at = "out" /\ NoCall.blocking = FALSE
  /\ NoCall.size = 0 /\ NoCall.total = 0 /\ NoCall.irq = TRUE
BY SomeEventIs, EventQueueAssumption DEF NoCall, ReadCall

LEMMA HungryCounted ==
  /\ IsFiniteSet(Hungry) /\ Cardinality(Hungry) \in Nat
BY SchedAssumption, FS_Subset, FS_CardinalityType DEF Hungry

LEMMA HungryCountedNext ==
  /\ IsFiniteSet(Hungry') /\ Cardinality(Hungry') \in Nat
BY SchedAssumption, FS_Subset, FS_CardinalityType DEF Hungry

LEMMA OneLess ==
  ASSUME NEW S, IsFiniteSet(S), NEW x
  PROVE  Cardinality(S) - 1 <= Cardinality(S \ {x})
<1>1. Cardinality(S) \in Nat
  BY FS_CardinalityType
<1>2. Cardinality(S \ {x}) = IF x \in S THEN Cardinality(S) - 1 ELSE Cardinality(S)
  BY FS_RemoveElement
<1> QED BY <1>1, <1>2

\* The state of the ring and of the lists, unfolded once for all proofs.
LEMMA Unfolded ==
  ASSUME EventTypeOK, SchedInv
  PROVE  /\ EVENT_BUFFER_SIZE \in Nat \ {0, 1}
         /\ head \in 0 .. EVENT_BUFFER_SIZE - 1 /\ tail \in 0 .. EVENT_BUFFER_SIZE - 1
         /\ buffer \in [0 .. EVENT_BUFFER_SIZE - 1 -> Events]
         /\ call \in [Procs -> ReadCall] /\ Asleep \subseteq Procs
         /\ current \in Procs \cup {NoProc} /\ current \notin Asleep
         /\ queue[Readers] \in Seq(Procs)
         /\ Contents = Slots(buffer, EVENT_BUFFER_SIZE, tail, held)
         /\ Contents \in Seq(Events) /\ Len(Contents) = held /\ held \in Nat
         /\ held = 0 <=> Empty
         /\ held <= EVENT_BUFFER_SIZE - 1 /\ (held < EVENT_BUFFER_SIZE - 1 <=> ~Full)
<1>1. /\ EVENT_BUFFER_SIZE \in Nat \ {0, 1}
      /\ head \in 0 .. EVENT_BUFFER_SIZE - 1 /\ tail \in 0 .. EVENT_BUFFER_SIZE - 1
      /\ buffer \in [0 .. EVENT_BUFFER_SIZE - 1 -> Events]
      /\ call \in [Procs -> ReadCall]
  BY EventQueueAssumption DEF EventTypeOK
<1>2. /\ current \in Procs \cup {NoProc} /\ current \notin Asleep
      /\ queue[Readers] \in Seq(Procs)
  BY ReadersQueue DEF SchedInv, SchedType, Apart, Asleep
<1>3. Asleep \subseteq Procs
  BY <1>2, ListRange DEF Asleep
<1>4. Contents = Slots(buffer, EVENT_BUFFER_SIZE, tail, held)
  BY DEF Contents, Slots, held, Distance
<1>5. Contents \in Seq(Events) /\ Len(Contents) = held
  BY <1>1, <1>4, RingContents DEF held
<1>6. held \in 0 .. EVENT_BUFFER_SIZE - 1
  BY <1>1, RingPlaces DEF held
<1>7. (held = 0 <=> Empty) /\ (held < EVENT_BUFFER_SIZE - 1 <=> ~Full)
  BY <1>1, RingMoves DEF held, Empty, Full
<1> QED BY <1>1, <1>2, <1>3, <1>4, <1>5, <1>6, <1>7

\* The same of the next state.
UnfoldedNow ==
  /\ head \in 0 .. EVENT_BUFFER_SIZE - 1 /\ tail \in 0 .. EVENT_BUFFER_SIZE - 1
  /\ call \in [Procs -> ReadCall] /\ Asleep \subseteq Procs
  /\ Contents = Slots(buffer, EVENT_BUFFER_SIZE, tail, held)
  /\ Contents \in Seq(Events) /\ Len(Contents) = held /\ held \in Nat

LEMMA UnfoldedNext == EventTypeOK' /\ SchedInv' => UnfoldedNow'
<1>1. EventTypeOK /\ SchedInv => UnfoldedNow
  BY Unfolded DEF UnfoldedNow
<1> QED BY <1>1, PTL

LEMMA InitEInv == EventInit => EInv
<1> SUFFICES ASSUME EventInit PROVE EInv
  OBVIOUS
<1>1. SchedInv
  BY InitApart DEF EventInit
<1>2. EventTypeOK
  <2>1. lapsed \in BOOLEAN /\ broken \in BOOLEAN
    BY Zenon DEF EventInit
  <2>2. 0 \in 0 .. EVENT_BUFFER_SIZE - 1
    BY EventQueueAssumption
  <2> QED BY <1>1, <2>1, <2>2, SomeEventIs, NoCallIs DEF EventInit, EventTypeOK, SchedInv
<1>3. Asleep = {}
  BY ReadersQueue, EmptyList DEF EventInit, SchedInit, Asleep
<1>4. \A p \in Procs : call[p].at = "out"
  BY NoCallIs DEF EventInit
<1> QED BY <1>1, <1>2, <1>3, <1>4 DEF EInv, InCall, OneReader, NoEventWaits
-----------------------------------------------------------------------------
\* A step of the running process in its call that leaves the ring and the lists
\* alone keeps what does not depend on where that process is.
LEMMA ReadStep ==
  ASSUME EInv, current \in Procs, UNCHANGED <<schedVars, queueVars, last>>,
         lapsed' = lapsed, broken' \in BOOLEAN, call' \in [Procs -> ReadCall],
         \A p \in Procs \ {current} : call'[p] = call[p]
  PROVE  /\ EventTypeOK' /\ SchedInv' /\ Asleep' = Asleep /\ Empty' = Empty
         /\ \A p \in Asleep' : call'[p].at = "test" /\ call'[p].total = 0
         /\ Contents' = Contents
<1>1. EventTypeOK /\ SchedInv /\ InCall
  BY DEF EInv
<1>2. SchedInv'
  BY <1>1 DEF schedVars, SchedInv, SchedType, Apart
<1>3. EventTypeOK'
  <2>1. lapsed' \in BOOLEAN /\ broken' \in BOOLEAN
    BY <1>1, Zenon DEF EventTypeOK
  <2> QED BY <1>1, <1>2, <2>1 DEF EventTypeOK, SchedInv, queueVars
<1>4. Asleep' = Asleep /\ Empty' = Empty /\ Contents' = Contents
  BY DEF schedVars, queueVars, Asleep, Empty, Contents
<1>5. Asleep \subseteq Procs /\ current \notin Asleep
  BY <1>1, Unfolded
<1> QED BY <1>1, <1>2, <1>3, <1>4, <1>5 DEF InCall

LEMMA CallEInv == ASSUME EInv, read_call PROVE EInv'
<1>1. /\ EventTypeOK /\ SchedInv /\ InCall /\ OneReader /\ NoEventWaits
      /\ current \in Procs /\ call[current].at = "out"
      /\ UNCHANGED <<schedVars, queueVars, last, lapsed, broken>>
      /\ call \in [Procs -> ReadCall] /\ current \notin Asleep
  BY Unfolded DEF EInv, read_call, At, c
<1>2. PICK blocking \in BOOLEAN, n \in 1 .. MaxSize :
        call' = [call EXCEPT ![current] =
                 [at |-> "test", blocking |-> blocking, size |-> n, total |-> 0,
                  event |-> SomeEvent, irq |-> FALSE]]
  BY DEF read_call
<1> DEFINE r == [at |-> "test", blocking |-> blocking, size |-> n, total |-> 0,
                 event |-> SomeEvent, irq |-> FALSE]
<1>3. r \in ReadCall /\ r.at = "test" /\ r.total = 0 /\ r.size > 0
  BY SomeEventIs, EventQueueAssumption DEF ReadCall
<1> HIDE DEF r
<1>4. /\ call' = [call EXCEPT ![current] = r] /\ call' \in [Procs -> ReadCall]
      /\ call'[current].at = "test" /\ call'[current].total = 0
      /\ call'[current].size > 0
      /\ \A p \in Procs \ {current} : call'[p] = call[p]
  BY <1>1, <1>2, <1>3 DEF r
<1>5. /\ EventTypeOK' /\ SchedInv' /\ Asleep' = Asleep /\ Contents' = Contents /\ Empty' = Empty
      /\ \A p \in Asleep' : call'[p].at = "test" /\ call'[p].total = 0
  BY <1>1, <1>4, ReadStep DEF EventTypeOK
<1>6. InCall'
  BY <1>1, <1>4, <1>5 DEF InCall
<1>7. OneReader'
  BY <1>1, <1>4, <1>5 DEF OneReader, queueVars
<1>8. NoEventWaits'
  <2>1. Hungry \subseteq Hungry'
    BY <1>1, <1>4, <1>5 DEF Hungry
  <2>2. Cardinality(Hungry) <= Cardinality(Hungry')
    BY <2>1, HungryCountedNext, FS_Subset
  <2>3. Len(Contents') \in Nat
    BY <1>5, UnfoldedNext DEF UnfoldedNow
  <2> QED BY <1>1, <1>5, <2>2, <2>3, HungryCounted, HungryCountedNext DEF NoEventWaits
<1> QED BY <1>5, <1>6, <1>7, <1>8 DEF EInv

LEMMA ReturnEInv == ASSUME EInv, read_return PROVE EInv'
<1>1. /\ EventTypeOK /\ SchedInv /\ InCall /\ OneReader /\ NoEventWaits
      /\ current \in Procs /\ call[current].at = "test"
      /\ UNCHANGED <<schedVars, queueVars, last, lapsed, broken>>
      /\ call \in [Procs -> ReadCall] /\ current \notin Asleep
      /\ call' = [call EXCEPT ![current] = NoCall]
  BY Unfolded DEF EInv, read_return, At, c
<1>2. /\ call' \in [Procs -> ReadCall] /\ call'[current].at = "out"
      /\ \A p \in Procs \ {current} : call'[p] = call[p]
  BY <1>1, NoCallIs
<1>3. /\ EventTypeOK' /\ SchedInv' /\ Asleep' = Asleep /\ Contents' = Contents /\ Empty' = Empty
      /\ \A p \in Asleep' : call'[p].at = "test" /\ call'[p].total = 0
  BY <1>1, <1>2, ReadStep DEF EventTypeOK
<1>4. InCall' /\ OneReader'
  BY <1>1, <1>2, <1>3 DEF InCall, OneReader, queueVars
<1>5. NoEventWaits'
  <2>1. CASE Empty
    <3>1. Len(Contents') = 0
      BY <1>1, <1>3, <2>1, Unfolded
    <3> QED BY <3>1, HungryCountedNext DEF NoEventWaits
  <2>2. CASE ~Empty
    <3>1. call[current].total = call[current].size
      BY <2>2 DEF read_return, c
    <3>2. call[current].total # 0
      BY <1>1, <3>1 DEF InCall
    <3>3. Hungry' = Hungry
      BY <1>1, <1>2, <1>3, <3>2 DEF Hungry
    <3> QED BY <1>1, <1>3, <3>3 DEF NoEventWaits
  <2> QED BY <2>1, <2>2
<1> QED BY <1>3, <1>4, <1>5 DEF EInv

LEMMA DecideEInv == ASSUME EInv, decide_to_sleep PROVE EInv'
<1>1. /\ EventTypeOK /\ SchedInv /\ InCall /\ OneReader /\ NoEventWaits
      /\ current \in Procs /\ call[current].at = "test" /\ call[current].total = 0
      /\ UNCHANGED <<schedVars, queueVars, last, lapsed, broken>>
      /\ call \in [Procs -> ReadCall] /\ current \notin Asleep
      /\ call' = [call EXCEPT ![current].at = "sleep"]
  BY Unfolded DEF EInv, decide_to_sleep, At, c
<1>2. /\ call' \in [Procs -> ReadCall] /\ call'[current].at = "sleep"
      /\ call'[current].total = 0 /\ call'[current].size = call[current].size
      /\ \A p \in Procs \ {current} : call'[p] = call[p]
  BY <1>1 DEF ReadCall
<1>3. /\ EventTypeOK' /\ SchedInv' /\ Asleep' = Asleep /\ Contents' = Contents /\ Empty' = Empty
      /\ \A p \in Asleep' : call'[p].at = "test" /\ call'[p].total = 0
  BY <1>1, <1>2, ReadStep DEF EventTypeOK
<1>4. InCall' /\ OneReader'
  BY <1>1, <1>2, <1>3 DEF InCall, OneReader, queueVars
<1>5. Hungry' = Hungry
  BY <1>1, <1>2, <1>3 DEF Hungry
<1> QED BY <1>1, <1>3, <1>4, <1>5 DEF EInv, NoEventWaits

LEMMA CopyEInv == ASSUME EInv, copy PROVE EInv'
<1>1. /\ EventTypeOK /\ SchedInv /\ InCall /\ OneReader /\ NoEventWaits
      /\ current \in Procs /\ call[current].at = "test"
      /\ call[current].total < call[current].size /\ ~Empty
      /\ UNCHANGED <<schedVars, queueVars, last, lapsed>>
      /\ call \in [Procs -> ReadCall] /\ current \notin Asleep /\ buffer[tail] \in Events
      /\ call' = [call EXCEPT ![current].at = "advance", ![current].event = buffer[tail]]
      /\ broken' = (broken \/ \E p \in Procs \ {current} : call[p].at = "advance")
  BY Unfolded DEF EInv, copy, At, c
<1>2. /\ call' \in [Procs -> ReadCall] /\ call'[current].at = "advance"
      /\ call'[current].event = buffer[tail]
      /\ call'[current].total = call[current].total /\ call'[current].size = call[current].size
      /\ \A p \in Procs \ {current} : call'[p] = call[p]
  BY <1>1 DEF ReadCall
<1>3. broken' \in BOOLEAN
  BY <1>1, Zenon
<1>4. /\ EventTypeOK' /\ SchedInv' /\ Asleep' = Asleep /\ Contents' = Contents /\ Empty' = Empty
      /\ \A p \in Asleep' : call'[p].at = "test" /\ call'[p].total = 0
  BY <1>1, <1>2, <1>3, ReadStep
<1>5. InCall'
  BY <1>1, <1>2, <1>4 DEF InCall
<1>6. OneReader'
  <2> SUFFICES ASSUME ~broken', NEW p \in Procs, call'[p].at = "advance"
               PROVE  /\ ~Empty' /\ call'[p].event = buffer'[tail']
                      /\ \A q \in Procs : call'[q].at = "advance" => q = p
    BY DEF OneReader
  <2>1. ~broken /\ \A q \in Procs \ {current} : call[q].at # "advance"
    BY <1>1
  <2>2. p = current /\ \A q \in Procs : call'[q].at = "advance" => q = current
    BY <1>2, <2>1
  <2> QED BY <1>1, <1>2, <1>4, <2>2 DEF queueVars
<1>7. NoEventWaits'
  <2>1. Hungry' = Hungry
    BY <1>1, <1>2, <1>4 DEF Hungry
  <2>2. broken => broken'
    BY <1>1
  <2> QED BY <1>1, <1>4, <2>1, <2>2 DEF NoEventWaits
<1> QED BY <1>4, <1>5, <1>6, <1>7 DEF EInv

LEMMA SleepEInv == ASSUME EInv, sleep PROVE EInv'
<1>1. /\ EventTypeOK /\ SchedInv /\ InCall /\ OneReader /\ NoEventWaits
      /\ current \in Procs /\ call[current].at = "sleep" /\ call[current].total = 0
      /\ Block(Readers) /\ UNCHANGED <<queueVars, last, broken>>
      /\ call \in [Procs -> ReadCall] /\ Asleep \subseteq Procs
      /\ call' = [call EXCEPT ![current].at = "test", ![current].irq = TRUE]
      /\ lapsed' = (lapsed \/ ~Empty)
  BY Unfolded DEF EInv, sleep, At, c, InCall
<1>2. SchedInv' /\ Asleep' = Asleep \cup {current}
  BY <1>1, BlockMoves, ReadersQueue DEF Asleep
<1>3. /\ call' \in [Procs -> ReadCall] /\ call'[current].at = "test"
      /\ call'[current].total = 0 /\ call'[current].size = call[current].size
      /\ \A p \in Procs \ {current} : call'[p] = call[p]
  <2>1. /\ current \in Procs /\ call \in [Procs -> ReadCall]
        /\ call' = [call EXCEPT ![current].at = "test", ![current].irq = TRUE]
    BY <1>1
  <2>2. [call[current] EXCEPT !.at = "test", !.irq = TRUE] \in ReadCall
    BY <2>1 DEF ReadCall
  <2>3. DOMAIN call[current] = {"at", "blocking", "size", "total", "event", "irq"}
    BY <2>1 DEF ReadCall
  <2> DEFINE k == [call[current] EXCEPT !.at = "test", !.irq = TRUE]
  <2>4. k.at = "test" /\ k.total = 0 /\ k.size = call[current].size
    BY <1>1, <2>3
  <2>5. call' = [call EXCEPT ![current] = k]
    BY <2>1
  <2> HIDE DEF k
  <2> QED BY <2>1, <2>2, <2>4, <2>5
<1>4. EventTypeOK'
  <2>1. lapsed' \in BOOLEAN /\ broken' \in BOOLEAN
    BY <1>1, Zenon DEF EventTypeOK
  <2> QED BY <1>1, <1>2, <1>3, <2>1 DEF EventTypeOK, SchedInv, queueVars
<1>5. Empty' = Empty /\ Contents' = Contents
  BY <1>1 DEF queueVars, Empty, Contents
<1>6. InCall'
  BY <1>1, <1>2, <1>3 DEF InCall
<1>7. OneReader'
  BY <1>1, <1>3, <1>5 DEF OneReader, queueVars
<1>8. NoEventWaits'
  <2> SUFFICES ASSUME ~lapsed' PROVE Len(Contents') <= Cardinality(Hungry')
    BY DEF NoEventWaits
  <2>1. Len(Contents') = 0
    BY <1>1, <1>5, Unfolded
  <2> QED BY <2>1, HungryCountedNext
<1> QED BY <1>2, <1>4, <1>6, <1>7, <1>8 DEF EInv

\* A reader takes the oldest event out, unless two have met.
LEMMA AdvanceEInv == ASSUME EInv, advance PROVE EInv'
<1>1. /\ EventTypeOK /\ SchedInv /\ InCall /\ OneReader /\ NoEventWaits
      /\ current \in Procs /\ call[current].at = "advance"
      /\ call[current].total < call[current].size
      /\ tail' = wrapped(tail) /\ last' = call[current].event
      /\ call' = [call EXCEPT ![current].at = "test", ![current].total = @ + 1,
                              ![current].event = SomeEvent]
      /\ UNCHANGED <<schedVars, buffer, head, lapsed, broken>>
      /\ call \in [Procs -> ReadCall] /\ current \notin Asleep /\ Asleep \subseteq Procs
      /\ EVENT_BUFFER_SIZE \in Nat \ {0, 1}
      /\ head \in 0 .. EVENT_BUFFER_SIZE - 1 /\ tail \in 0 .. EVENT_BUFFER_SIZE - 1
  BY Unfolded DEF EInv, advance, At, c, InCall
<1>2. /\ call'[current].at = "test" /\ call'[current].size = call[current].size
      /\ call'[current].total = call[current].total + 1
      /\ \A p \in Procs \ {current} : call'[p] = call[p]
  BY <1>1 DEF ReadCall
<1>3. call' \in [Procs -> ReadCall]
  <2>1. call[current] \in ReadCall /\ MaxSize \in Nat
    BY <1>1, EventQueueAssumption
  <2>2. call[current].total + 1 \in 0 .. MaxSize
    BY <1>1, <2>1 DEF ReadCall
  <2>3. [call[current] EXCEPT !.at = "test", !.total = @ + 1, !.event = SomeEvent] \in ReadCall
    BY <2>1, <2>2, SomeEventIs DEF ReadCall
  <2> QED BY <1>1, <2>3
<1>4. SchedInv' /\ Asleep' = Asleep
  BY <1>1 DEF schedVars, SchedInv, SchedType, Apart, Asleep
<1>5. tail' \in 0 .. EVENT_BUFFER_SIZE - 1
  BY <1>1, RingPlaces DEF wrapped
<1>6. EventTypeOK'
  <2>1. last' \in Events
    BY <1>1 DEF ReadCall
  <2> QED BY <1>1, <1>3, <1>4, <1>5, <2>1 DEF EventTypeOK, SchedInv
<1>7. InCall'
  <2>1. call'[current].size > 0
    BY <1>1, <1>2 DEF InCall
  <2> QED BY <1>1, <1>2, <1>4, <2>1 DEF InCall
<1>8. OneReader'
  BY <1>1, <1>2 DEF OneReader
<1>9. NoEventWaits'
  <2> SUFFICES ASSUME Asleep' # {}, ~lapsed', ~broken'
               PROVE  Len(Contents') <= Cardinality(Hungry')
    BY DEF NoEventWaits
  <2>1. ~Empty
    BY <1>1 DEF OneReader
  <2>2. Len(Contents') = Len(Contents) - 1 /\ Len(Contents) \in Nat
    <3>1. held' = held - 1
      BY <1>1, <2>1, RingMoves DEF held, wrapped, Empty
    <3>2. Len(Contents') = held'
      BY <1>4, <1>6, UnfoldedNext DEF UnfoldedNow
    <3>3. Len(Contents) = held /\ held \in Nat
      BY <1>1, Unfolded
    <3> QED BY <3>1, <3>2, <3>3
  <2>3. Len(Contents) <= Cardinality(Hungry)
    BY <1>1, <1>4 DEF NoEventWaits
  <2>4. Hungry \ {current} \subseteq Hungry'
    BY <1>1, <1>2, <1>4 DEF Hungry
  <2>5. Cardinality(Hungry \ {current}) <= Cardinality(Hungry')
    BY <2>4, HungryCountedNext, FS_Subset
  <2>6. Cardinality(Hungry) - 1 <= Cardinality(Hungry \ {current})
    BY HungryCounted, OneLess
  <2>7. Cardinality(Hungry \ {current}) \in Nat
    BY HungryCounted, FS_Subset, FS_CardinalityType
  <2> QED BY <2>2, <2>3, <2>5, <2>6, <2>7, HungryCounted, HungryCountedNext
<1> QED BY <1>4, <1>6, <1>7, <1>8, <1>9 DEF EInv

LEMMA PostEInv == ASSUME EInv, event_queue_post PROVE EInv'
<1>1. /\ EventTypeOK /\ SchedInv /\ InCall /\ OneReader /\ NoEventWaits
      /\ UNCHANGED <<tail, call, last, lapsed, broken>>
      /\ call \in [Procs -> ReadCall] /\ Asleep \subseteq Procs
      /\ EVENT_BUFFER_SIZE \in Nat \ {0, 1}
      /\ head \in 0 .. EVENT_BUFFER_SIZE - 1 /\ tail \in 0 .. EVENT_BUFFER_SIZE - 1
      /\ buffer \in [0 .. EVENT_BUFFER_SIZE - 1 -> Events]
  BY Unfolded DEF EInv, event_queue_post
<1>2. CASE Full
  <2>1. UNCHANGED <<schedVars, buffer, head>>
    BY <1>2 DEF event_queue_post
  <2>2. SchedInv' /\ Asleep' = Asleep /\ Contents' = Contents /\ Empty' = Empty
    BY <1>1, <2>1 DEF schedVars, SchedInv, SchedType, Apart, Asleep, Contents, Empty
  <2>3. EventTypeOK'
    BY <1>1, <2>1, <2>2 DEF EventTypeOK, SchedInv
  <2>4. Hungry' = Hungry
    BY <1>1, <2>2 DEF Hungry
  <2> QED BY <1>1, <2>1, <2>2, <2>3, <2>4 DEF EInv, InCall, OneReader, NoEventWaits
<1>3. CASE ~Full
  <2>1. PICK e \in Events : Store(e)
    BY <1>3 DEF event_queue_post
  <2>2. /\ buffer' = [buffer EXCEPT ![head] = e] /\ head' = (head + 1) % EVENT_BUFFER_SIZE
        /\ WakeOne(Readers)
    BY <2>1 DEF Store
  <2> DEFINE h == Head(queue[Readers])
  <2>3. /\ SchedInv'
        /\ queue[Readers] = <<>> => queue' = queue
        /\ queue[Readers] # <<>> => h \in Asleep /\ Asleep' = Asleep \ {h}
    BY <1>1, <2>2, WakeOneMoves, ReadersQueue DEF Asleep
  <2> HIDE DEF h
  <2>4. Asleep' \subseteq Asleep
    BY <2>3 DEF Asleep
  <2>5. head' \in 0 .. EVENT_BUFFER_SIZE - 1 /\ head' # tail'
    BY <1>1, <1>3, <2>2, RingPlaces DEF Full
  <2>6. EventTypeOK'
    BY <1>1, <2>2, <2>3, <2>5 DEF EventTypeOK, SchedInv
  <2>7. InCall'
    BY <1>1, <2>4 DEF InCall
  <2>8. OneReader'
    <3>1. ~Empty => buffer'[tail'] = buffer[tail]
      BY <1>1, <2>2 DEF Empty
    <3> QED BY <1>1, <2>5, <3>1 DEF OneReader, Empty
  <2>9. NoEventWaits'
    <3> SUFFICES ASSUME Asleep' # {}, ~lapsed', ~broken'
                 PROVE  Len(Contents') <= Cardinality(Hungry')
      BY DEF NoEventWaits
    <3>1. Len(Contents') = Len(Contents) + 1 /\ Len(Contents) \in Nat
      <4>1. held' = held + 1
        BY <1>1, <1>3, <2>2, RingMoves DEF held, Full
      <4>2. Len(Contents') = held'
        BY <2>3, <2>6, UnfoldedNext DEF UnfoldedNow
      <4>3. Len(Contents) = held /\ held \in Nat
        BY <1>1, Unfolded
      <4> QED BY <4>1, <4>2, <4>3
    <3>2. queue[Readers] # <<>>
      <4>1. queue[Readers] = <<>> => Asleep' = {}
        BY <2>3, EmptyList DEF Asleep
      <4> QED BY <4>1
    <3>3. h \in Asleep /\ Asleep' = Asleep \ {h}
      BY <2>3, <3>2
    <3>4. h \notin Hungry /\ Hungry' = Hungry \cup {h}
      BY <1>1, <3>3 DEF Hungry, InCall
    <3>5. Cardinality(Hungry') = Cardinality(Hungry) + 1
      BY <3>4, HungryCounted, FS_AddElement
    <3>6. Len(Contents) <= Cardinality(Hungry)
      BY <1>1, <3>3 DEF NoEventWaits
    <3> QED BY <3>1, <3>5, <3>6, HungryCounted
  <2> QED BY <2>3, <2>6, <2>7, <2>8, <2>9 DEF EInv
<1> QED BY <1>2, <1>3

LEMMA IdleEInv ==
  ASSUME EInv, SchedInv', queue' = queue, UNCHANGED <<queueVars, call, last, lapsed, broken>>
  PROVE  EInv'
<1>1. EventTypeOK'
  BY DEF EInv, EventTypeOK, SchedInv, queueVars
<1>2. Asleep' = Asleep /\ Contents' = Contents /\ Empty' = Empty
  BY DEF Asleep, Contents, Empty, queueVars
<1>3. Hungry' = Hungry
  BY <1>2 DEF Hungry
<1> QED BY <1>1, <1>2, <1>3 DEF EInv, InCall, OneReader, NoEventWaits, queueVars

LEMMA NextEInv == EInv /\ [EventNext]_eventVars => EInv'
<1> SUFFICES ASSUME EInv, [EventNext]_eventVars PROVE EInv'
  OBVIOUS
<1>1. CASE event_queue_post
  BY <1>1, PostEInv
<1>2. CASE read_call
  BY <1>2, CallEInv
<1>3. CASE read_return
  BY <1>3, ReturnEInv
<1>4. CASE decide_to_sleep
  BY <1>4, DecideEInv
<1>5. CASE sleep
  BY <1>5, SleepEInv
<1>6. CASE copy
  BY <1>6, CopyEInv
<1>7. CASE advance
  BY <1>7, AdvanceEInv
<1>8. CASE Others
  <2>1. SchedInv /\ (Dispatch \/ Yield) /\ UNCHANGED <<queueVars, call, last, lapsed, broken>>
    BY <1>8 DEF Others, EInv
  <2>2. SchedInv' /\ queue' = queue
    BY <2>1, DispatchMoves, YieldMoves
  <2> QED BY <2>1, <2>2, IdleEInv
<1>9. CASE UNCHANGED eventVars
  <2>1. SchedInv' /\ queue' = queue /\ UNCHANGED <<queueVars, call, last, lapsed, broken>>
    BY <1>9 DEF eventVars, schedVars, EInv, SchedInv, SchedType, Apart
  <2> QED BY <2>1, IdleEInv
<1> QED BY <1>1, <1>2, <1>3, <1>4, <1>5, <1>6, <1>7, <1>8, <1>9 DEF EventNext

\* The invariant, from which the theorems follow.
THEOREM EInvHolds == EventSpec => []EInv
<1>1. EventInit => EInv
  BY InitEInv
<1>2. EInv /\ [EventNext]_eventVars => EInv'
  BY NextEInv
<1> QED BY <1>1, <1>2, PTL DEF EventSpec

\* The ring, the lists and the calls keep their types: a position never leaves
\* the buffer, and no call reads more than it was asked for.
THEOREM EventQueueTypeCorrect == EventSpec => []EventTypeOK
<1>1. EInv => EventTypeOK
  BY DEF EInv
<1> QED BY <1>1, EInvHolds, PTL

\* While a reader sleeps, each event has a reader that is awake to take it: the
\* single wakeup of event_queue_post is enough, however many read.
THEOREM NoEventWaitsHolds == EventSpec => []NoEventWaits
<1>1. EInv => NoEventWaits
  BY DEF EInv
<1> QED BY <1>1, EInvHolds, PTL
-----------------------------------------------------------------------------
\* Every step of the queue is one of Fifo, or none, or comes after a collision.
LEMMA FifoStep == EInv /\ EInv' /\ [EventNext]_eventVars => [Ring!Next]_(Ring!vars)
<1> SUFFICES ASSUME EInv, EInv', [EventNext]_eventVars
             PROVE  Ring!Next \/ UNCHANGED <<Contents, last, broken>>
  BY DEF Ring!vars
<1>1. /\ EventTypeOK /\ SchedInv /\ OneReader
      /\ EVENT_BUFFER_SIZE \in Nat \ {0, 1}
      /\ head \in 0 .. EVENT_BUFFER_SIZE - 1 /\ tail \in 0 .. EVENT_BUFFER_SIZE - 1
      /\ buffer \in [0 .. EVENT_BUFFER_SIZE - 1 -> Events]
      /\ Contents = Slots(buffer, EVENT_BUFFER_SIZE, tail, held)
      /\ Len(Contents) = held
  BY Unfolded DEF EInv
<1>2. Contents' = Slots(buffer', EVENT_BUFFER_SIZE, tail', held')
  BY UnfoldedNext DEF UnfoldedNow, EInv
<1>3. ASSUME UNCHANGED <<queueVars, last, broken>> PROVE UNCHANGED <<Contents, last, broken>>
  BY <1>3 DEF queueVars, Contents
<1>4. CASE event_queue_post
  <2>1. UNCHANGED <<tail, last, broken>>
    BY <1>4 DEF event_queue_post
  <2>2. CASE Full
    BY <1>4, <2>1, <2>2 DEF event_queue_post, Contents
  <2>3. CASE ~Full
    <3>1. PICK e \in Events : Store(e)
      BY <1>4, <2>3 DEF event_queue_post
    <3>2. /\ buffer' = [buffer EXCEPT ![head] = e]
          /\ head' = (head + 1) % EVENT_BUFFER_SIZE /\ (head + 1) % EVENT_BUFFER_SIZE # tail
      BY <2>3, <3>1 DEF Store, Full
    <3>3. buffer' \in [0 .. EVENT_BUFFER_SIZE - 1 -> Events] /\ buffer'[head] = e
      BY <1>1, <3>2
    <3>4. Slots(buffer', EVENT_BUFFER_SIZE, tail, held) = Contents
      BY <1>1, <3>2, RingWrite DEF held
    <3>5. Contents' = Append(Slots(buffer', EVENT_BUFFER_SIZE, tail, held), buffer'[head])
      <4>1. held' = Distance(tail, (head + 1) % EVENT_BUFFER_SIZE, EVENT_BUFFER_SIZE)
        BY <2>1, <3>2 DEF held
      <4>2. PICK b \in [0 .. EVENT_BUFFER_SIZE - 1 -> Events] : b = buffer'
        BY <3>3
      <4>3. Slots(b, EVENT_BUFFER_SIZE, tail,
                  Distance(tail, (head + 1) % EVENT_BUFFER_SIZE, EVENT_BUFFER_SIZE))
              = Append(Slots(b, EVENT_BUFFER_SIZE, tail,
                             Distance(tail, head, EVENT_BUFFER_SIZE)), b[head])
        BY <1>1, <3>2, RingPut
      <4> QED BY <1>2, <2>1, <4>1, <4>2, <4>3 DEF held
    <3>6. Contents' = Append(Contents, e)
      BY <3>3, <3>4, <3>5
    <3>7. Len(Contents) < EVENT_BUFFER_SIZE - 1
      BY <1>1, <3>2, RingMoves DEF held
    <3> QED BY <2>1, <3>6, <3>7 DEF Ring!Next, Ring!Put
  <2> QED BY <2>2, <2>3
<1>5. CASE advance
  <2>1. /\ current \in Procs /\ call[current].at = "advance"
        /\ tail' = wrapped(tail) /\ last' = call[current].event
        /\ UNCHANGED <<buffer, head, broken>>
    BY <1>1, <1>5 DEF advance, At, c, EventTypeOK, SchedType
  <2>2. CASE broken
    BY <2>1, <2>2 DEF Ring!Next
  <2>3. CASE ~broken
    <3>1. tail # head /\ last' = buffer[tail]
      BY <1>1, <2>1, <2>3 DEF OneReader, Empty
    <3>2. /\ Contents # <<>> /\ Head(Contents) = buffer[tail]
          /\ Contents' = Tail(Contents)
      <4>1. /\ tail' = (tail + 1) % EVENT_BUFFER_SIZE /\ buffer' = buffer
            /\ held' = Distance((tail + 1) % EVENT_BUFFER_SIZE, head, EVENT_BUFFER_SIZE)
        BY <2>1 DEF held, wrapped
      <4>2. LET b == Slots(buffer, EVENT_BUFFER_SIZE, tail, held)
            IN  /\ b # <<>> /\ Head(b) = buffer[tail]
                /\ Slots(buffer, EVENT_BUFFER_SIZE, (tail + 1) % EVENT_BUFFER_SIZE,
                         Distance((tail + 1) % EVENT_BUFFER_SIZE, head, EVENT_BUFFER_SIZE)) = Tail(b)
        BY <1>1, <3>1, RingGet DEF held
      <4> QED BY <1>1, <1>2, <4>1, <4>2
    <3> QED BY <2>1, <3>1, <3>2 DEF Ring!Next, Ring!Get
  <2> QED BY <2>2, <2>3
<1>6. CASE copy
  <2>1. /\ UNCHANGED <<queueVars, last>>
        /\ broken' = (broken \/ \E p \in Procs \ {current} : call[p].at = "advance")
    BY <1>6 DEF copy
  <2>2. broken \in BOOLEAN
    BY <1>1 DEF EventTypeOK
  <2>3. CASE broken'
    BY <2>3 DEF Ring!Next
  <2>4. CASE ~broken'
    <3>1. broken' = FALSE /\ broken = FALSE
      BY <2>1, <2>2, <2>4, Zenon
    <3> QED BY <1>3, <2>1, <3>1
  <2> QED BY <2>3, <2>4
<1>7. CASE read_call \/ read_return \/ decide_to_sleep \/ sleep \/ Others
  BY <1>3, <1>7 DEF read_call, read_return, decide_to_sleep, sleep, Others
<1>8. CASE UNCHANGED eventVars
  BY <1>3, <1>8 DEF eventVars
<1> QED BY <1>4, <1>5, <1>6, <1>7, <1>8 DEF EventNext

\* The queue of events implements Fifo, whatever is posted and read and whoever
\* is preempted, until two readers meet inside one event.
THEOREM ImplementsFifo == EventSpec => IsFifo
<1>1. EventInit => Ring!Init
  <2> SUFFICES ASSUME EventInit PROVE Ring!Init
    OBVIOUS
  <2>1. EInv
    BY InitEInv
  <2>2. Contents \in Seq(Events) /\ Len(Contents) = 0
    BY <2>1, Unfolded DEF EInv, EventInit, Empty
  <2>3. Contents = <<>>
    BY <2>2
  <2> QED BY <2>3, SomeEventIs DEF EventInit, Ring!Init
<1>2. EInv /\ EInv' /\ [EventNext]_eventVars => [Ring!Next]_(Ring!vars)
  BY FifoStep
<1> QED BY <1>1, <1>2, EInvHolds, PTL DEF EventSpec, IsFifo, Ring!Spec
-----------------------------------------------------------------------------
(* The disk driver.                                                        *)

\* What a reading after t ticks of m milliseconds is.
ReadsAs(m, t) ==
  /\ clock_read(t).seconds = t \div CLICKS_PER_SECOND
  /\ clock_read(t).millis = m * (t % CLICKS_PER_SECOND)
  /\ t = CLICKS_PER_SECOND * (t \div CLICKS_PER_SECOND) + (t % CLICKS_PER_SECOND)
  /\ t \div CLICKS_PER_SECOND \in Nat
  /\ t % CLICKS_PER_SECOND \in 0 .. CLICKS_PER_SECOND - 1

\* A reading is the second and the milliseconds of a whole number of ticks:
\* nothing is lost by the division, as a second is a whole number of them.
LEMMA ReadingOf ==
  ASSUME NEW m \in 1 .. 1000, m * CLICKS_PER_SECOND = 1000, NEW t \in Nat
  PROVE  ReadsAs(m, t)
<1> DEFINE C == CLICKS_PER_SECOND
           r == t % C
<1>1. C \in Nat \ {0}
  BY ClockAssumption
<1>2. /\ t = C * (t \div C) + r
      /\ t \div C \in Nat
      /\ r \in 0 .. C - 1
  BY <1>1, Z3
<1>3. \A k \in Nat : (C * k) \div C = k
  BY <1>1, Z3
<1>4. 1000 * r = C * (m * r)
  <2> HIDE DEF C, r
  <2>1. 1000 * r = (m * C) * r
    BY DEF C
  <2>2. (m * C) * r = C * (m * r)
    BY <1>1, <1>2, Z3
  <2> QED BY <2>1, <2>2
<1>5. m * r \in Nat
  <2> HIDE DEF C, r
  <2> QED BY <1>2, <1>1, Z3
<1>6. clock_read(t).millis = m * r
  BY <1>3, <1>4, <1>5 DEF clock_read
<1> QED BY <1>2, <1>6 DEF clock_read, ReadsAs

\* The difference of two readings, the earlier one first, is the time of the
\* ticks in between, with its milliseconds below a second: the borrow of
\* clock_diff is the right one, and clock_wait and ata_wait measure real time
\* from whatever point within a second they start.
THEOREM Readings ==
  ASSUME NEW m \in 1 .. 1000, m * CLICKS_PER_SECOND = 1000,
         NEW a \in Nat, NEW b \in Nat, a <= b
  PROVE  LET elapsed == clock_diff(clock_read(a), clock_read(b))
         IN /\ elapsed.seconds \in Nat /\ elapsed.millis \in 0 .. 999
            /\ total(elapsed) = m * (b - a)
<1>0. ReadsAs(m, a) /\ ReadsAs(m, b)
  <2>1. \A t \in Nat : ReadsAs(m, t)
    BY ReadingOf, ZenonT(20)
  <2> QED BY <2>1
<1> DEFINE C == CLICKS_PER_SECOND
           sa == a \div C
           ra == a % C
           sb == b \div C
           rb == b % C
           elapsed == clock_diff(clock_read(a), clock_read(b))
<1>1. C \in Nat \ {0}
  BY ClockAssumption
<1>2. /\ clock_read(a).seconds = sa /\ clock_read(a).millis = m * ra
      /\ a = C * sa + ra /\ sa \in Nat /\ ra \in 0 .. C - 1
  BY <1>0 DEF ReadsAs
<1>3. /\ clock_read(b).seconds = sb /\ clock_read(b).millis = m * rb
      /\ b = C * sb + rb /\ sb \in Nat /\ rb \in 0 .. C - 1
  BY <1>0 DEF ReadsAs
<1>4. /\ m * ra \in 0 .. 999 /\ m * rb \in 0 .. 999
      /\ m * rb < m * ra <=> rb < ra
  <2> HIDE DEF sa, ra, sb, rb, elapsed
  <2>1. m * C = 1000
    BY DEF C
  <2>2. \A x \in 0 .. C - 1 : m * x \in Nat /\ m * x <= m * (C - 1)
    <3> HIDE DEF C
    <3> QED BY <1>1, Z3
  <2>3. m * (C - 1) = 1000 - m
    <3> HIDE DEF C
    <3> QED BY <1>1, <2>1, Z3
  <2>4. \A x, y \in 0 .. C - 1 : m * x < m * y <=> x < y
    <3> HIDE DEF C
    <3> QED BY <1>1, Z3
  <2> HIDE DEF C
  <2>5. m * ra \in 0 .. 999 /\ m * rb \in 0 .. 999
    <3>1. \A x \in 0 .. C - 1 : m * x \in Nat /\ m * x <= 1000 - m
      BY <2>2, <2>3
    <3>2. \A z \in Nat : z <= 1000 - m => z \in 0 .. 999
      OBVIOUS
    <3> QED BY <1>2, <1>3, <3>1, <3>2
  <2>6. m * rb < m * ra <=> rb < ra
    BY <1>2, <1>3, <2>4
  <2> QED BY <2>5, <2>6
<1>5. m * (b - a) = 1000 * (sb - sa) + m * rb - m * ra
  <2> HIDE DEF sa, ra, sb, rb, elapsed
  <2>1. m * C = 1000
    BY DEF C
  <2> HIDE DEF C
  <2>2. b - a = C * (sb - sa) + (rb - ra)
    BY <1>1, <1>2, <1>3, Z3
  <2>3. m * (C * (sb - sa) + (rb - ra)) = (m * C) * (sb - sa) + m * rb - m * ra
    BY <1>1, <1>2, <1>3, Z3
  <2> QED BY <2>1, <2>2, <2>3
<1>6. sa <= sb /\ (rb < ra => sa < sb)
  <2> HIDE DEF sa, ra, sb, rb, elapsed, C
  <2>1. C * sa + ra <= C * sb + rb
    BY <1>2, <1>3
  <2>2. \A x, y \in Nat : x + 1 <= y => C * x + C <= C * y
    BY <1>1, Z3
  <2>3. ASSUME sb < sa PROVE FALSE
    <3>1. C * sb + C <= C * sa
      BY <2>2, <2>3, <1>2, <1>3
    <3> QED BY <3>1, <2>1, <1>1, <1>2, <1>3, Z3
  <2>4. ASSUME rb < ra, sa = sb PROVE FALSE
    BY <2>1, <2>4, <1>1, <1>2, <1>3, Z3
  <2> QED BY <2>3, <2>4, <1>2, <1>3
<1>7. elapsed = IF m * rb < m * ra
                THEN [seconds |-> sb - 1 - sa, millis |-> m * rb + 1000 - m * ra]
                ELSE [seconds |-> sb - sa, millis |-> m * rb - m * ra]
  <2> HIDE DEF sa, ra, sb, rb
  <2> QED BY <1>2, <1>3 DEF clock_diff
<1> HIDE DEF sa, ra, sb, rb, elapsed, C
<1>8. elapsed.seconds \in Nat /\ elapsed.millis \in 0 .. 999
  <2> DEFINE u == m * ra
             v == m * rb
  <2>1. /\ u \in 0 .. 999 /\ v \in 0 .. 999 /\ sa \in Nat /\ sb \in Nat
        /\ sa <= sb /\ (v < u => sa < sb)
    BY <1>2, <1>3, <1>4, <1>6
  <2>2. elapsed = IF v < u THEN [seconds |-> sb - 1 - sa, millis |-> v + 1000 - u]
                  ELSE [seconds |-> sb - sa, millis |-> v - u]
    BY <1>7
  <2> HIDE DEF u, v
  <2> QED BY <2>1, <2>2
<1>9. total(elapsed) = m * (b - a)
  <2>1. CASE rb < ra
    BY <2>1, <1>2, <1>3, <1>4, <1>5, <1>6, <1>7 DEF total
  <2>2. CASE ~(rb < ra)
    BY <2>2, <1>2, <1>3, <1>4, <1>5, <1>6, <1>7 DEF total
  <2> QED BY <2>1, <2>2
<1> QED BY <1>8, <1>9 DEF elapsed
-----------------------------------------------------------------------------
Locations == {"user", "lock", "calm", "ready", "data", "finish", "reset",
              "settle", "success", "failed"}
Jobs == [op : {"none", "transfer", "packet"} \cup Identify,
         unit : Units, back : {"failed", "calm"}, hurried : BOOLEAN]
Devs == [unit : Units, reset : BOOLEAN, status : SUBSET {"BSY", "RDY", "DRQ", "ERR"},
         by : Procs \cup {NoProc}, left : 0 .. NBlocks + 1]

\* Past mutex_lock, or in a probe.
Busy(p) == pc[p] \notin {"user", "lock"}

\* Where a call is tells how many transfers it has made; a probe makes none before
\* its ata_identify.
InStep(p) ==
  /\ pc[p] = "lock" => ~Probing(p)
  /\ pc[p] \in {"user", "lock", "calm", "ready"} => done[p] = 0
  /\ pc[p] = "data" => done[p] < Transfers(job[p].op)
  /\ pc[p] \in {"finish", "success"} => done[p] = Transfers(job[p].op)
  /\ job[p].back = "calm" => pc[p] \in {"reset", "settle"} /\ done[p] = 0

\* ata_mutex has one holder, even if it is dead.
OneHolder ==
  \A p \in Procs : InMutex(p) => locked /\ \A q \in Procs : InMutex(q) => q = p

\* Until a probe meets somebody, one process alone uses the channel, and what the
\* unit has left for it is what it has still to move.
Undisturbed ==
  ~overlap =>
    /\ mixed = {}
    /\ \A p \in Procs \ dead : Busy(p) =>
         /\ \A q \in Procs \ dead : Busy(q) => q = p
         /\ pc[p] = "data" => dev.by = p /\ dev.left = Transfers(job[p].op) - done[p]

\* A unit asks for a sector only if the command has one left.
Offered(d) == "DRQ" \in d.status => d.left > 0

AInv ==
  /\ TypeOK /\ SchedInv /\ Buried
  /\ (\A p \in Procs : InStep(p)) /\ OneHolder /\ Undisturbed /\ Offered(dev)

LEMMA QueuesAre == Sleepers \in Queues /\ Waiters \in Queues /\ NBlocks \in Nat \ {0} /\ First \in Units
BY AtaAssumption DEF Units

LEMMA TransfersType == \A op : Transfers(op) \in 1 .. NBlocks + 1
BY QueuesAre DEF Transfers

\* What every step starts from.
LEMMA Known ==
  ASSUME AInv
  PROVE  /\ TypeOK /\ SchedInv /\ Buried /\ OneHolder /\ Undisturbed /\ Offered(dev)
         /\ \A p \in Procs : InStep(p)
         /\ pc \in [Procs -> Locations] /\ job \in [Procs -> Jobs]
         /\ done \in [Procs -> 0 .. NBlocks + 1] /\ dev \in Devs
         /\ since \in [Procs -> -1 .. MaxTicks]
         /\ locked \in BOOLEAN /\ identify_in_progress \in BOOLEAN /\ overlap \in BOOLEAN
         /\ mixed \subseteq Procs
         /\ current \in Procs \cup {NoProc} /\ current \notin dead
<1>1. current \notin dead
  BY SchedAssumption DEF AInv, Buried, Awake, SchedInv, SchedType
<1> QED BY <1>1, Zenon DEF AInv, TypeOK, ClockType, SchedInv, SchedType, Locations, Jobs, Devs

LEMMA MakeTypeOK ==
  ASSUME SchedInv', pc' \in [Procs -> Locations], job' \in [Procs -> Jobs],
         done' \in [Procs -> 0 .. NBlocks + 1], dev' \in Devs,
         clicks' \in 0 .. CLICKS_PER_SECOND - 1,
         since' \in [Procs -> -1 .. MaxTicks], inside' \in Procs \cup {NoProc},
         locked' \in BOOLEAN, identify_in_progress' \in BOOLEAN, overlap' \in BOOLEAN,
         mixed' \subseteq Procs
  PROVE  TypeOK'
BY Zenon DEF TypeOK, ClockType, SchedInv, Locations, Jobs, Devs
-----------------------------------------------------------------------------
\* A step of one busy process keeps the invariant if it keeps its own part of it:
\* nobody else is on the channel unless overlap says so.
LEMMA BusyStep ==
  ASSUME AInv, NEW p \in Procs, p \notin dead, Busy(p), Busy(p)',
         SchedInv', Buried', dead' = dead, UNCHANGED <<locked, overlap, clicks, inside>>,
         identify_in_progress' \in BOOLEAN, since' \in [Procs -> -1 .. MaxTicks],
         pc' \in [Procs -> Locations], job' \in [Procs -> Jobs],
         done' \in [Procs -> 0 .. NBlocks + 1], dev' \in Devs, mixed' \subseteq Procs,
         \A q \in Procs \ {p} : pc'[q] = pc[q] /\ job'[q] = job[q] /\ done'[q] = done[q],
         job'[p].op = job[p].op, InStep(p)', Offered(dev)',
         ~overlap => mixed' = {},
         ~overlap /\ pc'[p] = "data" => dev'.by = p /\ dev'.left = Transfers(job[p].op) - done'[p]
  PROVE  AInv'
<1>1. TypeOK'
  <2>1. /\ clicks' \in 0 .. CLICKS_PER_SECOND - 1 /\ inside' \in Procs \cup {NoProc}
        /\ locked' \in BOOLEAN /\ overlap' \in BOOLEAN
    BY Known, Zenon DEF TypeOK, ClockType
  <2> QED BY <2>1, MakeTypeOK
<1>2. \A q \in Procs : InStep(q)'
  <2>1. ASSUME NEW q \in Procs \ {p} PROVE InStep(q)'
    BY <2>1, Known DEF InStep, Probing
  <2> QED BY <2>1
<1>3. \A q \in Procs : (InMutex(q)' <=> InMutex(q)) /\ (Busy(q)' <=> Busy(q))
  BY DEF InMutex, Busy, Probing
<1>4. OneHolder'
  BY <1>3, Known DEF OneHolder
<1>5. Undisturbed'
  <2> SUFFICES ASSUME ~overlap
               PROVE  /\ mixed' = {}
                      /\ \A q \in Procs \ dead : Busy(q)' =>
                           /\ \A r \in Procs \ dead : Busy(r)' => r = q
                           /\ pc'[q] = "data" => dev'.by = q /\ dev'.left = Transfers(job'[q].op) - done'[q]
    BY DEF Undisturbed
  <2>1. \A q \in Procs \ dead : Busy(q) => q = p
    BY Known DEF Undisturbed
  <2> QED BY <1>3, <2>1
<1> QED BY <1>1, <1>2, <1>4, <1>5 DEF AInv

\* A step that leaves the calls and the channel alone.
LEMMA IdleStep ==
  ASSUME AInv, SchedInv', Buried', dead \subseteq dead',
         clicks' \in 0 .. CLICKS_PER_SECOND - 1,
         since' \in [Procs -> -1 .. MaxTicks], inside' \in Procs \cup {NoProc},
         UNCHANGED ataVars
  PROVE  AInv'
<1>1. TypeOK'
  <2>1. /\ pc' \in [Procs -> Locations] /\ job' \in [Procs -> Jobs]
        /\ done' \in [Procs -> 0 .. NBlocks + 1] /\ dev' \in Devs /\ mixed' \subseteq Procs
    BY Known DEF ataVars
  <2>2. locked' \in BOOLEAN /\ identify_in_progress' \in BOOLEAN /\ overlap' \in BOOLEAN
    BY Known, Zenon DEF ataVars
  <2> QED BY <2>1, <2>2, MakeTypeOK
<1>2. \A q \in Procs : InStep(q)' /\ (InMutex(q)' <=> InMutex(q)) /\ (Busy(q)' <=> Busy(q))
  BY Known DEF InStep, InMutex, Busy, Probing, ataVars
<1>3. OneHolder' /\ Undisturbed' /\ Offered(dev)'
  BY <1>2, Known DEF OneHolder, Undisturbed, Offered, ataVars
<1> QED BY <1>1, <1>2, <1>3 DEF AInv

LEMMA InitAInv == Init => AInv
<1> SUFFICES ASSUME Init PROVE AInv
  OBVIOUS
<1>1. SchedInv /\ Buried
  BY InitApart, InitBuried DEF Init
<1>2. NoJob \in Jobs /\ NoJob.op = "none" /\ NoJob.back = "failed"
  BY QueuesAre DEF NoJob, Jobs
<1>3. /\ pc \in [Procs -> Locations] /\ job \in [Procs -> Jobs]
      /\ done \in [Procs -> 0 .. NBlocks + 1] /\ dev \in Devs
      /\ "DRQ" \notin dev.status
  BY <1>2, QueuesAre DEF Init, Locations, Devs, Idle
<1>4. /\ clicks \in 0 .. CLICKS_PER_SECOND - 1 /\ since \in [Procs -> -1 .. MaxTicks]
      /\ inside \in Procs \cup {NoProc}
  BY ClockAssumption DEF Init, ClockInit
<1>5. locked \in BOOLEAN /\ identify_in_progress \in BOOLEAN /\ overlap \in BOOLEAN /\ mixed = {}
  BY Zenon DEF Init
<1>6. TypeOK
  BY <1>1, <1>3, <1>4, <1>5, Zenon DEF TypeOK, ClockType, SchedInv, Locations, Jobs, Devs
<1>7. \A p \in Procs : InStep(p) /\ ~Busy(p) /\ ~InMutex(p)
  BY <1>2 DEF Init, InStep, Busy, InMutex, Probing, Identify
<1> QED BY <1>1, <1>3, <1>5, <1>6, <1>7 DEF AInv, OneHolder, Undisturbed, Offered

\* clock_interrupt wakes all who wait for it, and may switch.
LEMMA InterruptMoves ==
  ASSUME SchedInv, Buried, clock_interrupt
  PROVE  SchedInv' /\ Buried' /\ dead' = dead
<1> DEFINE woken == ready \o queue[Sleepers]
           all == Append(woken, current)
<1>1. /\ queue' = [queue EXCEPT ![Sleepers] = <<>>] /\ dead' = dead
      /\ \/ current \in Procs /\ Run(all)
         \/ ready' = woken /\ current' = current
  BY DEF clock_interrupt, SchedInv, SchedType
<1>2. /\ queue \in [Queues -> Seq(Procs)] /\ queue[Sleepers] \in Seq(Procs)
      /\ IsInjective(queue[Sleepers])
      /\ ready \in Seq(Procs) /\ IsInjective(ready) /\ current \in Procs \cup {NoProc}
      /\ Range(queue[Sleepers]) \cap Range(ready) = {} /\ current \notin Range(queue[Sleepers])
      /\ current \notin Range(ready) /\ dead \in SUBSET Procs
  BY ClockAssumption DEF SchedInv, SchedType, Apart
<1>3. /\ woken \in Seq(Procs) /\ Range(woken) = Range(ready) \cup Range(queue[Sleepers])
      /\ IsInjective(woken)
  BY <1>2, ConcatDistinct
<1>4. current \notin Range(woken)
  BY <1>2, <1>3
<1>5. current \in Procs =>
        all \in Seq(Procs) /\ IsInjective(all) /\ Range(all) = Range(woken) \cup {current}
  <2> HIDE DEF woken
  <2> QED BY <1>3, <1>4, AppendDistinct
<1> HIDE DEF woken, all
<1>6. /\ ready' \in Seq(Procs) /\ IsInjective(ready') /\ current' \notin Range(ready')
      /\ current' \in Procs \cup {NoProc}
      /\ Range(ready') \cup {current'} \subseteq Range(woken) \cup {current, NoProc}
  <2>1. CASE current \in Procs /\ Run(all)
    <3>1. /\ current' \in Procs \cup {NoProc} /\ ready' \in Seq(Procs)
          /\ IsInjective(ready') /\ current' \notin Range(ready')
          /\ Awake' = Range(all)
          /\ current' # NoProc => current' \in Range(all)
          /\ Range(ready') \subseteq Range(all)
      BY <1>5, <2>1, RunMoves
    <3> QED BY <1>5, <2>1, <3>1
  <2>2. CASE ready' = woken /\ current' = current
    BY <1>2, <1>3, <1>4, <2>2
  <2> QED BY <1>1, <2>1, <2>2
<1>7. \A q \in Queues : /\ queue'[q] \in Seq(Procs) /\ IsInjective(queue'[q])
                        /\ Range(queue'[q]) \subseteq Range(queue[q]) \ Range(queue[Sleepers])
  <2>1. queue'[Sleepers] = <<>> /\ \A q \in Queues \ {Sleepers} : queue'[q] = queue[q]
    BY <1>1, <1>2, QueuesAre
  <2>2. \A q \in Queues \ {Sleepers} : Range(queue[q]) \cap Range(queue[Sleepers]) = {}
    BY QueuesAre DEF SchedInv, Apart
  <2>3. \A q \in Queues \ {Sleepers} : queue[q] \in Seq(Procs) /\ IsInjective(queue[q])
    BY <1>2 DEF SchedInv, Apart
  <2>4. <<>> \in Seq(Procs) /\ IsInjective(<<>>) /\ Range(<<>>) = {}
    BY EmptyList
  <2>5. ASSUME NEW q \in Queues \ {Sleepers}
        PROVE  /\ queue'[q] \in Seq(Procs) /\ IsInjective(queue'[q])
               /\ Range(queue'[q]) \subseteq Range(queue[q]) \ Range(queue[Sleepers])
    <3>1. queue'[q] = queue[q]
      BY <2>1
    <3>2. Range(queue'[q]) \subseteq Range(queue[q]) \ Range(queue[Sleepers])
      BY <2>2, <3>1
    <3> QED BY <2>3, <3>1, <3>2
  <2> QED BY <2>1, <2>4, <2>5
<1>8. \A q \in Queues : Range(queue[q]) \cap (Range(ready) \cup {current, NoProc}) = {}
  <2>1. \A q \in Queues : Range(queue[q]) \subseteq Procs
    BY <1>2, ListRange
  <2> QED BY <2>1, SchedAssumption DEF SchedInv, Apart
<1>9. Apart'
  <2>1. \A q \in Queues : current' \notin Range(queue'[q]) /\ Range(queue'[q]) \cap Range(ready') = {}
    BY <1>3, <1>6, <1>7, <1>8
  <2>2. \A q \in Queues : \A r \in Queues \ {q} : Range(queue'[q]) \cap Range(queue'[r]) = {}
    BY <1>7 DEF SchedInv, Apart
  <2> QED BY <1>6, <1>7, <2>1, <2>2 DEF Apart
<1>10. SchedInv'
  <2>1. queue' \in [Queues -> Seq(Procs)]
    BY <1>1, <1>2, <1>7
  <2> QED BY <1>1, <1>2, <1>6, <1>9, <2>1 DEF SchedInv, SchedType
<1>11. Buried'
  <2>1. dead \cap (Range(woken) \cup {current, NoProc}) = {}
    BY <1>2, <1>3, ClockAssumption, SchedAssumption DEF Buried, Awake
  <2> QED BY <1>1, <1>6, <1>7, <2>1 DEF Buried, Awake
<1> QED BY <1>1, <1>6, <1>10, <1>11
-----------------------------------------------------------------------------
\* The parts the waits are made of.
LEMMA SleepMoves ==
  ASSUME AInv, NEW p \in Procs, p = current, Sleep(p)
  PROVE  SchedInv' /\ Buried' /\ dead' = dead /\ since' \in [Procs -> -1 .. MaxTicks]
<1>1. Block(Sleepers) /\ since' = [since EXCEPT ![p] = 0]
  BY DEF Sleep
<1>2. SchedInv' /\ Buried'
  BY <1>1, Known, QueuesAre, BlockMoves, DeadStayOff
<1>3. since' \in [Procs -> -1 .. MaxTicks]
  BY <1>1, Known, ClockAssumption
<1> QED BY <1>1, <1>2, <1>3 DEF Block

LEMMA ResetMoves ==
  ASSUME AInv, NEW p \in Procs, p = current, Reset(p)
  PROVE  /\ SchedInv' /\ Buried' /\ dead' = dead /\ since' \in [Procs -> -1 .. MaxTicks]
         /\ dev' \in Devs /\ Offered(dev)'
         /\ pc' = [pc EXCEPT ![p] = "reset"] /\ pc' \in [Procs -> Locations]
<1>1. SchedInv' /\ Buried' /\ dead' = dead /\ since' \in [Procs -> -1 .. MaxTicks]
  BY SleepMoves DEF Reset
<1>2. dev' \in Devs /\ Offered(dev)'
  BY QueuesAre DEF Reset, Devs, Offered, Idle
<1>3. pc' = [pc EXCEPT ![p] = "reset"] /\ pc' \in [Procs -> Locations]
  BY Known DEF Reset, Locations
<1> QED BY <1>1, <1>2, <1>3

LEMMA GotoMoves ==
  ASSUME AInv, NEW p \in Procs, NEW next \in Locations, Goto(p, next)
  PROVE  /\ SchedInv' /\ Buried' /\ dead' = dead /\ since' \in [Procs -> -1 .. MaxTicks]
         /\ pc' = [pc EXCEPT ![p] = next] /\ pc' \in [Procs -> Locations]
         /\ identify_in_progress' \in BOOLEAN /\ job' \in [Procs -> Jobs]
         /\ job'[p].op = job[p].op /\ job'[p].unit = job[p].unit /\ job'[p].back = job[p].back
         /\ \A q \in Procs \ {p} : pc'[q] = pc[q] /\ job'[q] = job[q]
<1>1. UNCHANGED <<schedVars, identify_in_progress>> /\ pc' = [pc EXCEPT ![p] = next]
  BY DEF Goto, Continue
<1>2. SchedInv' /\ Buried' /\ dead' = dead
  BY <1>1, Known DEF schedVars, SchedInv, SchedType, Apart, Buried, Awake
<1>3. identify_in_progress' \in BOOLEAN
  BY <1>1, Known, Zenon
<1>4. since' \in [Procs -> -1 .. MaxTicks]
  BY Known, ClockAssumption DEF Goto, Continue
<1>5. PICK h \in BOOLEAN : h = (identify_in_progress' /\ next \notin {"success", "failed"})
  OBVIOUS
<1>6. job' = [job EXCEPT ![p].hurried = h]
  BY <1>5, Zenon DEF Goto, Continue
<1>7. /\ job' \in [Procs -> Jobs]
      /\ job'[p].op = job[p].op /\ job'[p].unit = job[p].unit /\ job'[p].back = job[p].back
      /\ \A q \in Procs \ {p} : job'[q] = job[q]
  BY <1>6, Known DEF Jobs
<1> QED BY <1>1, <1>2, <1>3, <1>4, <1>7, Known

\* What a process that is in one of the waits, and runs, starts from.
Polling(p) ==
  /\ AInv /\ p = current
  /\ pc[p] \in {"calm", "ready", "data", "finish", "reset", "settle"}
  /\ UNCHANGED <<locked, overlap, clicks, inside>>

LEMMA PollStep == ASSUME NEW p \in Procs, Polling(p), poll(p) PROVE AInv'
<1>1. /\ AInv /\ p = current /\ p \notin dead /\ Busy(p)
      /\ UNCHANGED <<locked, overlap, clicks, inside, job, done, mixed, identify_in_progress>>
  BY Known DEF Polling, poll, Busy
<1>2. /\ job' \in [Procs -> Jobs] /\ done' \in [Procs -> 0 .. NBlocks + 1] /\ mixed' \subseteq Procs
      /\ identify_in_progress' \in BOOLEAN
      /\ ~overlap => mixed' = {}
  <2>1. identify_in_progress' \in BOOLEAN
    BY <1>1, Known, Zenon
  <2> QED BY <1>1, <2>1, Known DEF Undisturbed
<1>3. CASE Reset(p)
  <2>1. /\ SchedInv' /\ Buried' /\ dead' = dead /\ since' \in [Procs -> -1 .. MaxTicks]
        /\ dev' \in Devs /\ Offered(dev)'
        /\ pc' = [pc EXCEPT ![p] = "reset"] /\ pc' \in [Procs -> Locations]
    BY <1>1, <1>3, ResetMoves
  <2>2. /\ pc'[p] = "reset"
        /\ \A q \in Procs \ {p} : pc'[q] = pc[q] /\ job'[q] = job[q] /\ done'[q] = done[q]
    BY <1>1, <2>1, Known
  <2>3. Busy(p)' /\ InStep(p)'
    BY <1>1, <2>2, Known DEF Busy, InStep
  <2> QED BY <1>1, <1>2, <2>1, <2>2, <2>3, BusyStep
<1>4. CASE Yield /\ UNCHANGED <<since, pc, dev>>
  <2>1. SchedInv' /\ Buried' /\ dead' = dead
    BY <1>1, <1>4, Known, YieldMoves, DeadStayOff DEF Yield
  <2>2. /\ since' \in [Procs -> -1 .. MaxTicks] /\ pc' \in [Procs -> Locations] /\ dev' \in Devs
        /\ Offered(dev)' /\ Busy(p)' /\ InStep(p)'
    BY <1>1, <1>4, Known DEF Busy, InStep, Offered, Probing
  <2>3. ~overlap /\ pc'[p] = "data" => dev'.by = p /\ dev'.left = Transfers(job[p].op) - done'[p]
    BY <1>1, <1>4, Known DEF Undisturbed
  <2> QED BY <1>1, <1>2, <1>4, <2>1, <2>2, <2>3, BusyStep
<1> QED BY <1>3, <1>4 DEF poll

LEMMA CalmStep == ASSUME NEW p \in Procs, Polling(p), pc[p] = "calm", Calm(p) PROVE AInv'
<1>1. /\ AInv /\ p = current /\ p \notin dead /\ Busy(p)
      /\ UNCHANGED <<locked, overlap, clicks, inside>>
  BY Known DEF Polling, Busy
<1>2. CASE "BSY" \notin Status
  <2>1. Goto(p, "ready") /\ UNCHANGED <<done, mixed>>
    BY <1>2 DEF Calm
  <2>2. /\ SchedInv' /\ Buried' /\ dead' = dead /\ since' \in [Procs -> -1 .. MaxTicks]
        /\ pc' = [pc EXCEPT ![p] = "ready"] /\ pc' \in [Procs -> Locations]
        /\ identify_in_progress' \in BOOLEAN /\ job' \in [Procs -> Jobs]
        /\ job'[p].op = job[p].op /\ job'[p].unit = job[p].unit /\ job'[p].back = job[p].back
        /\ \A q \in Procs \ {p} : pc'[q] = pc[q] /\ job'[q] = job[q]
    BY <1>1, <2>1, GotoMoves DEF Locations
  <2>3. pc'[p] = "ready"
    BY <2>2, Known, <1>1
  <2>4. dev' \in Devs /\ Offered(dev)'
    <3>1. job[p].unit \in Units /\ dev \in Devs /\ Offered(dev)
      BY <1>1, Known DEF Jobs
    <3>2. [dev EXCEPT !.unit = job[p].unit, !.status = Idle(job[p].unit)] \in Devs
      BY <3>1 DEF Devs, Idle
    <3>3. "DRQ" \notin [dev EXCEPT !.unit = job[p].unit, !.status = Idle(job[p].unit)].status
      BY <3>1 DEF Devs, Idle
    <3> QED BY <1>2, <3>1, <3>2, <3>3 DEF Calm, Offered
  <2>5. /\ done' \in [Procs -> 0 .. NBlocks + 1] /\ mixed' \subseteq Procs
        /\ ~overlap => mixed' = {}
    BY <1>1, <2>1, Known DEF Undisturbed
  <2>6. Busy(p)' /\ InStep(p)'
    BY <1>1, <2>1, <2>2, <2>3, Known DEF Busy, InStep
  <2> QED BY <1>1, <2>1, <2>2, <2>3, <2>4, <2>5, <2>6, BusyStep
<1>3. CASE "BSY" \in Status
  BY <1>3, PollStep DEF Calm
<1> QED BY <1>2, <1>3

LEMMA ReadyStep == ASSUME NEW p \in Procs, Polling(p), pc[p] = "ready", Ready(p) PROVE AInv'
<1>1. /\ AInv /\ p = current /\ p \notin dead /\ Busy(p)
      /\ UNCHANGED <<locked, overlap, clicks, inside>>
  BY Known DEF Polling, Busy
<1> DEFINE go == "BSY" \notin Status /\ (job[p].op \in Unready \/ "RDY" \in Status)
<1>2. CASE go
  <2>1. Goto(p, "data") /\ UNCHANGED <<done, mixed>>
    BY <1>2 DEF Ready
  <2>2. /\ SchedInv' /\ Buried' /\ dead' = dead /\ since' \in [Procs -> -1 .. MaxTicks]
        /\ pc' = [pc EXCEPT ![p] = "data"] /\ pc' \in [Procs -> Locations]
        /\ identify_in_progress' \in BOOLEAN /\ job' \in [Procs -> Jobs]
        /\ job'[p].op = job[p].op /\ job'[p].unit = job[p].unit /\ job'[p].back = job[p].back
        /\ \A q \in Procs \ {p} : pc'[q] = pc[q] /\ job'[q] = job[q]
    BY <1>1, <2>1, GotoMoves DEF Locations
  <2>3. pc'[p] = "data" /\ done[p] = 0 /\ done'[p] = 0 /\ job[p].back # "calm"
    BY <1>1, <2>1, <2>2, Known DEF InStep
  <2>4. PICK s \in {{"BSY"}, {"ERR"} \cup Idle(job[p].unit)} :
          dev' = [unit |-> job[p].unit, reset |-> FALSE, status |-> s,
                  by |-> p, left |-> Transfers(job[p].op)]
    BY <1>2 DEF Ready
  <2>5. Transfers(job[p].op) \in 1 .. NBlocks + 1
    BY TransfersType
  <2>6. /\ dev' \in Devs /\ Offered(dev)' /\ dev'.by = p
        /\ dev'.left = Transfers(job[p].op)
    <3>1. job[p].unit \in Units /\ s \in SUBSET {"BSY", "RDY", "DRQ", "ERR"} /\ "DRQ" \notin s
      BY <1>1, Known DEF Jobs, Idle
    <3>2. dev'.status = s /\ dev'.by = p /\ dev'.left = Transfers(job[p].op) /\ dev' \in Devs
      BY <2>4, <2>5, <3>1, QueuesAre DEF Devs
    <3> QED BY <3>1, <3>2 DEF Offered
  <2>7. /\ done' \in [Procs -> 0 .. NBlocks + 1] /\ mixed' \subseteq Procs
        /\ ~overlap => mixed' = {}
        /\ \A q \in Procs \ {p} : done'[q] = done[q]
    BY <1>1, <2>1, Known DEF Undisturbed
  <2>8. Busy(p)' /\ InStep(p)'
    BY <1>1, <2>2, <2>3, <2>5 DEF Busy, InStep
  <2>9. dev'.left = Transfers(job[p].op) - done'[p]
    BY <2>3, <2>5, <2>6
  <2> QED BY <1>1, <2>2, <2>6, <2>7, <2>8, <2>9, BusyStep
<1>3. CASE ~go
  <2>1. poll(p)
    BY <1>3 DEF Ready
  <2> QED BY <2>1, PollStep
<1> QED BY <1>2, <1>3

\* One sector is moved: what is left and what is still to move shrink together.
LEMMA DataStep == ASSUME NEW p \in Procs, Polling(p), pc[p] = "data", Data(p) PROVE AInv'
<1>1. /\ AInv /\ p = current /\ p \notin dead /\ Busy(p)
      /\ UNCHANGED <<locked, overlap, clicks, inside>>
  BY Known DEF Polling, Busy
<1> DEFINE t == Transfers(job[p].op)
           next == IF done'[p] < t THEN "data"
                   ELSE IF job[p].op = "transfer" THEN "finish" ELSE "success"
<1>2. CASE "DRQ" \in Status
  <2>1. /\ dev' = [dev EXCEPT !.left = @ - 1, !.status = {"BSY"}]
        /\ done' = [done EXCEPT ![p] = @ + 1]
        /\ mixed' = IF dev.by = p /\ dev.left = t - done[p] THEN mixed ELSE mixed \cup {p}
        /\ Goto(p, next)
    BY <1>2 DEF Data
  <2>2. next \in Locations \ {"user", "lock", "calm", "ready"}
    BY DEF Locations
  <2>3. /\ SchedInv' /\ Buried' /\ dead' = dead /\ since' \in [Procs -> -1 .. MaxTicks]
        /\ pc' = [pc EXCEPT ![p] = next] /\ pc' \in [Procs -> Locations]
        /\ identify_in_progress' \in BOOLEAN /\ job' \in [Procs -> Jobs]
        /\ job'[p].op = job[p].op /\ job'[p].unit = job[p].unit /\ job'[p].back = job[p].back
        /\ \A q \in Procs \ {p} : pc'[q] = pc[q] /\ job'[q] = job[q]
    BY <1>1, <2>1, <2>2, GotoMoves
  <2>4. /\ pc'[p] = next /\ t \in 1 .. NBlocks + 1 /\ done[p] \in 0 .. NBlocks + 1
        /\ done[p] < t /\ done'[p] = done[p] + 1 /\ NBlocks \in Nat /\ job[p].back # "calm"
        /\ dev \in Devs /\ dev.left > 0
    <3>1. "DRQ" \in dev.status
      BY <1>2 DEF Status
    <3>2. dev \in Devs /\ dev.left > 0
      BY <1>1, <3>1, Known DEF Offered
    <3>3. done[p] < t /\ job[p].back # "calm"
      BY <1>1, Known DEF InStep
    <3>4. t \in 1 .. NBlocks + 1 /\ NBlocks \in Nat
      BY TransfersType, QueuesAre
    <3>5. done \in [Procs -> 0 .. NBlocks + 1] /\ pc \in [Procs -> Locations]
      BY <1>1, Known
    <3>6. done'[p] = done[p] + 1
      BY <2>1, <3>5
    <3>7. pc'[p] = next
      BY <2>3, <3>5
    <3> QED BY <3>2, <3>3, <3>4, <3>5, <3>6, <3>7
  <2>5. done' \in [Procs -> 0 .. NBlocks + 1] /\ \A q \in Procs \ {p} : done'[q] = done[q]
    <3>1. done[p] + 1 \in 0 .. NBlocks + 1
      BY <2>4
    <3> QED BY <1>1, <2>1, <3>1, Known
  <2>6. /\ dev' \in Devs /\ Offered(dev)'
        /\ dev'.by = dev.by /\ dev'.left = dev.left - 1
    <3>1. dev.left - 1 \in 0 .. NBlocks + 1
      BY <2>4 DEF Devs
    <3> QED BY <2>1, <2>4, <3>1 DEF Devs, Offered
  <2>7. mixed' \subseteq Procs
    BY <1>1, <2>1, Known
  <2>8. ~overlap => mixed' = {} /\ dev'.by = p /\ dev'.left = t - done'[p]
    <3>1. ~overlap => mixed = {} /\ dev.by = p /\ dev.left = t - done[p]
      BY <1>1, Known DEF Undisturbed
    <3> QED BY <2>1, <2>4, <2>6, <3>1
  <2>9. Busy(p)' /\ InStep(p)'
    <3>1. Transfers(job'[p].op) = t
      BY <2>3
    <3> QED BY <2>2, <2>3, <2>4, <3>1 DEF Busy, InStep
  <2> HIDE DEF t, next
  <2> QED BY <1>1, <2>3, <2>5, <2>6, <2>7, <2>8, <2>9, BusyStep DEF t
<1>3. CASE "DRQ" \notin Status
  <2>1. poll(p)
    BY <1>3 DEF Data
  <2> QED BY <2>1, PollStep
<1> QED BY <1>2, <1>3

LEMMA FinishStep == ASSUME NEW p \in Procs, Polling(p), pc[p] = "finish", Finish(p) PROVE AInv'
<1>1. /\ AInv /\ p = current /\ p \notin dead /\ Busy(p)
      /\ UNCHANGED <<locked, overlap, clicks, inside>>
  BY Known DEF Polling, Busy
<1>2. CASE "BSY" \notin Status
  <2>1. Goto(p, "success") /\ UNCHANGED <<dev, done, mixed>>
    BY <1>2 DEF Finish
  <2>2. /\ SchedInv' /\ Buried' /\ dead' = dead /\ since' \in [Procs -> -1 .. MaxTicks]
        /\ pc' = [pc EXCEPT ![p] = "success"] /\ pc' \in [Procs -> Locations]
        /\ identify_in_progress' \in BOOLEAN /\ job' \in [Procs -> Jobs]
        /\ job'[p].op = job[p].op /\ job'[p].unit = job[p].unit /\ job'[p].back = job[p].back
        /\ \A q \in Procs \ {p} : pc'[q] = pc[q] /\ job'[q] = job[q]
    BY <1>1, <2>1, GotoMoves DEF Locations
  <2>3. pc'[p] = "success" /\ done'[p] = Transfers(job[p].op) /\ job[p].back # "calm"
    BY <1>1, <2>1, <2>2, Known DEF InStep
  <2>4. /\ done' \in [Procs -> 0 .. NBlocks + 1] /\ mixed' \subseteq Procs
        /\ ~overlap => mixed' = {}
        /\ \A q \in Procs \ {p} : done'[q] = done[q]
        /\ dev' \in Devs /\ Offered(dev)'
    BY <1>1, <2>1, Known DEF Undisturbed, Offered
  <2>5. Busy(p)' /\ InStep(p)'
    BY <1>1, <2>2, <2>3 DEF Busy, InStep
  <2> QED BY <1>1, <2>2, <2>3, <2>4, <2>5, BusyStep
<1>3. CASE "BSY" \in Status
  BY <1>3, PollStep DEF Finish
<1> QED BY <1>2, <1>3

LEMMA ReleaseStep == ASSUME NEW p \in Procs, Polling(p), pc[p] = "reset", Release(p) PROVE AInv'
<1>1. /\ AInv /\ p = current /\ p \notin dead /\ Busy(p)
      /\ UNCHANGED <<locked, overlap, clicks, inside, job, done, mixed, identify_in_progress>>
      /\ Sleep(p)
  BY Known DEF Polling, Busy, Release
<1>2. SchedInv' /\ Buried' /\ dead' = dead /\ since' \in [Procs -> -1 .. MaxTicks]
  BY <1>1, SleepMoves
<1>3. dev' = dev \/ dev' = [dev EXCEPT !.reset = FALSE]
  BY DEF Release
<1>4. dev' \in Devs /\ Offered(dev)'
  BY <1>1, <1>3, Known DEF Devs, Offered
<1>5. pc' = pc \/ pc' = [pc EXCEPT ![p] = "settle"]
  BY DEF Release
<1>6. /\ pc' \in [Procs -> Locations] /\ pc'[p] \in {"reset", "settle"}
      /\ \A q \in Procs \ {p} : pc'[q] = pc[q]
  BY <1>1, <1>5, Known DEF Locations
<1>7. /\ job' \in [Procs -> Jobs] /\ done' \in [Procs -> 0 .. NBlocks + 1] /\ mixed' \subseteq Procs
      /\ ~overlap => mixed' = {}
  BY <1>1, Known DEF Undisturbed
<1>8. identify_in_progress' \in BOOLEAN
  BY <1>1, Known, Zenon
<1>9. Busy(p)' /\ InStep(p)'
  BY <1>1, <1>6, Known DEF Busy, InStep
<1> QED BY <1>1, <1>2, <1>4, <1>6, <1>7, <1>8, <1>9, BusyStep

LEMMA SettleStep == ASSUME NEW p \in Procs, Polling(p), pc[p] = "settle", Settle(p) PROVE AInv'
<1>1. /\ AInv /\ p = current /\ p \notin dead /\ Busy(p)
      /\ UNCHANGED <<locked, overlap, clicks, inside, dev, done, mixed>>
  BY Known DEF Polling, Busy, Settle
<1>2. /\ done' \in [Procs -> 0 .. NBlocks + 1] /\ mixed' \subseteq Procs
      /\ ~overlap => mixed' = {}
      /\ dev' \in Devs /\ Offered(dev)'
  BY <1>1, Known DEF Undisturbed, Offered
<1>3. CASE Elapsed(p) < 1
  <2>1. Sleep(p) /\ UNCHANGED <<pc, job, identify_in_progress>>
    BY <1>3 DEF Settle
  <2>2. SchedInv' /\ Buried' /\ dead' = dead /\ since' \in [Procs -> -1 .. MaxTicks]
    BY <1>1, <2>1, SleepMoves
  <2>3. identify_in_progress' \in BOOLEAN
    BY <1>1, <2>1, Known, Zenon
  <2>4. pc' \in [Procs -> Locations] /\ job' \in [Procs -> Jobs] /\ Busy(p)' /\ InStep(p)'
    BY <1>1, <2>1, Known DEF Busy, InStep, Probing
  <2> QED BY <1>1, <1>2, <2>1, <2>2, <2>3, <2>4, BusyStep
<1>4. CASE ~(Elapsed(p) < 1)
  <2>1. /\ UNCHANGED schedVars
        /\ pc' = [pc EXCEPT ![p] = job[p].back]
        /\ since' = [since EXCEPT ![p] = IF job[p].back = "calm" THEN 0 ELSE -1]
    BY <1>4 DEF Settle
  <2>2. identify_in_progress' \in BOOLEAN
    BY <1>4, Zenon DEF Settle
  <2>3. SchedInv' /\ Buried' /\ dead' = dead
    BY <1>1, <2>1, Known DEF schedVars, SchedInv, SchedType, Apart, Buried, Awake
  <2>4. since' \in [Procs -> -1 .. MaxTicks]
    BY <1>1, <2>1, Known, ClockAssumption
  <2>5. PICK h \in BOOLEAN : h = (job[p].back = "calm")
    OBVIOUS
  <2>6. job' = [job EXCEPT ![p].back = "failed", ![p].hurried = h]
    BY <1>4, <2>5, Zenon DEF Settle
  <2>7. /\ job' \in [Procs -> Jobs] /\ job'[p].back = "failed" /\ job'[p].op = job[p].op
        /\ \A q \in Procs \ {p} : job'[q] = job[q]
    <3>1. job \in [Procs -> Jobs] /\ job[p] \in Jobs
      BY <1>1, Known
    <3>2. [job[p] EXCEPT !.back = "failed", !.hurried = h] \in Jobs
      BY <3>1 DEF Jobs
    <3>3. /\ [job[p] EXCEPT !.back = "failed", !.hurried = h].back = "failed"
          /\ [job[p] EXCEPT !.back = "failed", !.hurried = h].op = job[p].op
      BY <3>1 DEF Jobs
    <3>4. job'[p] = [job[p] EXCEPT !.back = "failed", !.hurried = h]
      BY <2>6, <3>1
    <3> QED BY <2>6, <3>1, <3>2, <3>3, <3>4
  <2>8. /\ pc' \in [Procs -> Locations] /\ pc'[p] = job[p].back /\ job[p].back \in {"calm", "failed"}
        /\ \A q \in Procs \ {p} : pc'[q] = pc[q]
    BY <1>1, <2>1, Known DEF Jobs, Locations
  <2>9. Busy(p)' /\ InStep(p)'
    BY <1>1, <2>7, <2>8, Known DEF Busy, InStep
  <2> QED BY <1>1, <1>2, <2>2, <2>3, <2>4, <2>7, <2>8, <2>9, BusyStep
<1> QED BY <1>3, <1>4

LEMMA WaitStep == ASSUME NEW p \in Procs, Polling(p), Wait(p) PROVE AInv'
<1>1. CASE pc[p] = "calm"
  BY <1>1, CalmStep DEF Wait
<1>2. CASE pc[p] = "ready"
  BY <1>2, ReadyStep DEF Wait
<1>3. CASE pc[p] = "data"
  BY <1>3, DataStep DEF Wait
<1>4. CASE pc[p] = "finish"
  BY <1>4, FinishStep DEF Wait
<1>5. CASE pc[p] = "reset"
  BY <1>5, ReleaseStep DEF Wait
<1>6. CASE pc[p] = "settle"
  BY <1>6, SettleStep DEF Wait
<1> QED BY <1>1, <1>2, <1>3, <1>4, <1>5, <1>6 DEF Polling
-----------------------------------------------------------------------------
\* The channel is taken: whoever else is on it is a probe, which overlap records.
LEMMA LockStep ==
  ASSUME AInv, NEW p \in Procs, p = current, pc[p] = "lock", lock(p), UNCHANGED <<clicks, inside>>
  PROVE  AInv'
<1>1. CASE locked
  <2>1. Block(Waiters) /\ UNCHANGED since /\ UNCHANGED ataVars
    BY <1>1 DEF lock, ataVars
  <2>2. SchedInv' /\ Buried' /\ dead \subseteq dead'
    BY <2>1, Known, QueuesAre, BlockMoves, DeadStayOff
  <2>3. /\ clicks' \in 0 .. CLICKS_PER_SECOND - 1 /\ inside' \in Procs \cup {NoProc}
        /\ since' \in [Procs -> -1 .. MaxTicks]
    BY <2>1, Known DEF TypeOK, ClockType
  <2> QED BY <2>1, <2>2, <2>3, IdleStep
<1>2. CASE ~locked
  <2>1. /\ locked' = TRUE /\ Goto(p, "calm") /\ UNCHANGED <<dev, done, mixed>>
        /\ overlap' = (overlap \/ \E q \in Procs \ dead : Probing(q))
    BY <1>2 DEF lock
  <2>2. /\ SchedInv' /\ Buried' /\ dead' = dead /\ since' \in [Procs -> -1 .. MaxTicks]
        /\ pc' = [pc EXCEPT ![p] = "calm"] /\ pc' \in [Procs -> Locations]
        /\ identify_in_progress' \in BOOLEAN /\ job' \in [Procs -> Jobs]
        /\ job'[p].op = job[p].op /\ job'[p].back = job[p].back
        /\ \A q \in Procs \ {p} : pc'[q] = pc[q] /\ job'[q] = job[q]
    BY <2>1, GotoMoves DEF Locations
  <2>3. pc'[p] = "calm" /\ ~Probing(p) /\ done[p] = 0 /\ job[p].back # "calm"
    BY <2>2, Known DEF InStep
  <2>4. TypeOK'
    <3>1. locked' \in BOOLEAN /\ overlap' \in BOOLEAN
      BY <2>1, Zenon
    <3>2. /\ clicks' \in 0 .. CLICKS_PER_SECOND - 1 /\ inside' \in Procs \cup {NoProc}
          /\ done' \in [Procs -> 0 .. NBlocks + 1] /\ dev' \in Devs /\ mixed' \subseteq Procs
      BY <2>1, Known DEF TypeOK, ClockType
    <3> QED BY <2>2, <3>1, <3>2, MakeTypeOK
  <2>5. \A q \in Procs : InStep(q)'
    BY <2>1, <2>2, <2>3, Known DEF InStep, Probing
  <2>6. \A q \in Procs : ~InMutex(q) /\ (InMutex(q)' => q = p)
    BY <1>2, <2>2, Known DEF OneHolder, InMutex, Probing
  <2>7. OneHolder'
    BY <2>1, <2>6 DEF OneHolder
  <2>8. Undisturbed'
    <3> SUFFICES ASSUME ~overlap' PROVE mixed' = {} /\ \A q \in Procs \ dead : Busy(q)' => q = p
      BY <2>2, <2>3 DEF Undisturbed
    <3>1. ~overlap /\ \A q \in Procs \ dead : ~Probing(q)
      BY <2>1, Zenon
    <3>2. \A q \in Procs \ dead : ~Busy(q)
      BY <2>6, <3>1 DEF Busy, InMutex
    <3> QED BY <2>1, <2>2, <3>1, <3>2, Known DEF Busy, Undisturbed
  <2>9. Offered(dev)'
    BY <2>1, Known
  <2> QED BY <2>2, <2>4, <2>5, <2>7, <2>8, <2>9 DEF AInv
<1> QED BY <1>1, <1>2

LEMMA CallStep ==
  ASSUME AInv, NEW p \in Procs, p = current, pc[p] = "user", Call(p), UNCHANGED <<clicks, inside>>
  PROVE  AInv'
<1>1. PICK u \in Units, op \in {"transfer", "packet"} :
        job' = [job EXCEPT ![p].op = op, ![p].unit = u]
  BY DEF Call
<1>2. /\ pc' = [pc EXCEPT ![p] = "lock"]
      /\ UNCHANGED <<schedVars, since, locked, identify_in_progress, done, dev, mixed, overlap>>
  BY DEF Call
<1>3. /\ job' \in [Procs -> Jobs] /\ job'[p].op = op /\ job'[p].back = job[p].back
      /\ \A q \in Procs \ {p} : job'[q] = job[q]
  <2>1. job \in [Procs -> Jobs] /\ job[p] \in Jobs
    BY Known
  <2>2. [job[p] EXCEPT !.op = op, !.unit = u] \in Jobs
    BY <2>1 DEF Jobs
  <2>3. /\ [job[p] EXCEPT !.op = op, !.unit = u].op = op
        /\ [job[p] EXCEPT !.op = op, !.unit = u].back = job[p].back
    BY <2>1 DEF Jobs
  <2> QED BY <1>1, <2>1, <2>2, <2>3
<1>4. /\ pc' \in [Procs -> Locations] /\ pc'[p] = "lock"
      /\ \A q \in Procs \ {p} : pc'[q] = pc[q]
  BY <1>2, Known DEF Locations
<1>5. SchedInv' /\ Buried' /\ dead' = dead
  BY <1>2, Known DEF schedVars, SchedInv, SchedType, Apart, Buried, Awake
<1>6. TypeOK'
  <2>1. locked' \in BOOLEAN /\ overlap' \in BOOLEAN /\ identify_in_progress' \in BOOLEAN
    BY <1>2, Known, Zenon
  <2>2. /\ clicks' \in 0 .. CLICKS_PER_SECOND - 1 /\ inside' \in Procs \cup {NoProc}
        /\ since' \in [Procs -> -1 .. MaxTicks]
        /\ done' \in [Procs -> 0 .. NBlocks + 1] /\ dev' \in Devs /\ mixed' \subseteq Procs
    BY <1>2, Known DEF TypeOK, ClockType
  <2> QED BY <1>3, <1>4, <1>5, <2>1, <2>2, MakeTypeOK
<1>7. \A q \in Procs : InStep(q)'
  BY <1>2, <1>3, <1>4, Known DEF InStep, Probing, Identify
<1>8. \A q \in Procs : (InMutex(q)' <=> InMutex(q)) /\ (Busy(q)' <=> Busy(q))
  BY <1>3, <1>4 DEF InMutex, Busy, Probing
<1>9. OneHolder'
  BY <1>2, <1>8, Known DEF OneHolder
<1>10. Undisturbed'
  BY <1>2, <1>3, <1>4, <1>5, <1>8, Known DEF Undisturbed, Busy
<1>11. Offered(dev)'
  BY <1>2, Known
<1> QED BY <1>5, <1>6, <1>7, <1>9, <1>10, <1>11 DEF AInv

LEMMA ProbeStep ==
  ASSUME AInv, NEW p \in Procs, p = current, pc[p] = "user", Probe(p), UNCHANGED <<clicks, inside>>
  PROVE  AInv'
<1>1. PICK u \in Units, op \in Identify :
        job' = [job EXCEPT ![p] = [op |-> op, unit |-> u, back |-> "calm", hurried |-> FALSE]]
  BY DEF Probe
<1>2. /\ Reset(p) /\ UNCHANGED <<locked, identify_in_progress, done, mixed>>
      /\ overlap' = (overlap \/ \E q \in Procs \ (dead \cup {p}) : InMutex(q) \/ Probing(q))
  BY DEF Probe
<1>3. /\ SchedInv' /\ Buried' /\ dead' = dead /\ since' \in [Procs -> -1 .. MaxTicks]
      /\ dev' \in Devs /\ Offered(dev)'
      /\ pc' = [pc EXCEPT ![p] = "reset"] /\ pc' \in [Procs -> Locations]
  BY <1>2, ResetMoves
<1>4. /\ job' \in [Procs -> Jobs] /\ job'[p].op = op
      /\ \A q \in Procs \ {p} : job'[q] = job[q]
  BY <1>1, Known DEF Jobs
<1>5. pc'[p] = "reset" /\ \A q \in Procs \ {p} : pc'[q] = pc[q]
  BY <1>3, Known
<1>6. TypeOK'
  <2>1. locked' \in BOOLEAN /\ overlap' \in BOOLEAN /\ identify_in_progress' \in BOOLEAN
    BY <1>2, Known, Zenon
  <2>2. /\ clicks' \in 0 .. CLICKS_PER_SECOND - 1 /\ inside' \in Procs \cup {NoProc}
        /\ done' \in [Procs -> 0 .. NBlocks + 1] /\ mixed' \subseteq Procs
    BY <1>2, Known DEF TypeOK, ClockType
  <2> QED BY <1>3, <1>4, <2>1, <2>2, MakeTypeOK
<1>7. \A q \in Procs : InStep(q)'
  <2>1. InStep(p)'
    BY <1>2, <1>5, Known DEF InStep
  <2>2. ASSUME NEW q \in Procs \ {p} PROVE InStep(q)'
    BY <1>2, <1>4, <1>5, <2>2, Known DEF InStep, Probing
  <2> QED BY <2>1, <2>2
<1>8. ~InMutex(p)' /\ \A q \in Procs \ {p} : (InMutex(q)' <=> InMutex(q)) /\ (Busy(q)' <=> Busy(q))
  BY <1>4, <1>5 DEF InMutex, Busy, Probing
<1>9. OneHolder'
  BY <1>2, <1>8, Known DEF OneHolder
<1>10. Undisturbed'
  <2> SUFFICES ASSUME ~overlap' PROVE mixed' = {} /\ \A q \in Procs \ dead : Busy(q)' => q = p
    BY <1>3, <1>5 DEF Undisturbed
  <2>1. ~overlap /\ \A q \in Procs \ (dead \cup {p}) : ~InMutex(q) /\ ~Probing(q)
    BY <1>2, Zenon
  <2>2. \A q \in Procs \ (dead \cup {p}) : ~Busy(q)
    BY <2>1 DEF Busy, InMutex
  <2> QED BY <1>2, <1>8, <2>1, <2>2, Known DEF Undisturbed
<1> QED BY <1>3, <1>6, <1>7, <1>9, <1>10 DEF AInv

\* The holder, or the probe, leaves the channel and what it has moved behind.
LEMMA ReturnStep ==
  ASSUME AInv, NEW p \in Procs, p = current, pc[p] \in {"success", "failed"}, Return(p),
         UNCHANGED <<clicks, inside>>
  PROVE  AInv'
<1>1. /\ pc' = [pc EXCEPT ![p] = "user"] /\ job' = [job EXCEPT ![p] = NoJob]
      /\ done' = [done EXCEPT ![p] = 0] /\ mixed' = mixed \ {p}
      /\ UNCHANGED <<since, dev, overlap>>
  BY DEF Return
<1>2. NoJob \in Jobs /\ NoJob.op = "none" /\ NoJob.back = "failed"
  BY QueuesAre DEF NoJob, Jobs
<1>3. /\ pc' \in [Procs -> Locations] /\ job' \in [Procs -> Jobs]
      /\ done' \in [Procs -> 0 .. NBlocks + 1]
      /\ pc'[p] = "user" /\ job'[p] = NoJob /\ done'[p] = 0
      /\ \A q \in Procs \ {p} : pc'[q] = pc[q] /\ job'[q] = job[q] /\ done'[q] = done[q]
  BY <1>1, <1>2, QueuesAre, Known DEF Locations
<1>4. SchedInv' /\ Buried' /\ dead' = dead
  <2>1. CASE Probing(p)
    BY <2>1, Known DEF Return, schedVars, SchedInv, SchedType, Apart, Buried, Awake
  <2>2. CASE ~Probing(p)
    <3>1. WakeOne(Waiters)
      BY <2>2 DEF Return
    <3> QED BY <3>1, Known, QueuesAre, WakeOneMoves, DeadStayOff DEF WakeOne
  <2> QED BY <2>1, <2>2
<1>5. TypeOK'
  <2>1. locked' \in BOOLEAN /\ overlap' \in BOOLEAN /\ identify_in_progress' \in BOOLEAN
    BY Known, Zenon DEF Return
  <2>2. /\ clicks' \in 0 .. CLICKS_PER_SECOND - 1 /\ inside' \in Procs \cup {NoProc}
        /\ since' \in [Procs -> -1 .. MaxTicks] /\ dev' \in Devs /\ mixed' \subseteq Procs
    BY <1>1, Known DEF TypeOK, ClockType
  <2> QED BY <1>3, <1>4, <2>1, <2>2, MakeTypeOK
<1>6. \A q \in Procs : InStep(q)'
  <2>1. InStep(p)'
    BY <1>2, <1>3 DEF InStep
  <2>2. ASSUME NEW q \in Procs \ {p} PROVE InStep(q)'
    BY <1>3, <2>2, Known DEF InStep, Probing
  <2> QED BY <2>1, <2>2
<1>7. /\ ~InMutex(p)' /\ ~Busy(p)'
      /\ \A q \in Procs \ {p} : (InMutex(q)' <=> InMutex(q)) /\ (Busy(q)' <=> Busy(q))
  BY <1>3 DEF InMutex, Busy, Probing
<1>8. OneHolder'
  <2>1. CASE Probing(p)
    <3>1. locked' = locked
      BY <2>1 DEF Return
    <3> QED BY <1>7, <3>1, Known DEF OneHolder
  <2>2. CASE ~Probing(p)
    <3>1. InMutex(p)
      BY <2>2 DEF InMutex
    <3>2. \A q \in Procs \ {p} : ~InMutex(q)
      BY <3>1, Known DEF OneHolder
    <3> QED BY <1>7, <3>2 DEF OneHolder
  <2> QED BY <2>1, <2>2
<1>9. Undisturbed'
  <2> SUFFICES ASSUME ~overlap
               PROVE  /\ mixed' = {}
                      /\ \A q \in Procs \ dead : Busy(q)' =>
                           /\ \A r \in Procs \ dead : Busy(r)' => r = q
                           /\ pc'[q] = "data" => dev'.by = q /\ dev'.left = Transfers(job'[q].op) - done'[q]
    BY <1>1, <1>4 DEF Undisturbed
  <2>1. mixed' = {}
    BY <1>1, Known DEF Undisturbed
  <2>2. \A q \in Procs \ dead : q # p => ~Busy(q)'
    BY <1>7, Known DEF Undisturbed, Busy
  <2> QED BY <1>7, <2>1, <2>2
<1>10. Offered(dev)'
  BY <1>1, Known
<1> QED BY <1>4, <1>5, <1>6, <1>8, <1>9, <1>10 DEF AInv

LEMMA KillStep ==
  ASSUME AInv, NEW p \in Procs, NEW q \in Procs, kill(p, q), UNCHANGED <<clicks, inside>>
  PROVE  AInv'
<1>1. Kill(q) /\ since' = [since EXCEPT ![q] = -1] /\ UNCHANGED ataVars
  BY DEF kill, ataVars
<1>2. SchedInv' /\ Buried' /\ dead \subseteq dead'
  BY <1>1, Known, KillMoves, DeadStayOff
<1>3. /\ clicks' \in 0 .. CLICKS_PER_SECOND - 1 /\ inside' \in Procs \cup {NoProc}
      /\ since' \in [Procs -> -1 .. MaxTicks]
  BY <1>1, Known, ClockAssumption DEF TypeOK, ClockType
<1> QED BY <1>1, <1>2, <1>3, IdleStep

LEMMA AnswerStep == ASSUME AInv, Answer PROVE AInv'
<1>1. UNCHANGED <<schedVars, clockVars, locked, identify_in_progress, pc, job, done, mixed, overlap>>
  BY DEF Answer
<1>2. PICK s \in {IF dev.left > 0 THEN {"DRQ"} ELSE {}, {"ERR"}} :
        dev' = [dev EXCEPT !.status = s \cup Idle(dev.unit)]
  BY DEF Answer
<1>3. dev' \in Devs /\ Offered(dev)' /\ dev'.by = dev.by /\ dev'.left = dev.left
  <2>1. s \subseteq {"DRQ", "ERR"} /\ ("DRQ" \in s => dev.left > 0)
    OBVIOUS
  <2> QED BY <1>2, <2>1, Known DEF Devs, Offered, Idle
<1>4. SchedInv' /\ Buried'
  BY <1>1, Known DEF schedVars, SchedInv, SchedType, Apart, Buried, Awake
<1>5. TypeOK'
  <2>1. locked' \in BOOLEAN /\ overlap' \in BOOLEAN /\ identify_in_progress' \in BOOLEAN
    BY <1>1, Known, Zenon
  <2>2. /\ clicks' \in 0 .. CLICKS_PER_SECOND - 1 /\ inside' \in Procs \cup {NoProc}
        /\ since' \in [Procs -> -1 .. MaxTicks] /\ mixed' \subseteq Procs
        /\ pc' \in [Procs -> Locations] /\ job' \in [Procs -> Jobs]
        /\ done' \in [Procs -> 0 .. NBlocks + 1]
    BY <1>1, Known DEF TypeOK, ClockType, clockVars
  <2> QED BY <1>3, <1>4, <2>1, <2>2, MakeTypeOK
<1>6. \A q \in Procs : InStep(q)' /\ (InMutex(q)' <=> InMutex(q)) /\ (Busy(q)' <=> Busy(q))
  BY <1>1, Known DEF InStep, InMutex, Busy, Probing
<1>7. OneHolder' /\ Undisturbed'
  BY <1>1, <1>3, <1>6, Known DEF OneHolder, Undisturbed, schedVars
<1> QED BY <1>3, <1>4, <1>5, <1>6, <1>7 DEF AInv

LEMMA TickStep == ASSUME AInv, Tick PROVE AInv'
<1>1. clock_interrupt /\ UNCHANGED ataVars
  BY DEF Tick
<1>2. SchedInv' /\ Buried' /\ dead \subseteq dead'
  BY <1>1, Known, InterruptMoves
<1>3. clicks \in 0 .. CLICKS_PER_SECOND - 1 /\ inside \in Procs \cup {NoProc}
      /\ CLICKS_PER_SECOND \in Nat \ {0} /\ MaxTicks \in Nat
  BY Known, ClockAssumption DEF TypeOK, ClockType
<1>4. clicks' \in 0 .. CLICKS_PER_SECOND - 1
  <2>1. clicks' = IF clicks + 1 >= CLICKS_PER_SECOND THEN 0 ELSE clicks + 1
    BY <1>1 DEF clock_interrupt
  <2> QED BY <1>3, <2>1
<1>5. since' \in [Procs -> -1 .. MaxTicks]
  <2>1. since' = Later
    BY <1>1 DEF clock_interrupt
  <2> QED BY <1>3, <2>1, Known DEF Later
<1>6. inside' \in Procs \cup {NoProc}
  <2>1. inside' = current \/ inside' = inside
    BY <1>1 DEF clock_interrupt
  <2> QED BY <1>3, <2>1, Known
<1> QED BY <1>1, <1>2, <1>4, <1>5, <1>6, IdleStep

LEMMA NextAInv == AInv /\ [Next]_vars => AInv'
<1> SUFFICES ASSUME AInv, [Next]_vars PROVE AInv'
  OBVIOUS
<1>1. /\ clicks \in 0 .. CLICKS_PER_SECOND - 1 /\ inside \in Procs \cup {NoProc}
      /\ since \in [Procs -> -1 .. MaxTicks]
  BY Known DEF TypeOK, ClockType
<1>2. CASE Answer
  BY <1>2, AnswerStep
<1>3. CASE Tick
  BY <1>3, TickStep
<1>4. CASE Acknowledge
  <2>1. UNCHANGED <<schedVars, clicks, since, ataVars>> /\ inside' = NoProc
    BY <1>4 DEF Acknowledge, acknowledge
  <2>2. SchedInv' /\ Buried' /\ dead' = dead
    BY <2>1, Known DEF schedVars, SchedInv, SchedType, Apart, Buried, Awake
  <2> QED BY <1>1, <2>1, <2>2, IdleStep
<1>5. CASE Idling
  <2>1. Dispatch /\ UNCHANGED <<clockVars, ataVars>>
    BY <1>5 DEF Idling
  <2>2. SchedInv' /\ Buried' /\ dead \subseteq dead'
    BY <2>1, Known, DispatchMoves, DeadStayOff
  <2> QED BY <1>1, <2>1, <2>2, IdleStep DEF clockVars
<1>6. ASSUME NEW p \in Procs, Step(p) PROVE AInv'
  <2>1. p = current /\ UNCHANGED <<clicks, inside>>
    BY <1>6 DEF Step, Runs
  <2>2. CASE pc[p] = "user" /\ Call(p)
    BY <2>1, <2>2, CallStep
  <2>3. CASE pc[p] = "user" /\ Probe(p)
    BY <2>1, <2>3, ProbeStep
  <2>4. ASSUME NEW q \in Procs, kill(p, q) PROVE AInv'
    BY <2>1, <2>4, KillStep
  <2>5. CASE pc[p] = "lock" /\ lock(p)
    BY <2>1, <2>5, LockStep
  <2>6. CASE pc[p] \in {"calm", "ready", "data", "finish", "reset", "settle"} /\ Wait(p)
    <3>1. Polling(p)
      BY <2>1, <2>6 DEF Polling, Wait
    <3> QED BY <2>6, <3>1, WaitStep
  <2>7. CASE pc[p] \in {"success", "failed"} /\ Return(p)
    BY <2>1, <2>7, ReturnStep
  <2> QED BY <1>6, <2>2, <2>3, <2>4, <2>5, <2>6, <2>7 DEF Step
<1>7. ASSUME NEW p \in Procs, Pauses(p) PROVE AInv'
  <2>1. Yield /\ UNCHANGED <<since, ataVars, clicks, inside>>
    BY <1>7 DEF Pauses, Pause
  <2>2. SchedInv' /\ Buried' /\ dead \subseteq dead'
    BY <2>1, Known, YieldMoves, DeadStayOff
  <2> QED BY <1>1, <2>1, <2>2, IdleStep
<1>8. CASE UNCHANGED vars
  <2>1. UNCHANGED <<schedVars, clockVars, ataVars>>
    BY <1>8 DEF vars
  <2>2. SchedInv' /\ Buried' /\ dead' = dead
    BY <2>1, Known DEF schedVars, SchedInv, SchedType, Apart, Buried, Awake
  <2> QED BY <1>1, <2>1, <2>2, IdleStep DEF clockVars
<1> QED BY <1>2, <1>3, <1>4, <1>5, <1>6, <1>7, <1>8 DEF Next

\* The invariant, from which the theorems follow.
THEOREM AInvHolds == Spec => []AInv
<1>1. Init => AInv
  BY InitAInv
<1>2. AInv /\ [Next]_vars => AInv'
  BY NextAInv
<1> QED BY <1>1, <1>2, PTL DEF Spec

\* The clock, the calls and the channel keep their types: no unit hands out more
\* sectors than the command asked for, and no call takes more.
THEOREM AtaTypeCorrect == Spec => []TypeOK
<1>1. AInv => TypeOK
  BY DEF AInv
<1> QED BY <1>1, AInvHolds, PTL

\* A call that reports success has moved its own sectors, all of them and each
\* once, whatever was killed, reset or timed out before: unless a probe met it.
THEOREM OwnDataHolds == Spec => []OwnData
<1>1. AInv => OwnData
  BY DEF AInv, InStep, Undisturbed, OwnData
<1> QED BY <1>1, AInvHolds, PTL

\* Of the commands of user programs, one at a time is between mutex_lock and
\* mutex_unlock, and the mutex says so, whichever of them is killed.
THEOREM OneHolderHolds == Spec => []OneHolder
<1>1. AInv => OneHolder
  BY DEF AInv
<1> QED BY <1>1, AInvHolds, PTL
=============================================================================
