---------------------------- MODULE SharingProofs ----------------------------
(***************************************************************************)
(* Theorems about what processes share and what they do not, each the      *)
(* implementation of an abstract specification, for any number of          *)
(* processes.  Mutex: types, mutual exclusion, no lost wakeup, and that it *)
(* implements Locking.  Pipe, of any size and with any requests: types,    *)
(* that nobody is stranded, and that it implements Fifo.  Paging, of any   *)
(* number of frames: types, that every page has one owner, and that it     *)
(* implements PrivateMemory.                                               *)
(***************************************************************************)
EXTENDS Mutex, Pipe, Paging, SchedProofs, TLAPS
-----------------------------------------------------------------------------
(* Mutex.                                                                  *)

\* Whoever waits is in the loop of mutex_lock, and a holder has set the flag.
MInv ==
  /\ MutexTypeOK /\ SchedInv
  /\ \A p \in Procs : pc[p] = "in" => locked
  /\ MutualExclusion
  /\ \A p \in Range(queue[Waiters]) : pc[p] = "try"
  /\ NoStrandedWaiter

LEMMA WaitersQueue == Waiters \in Queues
BY MutexAssumption

LEMMA WokenIsAwake ==
  ASSUME MutexTypeOK, NEW p \in Procs
  PROVE  Woken(p) <=> pc[p] = "try" /\ p \in Awake
BY SchedAssumption DEF Woken, Awake, MutexTypeOK

LEMMA NoneWaiting == ASSUME NEW S, NEW s \in Seq(S) PROVE s = <<>> <=> Range(s) = {}
<1>1. s = <<>> => Range(s) = {}
  BY EmptyList
<1>2. s # <<>> => s[1] \in Range(s)
  BY DEF Range
<1> QED BY <1>1, <1>2

LEMMA InitMInv == MutexInit => MInv
<1> SUFFICES ASSUME MutexInit PROVE MInv
  OBVIOUS
<1>1. SchedInv
  BY InitApart DEF MutexInit
<1>2. queue[Waiters] = <<>>
  BY WaitersQueue DEF MutexInit, SchedInit
<1>3. Range(queue[Waiters]) = {}
  BY <1>2, EmptyList
<1> QED BY <1>1, <1>2, <1>3 DEF MInv, MutexInit, MutexTypeOK, SchedInv, MutualExclusion, NoStrandedWaiter

\* The waiters, woken or not, of a step that moves nobody.
LEMMA StillAwake ==
  ASSUME MInv, SchedInv', Awake' = Awake, queue' = queue, UNCHANGED <<locked, pc, orphaned>>
  PROVE  MInv'
<1>1. MutexTypeOK'
  BY DEF MInv, MutexTypeOK, SchedInv
<1>2. ASSUME NEW p \in Procs, Woken(p) PROVE Woken(p)'
  <2>1. pc[p] = "try" /\ p \in Awake
    BY <1>2, WokenIsAwake DEF MInv
  <2>2. pc'[p] = "try" /\ p \in Awake'
    BY <2>1
  <2> QED BY <1>1, <2>2, SchedAssumption DEF Woken, Awake, MutexTypeOK
<1>3. NoStrandedWaiter'
  BY <1>2 DEF MInv, NoStrandedWaiter
<1> QED BY <1>1, <1>3 DEF MInv, MutualExclusion

LEMMA LockMInv == ASSUME MInv, mutex_lock PROVE MInv'
<1>1. /\ current \in Procs /\ pc[current] \in {"out", "try"} /\ SchedInv /\ MutexTypeOK
      /\ pc \in [Procs -> {"out", "try", "in"}]
  BY DEF mutex_lock, MInv, SchedInv, SchedType, MutexTypeOK
<1>2. CASE locked
  <2>1. /\ Block(Waiters) /\ pc' = [pc EXCEPT ![current] = "try"]
        /\ UNCHANGED <<locked, orphaned>>
    BY <1>2 DEF mutex_lock
  <2>2. SchedInv' /\ Range(queue'[Waiters]) = Range(queue[Waiters]) \cup {current}
    BY <1>1, <2>1, BlockMoves, WaitersQueue
  <2>3. MutexTypeOK'
    BY <1>1, <2>1, <2>2 DEF MutexTypeOK, SchedInv
  <2>4. \A p \in Procs : pc'[p] = "in" => pc[p] = "in"
    BY <1>1, <2>1
  <2>5. \A p \in Range(queue'[Waiters]) : pc'[p] = "try"
    <3>1. Range(queue[Waiters]) \subseteq Procs
      BY <1>1, ListRange, WaitersQueue DEF SchedInv, SchedType
    <3> QED BY <1>1, <2>1, <2>2, <3>1 DEF MInv
  <2>6. MutualExclusion' /\ NoStrandedWaiter'
    BY <1>2, <2>1, <2>4 DEF MInv, MutualExclusion, NoStrandedWaiter
  <2> QED BY <1>2, <2>1, <2>2, <2>3, <2>4, <2>5, <2>6 DEF MInv
<1>3. CASE ~locked
  <2>1. /\ locked' = TRUE /\ pc' = [pc EXCEPT ![current] = "in"]
        /\ UNCHANGED <<schedVars, orphaned>>
    BY <1>3 DEF mutex_lock
  <2>2. /\ SchedInv' /\ current' = current /\ queue' = queue
        /\ current \notin Range(queue[Waiters])
    BY <1>1, <2>1, WaitersQueue DEF schedVars, SchedInv, SchedType, Apart
  <2>3. MutexTypeOK'
    BY <1>1, <2>1, <2>2 DEF MutexTypeOK, SchedInv
  <2>4. \A p \in Procs : pc[p] # "in"
    BY <1>3 DEF MInv
  <2>5. MutualExclusion'
    BY <1>1, <2>1, <2>4 DEF MutualExclusion
  <2>6. \A p \in Range(queue'[Waiters]) : pc'[p] = "try"
    <3>1. Range(queue[Waiters]) \subseteq Procs
      BY <1>1, ListRange, WaitersQueue DEF SchedInv, SchedType
    <3> QED BY <1>1, <2>1, <2>2, <3>1 DEF MInv
  <2> QED BY <2>1, <2>2, <2>3, <2>5, <2>6 DEF MInv, NoStrandedWaiter
<1> QED BY <1>2, <1>3

LEMMA UnlockMInv == ASSUME MInv, mutex_unlock PROVE MInv'
<1>1. /\ current \in Procs /\ pc[current] = "in" /\ SchedInv /\ MutexTypeOK
      /\ locked' = FALSE /\ WakeOne(Waiters) /\ pc' = [pc EXCEPT ![current] = "out"]
      /\ UNCHANGED orphaned /\ pc \in [Procs -> {"out", "try", "in"}]
      /\ queue[Waiters] \in Seq(Procs) /\ Range(queue[Waiters]) \subseteq Procs
  <2>1. queue[Waiters] \in Seq(Procs)
    BY WaitersQueue DEF MInv, SchedInv, SchedType
  <2>2. Range(queue[Waiters]) \subseteq Procs
    BY <2>1, ListRange
  <2> QED BY <2>1, <2>2 DEF mutex_unlock, MInv, SchedInv, SchedType, MutexTypeOK
<1>2. /\ SchedInv' /\ UNCHANGED current
      /\ queue[Waiters] = <<>> => queue' = queue
      /\ queue[Waiters] # <<>> => /\ Head(queue[Waiters]) \in Range(queue[Waiters])
                                  /\ Awake' = Awake \cup {Head(queue[Waiters])}
                                  /\ Range(queue'[Waiters])
                                       = Range(queue[Waiters]) \ {Head(queue[Waiters])}
  BY <1>1, WakeOneMoves, WaitersQueue
<1>3. MutexTypeOK'
  BY <1>1, <1>2 DEF MutexTypeOK, SchedInv
<1>4. \A p \in Procs : pc'[p] # "in"
  BY <1>1 DEF MInv, MutualExclusion
<1>5. current \notin Range(queue[Waiters])
  BY <1>1, WaitersQueue DEF SchedInv, Apart
<1>6. Range(queue'[Waiters]) \subseteq Range(queue[Waiters])
  BY <1>2
<1>7. \A p \in Range(queue'[Waiters]) : pc'[p] = "try"
  BY <1>1, <1>5, <1>6 DEF MInv
<1>8. NoStrandedWaiter'
  <2> SUFFICES ASSUME queue'[Waiters] # <<>> PROVE \E p \in Procs : Woken(p)'
    BY DEF NoStrandedWaiter
  <2>1. queue[Waiters] # <<>>
    BY <1>2
  <2>2. PICK h \in Procs : h = Head(queue[Waiters])
    BY <1>1, <1>2, <2>1
  <2>3. h \in Procs /\ h \in Range(queue[Waiters]) /\ h \in Awake'
    BY <1>1, <1>2, <2>1, <2>2
  <2>4. pc'[h] = "try"
    BY <1>1, <1>5, <2>3 DEF MInv
  <2>5. Woken(h)'
    BY <1>3, <2>3, <2>4, SchedAssumption DEF Woken, Awake, MutexTypeOK
  <2> QED BY <2>5
<1> QED BY <1>2, <1>3, <1>4, <1>7, <1>8 DEF MInv, MutualExclusion

LEMMA KillMInv == ASSUME MInv, NEW p \in Procs, kill(p) PROVE MInv'
<1>1. /\ SchedInv /\ MutexTypeOK /\ Kill(p) /\ UNCHANGED <<locked, pc>>
      /\ orphaned' = (orphaned \/ pc[p] = "in" \/ Woken(p))
  BY DEF kill, MInv
<1>2. /\ SchedInv' /\ UNCHANGED current /\ Awake' = Awake \ {p}
      /\ Range(queue'[Waiters]) = Range(queue[Waiters]) \ {p}
  BY <1>1, KillMoves, WaitersQueue
<1>3. orphaned' \in BOOLEAN
  BY <1>1, Zenon DEF MutexTypeOK
<1>4. MutexTypeOK'
  BY <1>1, <1>2, <1>3 DEF MutexTypeOK, SchedInv
<1>5. NoStrandedWaiter'
  <2> SUFFICES ASSUME ~locked', ~orphaned', queue'[Waiters] # <<>>
               PROVE  \E r \in Procs : Woken(r)'
    BY DEF NoStrandedWaiter
  <2>1. ~locked /\ ~orphaned /\ ~Woken(p)
    BY <1>1
  <2>2. queue[Waiters] # <<>>
    <3>1. queue[Waiters] \in Seq(Procs) /\ queue'[Waiters] \in Seq(Procs)
      BY <1>2, WaitersQueue DEF MInv, SchedInv, SchedType
    <3>2. Range(queue'[Waiters]) # {}
      BY <3>1, NoneWaiting
    <3>3. Range(queue[Waiters]) # {}
      BY <1>2, <3>2
    <3> QED BY <3>1, <3>3, NoneWaiting
  <2>3. PICK r \in Procs : Woken(r)
    BY <2>1, <2>2 DEF MInv, NoStrandedWaiter
  <2>4. r # p /\ pc[r] = "try" /\ r \in Awake
    BY <1>1, <2>1, <2>3, WokenIsAwake
  <2>5. r \in Awake' /\ pc'[r] = "try"
    BY <1>1, <1>2, <2>4
  <2>6. Woken(r)'
    BY <1>4, <2>5, SchedAssumption DEF Woken, Awake, MutexTypeOK
  <2> QED BY <2>6
<1> QED BY <1>1, <1>2, <1>4, <1>5 DEF MInv, MutualExclusion

LEMMA NextMInv == MInv /\ [MutexNext]_mutexVars => MInv'
<1> SUFFICES ASSUME MInv, [MutexNext]_mutexVars PROVE MInv'
  OBVIOUS
<1>1. CASE mutex_lock
  BY <1>1, LockMInv
<1>2. CASE mutex_unlock
  BY <1>2, UnlockMInv
<1>3. CASE MutexOthers
  <2>1. SchedInv /\ UNCHANGED <<locked, pc, orphaned>> /\ (Dispatch \/ Yield)
    BY <1>3 DEF MutexOthers, MInv
  <2>2. SchedInv' /\ Awake' = Awake /\ queue' = queue
    BY <2>1, DispatchMoves, YieldMoves
  <2> QED BY <2>1, <2>2, StillAwake
<1>4. CASE \E p \in Procs : kill(p)
  BY <1>4, KillMInv
<1>5. CASE UNCHANGED mutexVars
  <2>1. SchedInv' /\ Awake' = Awake /\ queue' = queue /\ UNCHANGED <<locked, pc, orphaned>>
    BY <1>5 DEF mutexVars, MInv, SchedInv, SchedType, Apart, Awake
  <2> QED BY <2>1, StillAwake
<1> QED BY <1>1, <1>2, <1>3, <1>4, <1>5 DEF MutexNext

\* The invariant, from which the safety theorems follow.
THEOREM MInvHolds == MutexSpec => []MInv
<1>1. MutexInit => MInv
  BY InitMInv
<1>2. MInv /\ [MutexNext]_mutexVars => MInv'
  BY NextMInv
<1> QED BY <1>1, <1>2, PTL DEF MutexSpec

\* The variables of mutex.c and of the lists keep their types.
THEOREM MutexTypeCorrect == MutexSpec => []MutexTypeOK
<1>1. MInv => MutexTypeOK
  BY DEF MInv
<1> QED BY <1>1, MInvHolds, PTL

\* However many processes compete for the disk, and whoever is killed, two are
\* never between mutex_lock and mutex_unlock.
THEOREM MutualExclusionHolds == MutexSpec => []MutualExclusion
<1>1. MInv => MutualExclusion
  BY DEF MInv
<1> QED BY <1>1, MInvHolds, PTL

\* No wakeup is lost: a free mutex with waiters has one of them awake.
THEOREM NoStrandedWaiterHolds == MutexSpec => []NoStrandedWaiter
<1>1. MInv => NoStrandedWaiter
  BY DEF MInv
<1> QED BY <1>1, MInvHolds, PTL

\* The dead neither run nor wait, whatever the mutex does.
LEMMA MutexBuried == MInv /\ Buried /\ [MutexNext]_mutexVars => Buried'
<1> SUFFICES ASSUME MInv, Buried, [MutexNext]_mutexVars PROVE Buried'
  OBVIOUS
<1>1. SchedInv /\ Waiters \in Queues
  BY WaitersQueue DEF MInv
<1>2. CASE mutex_lock \/ mutex_unlock
  <2>1. Block(Waiters) \/ WakeOne(Waiters) \/ UNCHANGED schedVars
    BY <1>2 DEF mutex_lock, mutex_unlock
  <2>2. CASE Block(Waiters) \/ WakeOne(Waiters)
    BY <1>1, <2>2, DeadStayOff
  <2>3. CASE UNCHANGED schedVars
    BY <2>3 DEF schedVars, Buried, Awake
  <2> QED BY <2>1, <2>2, <2>3
<1>3. CASE MutexOthers
  BY <1>1, <1>3, DeadStayOff DEF MutexOthers
<1>4. CASE \E p \in Procs : kill(p)
  BY <1>1, <1>4, DeadStayOff DEF kill
<1>5. CASE UNCHANGED mutexVars
  BY <1>5 DEF mutexVars, Buried, Awake
<1> QED BY <1>2, <1>3, <1>4, <1>5 DEF MutexNext

\* A step of the lock, or none.
Locked == \/ \E p \in Procs : Abstract!Enter(p) \/ Abstract!Leave(p) \/ Abstract!Die(p)
          \/ UNCHANGED <<holders, dead>>

\* Every step of the mutex is a step of the lock, or none.
LEMMA LockStep == MInv /\ Buried /\ [MutexNext]_mutexVars => Locked
<1> SUFFICES ASSUME MInv, Buried, [MutexNext]_mutexVars PROVE Locked
  OBVIOUS
<1>1. /\ MutualExclusion /\ pc \in [Procs -> {"out", "try", "in"}]
      /\ current \in Procs \cup {NoProc} /\ \A p \in Procs : pc[p] = "in" => locked
  BY DEF MInv, MutexTypeOK, SchedType
<1>2. current \in Procs => current \notin dead
  BY DEF Buried, Awake
<1>3. CASE mutex_lock
  <2>1. current \in Procs /\ pc[current] # "in" /\ dead' = dead
    BY <1>1, <1>3 DEF mutex_lock, Block, schedVars
  <2>2. CASE locked
    <3>1. pc' = [pc EXCEPT ![current] = "try"]
      BY <1>3, <2>2 DEF mutex_lock
    <3>2. holders' = holders
      BY <1>1, <2>1, <3>1 DEF holders
    <3> QED BY <2>1, <3>2 DEF Locked
  <2>3. CASE ~locked
    <3>1. pc' = [pc EXCEPT ![current] = "in"]
      BY <1>3, <2>3 DEF mutex_lock
    <3>2. holders = {}
      BY <1>1, <2>3 DEF holders
    <3>3. holders' = {current}
      BY <1>1, <2>1, <2>3, <3>1 DEF holders
    <3> QED BY <1>2, <2>1, <3>2, <3>3 DEF Locked, Abstract!Enter
  <2> QED BY <2>2, <2>3
<1>4. CASE mutex_unlock
  <2>1. /\ current \in Procs /\ pc[current] = "in" /\ dead' = dead
        /\ pc' = [pc EXCEPT ![current] = "out"]
    BY <1>1, <1>4 DEF mutex_unlock, WakeOne
  <2>2. current \in holders
    BY <2>1 DEF holders
  <2>3. holders' = holders \ {current}
    BY <1>1, <2>1 DEF holders
  <2> QED BY <1>2, <2>1, <2>2, <2>3 DEF Locked, Abstract!Leave
<1>5. CASE MutexOthers
  BY <1>5 DEF MutexOthers, Dispatch, Yield, holders, Locked
<1>6. CASE \E p \in Procs : kill(p)
  <2>1. PICK p \in Procs : kill(p)
    BY <1>6
  <2>2. dead' = dead \cup {p} /\ holders' = holders
    BY <2>1 DEF kill, Kill, holders
  <2> QED BY <2>2 DEF Locked, Abstract!Die
<1>7. CASE UNCHANGED mutexVars
  BY <1>7 DEF mutexVars, holders, Locked
<1> QED BY <1>3, <1>4, <1>5, <1>6, <1>7 DEF MutexNext

\* mutex.c implements Locking: the flag, the queue and the processes that compete
\* after a wakeup come to one holder, that alone gives the lock up, and a process
\* that is killed never takes or gives it up again.
THEOREM ImplementsLock == MutexSpec => IsLock
<1>1. MutexInit => Abstract!Unused
  BY DEF MutexInit, SchedInit, Abstract!Unused, holders
<1>2. MutexInit => Buried
  BY InitBuried DEF MutexInit
<1>3. MutexSpec => []Buried
  BY <1>2, MutexBuried, MInvHolds, PTL DEF MutexSpec
<1>4. MInv /\ Buried /\ [MutexNext]_mutexVars
        => [\E p \in Procs : Abstract!Enter(p) \/ Abstract!Leave(p) \/ Abstract!Die(p)]_<<holders, dead>>
  BY LockStep DEF Locked
<1> QED BY <1>1, <1>3, <1>4, MInvHolds, PTL DEF MutexSpec, IsLock, Abstract!Spec, Abstract!Locks
-----------------------------------------------------------------------------
(* Pipe.                                                                   *)

held == Distance(read_pos, write_pos, PIPE_SIZE)

\* Where the calls are: only a blocking call sleeps, and one that has copied a
\* byte still has one to go.
InCall ==
  /\ \A p \in Asleep : call[p].at = "test" /\ call[p].blocking = TRUE
  /\ \A p \in Procs : /\ call[p].at = "out" => call[p].done = 0
                      /\ call[p].at = "sleep" => call[p].blocking = TRUE
                      /\ call[p].at = "advance" => call[p].done < call[p].size

\* Until a collision or an overrun, the one reader inside a byte has the oldest
\* one, and the one writer inside a byte has a slot for it.
OneEach ==
  ~broken => \A p \in Procs : call[p].at = "advance" =>
    /\ call[p].op = "read" => ~Empty /\ call[p].byte = buffer[read_pos]
    /\ call[p].op = "write" => ~Full
    /\ \A q \in Procs : call[q].at = "advance" /\ call[q].op = call[p].op => q = p

PInv == TypeOK /\ SchedInv /\ InCall /\ OneEach /\ NoStrandedSleeper

LEMMA SleepersQueue == Sleepers \in Queues
BY PipeAssumption

LEMMA SomeByteIs == SomeByte \in Bytes
BY PipeAssumption DEF SomeByte

LEMMA NoCallIs ==
  /\ NoCall \in Call /\ NoCall.at = "out" /\ NoCall.blocking = FALSE /\ NoCall.done = 0
BY SomeByteIs, PipeAssumption DEF NoCall, Call

\* The state of the ring and of the lists, unfolded once for all proofs.
Unfolded ==
  /\ PIPE_SIZE \in Nat \ {0, 1}
  /\ read_pos \in 0 .. PIPE_SIZE - 1 /\ write_pos \in 0 .. PIPE_SIZE - 1
  /\ buffer \in [0 .. PIPE_SIZE - 1 -> Bytes]
  /\ call \in [Procs -> Call] /\ Asleep \subseteq Procs
  /\ current \in Procs \cup {NoProc} /\ current \notin Asleep
  /\ Contents = Slots(buffer, PIPE_SIZE, read_pos, held)
  /\ Contents \in Seq(Bytes) /\ Len(Contents) = held /\ held \in Nat
  /\ held = 0 <=> Empty
  /\ held < PIPE_SIZE - 1 <=> ~Full

LEMMA Unfold == TypeOK /\ SchedInv => Unfolded
<1> SUFFICES ASSUME TypeOK, SchedInv PROVE Unfolded
  OBVIOUS
<1>1. /\ PIPE_SIZE \in Nat \ {0, 1}
      /\ read_pos \in 0 .. PIPE_SIZE - 1 /\ write_pos \in 0 .. PIPE_SIZE - 1
      /\ buffer \in [0 .. PIPE_SIZE - 1 -> Bytes]
      /\ call \in [Procs -> Call]
  BY PipeAssumption DEF TypeOK
<1>2. /\ current \in Procs \cup {NoProc} /\ current \notin Asleep
      /\ queue[Sleepers] \in Seq(Procs)
  BY SleepersQueue DEF SchedInv, SchedType, Apart, Asleep
<1>3. Asleep \subseteq Procs
  BY <1>2, ListRange DEF Asleep
<1>4. Contents = Slots(buffer, PIPE_SIZE, read_pos, held)
  BY DEF Contents, Slots, held, Distance
<1>5. Contents \in Seq(Bytes) /\ Len(Contents) = held
  BY <1>1, <1>4, RingContents DEF held
<1>6. held \in 0 .. PIPE_SIZE - 1
  BY <1>1, RingPlaces DEF held
<1>7. (held = 0 <=> Empty) /\ (held < PIPE_SIZE - 1 <=> ~Full)
  BY <1>1, RingMoves DEF held, Empty, Full
<1> QED BY <1>1, <1>2, <1>3, <1>4, <1>5, <1>6, <1>7 DEF Unfolded

LEMMA UnfoldNext == TypeOK' /\ SchedInv' => Unfolded'
BY Unfold, PTL

\* Whether a sleeper is blocked depends on its direction and the positions only.
LEMMA BlockedSleeper ==
  ASSUME NEW r \in Call, r.blocking = TRUE
  PROVE  Blocked(r) <=> IF r.op = "read" THEN Empty ELSE Full
BY DEF Call, Blocked

LEMMA InitPInv == Init => PInv
<1> SUFFICES ASSUME Init PROVE PInv
  OBVIOUS
<1>1. SchedInv
  BY InitApart DEF Init
<1>2. TypeOK
  <2>1. flushed \in BOOLEAN /\ unannounced \in BOOLEAN /\ broken \in BOOLEAN
    BY Zenon DEF Init
  <2>2. 0 \in 0 .. PIPE_SIZE - 1
    BY PipeAssumption
  <2> QED BY <1>1, <2>1, <2>2, SomeByteIs, NoCallIs DEF Init, TypeOK, SchedInv
<1>3. Asleep = {}
  BY SleepersQueue, EmptyList DEF Init, SchedInit, Asleep
<1>4. \A p \in Procs : call[p].at = "out" /\ call[p].done = 0
  BY NoCallIs DEF Init
<1> QED BY <1>1, <1>2, <1>3, <1>4 DEF PInv, InCall, OneEach, NoStrandedSleeper
-----------------------------------------------------------------------------
\* What a step that leaves the positions and the sleepers alone has to see to,
\* for nobody to be stranded.
LEMMA StillServed ==
  ASSUME NoStrandedSleeper, TypeOK, SchedInv, InCall,
         UNCHANGED <<read_pos, write_pos>>, Asleep' = Asleep,
         \A p \in Procs \ {current} : call'[p] = call[p],
         unannounced => unannounced',
         \A p \in Procs : p = current /\ Transferring(p) => unannounced' \/ Transferring(p)'
  PROVE  NoStrandedSleeper'
<1>1. Asleep \subseteq Procs /\ current \notin Asleep /\ current \in Procs \cup {NoProc}
  BY Unfold DEF Unfolded
<1>2. \A p \in Asleep : call'[p] = call[p]
  BY <1>1
<1> SUFFICES ASSUME ~unannounced', NEW p \in Asleep', ~Blocked(call[p])'
             PROVE  \E q \in Procs : Transferring(q)'
  BY Zenon DEF NoStrandedSleeper
<1>3. p \in Asleep /\ call'[p] = call[p]
  BY <1>2
<1>4. Blocked(call[p])' <=> Blocked(call[p])
  BY <1>3, Zenon DEF Blocked, Empty, Full
<1>5. PICK q \in Procs : Transferring(q)
  BY <1>3, <1>4, Zenon DEF NoStrandedSleeper
<1>6. Transferring(q)'
  <2>1. CASE q = current
    BY <1>5, <2>1
  <2>2. CASE q # current
    <3>1. call'[q] = call[q]
      BY <2>2
    <3>2. call[q].blocking /\ call[q].done > 0 /\ q \notin Asleep
      BY <1>5, Zenon DEF Transferring
    <3>3. call'[q].blocking /\ call'[q].done > 0 /\ q \notin Asleep'
      BY <3>1, <3>2, Zenon
    <3> QED BY <3>3, Zenon DEF Transferring
  <2> QED BY <2>1, <2>2
<1> QED BY <1>6

\* A step of a call that leaves the ring and the lists alone.
LEMMA CallStep ==
  ASSUME PInv, current \in Procs, UNCHANGED <<schedVars, read_pos, write_pos, last>>,
         buffer' \in [0 .. PIPE_SIZE - 1 -> Bytes],
         flushed' \in BOOLEAN, unannounced' \in BOOLEAN, broken' \in BOOLEAN,
         call' \in [Procs -> Call],
         \A p \in Procs \ {current} : call'[p] = call[p]
  PROVE  /\ TypeOK' /\ SchedInv' /\ Asleep' = Asleep /\ Empty' = Empty /\ Full' = Full
         /\ \A p \in Asleep' : call'[p].at = "test" /\ call'[p].blocking = TRUE
<1>1. TypeOK /\ SchedInv /\ InCall
  BY DEF PInv
<1>2. SchedInv'
  BY <1>1 DEF schedVars, SchedInv, SchedType, Apart
<1>3. TypeOK'
  BY <1>1, <1>2 DEF TypeOK, SchedInv
<1>4. Asleep' = Asleep /\ Empty' = Empty /\ Full' = Full
  BY DEF schedVars, Asleep, Empty, Full
<1>5. Asleep \subseteq Procs /\ current \notin Asleep
  BY <1>1, Unfold DEF Unfolded
<1> QED BY <1>1, <1>2, <1>3, <1>4, <1>5 DEF InCall

\* What every step starts from.
LEMMA Known ==
  ASSUME PInv
  PROVE  /\ TypeOK /\ SchedInv /\ InCall /\ OneEach /\ NoStrandedSleeper
         /\ call \in [Procs -> Call] /\ current \in Procs \cup {NoProc}
         /\ current \notin Asleep /\ Asleep \subseteq Procs
         /\ buffer \in [0 .. PIPE_SIZE - 1 -> Bytes]
         /\ flushed \in BOOLEAN /\ unannounced \in BOOLEAN /\ broken \in BOOLEAN
<1>1. TypeOK /\ SchedInv
  BY DEF PInv
<1>2. Unfolded
  BY <1>1, Unfold
<1> QED BY <1>1, <1>2 DEF PInv, Unfolded, TypeOK

LEMMA CallPInv == ASSUME PInv, pipe_call PROVE PInv'
<1>1. /\ current \in Procs /\ call[current].at = "out"
      /\ UNCHANGED <<schedVars, pipeVars, history>>
  BY Known DEF pipe_call, At, this
<1>2. PICK op \in {"read", "write"}, blocking \in BOOLEAN, n \in 1 .. MaxSize :
        call' = [call EXCEPT ![current] =
                 [at |-> "test", op |-> op, blocking |-> blocking, size |-> n, done |-> 0,
                  byte |-> SomeByte, irq |-> FALSE]]
  BY DEF pipe_call
<1> DEFINE r == [at |-> "test", op |-> op, blocking |-> blocking, size |-> n, done |-> 0,
                 byte |-> SomeByte, irq |-> FALSE]
<1>3. r \in Call /\ r.at = "test"
  BY SomeByteIs, PipeAssumption DEF Call
<1> HIDE DEF r
<1>4. /\ call' = [call EXCEPT ![current] = r] /\ call' \in [Procs -> Call]
      /\ call'[current].at = "test"
      /\ \A p \in Procs \ {current} : call'[p] = call[p]
  BY <1>1, <1>2, <1>3, Known DEF r
<1>5. /\ TypeOK' /\ SchedInv' /\ Asleep' = Asleep /\ Empty' = Empty /\ Full' = Full
      /\ \A p \in Asleep' : call'[p].at = "test" /\ call'[p].blocking = TRUE
  BY <1>1, <1>4, Known, CallStep DEF pipeVars, history
<1>6. InCall'
  BY <1>1, <1>4, <1>5, Known DEF InCall
<1>7. OneEach'
  BY <1>1, <1>4, <1>5, Known DEF OneEach, pipeVars, history
<1>8. \A p \in Procs : p = current => ~Transferring(p)
  <2>1. call[current].done = 0
    BY <1>1, Known DEF InCall
  <2> QED BY <2>1 DEF Transferring
<1>9. NoStrandedSleeper'
  BY <1>1, <1>4, <1>5, <1>8, Known, StillServed DEF pipeVars, history
<1> QED BY <1>5, <1>6, <1>7, <1>9 DEF PInv

\* A call that returns has no byte under way, and was not the last hope of a
\* sleeper: it wakes all, or has moved nothing that was not announced.
LEMMA ReturnPInv ==
  ASSUME PInv, current \in Procs, call[current].at = "test",
         Return, UNCHANGED <<schedVars, buffer, read_pos, write_pos, last, broken>>,
         flushed' \in BOOLEAN, unannounced' \in BOOLEAN, unannounced => unannounced',
         Transferring(current) => unannounced'
  PROVE  PInv'
<1>1. /\ call' \in [Procs -> Call] /\ call'[current].at = "out" /\ call'[current].done = 0
      /\ \A p \in Procs \ {current} : call'[p] = call[p]
  BY Known, NoCallIs DEF Return
<1>2. broken' \in BOOLEAN /\ buffer' \in [0 .. PIPE_SIZE - 1 -> Bytes]
  BY Known, Zenon
<1>3. /\ TypeOK' /\ SchedInv' /\ Asleep' = Asleep /\ Empty' = Empty /\ Full' = Full
      /\ \A p \in Asleep' : call'[p].at = "test" /\ call'[p].blocking = TRUE
  BY <1>1, <1>2, CallStep
<1>4. InCall'
  BY <1>1, <1>3, Known DEF InCall
<1>5. OneEach'
  BY <1>1, <1>3, Known DEF OneEach
<1>6. NoStrandedSleeper'
  BY <1>1, <1>3, Known, StillServed
<1> QED BY <1>3, <1>4, <1>5, <1>6 DEF PInv

LEMMA FinishPInv == ASSUME PInv, finish PROVE PInv'
<1>1. /\ current \in Procs /\ call[current].at = "test" /\ Return /\ flushed' = FALSE
      /\ UNCHANGED <<buffer, read_pos, write_pos, last, broken>>
  BY Known DEF finish, At, this
<1>2. CASE ~call[current].blocking
  <2>1. UNCHANGED <<schedVars, unannounced>>
    BY <1>2, Zenon DEF finish, this
  <2>2. ~Transferring(current)
    BY <1>2, Zenon DEF Transferring
  <2>3. flushed' \in BOOLEAN /\ unannounced' \in BOOLEAN
    BY <1>1, <2>1, Known, Zenon
  <2> QED BY <1>1, <2>1, <2>2, <2>3, ReturnPInv
<1>3. CASE call[current].blocking
  <2>1. WakeAll(Sleepers) /\ unannounced' = FALSE
    BY <1>3, Zenon DEF finish, this
  <2>2. SchedInv' /\ queue'[Sleepers] = <<>>
    BY <2>1, Known, WakeAllMoves, SleepersQueue
  <2>3. Asleep' = {}
    BY <2>2, EmptyList DEF Asleep
  <2>4. /\ call' \in [Procs -> Call] /\ call'[current].at = "out" /\ call'[current].done = 0
        /\ \A p \in Procs \ {current} : call'[p] = call[p]
    BY <1>1, Known, NoCallIs DEF Return
  <2>5. TypeOK'
    <3>1. flushed' \in BOOLEAN /\ unannounced' \in BOOLEAN /\ broken' \in BOOLEAN
      BY <1>1, <2>1, Known, Zenon
    <3> QED BY <1>1, <2>2, <2>4, <3>1, Known DEF TypeOK, SchedInv
  <2>6. InCall'
    BY <2>3, <2>4, Known DEF InCall
  <2>7. OneEach'
    BY <1>1, <2>4, Known DEF OneEach, Empty, Full
  <2>8. NoStrandedSleeper'
    BY <2>3 DEF NoStrandedSleeper
  <2> QED BY <2>2, <2>5, <2>6, <2>7, <2>8 DEF PInv
<1> QED BY <1>2, <1>3

LEMMA CutPInv == ASSUME PInv, cut_short PROVE PInv'
<1>1. /\ current \in Procs /\ call[current].at = "test" /\ Return /\ flushed' = FALSE
      /\ UNCHANGED <<schedVars, buffer, read_pos, write_pos, last, broken>>
      /\ unannounced' = (unannounced \/ call[current].done > 0)
  BY Known DEF cut_short, At, this
<1>2. Transferring(current) => unannounced'
  BY <1>1, Zenon DEF Transferring
<1>3. flushed' \in BOOLEAN /\ unannounced' \in BOOLEAN /\ (unannounced => unannounced')
  BY <1>1, Zenon
<1> QED BY <1>1, <1>2, <1>3, ReturnPInv

LEMMA DecidePInv == ASSUME PInv, decide_to_sleep PROVE PInv'
<1>1. /\ current \in Procs /\ call[current].at = "test" /\ call[current].blocking
      /\ UNCHANGED <<schedVars, pipeVars, history>>
      /\ call' = [call EXCEPT ![current].at = "sleep"]
  BY Known DEF decide_to_sleep, At, this
<1>2. /\ call' \in [Procs -> Call] /\ call'[current].at = "sleep"
      /\ call'[current].done = call[current].done
      /\ call'[current].blocking = call[current].blocking
      /\ \A p \in Procs \ {current} : call'[p] = call[p]
  BY <1>1, Known DEF Call
<1>3. call[current].blocking = TRUE
  BY <1>1, Known DEF Call
<1>4. /\ TypeOK' /\ SchedInv' /\ Asleep' = Asleep /\ Empty' = Empty /\ Full' = Full
      /\ \A p \in Asleep' : call'[p].at = "test" /\ call'[p].blocking = TRUE
  BY <1>1, <1>2, Known, CallStep DEF pipeVars, history
<1>5. InCall'
  BY <1>2, <1>3, <1>4, Known DEF InCall
<1>6. OneEach'
  BY <1>1, <1>2, <1>4, Known DEF OneEach, pipeVars, history
<1>7. ASSUME NEW p \in Procs, p = current, Transferring(p) PROVE Transferring(p)'
  <2>1. call[p].blocking /\ call[p].done > 0 /\ p \notin Asleep
    BY <1>7, Zenon DEF Transferring
  <2>2. call'[p].blocking /\ call'[p].done > 0 /\ p \notin Asleep'
    BY <1>2, <1>4, <1>7, <2>1
  <2> QED BY <2>2, Zenon DEF Transferring
<1>8. NoStrandedSleeper'
  BY <1>1, <1>2, <1>4, <1>7, Known, StillServed DEF pipeVars, history
<1> QED BY <1>4, <1>5, <1>6, <1>8 DEF PInv

LEMMA CopyPInv == ASSUME PInv, copy PROVE PInv'
<1>1. /\ current \in Procs /\ call[current].at = "test" /\ ~Blocked(call[current])
      /\ call[current].done < call[current].size
      /\ UNCHANGED <<schedVars, read_pos, write_pos, flushed, last, unannounced>>
      /\ broken' = (broken \/ Collision \/ (call[current].op = "write" /\ Full))
  BY Known DEF copy, At, this
<1>2. PICK b \in Bytes :
        /\ IF call[current].op = "write" THEN buffer' = [buffer EXCEPT ![write_pos] = b]
                                         ELSE b = buffer[read_pos] /\ UNCHANGED buffer
        /\ call' = [call EXCEPT ![current].at = "advance", ![current].byte = b]
  BY DEF copy, this
<1>3. /\ call' \in [Procs -> Call] /\ call'[current].at = "advance" /\ call'[current].byte = b
      /\ call'[current].op = call[current].op
      /\ call'[current].done = call[current].done /\ call'[current].size = call[current].size
      /\ call'[current].blocking = call[current].blocking
      /\ \A p \in Procs \ {current} : call'[p] = call[p]
  BY <1>1, <1>2, Known DEF Call
<1>4. buffer' \in [0 .. PIPE_SIZE - 1 -> Bytes] /\ write_pos \in 0 .. PIPE_SIZE - 1
      /\ read_pos \in 0 .. PIPE_SIZE - 1
  BY <1>2, Known DEF TypeOK
<1>5. flushed' \in BOOLEAN /\ unannounced' \in BOOLEAN /\ broken' \in BOOLEAN
  BY <1>1, Known, Zenon
<1>6. /\ TypeOK' /\ SchedInv' /\ Asleep' = Asleep /\ Empty' = Empty /\ Full' = Full
      /\ \A p \in Asleep' : call'[p].at = "test" /\ call'[p].blocking = TRUE
  BY <1>1, <1>3, <1>4, <1>5, CallStep
<1>7. InCall'
  <2> SUFFICES ASSUME NEW p \in Procs
               PROVE  /\ call'[p].at = "out" => call'[p].done = 0
                      /\ call'[p].at = "sleep" => call'[p].blocking = TRUE
                      /\ call'[p].at = "advance" => call'[p].done < call'[p].size
    BY <1>6, Zenon DEF InCall
  <2>1. CASE p = current
    <3>1. call'[p].at = "advance" /\ call'[p].done < call'[p].size
      BY <1>1, <1>3, <2>1
    <3>2. call'[p].at # "out" /\ call'[p].at # "sleep"
      BY <3>1
    <3> QED BY <3>1, <3>2, Zenon
  <2>2. CASE p # current
    <3>1. call'[p] = call[p]
      BY <1>3, <2>2
    <3> QED BY <3>1, Known, Zenon DEF InCall
  <2> QED BY <2>1, <2>2
<1>8. OneEach'
  <2> SUFFICES ASSUME ~broken', NEW p \in Procs, call'[p].at = "advance"
               PROVE  /\ call'[p].op = "read" => ~Empty' /\ call'[p].byte = buffer'[read_pos']
                      /\ call'[p].op = "write" => ~Full'
                      /\ \A q \in Procs : call'[q].at = "advance" /\ call'[q].op = call'[p].op => q = p
    BY DEF OneEach
  <2>1. /\ ~broken /\ ~(call[current].op = "write" /\ Full)
        /\ \A q \in Procs \ {current} : ~(call[q].at = "advance" /\ call[q].op = call[current].op)
    BY <1>1 DEF Collision, this
  <2>2. call[current].op = "read" => ~Empty
    BY <1>1 DEF Blocked
  <2>3. CASE p = current
    <3>1. call'[p].op = "read" => ~Empty' /\ call'[p].byte = buffer'[read_pos']
      BY <1>1, <1>2, <1>3, <1>6, <2>2, <2>3
    <3>2. call'[p].op = "write" => ~Full'
      BY <1>3, <1>6, <2>1, <2>3
    <3> QED BY <1>3, <2>1, <2>3, <3>1, <3>2
  <2>4. CASE p # current
    <3>1. /\ call'[p] = call[p] /\ call[p].at = "advance" /\ call[p].op # call[current].op
          /\ call[p].op = "read" => ~Empty /\ call[p].byte = buffer[read_pos]
          /\ call[p].op = "write" => ~Full
          /\ \A q \in Procs : call[q].at = "advance" /\ call[q].op = call[p].op => q = p
      BY <1>3, <2>1, <2>4, Known DEF OneEach
    <3>2. call[p].op = "read" => buffer'[read_pos] = buffer[read_pos]
      BY <1>2, <1>4, <3>1, Known DEF Empty
    <3> QED BY <1>1, <1>3, <1>6, <3>1, <3>2
  <2> QED BY <2>3, <2>4
<1>9. ASSUME NEW p \in Procs, p = current, Transferring(p) PROVE Transferring(p)'
  <2>1. call[p].blocking /\ call[p].done > 0 /\ p \notin Asleep
    BY <1>9, Zenon DEF Transferring
  <2>2. call'[p].blocking /\ call'[p].done > 0 /\ p \notin Asleep'
    BY <1>3, <1>6, <1>9, <2>1
  <2> QED BY <2>2, Zenon DEF Transferring
<1>10. NoStrandedSleeper'
  BY <1>1, <1>3, <1>6, <1>9, Known, StillServed
<1> QED BY <1>6, <1>7, <1>8, <1>10 DEF PInv

LEMMA SleepPInv == ASSUME PInv, sleep PROVE PInv'
<1>1. /\ current \in Procs /\ call[current].at = "sleep" /\ Block(Sleepers)
      /\ UNCHANGED <<pipeVars, last, broken>>
      /\ call' = [call EXCEPT ![current].at = "test", ![current].irq = TRUE]
      /\ unannounced' = (unannounced \/ call[current].done > 0 \/ ~Blocked(call[current]))
      /\ call[current].blocking = TRUE
  BY Known DEF sleep, At, this, InCall
<1>2. SchedInv' /\ Asleep' = Asleep \cup {current}
  BY <1>1, Known, BlockMoves, SleepersQueue DEF Asleep
<1>3. /\ call' \in [Procs -> Call] /\ call'[current].at = "test"
      /\ call'[current].op = call[current].op
      /\ call'[current].blocking = TRUE
      /\ \A p \in Procs \ {current} : call'[p] = call[p]
  BY <1>1, Known, ZenonT(40) DEF Call
<1>4. TypeOK'
  <2>1. flushed' \in BOOLEAN /\ unannounced' \in BOOLEAN /\ broken' \in BOOLEAN
    BY <1>1, Known, Zenon DEF pipeVars
  <2> QED BY <1>1, <1>2, <1>3, <2>1, Known DEF TypeOK, SchedInv, pipeVars
<1>5. InCall'
  BY <1>2, <1>3, Known DEF InCall
<1>6. OneEach'
  BY <1>1, <1>3, Known DEF OneEach, Empty, Full, pipeVars
<1>7. NoStrandedSleeper'
  <2> SUFFICES ASSUME ~unannounced', NEW p \in Asleep', ~Blocked(call[p])'
               PROVE  \E q \in Procs : Transferring(q)'
    BY Zenon DEF NoStrandedSleeper
  <2>1. ~unannounced /\ ~(call[current].done > 0) /\ Blocked(call[current])
    BY <1>1, Zenon
  <2>2. Empty' = Empty /\ Full' = Full
    BY <1>1 DEF Empty, Full, pipeVars
  <2>3. p # current
    <3> SUFFICES ASSUME p = current PROVE FALSE
      OBVIOUS
    <3>1. call'[p] \in Call /\ call'[p].blocking = TRUE /\ call[current] \in Call
      BY <1>1, <1>3, Known
    <3>2. Blocked(call[p])' <=> IF call'[p].op = "read" THEN Empty' ELSE Full'
      BY <3>1 DEF Call, Blocked
    <3>3. Blocked(call[current]) <=> IF call[current].op = "read" THEN Empty ELSE Full
      BY <1>1, <3>1, BlockedSleeper
    <3>4. call'[p].op = call[current].op
      BY <1>3
    <3> QED BY <2>1, <2>2, <3>2, <3>3, <3>4
  <2>4. p \in Asleep /\ call'[p] = call[p]
    BY <1>2, <1>3, <2>3, Known
  <2>5. read_pos' = read_pos /\ write_pos' = write_pos
    BY <1>1 DEF pipeVars
  <2>6. Blocked(call[p])' <=> Blocked(call[p])
    BY <2>4, <2>5, Zenon DEF Blocked, Empty, Full
  <2>7. NoStrandedSleeper
    BY Known
  <2>8. PICK q \in Procs : Transferring(q)
    BY <2>1, <2>4, <2>6, <2>7, Zenon DEF NoStrandedSleeper
  <2>9. call[q].blocking /\ call[q].done > 0 /\ q \notin Asleep
    BY <2>8, Zenon DEF Transferring
  <2>10. q # current
    BY <2>1, <2>9
  <2>11. call'[q].blocking /\ call'[q].done > 0 /\ q \notin Asleep'
    <3>1. call'[q] = call[q]
      BY <1>3, <2>10
    <3> QED BY <1>2, <2>9, <2>10, <3>1, Zenon
  <2> QED BY <2>11, Zenon DEF Transferring
<1> QED BY <1>2, <1>4, <1>5, <1>6, <1>7 DEF PInv

LEMMA AdvancePInv == ASSUME PInv, advance PROVE PInv'
<1>1. /\ current \in Procs /\ call[current].at = "advance"
      /\ IF call[current].op = "write"
         THEN write_pos' = wrapped(write_pos) /\ UNCHANGED <<read_pos, last>>
         ELSE read_pos' = wrapped(read_pos) /\ last' = call[current].byte /\ UNCHANGED write_pos
      /\ call' = [call EXCEPT ![current].at = "test", ![current].done = @ + 1,
                              ![current].byte = SomeByte]
      /\ unannounced' = (unannounced \/ ~call[current].blocking)
      /\ UNCHANGED <<schedVars, buffer, flushed, broken>>
      /\ call[current].done < call[current].size
  BY Known DEF advance, At, this, InCall
<1>2. /\ call'[current].at = "test" /\ call'[current].done = call[current].done + 1
      /\ call'[current].blocking = call[current].blocking
      /\ \A p \in Procs \ {current} : call'[p] = call[p]
  BY <1>1, Known DEF Call
<1>3. call' \in [Procs -> Call] /\ call[current].done \in Nat
  <2>1. call[current] \in Call /\ MaxSize \in Nat
    BY <1>1, Known, PipeAssumption
  <2>2. call[current].done + 1 \in 0 .. MaxSize
    BY <1>1, <2>1 DEF Call
  <2>3. [call[current] EXCEPT !.at = "test", !.done = @ + 1, !.byte = SomeByte] \in Call
    BY <2>1, <2>2, SomeByteIs DEF Call
  <2> QED BY <1>1, <2>1, <2>3, Known DEF Call
<1>4. SchedInv' /\ Asleep' = Asleep
  BY <1>1, Known DEF schedVars, SchedInv, SchedType, Apart, Asleep
<1>5. read_pos' \in 0 .. PIPE_SIZE - 1 /\ write_pos' \in 0 .. PIPE_SIZE - 1 /\ last' \in Bytes
  <2>1. /\ read_pos \in 0 .. PIPE_SIZE - 1 /\ write_pos \in 0 .. PIPE_SIZE - 1 /\ last \in Bytes
        /\ call[current].byte \in Bytes /\ PIPE_SIZE \in Nat \ {0, 1}
    BY <1>1, Known, PipeAssumption DEF TypeOK, Call
  <2>2. wrapped(read_pos) \in 0 .. PIPE_SIZE - 1 /\ wrapped(write_pos) \in 0 .. PIPE_SIZE - 1
    BY <2>1, RingPlaces DEF wrapped
  <2> QED BY <1>1, <2>1, <2>2
<1>6. TypeOK'
  <2>1. unannounced' \in BOOLEAN /\ flushed' \in BOOLEAN /\ broken' \in BOOLEAN
    BY <1>1, Known, Zenon
  <2> QED BY <1>1, <1>3, <1>4, <1>5, <2>1, Known DEF TypeOK, SchedInv
<1>7. InCall'
  BY <1>1, <1>2, <1>4, Known DEF InCall
<1>8. OneEach'
  <2> SUFFICES ASSUME ~broken, NEW p \in Procs, call'[p].at = "advance"
               PROVE  /\ call'[p].op = "read" => ~Empty' /\ call'[p].byte = buffer'[read_pos']
                      /\ call'[p].op = "write" => ~Full'
                      /\ \A q \in Procs : call'[q].at = "advance" /\ call'[q].op = call'[p].op => q = p
    BY <1>1 DEF OneEach
  <2>1. p # current /\ call'[p] = call[p]
    BY <1>2
  <2>2. /\ call[p].op = "read" => ~Empty /\ call[p].byte = buffer[read_pos]
        /\ call[p].op = "write" => ~Full
        /\ \A q \in Procs : call[q].at = "advance" /\ call[q].op = call[p].op => q = p
        /\ call[p].op \in {"read", "write"} /\ call[current].op \in {"read", "write"}
    BY <1>1, <2>1, Known DEF OneEach, Call
  <2>3. call[current].op # call[p].op
    BY <1>1, <2>1, <2>2
  <2>4. /\ PIPE_SIZE \in Nat \ {0, 1}
        /\ read_pos \in 0 .. PIPE_SIZE - 1 /\ write_pos \in 0 .. PIPE_SIZE - 1
        /\ call[current].op = "write" => ~Full
        /\ call[current].op = "read" => ~Empty
    BY <1>1, Known, PipeAssumption DEF TypeOK, OneEach
  <2>5. CASE call[p].op = "read"
    <3>1. read_pos' = read_pos /\ write_pos' = (write_pos + 1) % PIPE_SIZE
      BY <1>1, <2>2, <2>3, <2>5 DEF wrapped
    <3>2. ~Empty'
      BY <2>2, <2>3, <2>4, <2>5, <3>1 DEF Empty, Full
    <3> QED BY <1>1, <1>2, <2>1, <2>2, <2>5, <3>1, <3>2
  <2>6. CASE call[p].op = "write"
    <3>1. write_pos' = write_pos /\ read_pos' = (read_pos + 1) % PIPE_SIZE
      BY <1>1, <2>2, <2>3, <2>6 DEF wrapped
    <3>2. ~Full'
      <4>1. (write_pos + 1) % PIPE_SIZE = IF write_pos = PIPE_SIZE - 1 THEN 0 ELSE write_pos + 1
        BY <2>4, RingPlaces
      <4>2. (read_pos + 1) % PIPE_SIZE = IF read_pos = PIPE_SIZE - 1 THEN 0 ELSE read_pos + 1
        BY <2>4, RingPlaces
      <4>3. read_pos # write_pos
        BY <2>2, <2>3, <2>4, <2>6 DEF Empty
      <4>4. (write_pos + 1) % PIPE_SIZE # (read_pos + 1) % PIPE_SIZE
        BY <2>4, <4>1, <4>2, <4>3
      <4> QED BY <3>1, <4>4 DEF Full
    <3> QED BY <1>1, <1>2, <2>1, <2>2, <2>6, <3>1, <3>2
  <2> QED BY <2>2, <2>5, <2>6
<1>9. NoStrandedSleeper'
  <2>1. CASE call[current].blocking
    <3>1. current \notin Asleep' /\ call'[current].done > 0 /\ call'[current].blocking
      BY <1>2, <1>3, <1>4, <2>1, Known
    <3>2. PICK p \in Procs : p = current
      BY <1>1
    <3>3. Transferring(p)'
      BY <3>1, <3>2, Zenon DEF Transferring
    <3> QED BY <3>3 DEF NoStrandedSleeper
  <2>2. CASE ~call[current].blocking
    <3>1. unannounced'
      BY <1>1, <2>2, Zenon
    <3> QED BY <3>1 DEF NoStrandedSleeper
  <2> QED BY <2>1, <2>2
<1> QED BY <1>4, <1>6, <1>7, <1>8, <1>9 DEF PInv

LEMMA IdlePInv ==
  ASSUME PInv, SchedInv', queue' = queue, flushed' \in BOOLEAN,
         UNCHANGED <<buffer, read_pos, write_pos, call, history>>
  PROVE  PInv'
<1>1. TypeOK'
  <2>1. unannounced' \in BOOLEAN /\ broken' \in BOOLEAN
    BY Known, Zenon DEF history
  <2> QED BY <2>1, Known DEF TypeOK, SchedInv, history
<1>2. Asleep' = Asleep /\ Empty' = Empty /\ Full' = Full
  BY DEF Asleep, Empty, Full
<1>3. InCall'
  BY <1>2, Known DEF InCall
<1>4. OneEach'
  BY <1>2, Known DEF OneEach, history
<1>5. NoStrandedSleeper'
  <2>1. \A p \in Procs : p = current /\ Transferring(p) => Transferring(p)'
    BY <1>2 DEF Transferring
  <2>2. unannounced => unannounced'
    BY DEF history
  <2> QED BY <1>2, <2>1, <2>2, Known, StillServed
<1> QED BY <1>1, <1>3, <1>4, <1>5 DEF PInv

LEMMA NextPInv == PInv /\ [Next]_vars => PInv'
<1> SUFFICES ASSUME PInv, [Next]_vars PROVE PInv'
  OBVIOUS
<1>1. CASE pipe_call
  BY <1>1, CallPInv
<1>2. CASE finish
  BY <1>2, FinishPInv
<1>3. CASE cut_short
  BY <1>3, CutPInv
<1>4. CASE decide_to_sleep
  BY <1>4, DecidePInv
<1>5. CASE sleep
  BY <1>5, SleepPInv
<1>6. CASE copy
  BY <1>6, CopyPInv
<1>7. CASE advance
  BY <1>7, AdvancePInv
<1>8. CASE pipe_flush
  <2>1. flushed' \in BOOLEAN
    BY <1>8, Zenon DEF pipe_flush
  <2>2. SchedInv' /\ queue' = queue /\ UNCHANGED <<buffer, read_pos, write_pos, call, history>>
    BY <1>8, Known DEF pipe_flush, schedVars, SchedInv, SchedType, Apart
  <2> QED BY <2>1, <2>2, IdlePInv
<1>9. CASE Others
  <2>1. SchedInv /\ (Dispatch \/ Yield) /\ UNCHANGED <<pipeVars, call, history>>
    BY <1>9, Known DEF Others
  <2>2. SchedInv' /\ queue' = queue
    BY <2>1, DispatchMoves, YieldMoves
  <2>3. flushed' \in BOOLEAN
    BY <2>1, Known DEF pipeVars
  <2> QED BY <2>1, <2>2, <2>3, IdlePInv DEF pipeVars
<1>10. CASE UNCHANGED vars
  <2>1. SchedInv' /\ queue' = queue
    BY <1>10, Known DEF vars, schedVars, SchedInv, SchedType, Apart
  <2>2. flushed' \in BOOLEAN
    BY <1>10, Known DEF vars, pipeVars
  <2> QED BY <1>10, <2>1, <2>2, IdlePInv DEF vars, pipeVars
<1> QED BY <1>1, <1>2, <1>3, <1>4, <1>5, <1>6, <1>7, <1>8, <1>9, <1>10 DEF Next

\* The invariant, from which the theorems follow.
THEOREM PInvHolds == Spec => []PInv
<1>1. Init => PInv
  BY InitPInv
<1>2. PInv /\ [Next]_vars => PInv'
  BY NextPInv
<1> QED BY <1>1, <1>2, PTL DEF Spec

\* The ring, the lists and the calls keep their types: a position never leaves
\* the buffer, and no call moves more bytes than it was asked for.
THEOREM PipeTypeCorrect == Spec => []TypeOK
<1>1. PInv => TypeOK
  BY DEF PInv
<1> QED BY <1>1, PInvHolds, PTL

\* Nobody sleeps on a pipe who could move a byte, unless a transfer that will wake
\* everybody is under way, or a change was left unannounced (by a nonblocking call,
\* a cut call, or a sleep on an old test).
THEOREM NoStrandedSleeperHolds == Spec => []NoStrandedSleeper
<1>1. PInv => NoStrandedSleeper
  BY DEF PInv
<1> QED BY <1>1, PInvHolds, PTL
-----------------------------------------------------------------------------
\* A byte written to the free slot is not among the contents yet.
LEMMA CopyKeeps == ASSUME PInv, copy, ~broken' PROVE UNCHANGED <<Contents, last, broken>>
<1>1. UNCHANGED <<read_pos, write_pos, last>>
  BY DEF copy
<1>2. broken' = broken
  <2>1. broken' = (broken \/ Collision \/ (this.op = "write" /\ Full)) /\ broken \in BOOLEAN
    BY Known DEF copy
  <2>2. broken' = FALSE /\ broken = FALSE
    BY <2>1, Zenon
  <2> QED BY <2>2
<1>3. Unfolded
  BY Unfold DEF PInv
<1>4. PICK b \in Bytes : buffer' = [buffer EXCEPT ![write_pos] = b] \/ buffer' = buffer
  BY DEF copy
<1>5. Contents' = Slots(buffer', PIPE_SIZE, read_pos, held)
  BY <1>1 DEF Contents, Slots, held, Distance
<1>6. Slots([buffer EXCEPT ![write_pos] = b], PIPE_SIZE, read_pos, held) = Contents
  BY <1>3, RingWrite, ZenonT(40) DEF Unfolded, held
<1>7. Contents' = Contents
  BY <1>3, <1>4, <1>5, <1>6 DEF Unfolded
<1> QED BY <1>1, <1>2, <1>7

\* A writer that moves the position puts the byte it has copied, a reader gets it.
LEMMA AdvanceMoves == ASSUME PInv, PInv', advance, ~broken PROVE Queue!Next
<1>1. /\ current \in Procs /\ call[current].at = "advance"
      /\ IF call[current].op = "write"
         THEN write_pos' = wrapped(write_pos) /\ UNCHANGED <<read_pos, last>>
         ELSE read_pos' = wrapped(read_pos) /\ last' = call[current].byte /\ UNCHANGED write_pos
      /\ UNCHANGED <<buffer, broken>>
  BY Known DEF advance, At, this
<1>2. call[current].op \in {"read", "write"}
  BY <1>1, Known DEF Call
<1>3. Unfolded /\ Unfolded'
  BY Unfold, UnfoldNext DEF PInv
<1>4. /\ PIPE_SIZE \in Nat \ {0, 1}
      /\ read_pos \in 0 .. PIPE_SIZE - 1 /\ write_pos \in 0 .. PIPE_SIZE - 1
      /\ buffer \in [0 .. PIPE_SIZE - 1 -> Bytes]
      /\ Contents = Slots(buffer, PIPE_SIZE, read_pos, held)
      /\ Contents' = Slots(buffer', PIPE_SIZE, read_pos', held')
      /\ Len(Contents) = held
      /\ held < PIPE_SIZE - 1 <=> ~Full
  BY <1>3 DEF Unfolded
<1>5. CASE call[current].op = "write"
  <2>1. ~Full /\ write_pos' = (write_pos + 1) % PIPE_SIZE /\ UNCHANGED <<read_pos, last>>
    BY <1>1, <1>5, Known DEF OneEach, wrapped
  <2>2. held' = Distance(read_pos, (write_pos + 1) % PIPE_SIZE, PIPE_SIZE)
    BY <2>1 DEF held
  <2>3. Slots(buffer, PIPE_SIZE, read_pos,
              Distance(read_pos, (write_pos + 1) % PIPE_SIZE, PIPE_SIZE))
          = Append(Slots(buffer, PIPE_SIZE, read_pos,
                         Distance(read_pos, write_pos, PIPE_SIZE)), buffer[write_pos])
    BY <1>4, <2>1, RingPut DEF Full
  <2>4. Contents' = Append(Contents, buffer[write_pos]) /\ buffer[write_pos] \in Bytes
    BY <1>1, <1>4, <2>1, <2>2, <2>3 DEF held
  <2>5. Len(Contents) < PIPE_SIZE - 1
    BY <1>4, <2>1
  <2> QED BY <1>1, <2>1, <2>4, <2>5 DEF Queue!Next, Queue!Put
<1>6. CASE call[current].op = "read"
  <2>1. /\ read_pos # write_pos /\ last' = buffer[read_pos]
        /\ read_pos' = (read_pos + 1) % PIPE_SIZE /\ write_pos' = write_pos
    BY <1>1, <1>6, Known DEF OneEach, wrapped, Empty
  <2>2. held' = Distance((read_pos + 1) % PIPE_SIZE, write_pos, PIPE_SIZE)
    BY <2>1 DEF held
  <2>3. LET b == Slots(buffer, PIPE_SIZE, read_pos, held)
        IN  /\ b # <<>> /\ Head(b) = buffer[read_pos]
            /\ Slots(buffer, PIPE_SIZE, (read_pos + 1) % PIPE_SIZE,
                     Distance((read_pos + 1) % PIPE_SIZE, write_pos, PIPE_SIZE)) = Tail(b)
    BY <1>4, <2>1, RingGet DEF held
  <2>4. Contents # <<>> /\ Head(Contents) = buffer[read_pos] /\ Contents' = Tail(Contents)
    BY <1>1, <1>4, <2>1, <2>2, <2>3
  <2> QED BY <1>1, <2>1, <2>4 DEF Queue!Next, Queue!Get
<1> QED BY <1>2, <1>5, <1>6

\* Every step of the pipe is one of Fifo, or none, or comes after a collision.
LEMMA FifoStep == PInv /\ PInv' /\ [Next]_vars => [Queue!Next]_(Queue!vars)
<1> SUFFICES ASSUME PInv, PInv', [Next]_vars
             PROVE  Queue!Next \/ UNCHANGED <<Contents, last, broken>>
  BY DEF Queue!vars
<1>1. CASE broken'
  BY <1>1 DEF Queue!Next
<1>2. CASE ~broken' /\ copy
  BY <1>2, CopyKeeps
<1>3. CASE ~broken' /\ advance
  <2>1. ~broken
    BY <1>3 DEF advance
  <2> QED BY <1>3, <2>1, AdvanceMoves
<1>4. ASSUME UNCHANGED <<buffer, read_pos, write_pos, last, broken>>
      PROVE  UNCHANGED <<Contents, last, broken>>
  BY <1>4 DEF Contents
<1>5. CASE pipe_call \/ finish \/ cut_short \/ decide_to_sleep \/ sleep \/ pipe_flush \/ Others
  BY <1>4, <1>5 DEF pipe_call, finish, cut_short, decide_to_sleep, sleep, pipe_flush, Others,
                    pipeVars, history
<1>6. CASE UNCHANGED vars
  BY <1>4, <1>6 DEF vars, pipeVars, history
<1> QED BY <1>1, <1>2, <1>3, <1>5, <1>6 DEF Next

\* The pipe implements Fifo, whatever its callers do and whoever is preempted,
\* until a nonblocking write overruns the ring or two calls meet inside one byte.
THEOREM ImplementsFifo == Spec => IsFifo
<1>1. Init => Queue!Init
  <2> SUFFICES ASSUME Init PROVE Queue!Init
    OBVIOUS
  <2>1. Unfolded
    BY InitPInv, Unfold DEF PInv
  <2>2. Contents \in Seq(Bytes) /\ Len(Contents) = 0
    BY <2>1 DEF Unfolded, Init, Empty
  <2>3. Contents = <<>>
    BY <2>2
  <2> QED BY <2>3, SomeByteIs DEF Init, Queue!Init
<1>2. PInv /\ PInv' /\ [Next]_vars => [Queue!Next]_(Queue!vars)
  BY FifoStep
<1> QED BY <1>1, <1>2, PInvHolds, PTL DEF Spec, IsFifo, Queue!Spec
-----------------------------------------------------------------------------
(* Paging: every page has one owner, and the memory of a program is its own. *)
-----------------------------------------------------------------------------
(* Sizes.                                                                  *)

LEMMA Sizes ==
  /\ Top \in Nat /\ DataTop \in Nat /\ DataTop >= 4 /\ Top = DataTop + 2
  /\ IsFiniteSet(V) /\ Initial \subseteq V /\ \A v \in V : v \in Int
  /\ \A n \in 0 .. InitialPages : Stack(n) \subseteq V
  /\ \A v \in V : Slot(v) \in 1 .. 2
<1>1. MaxData \in Nat /\ MaxData >= 2
  BY PagingAssumption
<1>2. Top \in Nat /\ DataTop \in Nat /\ DataTop >= 4 /\ Top = DataTop + 2
  BY <1>1 DEF Top, DataTop, InitialPages
<1>3. \A n \in 0 .. InitialPages : Stack(n) \subseteq V
  BY <1>2 DEF Stack, V, InitialPages
<1>4. Initial \subseteq V
  <2>1. Stack(InitialPages) \subseteq V
    BY <1>3 DEF InitialPages
  <2>2. 0 .. InitialPages - 1 \subseteq V
    BY <1>2 DEF V, InitialPages
  <2> QED BY <2>1, <2>2 DEF Initial
<1>5. IsFiniteSet(V) /\ \A v \in V : v \in Int
  BY <1>2, FS_Interval DEF V
<1> QED BY <1>2, <1>3, <1>4, <1>5 DEF Slot

LEMMA SomeFrames ==
  /\ NFrames \in Nat /\ IsFiniteSet(Frames) /\ Cardinality(Frames) = NFrames
  /\ \A f \in Frames : f \in Int /\ f # NoFrame /\ f \in 0 .. NFrames
  /\ \A f \in 0 .. NFrames : f # NoFrame => f \in Frames
  /\ \A S \in SUBSET Frames :
       S \in SUBSET Int /\ IsFiniteSet(S) /\ Cardinality(S) \in Nat /\ Cardinality(S) <= NFrames
<1>1. NFrames \in Nat /\ IsFiniteSet(Frames) /\ Cardinality(Frames) = NFrames
  <2>1. NFrames \in Nat
    BY PagingAssumption
  <2>2. 1 \in Int /\ NFrames \in Int
    BY <2>1
  <2>3. /\ IsFiniteSet(1 .. NFrames)
        /\ Cardinality(1 .. NFrames) = IF 1 > NFrames THEN 0 ELSE NFrames - 1 + 1
    BY <2>2, FS_Interval
  <2> QED BY <2>1, <2>3 DEF Frames
<1>2. \A f \in Frames : f \in Int /\ f # NoFrame /\ f \in 0 .. NFrames
  BY <1>1 DEF Frames, NoFrame
<1>3. \A f \in 0 .. NFrames : f # NoFrame => f \in Frames
  BY <1>1 DEF Frames, NoFrame
<1>4. \A S \in SUBSET Frames :
       S \in SUBSET Int /\ IsFiniteSet(S) /\ Cardinality(S) \in Nat /\ Cardinality(S) <= NFrames
  <2> TAKE S \in SUBSET Frames
  <2>1. IsFiniteSet(S) /\ Cardinality(S) <= Cardinality(Frames)
    BY <1>1, FS_Subset
  <2>2. Cardinality(S) \in Nat
    BY <2>1, FS_CardinalityType
  <2> QED BY <1>1, <1>2, <2>1, <2>2
<1> QED BY <1>1, <1>2, <1>3, <1>4

\* As many images as members, when no two have the same one.
LEMMA ImageSize ==
  ASSUME NEW S, IsFiniteSet(S), NEW f, NEW T, T = {f[x] : x \in S},
         \A x, y \in S : f[x] = f[y] => x = y
  PROVE  IsFiniteSet(T) /\ Cardinality(T) = Cardinality(S) /\ Cardinality(T) \in Nat
<1> DEFINE g == [x \in S |-> f[x]]
<1>1. g \in Bijection(S, T)
  BY DEF Bijection, Injection, Surjection, IsInjective
<1>2. ExistsBijection(S, T)
  BY <1>1 DEF ExistsBijection
<1> QED BY <1>2, FS_Bijection, FS_CardinalityType
LEMMA DisjointSize ==
  ASSUME NEW A, NEW B, IsFiniteSet(A), IsFiniteSet(B), A \cap B = {}
  PROVE  IsFiniteSet(A \cup B) /\ Cardinality(A \cup B) = Cardinality(A) + Cardinality(B)
<1>1. Cardinality(A \cap B) = 0
  BY FS_EmptySet
<1>2. /\ IsFiniteSet(A \cup B)
      /\ Cardinality(A \cup B) = Cardinality(A) + Cardinality(B) - Cardinality(A \cap B)
  BY FS_Union
<1>3. Cardinality(A) \in Nat /\ Cardinality(B) \in Nat
  BY FS_CardinalityType
<1> QED BY <1>1, <1>2, <1>3
-----------------------------------------------------------------------------
(* What page_alloc returns.                                                *)

\* The lowest n of a set of frames: n of its members, no two the same.
LEMMA LowestGives ==
  ASSUME NEW S \in SUBSET Frames, NEW n \in 0 .. Cardinality(S)
  PROVE  /\ Lowest(S, n) \in Seq(S) /\ Len(Lowest(S, n)) = n
         /\ IsInjective(Lowest(S, n)) /\ Range(Lowest(S, n)) \subseteq S
<1> DEFINE R(i) == Cardinality({k \in S : k <= i})
           Ith(j) == CHOOSE i \in S : R(i) = j
           L == Lowest(S, n)
<1>1. S \in SUBSET Int /\ IsFiniteSet(S) /\ Cardinality(S) \in Nat
  BY SomeFrames
<1>2. \A j \in 1 .. Cardinality(S) : Ith(j) \in S /\ R(Ith(j)) = j
  BY <1>1, KeptPosition
<1>3. L = [j \in 1 .. n |-> Ith(j)]
  BY DEF Lowest, Rank
<1> HIDE DEF R, Ith, L
<1>4. \A j \in 1 .. n : Ith(j) \in S /\ R(Ith(j)) = j
  BY <1>1, <1>2
<1>5. L \in [1 .. n -> S] /\ n \in Nat
  BY <1>1, <1>3, <1>4
<1>6. L \in Seq(S) /\ Len(L) = n /\ DOMAIN L = 1 .. n
  BY <1>5, IsASeq
<1>7. IsInjective(L)
  BY <1>3, <1>4, <1>6 DEF IsInjective
<1>8. Range(L) \subseteq S
  BY <1>5 DEF Range
<1> QED BY <1>6, <1>7, <1>8 DEF L

\* A list of different frames has as many as it is long.
LEMMA ListSize ==
  ASSUME NEW F \in Seq(Frames), IsInjective(F)
  PROVE  Cardinality(Range(F)) = Len(F) /\ Range(F) \subseteq Frames /\ Len(F) \in Nat
<1>1. Len(F) \in Nat /\ DOMAIN F = 1 .. Len(F)
  OBVIOUS
<1>2. IsFiniteSet(1 .. Len(F)) /\ Cardinality(1 .. Len(F)) = Len(F)
  <2>1. 1 \in Int /\ Len(F) \in Int
    BY <1>1
  <2>2. /\ IsFiniteSet(1 .. Len(F))
        /\ Cardinality(1 .. Len(F)) = IF 1 > Len(F) THEN 0 ELSE Len(F) - 1 + 1
    BY <2>1, FS_Interval
  <2> QED BY <1>1, <2>2
<1>3. Range(F) = {F[i] : i \in 1 .. Len(F)}
  BY <1>1 DEF Range
<1>4. \A i, j \in 1 .. Len(F) : F[i] = F[j] => i = j
  BY <1>1 DEF IsInjective
<1>5. Cardinality(Range(F)) = Cardinality(1 .. Len(F))
  BY <1>2, <1>3, <1>4, ImageSize
<1>6. Range(F) \subseteq Frames
  BY <1>1, <1>3
<1> QED BY <1>1, <1>2, <1>5, <1>6

\* What n calls of page_alloc return: n frames; and unless the one that an
\* interrupted call had found is gone since, free ones and no two the same.
LEMMA AllocatedGives ==
  ASSUME NEW p \in Processes, freemap \in SUBSET Frames, picked[p] \in 0 .. NFrames,
         NEW n \in Nat, Enough(freemap, n), picked[p] = NoFrame \/ n > 0
  PROVE  /\ Allocated(p, n) \in Seq(Frames) /\ Len(Allocated(p, n)) = n
         /\ ~(picked[p] # NoFrame /\ picked[p] \notin freemap) =>
              IsInjective(Allocated(p, n)) /\ Range(Allocated(p, n)) \subseteq freemap
<1> DEFINE x == picked[p]
           S == freemap \ {x}
           L == Lowest(S, n - 1)
           F == <<x>> \o L
<1>0. IsFiniteSet(freemap) /\ Cardinality(freemap) \in Nat /\ n < Cardinality(freemap)
  BY SomeFrames DEF Enough
<1>1. CASE x = NoFrame
  <2>1. n \in 0 .. Cardinality(freemap)
    BY <1>0
  <2>2. Allocated(p, n) = Lowest(freemap, n)
    BY <1>1 DEF Allocated
  <2>3. /\ Lowest(freemap, n) \in Seq(freemap) /\ Len(Lowest(freemap, n)) = n
        /\ IsInjective(Lowest(freemap, n)) /\ Range(Lowest(freemap, n)) \subseteq freemap
    BY <2>1, LowestGives
  <2> QED BY <2>2, <2>3
<1>2. CASE x # NoFrame
  <2>1. x \in Frames /\ n - 1 \in Nat /\ n > 0
    BY <1>2, SomeFrames
  <2>2. n - 1 \in 0 .. Cardinality(S) /\ S \in SUBSET Frames
    <3>1. Cardinality(S) = IF x \in freemap THEN Cardinality(freemap) - 1 ELSE Cardinality(freemap)
      BY <1>0, FS_RemoveElement
    <3> QED BY <3>1, <1>0, <2>1
  <2>3. L \in Seq(S) /\ Len(L) = n - 1 /\ IsInjective(L) /\ Range(L) \subseteq S
    BY <2>2, LowestGives
  <2>4. L \in Seq(Frames)
    BY <2>3
  <2>5. Allocated(p, n) = F
    BY <1>2 DEF Allocated
  <2> DEFINE o == <<x>>
  <2>6. o \in Seq(Frames) /\ Len(o) = 1 /\ IsInjective(o) /\ Range(o) = {x}
    BY <2>1 DEF IsInjective, Range
  <2> HIDE DEF o, L, S
  <2>7. Len(o \o L) = n
    <3>1. Len(o \o L) = Len(o) + Len(L)
      BY <2>4, <2>6, ConcatProperties
    <3> QED BY <3>1, <2>1, <2>3, <2>6
  <2>8. /\ o \o L \in Seq(Frames) /\ Range(o \o L) = Range(o) \cup Range(L)
        /\ IsInjective(o) /\ IsInjective(L) /\ Range(o) \cap Range(L) = {} => IsInjective(o \o L)
    BY <2>4, <2>6, ConcatDistinct
  <2>9. Range(o) \cap Range(L) = {}
    BY <2>3, <2>6 DEF S
  <2>10. ~(picked[p] # NoFrame /\ picked[p] \notin freemap) => Range(o \o L) \subseteq freemap
    BY <2>3, <2>6, <2>8, <1>2 DEF S
  <2> QED BY <2>3, <2>5, <2>6, <2>7, <2>8, <2>9, <2>10 DEF o
<1> QED BY <1>1, <1>2
-----------------------------------------------------------------------------
(* What a process holds: a frame, or none, at each place of its page table *)
(* and of struct process.                                                  *)

Space == [directory : 0 .. NFrames, table : [1 .. 2 -> 0 .. NFrames], map : [V -> 0 .. NFrames]]
Place == 0 .. Top + 3

\* The pages, the two tables, the directory, and the frame of the process.
Holding(sp, self) ==
  [x \in Place |-> IF x < Top THEN sp.map[x]
                   ELSE IF x < Top + 2 THEN sp.table[x - Top + 1]
                   ELSE IF x = Top + 2 THEN sp.directory ELSE self]

In(h)     == {h[x] : x \in Place} \ {NoFrame}
Single(h) == \A x, y \in Place : h[x] # NoFrame /\ h[x] = h[y] => x = y
Holds(h)  == h \in [Place -> 0 .. NFrames]

LEMMA Places ==
  ASSUME NEW sp \in Space, NEW self \in 0 .. NFrames
  PROVE  /\ Holds(Holding(sp, self))
         /\ \A v \in V : v \in Place /\ Holding(sp, self)[v] = sp.map[v]
         /\ \A i \in 1 .. 2 : /\ Top - 1 + i \in Place
                              /\ Holding(sp, self)[Top - 1 + i] = sp.table[i]
         /\ Top + 2 \in Place /\ Holding(sp, self)[Top + 2] = sp.directory
         /\ Top + 3 \in Place /\ Holding(sp, self)[Top + 3] = self
         /\ \A x \in Place : \/ x \in V
                             \/ x - Top + 1 \in 1 .. 2 /\ x = Top - 1 + (x - Top + 1)
                             \/ x = Top + 2
                             \/ x = Top + 3
<1> DEFINE h == Holding(sp, self)
<1>1. Top \in Nat /\ Top >= 4
  BY Sizes
<1>2. V = 0 .. Top - 1 /\ Place = 0 .. Top + 3
  BY DEF V, Place
<1>3. /\ sp.map \in [V -> 0 .. NFrames] /\ sp.table \in [1 .. 2 -> 0 .. NFrames]
      /\ sp.directory \in 0 .. NFrames
  BY DEF Space
<1>4. /\ \A v \in V : v \in Place /\ v < Top
      /\ \A i \in 1 .. 2 : /\ Top - 1 + i \in Place /\ ~(Top - 1 + i < Top)
                           /\ Top - 1 + i < Top + 2 /\ (Top - 1 + i) - Top + 1 = i
      /\ Top + 2 \in Place /\ ~(Top + 2 < Top) /\ ~(Top + 2 < Top + 2)
      /\ Top + 3 \in Place /\ ~(Top + 3 < Top) /\ ~(Top + 3 < Top + 2) /\ Top + 3 # Top + 2
  BY <1>1, <1>2
<1>5. \A x \in Place : /\ x < Top => x \in V
                       /\ ~(x < Top) /\ x < Top + 2 =>
                            x - Top + 1 \in 1 .. 2 /\ x = Top - 1 + (x - Top + 1)
                       /\ ~(x < Top + 2) => x = Top + 2 \/ x = Top + 3
  BY <1>1, <1>2
<1>6. h = [x \in Place |-> IF x < Top THEN sp.map[x]
                   ELSE IF x < Top + 2 THEN sp.table[x - Top + 1]
                   ELSE IF x = Top + 2 THEN sp.directory ELSE self]
  BY DEF Holding
<1> HIDE DEF h
<1>7. Holds(h)
  <2>1. \A x \in Place : h[x] \in 0 .. NFrames
    BY <1>3, <1>5, <1>6
  <2> QED BY <2>1, <1>6 DEF Holds
<1>8. \A v \in V : h[v] = sp.map[v]
  BY <1>4, <1>6
<1>9. \A i \in 1 .. 2 : h[Top - 1 + i] = sp.table[i]
  BY <1>4, <1>6
<1>10. h[Top + 2] = sp.directory /\ h[Top + 3] = self
  BY <1>4, <1>6
<1> QED BY <1>4, <1>5, <1>7, <1>8, <1>9, <1>10 DEF h

\* The same as sets.
LEMMA HeldFrames ==
  ASSUME NEW sp \in Space, NEW self \in 0 .. NFrames
  PROVE  /\ In(Holding(sp, self)) = (Mapped(sp, V) \cup Range(sp.table)
                                      \cup {sp.directory, self}) \ {NoFrame}
         /\ In(Holding(sp, self)) \subseteq Frames
<1> DEFINE h == Holding(sp, self)
<1>1. /\ Holds(h)
      /\ \A v \in V : v \in Place /\ h[v] = sp.map[v]
      /\ \A i \in 1 .. 2 : Top - 1 + i \in Place /\ h[Top - 1 + i] = sp.table[i]
      /\ Top + 2 \in Place /\ h[Top + 2] = sp.directory
      /\ Top + 3 \in Place /\ h[Top + 3] = self
      /\ \A x \in Place : \/ x \in V
                          \/ x - Top + 1 \in 1 .. 2 /\ x = Top - 1 + (x - Top + 1)
                          \/ x = Top + 2 \/ x = Top + 3
  BY Places
<1>2. DOMAIN sp.table = 1 .. 2
  BY DEF Space
<1> HIDE DEF h
<1>3. ASSUME NEW x \in Place
      PROVE  h[x] \in {sp.map[v] : v \in V} \cup Range(sp.table) \cup {sp.directory, self}
  <2>1. CASE x \in V
    BY <1>1, <2>1
  <2>2. CASE x - Top + 1 \in 1 .. 2 /\ x = Top - 1 + (x - Top + 1)
    BY <1>1, <1>2, <2>2 DEF Range
  <2>3. CASE x = Top + 2 \/ x = Top + 3
    BY <1>1, <2>3
  <2> QED BY <1>1, <2>1, <2>2, <2>3
<1>4. ASSUME NEW f \in {sp.map[v] : v \in V} \cup Range(sp.table) \cup {sp.directory, self}
      PROVE  \E x \in Place : h[x] = f
  <2>1. CASE f \in {sp.map[v] : v \in V}
    BY <1>1, <2>1
  <2>2. CASE f \in Range(sp.table)
    BY <1>1, <1>2, <2>2 DEF Range
  <2>3. CASE f \in {sp.directory, self}
    BY <1>1, <2>3
  <2> QED BY <2>1, <2>2, <2>3
<1>5. In(h) = (Mapped(sp, V) \cup Range(sp.table) \cup {sp.directory, self}) \ {NoFrame}
  BY <1>3, <1>4 DEF In, Mapped
<1>6. In(h) \subseteq Frames
  BY <1>1, SomeFrames DEF In, Holds
<1> QED BY <1>5, <1>6 DEF h
-----------------------------------------------------------------------------
(* Every frame is free or at one place of one process.  H is what each     *)
(* process holds.                                                          *)

Sole(H, free) ==
  /\ free \subseteq Frames
  /\ \A p \in Processes : Holds(H[p]) /\ Single(H[p]) /\ In(H[p]) \cap free = {}
  /\ \A p, q \in Processes : p # q => In(H[p]) \cap In(H[q]) = {}
  /\ \A f \in Frames : f \in free \/ \E p \in Processes : f \in In(H[p])

\* A process gets free frames, each at one place.
LEMMA GiveFrames ==
  ASSUME NEW H, NEW free, Sole(H, free), NEW K, NEW c \in Processes,
         \A q \in Processes \ {c} : K[q] = H[q], Holds(K[c]), Single(K[c]),
         NEW F \in SUBSET free, In(K[c]) = In(H[c]) \cup F
  PROVE  Sole(K, free \ F)
<1>1. \A p \in Processes : Holds(K[p]) /\ Single(K[p]) /\ In(K[p]) \cap (free \ F) = {}
  BY DEF Sole
<1>2. \A p, q \in Processes : p # q => In(K[p]) \cap In(K[q]) = {}
  <2>1. \A p \in Processes : p # c => In(K[p]) \cap In(K[c]) = {}
    BY DEF Sole
  <2> QED BY <2>1 DEF Sole
<1>3. \A f \in Frames : f \in free \ F \/ \E p \in Processes : f \in In(K[p])
  <2> TAKE f \in Frames
  <2>1. CASE f \in F
    BY <2>1
  <2>2. CASE f \in free \ F
    BY <2>2
  <2>3. CASE \E p \in Processes : f \in In(H[p])
    <3>1. PICK p \in Processes : f \in In(H[p])
      BY <2>3
    <3>2. f \in In(K[p])
      BY <3>1
    <3> QED BY <3>2
  <2> QED BY <2>1, <2>2, <2>3 DEF Sole
<1> QED BY <1>1, <1>2, <1>3 DEF Sole

\* A process gives some of its frames back.
LEMMA TakeFrames ==
  ASSUME NEW H, NEW free, Sole(H, free), NEW K, NEW c \in Processes,
         \A q \in Processes \ {c} : K[q] = H[q], Holds(K[c]), Single(K[c]),
         NEW F \in SUBSET In(H[c]), In(K[c]) = In(H[c]) \ F
  PROVE  Sole(K, free \cup F) /\ F \cap free = {} /\ F \subseteq Frames
<1>0. F \subseteq Frames
  BY SomeFrames DEF Sole, Holds, In
<1>1. \A p \in Processes : Holds(K[p]) /\ Single(K[p]) /\ In(K[p]) \cap (free \cup F) = {}
  <2>1. \A p \in Processes : p # c => In(K[p]) \cap F = {}
    BY DEF Sole
  <2> QED BY <2>1 DEF Sole
<1>2. \A p, q \in Processes : p # q => In(K[p]) \cap In(K[q]) = {}
  <2>1. \A p \in Processes : p # c => In(K[p]) \cap In(K[c]) = {}
    BY DEF Sole
  <2> QED BY <2>1 DEF Sole
<1>3. \A f \in Frames : f \in free \cup F \/ \E p \in Processes : f \in In(K[p])
  <2> TAKE f \in Frames
  <2>1. CASE f \in free \cup F
    BY <2>1
  <2>2. CASE f \notin F /\ \E p \in Processes : f \in In(H[p])
    <3>1. PICK p \in Processes : f \in In(H[p])
      BY <2>2
    <3>2. f \in In(K[p])
      BY <3>1, <2>2
    <3> QED BY <3>2
  <2> QED BY <2>1, <2>2 DEF Sole
<1> QED BY <1>0, <1>1, <1>2, <1>3 DEF Sole
-----------------------------------------------------------------------------
(* What the calls of pagetable.c make of the frames they get.              *)

\* Counting a set from its lowest member.
LEMMA Ranks ==
  ASSUME NEW S \in SUBSET Int, IsFiniteSet(S)
  PROVE  /\ Cardinality(S) \in Nat
         /\ \A x \in S : Rank(x, S) \in 1 .. Cardinality(S)
         /\ \A x, y \in S : Rank(x, S) = Rank(y, S) => x = y
         /\ \A n \in 1 .. Cardinality(S) : \E x \in S : Rank(x, S) = n
<1> DEFINE R(i) == Cardinality({k \in S : k <= i})
           Ith(j) == CHOOSE i \in S : R(i) = j
<1>1. /\ Cardinality(S) \in Nat
      /\ \A j \in 1 .. Cardinality(S) : Ith(j) \in S /\ R(Ith(j)) = j
      /\ \A i \in S : R(i) \in 1 .. Cardinality(S) /\ Ith(R(i)) = i
  BY KeptPosition
<1>2. \A i : Rank(i, S) = R(i)
  BY DEF Rank
<1> HIDE DEF R, Ith
<1> QED BY <1>1, <1>2

\* Frames put at places that had none: the one at x is number at[x] of F.
Fills(h, k, F, N, at) ==
  /\ N \subseteq Place /\ at \in [N -> 1 .. Len(F)]
  /\ \A x, y \in N : at[x] = at[y] => x = y
  /\ \A i \in 1 .. Len(F) : \E x \in N : at[x] = i
  /\ \A x \in N : h[x] = NoFrame /\ k[x] = F[at[x]]
  /\ \A x \in Place \ N : k[x] = h[x]

LEMMA Filled ==
  ASSUME NEW h, NEW k, Single(h), NEW F \in Seq(Frames), IsInjective(F), Range(F) \cap In(h) = {},
         NEW N, NEW at, Fills(h, k, F, N, at)
  PROVE  Single(k) /\ In(k) = In(h) \cup Range(F)
<1> USE DEF Fills
<1>1. Len(F) \in Nat /\ DOMAIN F = 1 .. Len(F) /\ \A i \in 1 .. Len(F) : F[i] \in Frames
  OBVIOUS
<1>2. \A i, j \in 1 .. Len(F) : F[i] = F[j] => i = j
  BY <1>1 DEF IsInjective
<1>3. \A f : f \in Range(F) <=> \E i \in 1 .. Len(F) : F[i] = f
  BY <1>1 DEF Range
<1>4. \A f : f \in In(h) <=> f # NoFrame /\ \E x \in Place : h[x] = f
  BY DEF In
<1>5. \A f : f \in In(k) <=> f # NoFrame /\ \E x \in Place : k[x] = f
  BY DEF In
<1>6. \A x \in N : at[x] \in 1 .. Len(F)
  OBVIOUS
<1>7. Single(k)
  <2> SUFFICES ASSUME NEW x \in Place, NEW y \in Place, k[x] # NoFrame, k[x] = k[y]
               PROVE  x = y
    BY DEF Single
  <2>1. CASE x \in N /\ y \in N
    BY <1>2, <1>6, <2>1
  <2>2. CASE x \notin N /\ y \notin N
    BY <2>2 DEF Single
  <2>3. CASE x \in N /\ y \notin N
    <3>1. k[x] \in Range(F) /\ k[y] \in In(h)
      BY <1>3, <1>4, <1>6, <2>3
    <3> QED BY <3>1
  <2>4. CASE x \notin N /\ y \in N
    <3>1. k[y] \in Range(F) /\ k[x] \in In(h)
      BY <1>3, <1>4, <1>6, <2>4
    <3> QED BY <3>1
  <2> QED BY <2>1, <2>2, <2>3, <2>4
<1>8. ASSUME NEW f \in In(k) PROVE f \in In(h) \cup Range(F)
  <2>1. PICK x \in Place : k[x] = f
    BY <1>5
  <2>2. CASE x \in N
    BY <1>3, <1>6, <2>1, <2>2
  <2>3. CASE x \notin N
    BY <1>4, <1>5, <2>1, <2>3
  <2> QED BY <2>2, <2>3
<1>9. ASSUME NEW f \in In(h) PROVE f \in In(k)
  <2>1. PICK x \in Place : h[x] = f /\ f # NoFrame
    BY <1>4
  <2>2. x \notin N
    BY <2>1
  <2> QED BY <1>5, <2>1, <2>2
<1>10. ASSUME NEW f \in Range(F) PROVE f \in In(k)
  <2>1. PICK i \in 1 .. Len(F) : F[i] = f
    BY <1>3
  <2>2. PICK x \in N : at[x] = i
    BY <2>1
  <2>3. k[x] = f /\ f \in Frames /\ x \in Place
    BY <1>1, <2>1, <2>2
  <2> QED BY <1>5, <2>3, SomeFrames
<1> QED BY <1>7, <1>8, <1>9, <1>10

\* pagetable_alloc: the pages of vs that were missing are mapped, the rest is as
\* it was, and every frame it gets is at one place.
LEMMA AllocTable ==
  ASSUME NEW sp \in Space, NEW vs \in SUBSET V,
         NEW F \in Seq(Frames), Len(F) = Wanted(sp, vs)
  PROVE  LET new == pagetable_alloc(sp, vs, F)
         IN  /\ new \in Space /\ new.directory = sp.directory
             /\ \A v \in V : IF v \in Missing(sp, vs)
                             THEN sp.map[v] = NoFrame /\ new.map[v] \in Range(F)
                             ELSE new.map[v] = sp.map[v]
             /\ \A self \in 0 .. NFrames :
                  LET h == Holding(sp, self)   k == Holding(new, self)
                  IN Single(h) /\ IsInjective(F) /\ Range(F) \cap In(h) = {}
                       => Single(k) /\ In(k) = In(h) \cup Range(F)
<1> DEFINE pages == Missing(sp, vs)
           tables == NoTable(sp, vs)
           m == Cardinality(pages)
           n == Cardinality(tables)
           new == pagetable_alloc(sp, vs, F)
<1>1. pages \subseteq V /\ tables \subseteq 1 .. 2
  BY DEF Missing, NoTable
<1>2. pages \in SUBSET Int /\ IsFiniteSet(pages) /\ tables \in SUBSET Int /\ IsFiniteSet(tables)
  <2>1. IsFiniteSet(1 .. 2)
    BY 1 \in Int, 2 \in Int, FS_Interval
  <2> QED BY <1>1, <2>1, Sizes, FS_Subset
<1>3. /\ m \in Nat
      /\ \A x \in pages : Rank(x, pages) \in 1 .. m
      /\ \A x, y \in pages : Rank(x, pages) = Rank(y, pages) => x = y
      /\ \A i \in 1 .. m : \E x \in pages : Rank(x, pages) = i
  BY <1>2, Ranks
<1>4. /\ n \in Nat
      /\ \A x \in tables : Rank(x, tables) \in 1 .. n
      /\ \A x, y \in tables : Rank(x, tables) = Rank(y, tables) => x = y
      /\ \A i \in 1 .. n : \E x \in tables : Rank(x, tables) = i
  BY <1>2, Ranks
<1>5. Len(F) = m + n
  BY DEF Wanted
<1>6. /\ \A v \in pages : sp.map[v] = NoFrame
      /\ \A i \in tables : sp.table[i] = NoFrame
  BY DEF Missing, NoTable
<1>7. /\ sp.map \in [V -> 0 .. NFrames] /\ sp.table \in [1 .. 2 -> 0 .. NFrames]
      /\ sp.directory \in 0 .. NFrames
  BY DEF Space
<1> DEFINE Q(v) == Rank(v, pages)
           T(i) == m + Rank(i, tables)
<1>8. /\ \A v \in pages : Q(v) \in 1 .. Len(F)
      /\ \A i \in tables : T(i) \in 1 .. Len(F) /\ T(i) \notin 1 .. m
      /\ \A v, w \in pages : Q(v) = Q(w) => v = w
      /\ \A i, j \in tables : T(i) = T(j) => i = j
      /\ \A v \in pages, i \in tables : Q(v) # T(i)
      /\ \A l \in 1 .. Len(F) : (\E v \in pages : Q(v) = l) \/ (\E i \in tables : T(i) = l)
  <2>1. /\ \A v \in pages : Q(v) \in 1 .. m
        /\ \A v, w \in pages : Q(v) = Q(w) => v = w
        /\ \A l \in 1 .. m : \E v \in pages : Q(v) = l
    BY <1>3
  <2> DEFINE r(i) == Rank(i, tables)
  <2>2. /\ \A i \in tables : r(i) \in 1 .. n /\ T(i) = m + r(i)
        /\ \A i, j \in tables : r(i) = r(j) => i = j
        /\ \A l \in 1 .. n : \E i \in tables : r(i) = l
    BY <1>4
  <2> HIDE DEF Q, T, r, m, n
  <2>3. \A i \in tables : T(i) \in 1 .. Len(F) /\ T(i) \notin 1 .. m /\ T(i) \in Int
    <3> TAKE i \in tables
    <3>1. r(i) \in 1 .. n /\ T(i) = m + r(i) /\ m \in Nat /\ n \in Nat
      BY <1>3, <1>4, <2>2
    <3> QED BY <3>1, <1>5
  <2>4. \A i, j \in tables : T(i) = T(j) => i = j
    <3> TAKE i, j \in tables
    <3> HAVE T(i) = T(j)
    <3>1. r(i) = r(j)
      BY <2>2, <1>3, <1>4
    <3> QED BY <3>1, <2>2
  <2>5. \A l \in 1 .. Len(F) : (\E v \in pages : Q(v) = l) \/ (\E i \in tables : T(i) = l)
    <3> TAKE l \in 1 .. Len(F)
    <3>1. CASE l \in 1 .. m
      BY <2>1, <3>1
    <3>2. CASE l \notin 1 .. m
      <4>1. l - m \in 1 .. n
        BY <1>3, <1>4, <1>5, <3>2
      <4>2. PICK i \in tables : r(i) = l - m
        BY <2>2, <4>1
      <4>3. T(i) = l
        BY <2>2, <4>2, <1>3
      <4> QED BY <4>3
    <3> QED BY <3>1, <3>2
  <2>6. \A v \in pages : Q(v) \in 1 .. Len(F)
    BY <1>3, <1>4, <1>5, <2>1
  <2>7. \A v \in pages, i \in tables : Q(v) # T(i)
    BY <2>1, <2>3
  <2> QED BY <2>1, <2>3, <2>4, <2>5, <2>6, <2>7
<1>9. \A l \in 1 .. Len(F) : F[l] \in Frames /\ F[l] \in Range(F) /\ F[l] \in 0 .. NFrames
  <2>1. DOMAIN F = 1 .. Len(F) /\ \A l \in 1 .. Len(F) : F[l] \in Frames
    OBVIOUS
  <2> QED BY <2>1, SomeFrames DEF Range
<1>10. new = [directory |-> sp.directory,
              table |-> [i \in 1 .. 2 |-> IF i \in tables THEN F[T(i)] ELSE sp.table[i]],
              map |-> [v \in V |-> IF v \in pages THEN F[Q(v)] ELSE sp.map[v]]]
  <2>1. sp = [directory |-> sp.directory, table |-> sp.table, map |-> sp.map]
    BY DEF Space
  <2>2. new = [sp EXCEPT !.map = [v \in V |-> IF v \in pages THEN F[Q(v)] ELSE @[v]],
                         !.table = [i \in 1 .. 2 |-> IF i \in tables THEN F[T(i)] ELSE @[i]]]
    BY DEF pagetable_alloc
  <2> HIDE DEF pages, tables, m, n, Q, T, new
  <2> QED BY <2>1, <2>2
<1> HIDE DEF pages, tables, m, n, Q, T, new
<1>11. new \in Space /\ new.directory = sp.directory
  <2>1. [v \in V |-> IF v \in pages THEN F[Q(v)] ELSE sp.map[v]] \in [V -> 0 .. NFrames]
    BY <1>7, <1>8, <1>9
  <2>2. [i \in 1 .. 2 |-> IF i \in tables THEN F[T(i)] ELSE sp.table[i]] \in [1 .. 2 -> 0 .. NFrames]
    BY <1>7, <1>8, <1>9
  <2> QED BY <1>7, <1>10, <2>1, <2>2 DEF Space
<1>12. /\ \A v \in V : new.map[v] = IF v \in pages THEN F[Q(v)] ELSE sp.map[v]
       /\ \A i \in 1 .. 2 : new.table[i] = IF i \in tables THEN F[T(i)] ELSE sp.table[i]
  BY <1>10
<1>13. ASSUME NEW self \in 0 .. NFrames, Single(Holding(sp, self)), IsInjective(F),
              Range(F) \cap In(Holding(sp, self)) = {}
       PROVE  /\ Single(Holding(new, self))
              /\ In(Holding(new, self)) = In(Holding(sp, self)) \cup Range(F)
  <2> DEFINE h == Holding(sp, self)
             k == Holding(new, self)
             N == pages \cup {Top - 1 + i : i \in tables}
             at == [x \in N |-> IF x \in V THEN Q(x) ELSE T(x - Top + 1)]
  <2>1. /\ Holds(h)
        /\ \A v \in V : v \in Place /\ h[v] = sp.map[v]
        /\ \A i \in 1 .. 2 : Top - 1 + i \in Place /\ h[Top - 1 + i] = sp.table[i]
        /\ h[Top + 2] = sp.directory /\ h[Top + 3] = self
        /\ \A x \in Place : \/ x \in V
                            \/ x - Top + 1 \in 1 .. 2 /\ x = Top - 1 + (x - Top + 1)
                            \/ x = Top + 2 \/ x = Top + 3
    BY Places
  <2>2. /\ Holds(k)
        /\ \A v \in V : k[v] = new.map[v]
        /\ \A i \in 1 .. 2 : k[Top - 1 + i] = new.table[i]
        /\ k[Top + 2] = new.directory /\ k[Top + 3] = self
    BY <1>11, Places
  <2> HIDE DEF h, k
  <2>3. Top \in Nat /\ V = 0 .. Top - 1
    BY Sizes DEF V
  <2>4. \A i \in 1 .. 2 : Top - 1 + i \notin V /\ (Top - 1 + i) - Top + 1 = i
    BY <2>3
  <2>5. N \in SUBSET Place
    BY <1>1, <2>1
  <2>6. /\ \A v \in pages : v \in N /\ at[v] = Q(v)
        /\ \A i \in tables : Top - 1 + i \in N /\ at[Top - 1 + i] = T(i)
        /\ \A x \in N : x \in pages \/ \E i \in tables : x = Top - 1 + i
    BY <1>1, <2>4
  <2>7. DOMAIN at = N
    OBVIOUS
  <2>7a. at = [x \in N |-> at[x]]
    OBVIOUS
  <2> HIDE DEF N, at
  <2>8. at \in [N -> 1 .. Len(F)]
    <3>1. \A x \in N : at[x] \in 1 .. Len(F)
      BY <1>8, <2>6
    <3> QED BY <3>1, <2>7a
  <2>9. \A x, y \in N : at[x] = at[y] => x = y
    BY <1>8, <2>6
  <2>10. \A l \in 1 .. Len(F) : \E x \in N : at[x] = l
    BY <1>8, <2>6
  <2>11. \A x \in N : h[x] = NoFrame /\ k[x] = F[at[x]]
    BY <1>1, <1>6, <1>12, <2>1, <2>2, <2>6
  <2>12. \A x \in Place \ N : k[x] = h[x]
    <3> TAKE x \in Place \ N
    <3>1. CASE x \in V
      <4>1. x \notin pages
        BY <2>6
      <4> QED BY <3>1, <4>1, <1>12, <2>1, <2>2
    <3>2. CASE x - Top + 1 \in 1 .. 2 /\ x = Top - 1 + (x - Top + 1)
      <4>1. x - Top + 1 \notin tables
        BY <2>6, <3>2
      <4>2. /\ k[Top - 1 + (x - Top + 1)] = new.table[x - Top + 1]
            /\ h[Top - 1 + (x - Top + 1)] = sp.table[x - Top + 1]
        BY <3>2, <2>1, <2>2
      <4>3. new.table[x - Top + 1] = sp.table[x - Top + 1]
        BY <4>1, <3>2, <1>12
      <4> QED BY <3>2, <4>2, <4>3
    <3>3. CASE x = Top + 2 \/ x = Top + 3
      BY <3>3, <1>11, <2>1, <2>2
    <3> QED BY <3>1, <3>2, <3>3, <2>1
  <2>13. Single(h) /\ Range(F) \cap In(h) = {}
    BY <1>13 DEF h
  <2>14. Single(k) /\ In(k) = In(h) \cup Range(F)
    <3>1. Fills(h, k, F, N, at)
      BY <2>5, <2>8, <2>9, <2>10, <2>11, <2>12 DEF Fills
    <3> QED BY <3>1, <2>13, <1>13, Filled
  <2> QED BY <2>14 DEF h, k
<1>14. \A v \in V : IF v \in pages THEN sp.map[v] = NoFrame /\ new.map[v] \in Range(F)
                    ELSE new.map[v] = sp.map[v]
  BY <1>6, <1>8, <1>9, <1>12
<1> QED BY <1>11, <1>13, <1>14 DEF pages, new

\* pagetable_free: the pages of vs are given back and nothing else.
LEMMA FreeTable ==
  ASSUME NEW sp \in Space, NEW vs \in SUBSET V
  PROVE  LET new == pagetable_free(sp, vs)
         IN  /\ new \in Space
             /\ \A v \in V : new.map[v] = IF v \in vs THEN NoFrame ELSE sp.map[v]
             /\ \A self \in 0 .. NFrames :
                  LET h == Holding(sp, self)   k == Holding(new, self)
                  IN Single(h) => /\ Single(k) /\ In(k) = In(h) \ Mapped(sp, vs)
                                  /\ Mapped(sp, vs) \subseteq In(h)
<1> DEFINE new == pagetable_free(sp, vs)
<1>1. /\ sp.map \in [V -> 0 .. NFrames] /\ sp.table \in [1 .. 2 -> 0 .. NFrames]
      /\ sp.directory \in 0 .. NFrames
  BY DEF Space
<1>2. new = [directory |-> sp.directory, table |-> sp.table,
             map |-> [v \in V |-> IF v \in vs THEN NoFrame ELSE sp.map[v]]]
  <2>1. sp = [directory |-> sp.directory, table |-> sp.table, map |-> sp.map]
    BY DEF Space
  <2>2. new = [sp EXCEPT !.map = [v \in V |-> IF v \in vs THEN NoFrame ELSE @[v]]]
    BY DEF pagetable_free
  <2> HIDE DEF new
  <2> QED BY <2>1, <2>2
<1> HIDE DEF new
<1>3. NoFrame \in 0 .. NFrames
  BY SomeFrames DEF NoFrame
<1>4. [v \in V |-> IF v \in vs THEN NoFrame ELSE sp.map[v]] \in [V -> 0 .. NFrames]
  BY <1>1, <1>3
<1>5. new \in Space
  BY <1>1, <1>2, <1>4 DEF Space
<1>6. /\ \A v \in V : new.map[v] = IF v \in vs THEN NoFrame ELSE sp.map[v]
      /\ new.table = sp.table /\ new.directory = sp.directory
  BY <1>2
<1>7. ASSUME NEW self \in 0 .. NFrames, Single(Holding(sp, self))
      PROVE  /\ Single(Holding(new, self))
             /\ In(Holding(new, self)) = In(Holding(sp, self)) \ Mapped(sp, vs)
             /\ Mapped(sp, vs) \subseteq In(Holding(sp, self))
  <2> DEFINE h == Holding(sp, self)
             k == Holding(new, self)
  <2>1. /\ Holds(h)
        /\ \A v \in V : v \in Place /\ h[v] = sp.map[v]
        /\ \A i \in 1 .. 2 : Top - 1 + i \in Place /\ h[Top - 1 + i] = sp.table[i]
        /\ h[Top + 2] = sp.directory /\ h[Top + 3] = self
        /\ \A x \in Place : \/ x \in V
                            \/ x - Top + 1 \in 1 .. 2 /\ x = Top - 1 + (x - Top + 1)
                            \/ x = Top + 2 \/ x = Top + 3
    BY Places
  <2>2. /\ Holds(k)
        /\ \A v \in V : k[v] = new.map[v]
        /\ \A i \in 1 .. 2 : k[Top - 1 + i] = new.table[i]
        /\ k[Top + 2] = new.directory /\ k[Top + 3] = self
    BY <1>5, Places
  <2>3. Single(h)
    BY <1>7
  <2> HIDE DEF h, k
  <2>4. \A x \in Place \ vs : k[x] = h[x]
    <3> TAKE x \in Place \ vs
    <3>1. CASE x \in V
      BY <3>1, <1>6, <2>1, <2>2
    <3>2. CASE x - Top + 1 \in 1 .. 2 /\ x = Top - 1 + (x - Top + 1)
      BY <3>2, <1>6, <2>1, <2>2
    <3>3. CASE x = Top + 2 \/ x = Top + 3
      BY <3>3, <1>6, <2>1, <2>2
    <3> QED BY <3>1, <3>2, <3>3, <2>1
  <2>5. \A x \in vs : x \in Place /\ k[x] = NoFrame /\ h[x] = sp.map[x]
    BY <1>6, <2>1, <2>2
  <2>6. Single(k)
    BY <2>3, <2>4, <2>5 DEF Single
  <2>7. Mapped(sp, vs) = {h[x] : x \in vs} \ {NoFrame}
    BY <2>5 DEF Mapped
  <2>8. Mapped(sp, vs) \subseteq In(h)
    BY <2>5, <2>7 DEF In
  <2>9. In(k) = In(h) \ Mapped(sp, vs)
    <3>1. ASSUME NEW f \in In(k) PROVE f \in In(h) \ Mapped(sp, vs)
      <4>1. PICK x \in Place : k[x] = f /\ f # NoFrame
        BY DEF In
      <4>2. x \notin vs /\ h[x] = f
        BY <4>1, <2>4, <2>5
      <4>3. f \notin Mapped(sp, vs)
        BY <4>1, <4>2, <2>3, <2>5, <2>7 DEF Single
      <4> QED BY <4>1, <4>2, <4>3 DEF In
    <3>2. ASSUME NEW f \in In(h), f \notin Mapped(sp, vs) PROVE f \in In(k)
      <4>1. PICK x \in Place : h[x] = f /\ f # NoFrame
        BY DEF In
      <4>2. x \notin vs
        BY <4>1, <3>2, <2>7
      <4> QED BY <4>1, <4>2, <2>4 DEF In
    <3> QED BY <3>1, <3>2
  <2> QED BY <2>6, <2>8, <2>9 DEF h, k
<1> QED BY <1>5, <1>6, <1>7 DEF new

\* pagetable_delete: everything a process holds but the frame of its own.
LEMMA DeleteTable ==
  ASSUME NEW sp \in Space, NEW self \in Frames, Single(Holding(sp, self))
  PROVE  /\ pagetable_delete(sp) = In(Holding(sp, self)) \ {self}
         /\ self \in In(Holding(sp, self))
<1> DEFINE h == Holding(sp, self)
<1>1. self \in 0 .. NFrames /\ self # NoFrame
  BY SomeFrames
<1>2. In(h) = (Mapped(sp, V) \cup Range(sp.table) \cup {sp.directory, self}) \ {NoFrame}
  BY <1>1, HeldFrames
<1>3. /\ \A v \in V : v \in Place /\ h[v] = sp.map[v]
      /\ \A i \in 1 .. 2 : Top - 1 + i \in Place /\ h[Top - 1 + i] = sp.table[i]
      /\ Top + 2 \in Place /\ h[Top + 2] = sp.directory
      /\ Top + 3 \in Place /\ h[Top + 3] = self
  BY <1>1, Places
<1>4. Single(h)
  OBVIOUS
<1>5. Top \in Nat /\ V = 0 .. Top - 1 /\ DOMAIN sp.table = 1 .. 2
  BY Sizes DEF V, Space
<1> HIDE DEF h
<1>6. self \notin Mapped(sp, V)
  <2>1. \A v \in V : v # Top + 3
    BY <1>5
  <2> QED BY <2>1, <1>1, <1>3, <1>4 DEF Single, Mapped
<1>7. self \notin Range(sp.table)
  <2>1. \A i \in 1 .. 2 : Top - 1 + i # Top + 3
    BY <1>5
  <2> QED BY <2>1, <1>1, <1>3, <1>4, <1>5 DEF Single, Range
<1>8. self # sp.directory
  <2>1. Top + 2 # Top + 3
    BY <1>5
  <2> QED BY <2>1, <1>1, <1>3, <1>4 DEF Single
<1>9. pagetable_delete(sp) = (Mapped(sp, V) \cup Range(sp.table) \cup {sp.directory}) \ {NoFrame}
  BY DEF pagetable_delete
<1>10. In(h) \ {self} = (Mapped(sp, V) \cup Range(sp.table) \cup {sp.directory}) \ {NoFrame}
  BY <1>2, <1>6, <1>7, <1>8
<1>11. self \in In(h)
  BY <1>1, <1>2
<1> QED BY <1>9, <1>10, <1>11 DEF h

\* As many pages and tables as there are places with one.
LEMMA TableSizes ==
  ASSUME NEW sp \in Space, NEW self \in 0 .. NFrames, Single(Holding(sp, self))
  PROVE  LET vs    == {v \in V : sp.map[v] # NoFrame}
             extra == {i \in 1 .. 2 : sp.table[i] # NoFrame}
         IN  /\ IsFiniteSet(vs) /\ IsFiniteSet(extra)
             /\ IsFiniteSet(Mapped(sp, V)) /\ Cardinality(Mapped(sp, V)) = Cardinality(vs)
             /\ IsFiniteSet(Range(sp.table) \ {NoFrame})
             /\ Cardinality(Range(sp.table) \ {NoFrame}) = Cardinality(extra)
             /\ Cardinality(vs) \in Nat /\ Cardinality(extra) \in Nat
             /\ Mapped(sp, V) \cap Range(sp.table) = {}
             /\ sp.directory # NoFrame => sp.directory \notin Mapped(sp, V) \cup Range(sp.table)
             /\ self # NoFrame =>
                  self \notin Mapped(sp, V) \cup Range(sp.table) \cup {sp.directory}
<1> DEFINE h == Holding(sp, self)
           vs == {v \in V : sp.map[v] # NoFrame}
           extra == {i \in 1 .. 2 : sp.table[i] # NoFrame}
<1>1. /\ \A v \in V : v \in Place /\ h[v] = sp.map[v]
      /\ \A i \in 1 .. 2 : Top - 1 + i \in Place /\ h[Top - 1 + i] = sp.table[i]
      /\ Top + 2 \in Place /\ h[Top + 2] = sp.directory
      /\ Top + 3 \in Place /\ h[Top + 3] = self
  BY Places
<1>2. Single(h)
  OBVIOUS
<1>3. Top \in Nat /\ V = 0 .. Top - 1 /\ DOMAIN sp.table = 1 .. 2
  BY Sizes DEF V, Space
<1> HIDE DEF h
<1>4. /\ \A v \in V, i \in 1 .. 2 : v # Top - 1 + i
      /\ \A v \in V : v # Top + 2 /\ v # Top + 3
      /\ \A i \in 1 .. 2 : Top - 1 + i # Top + 2 /\ Top - 1 + i # Top + 3
      /\ Top + 2 # Top + 3
      /\ \A i, j \in 1 .. 2 : Top - 1 + i = Top - 1 + j => i = j
  BY <1>3
<1>5. \A v, w \in vs : sp.map[v] = sp.map[w] => v = w
  BY <1>1, <1>2 DEF Single
<1>6. \A i, j \in extra : sp.table[i] = sp.table[j] => i = j
  BY <1>1, <1>2, <1>4 DEF Single
<1>7. IsFiniteSet(vs)
  BY Sizes, FS_Subset
<1>8. IsFiniteSet(extra)
  <2>1. IsFiniteSet(1 .. 2)
    BY 1 \in Int, 2 \in Int, FS_Interval
  <2> QED BY <2>1, FS_Subset
<1>9. Mapped(sp, V) = {sp.map[v] : v \in vs}
  BY DEF Mapped
<1>10. Range(sp.table) \ {NoFrame} = {sp.table[i] : i \in extra}
  BY <1>3 DEF Range
<1>11. Mapped(sp, V) \cap Range(sp.table) = {}
  BY <1>1, <1>2, <1>3, <1>4 DEF Single, Mapped, Range
<1>12. sp.directory # NoFrame => sp.directory \notin Mapped(sp, V) \cup Range(sp.table)
  BY <1>1, <1>2, <1>3, <1>4 DEF Single, Mapped, Range
<1>13. self # NoFrame => self \notin Mapped(sp, V) \cup Range(sp.table) \cup {sp.directory}
  BY <1>1, <1>2, <1>3, <1>4 DEF Single, Mapped, Range
<1> HIDE DEF vs, extra
<1>14. /\ IsFiniteSet(Mapped(sp, V)) /\ Cardinality(Mapped(sp, V)) = Cardinality(vs)
       /\ Cardinality(vs) \in Nat
  BY <1>5, <1>7, <1>9, ImageSize
<1>15. /\ IsFiniteSet(Range(sp.table) \ {NoFrame})
       /\ Cardinality(Range(sp.table) \ {NoFrame}) = Cardinality(extra)
       /\ Cardinality(extra) \in Nat
  BY <1>6, <1>8, <1>10, ImageSize
<1> QED BY <1>7, <1>8, <1>11, <1>12, <1>13, <1>14, <1>15 DEF vs, extra

\* A process that has nothing yet.
LEMMA EmptySpace ==
  /\ NoSpace \in Space
  /\ \A v \in V : NoSpace.map[v] = NoFrame
  /\ \A self \in 0 .. NFrames :
       Single(Holding(NoSpace, self)) /\ In(Holding(NoSpace, self)) = {self} \ {NoFrame}
<1>0. NoFrame \in 0 .. NFrames
  BY SomeFrames DEF NoFrame
<1>1. NoSpace \in Space /\ \A v \in V : NoSpace.map[v] = NoFrame
  BY <1>0 DEF NoSpace, Space
<1>2. \A i \in 1 .. 2 : NoSpace.table[i] = NoFrame
  BY DEF NoSpace
<1>3. NoSpace.directory = NoFrame
  BY DEF NoSpace
<1>4. ASSUME NEW self \in 0 .. NFrames
      PROVE  Single(Holding(NoSpace, self)) /\ In(Holding(NoSpace, self)) = {self} \ {NoFrame}
  <2> DEFINE h == Holding(NoSpace, self)
  <2>1. /\ \A v \in V : v \in Place /\ h[v] = NoFrame
        /\ \A i \in 1 .. 2 : Top - 1 + i \in Place /\ h[Top - 1 + i] = NoFrame
        /\ h[Top + 2] = NoFrame /\ Top + 3 \in Place /\ h[Top + 3] = self
        /\ \A x \in Place : \/ x \in V
                            \/ x - Top + 1 \in 1 .. 2 /\ x = Top - 1 + (x - Top + 1)
                            \/ x = Top + 2 \/ x = Top + 3
    BY <1>1, <1>2, <1>3, Places
  <2> HIDE DEF h
  <2>2. \A x \in Place : x # Top + 3 => h[x] = NoFrame
    <3> TAKE x \in Place
    <3> HAVE x # Top + 3
    <3>1. CASE x - Top + 1 \in 1 .. 2 /\ x = Top - 1 + (x - Top + 1)
      BY <3>1, <2>1
    <3> QED BY <3>1, <2>1
  <2>3. Single(h) /\ In(h) = {self} \ {NoFrame}
    BY <2>1, <2>2 DEF Single, In
  <2> QED BY <2>3 DEF h
<1> QED BY <1>1, <1>4

\* pagetable_duplicate, into the frames G, for a process whose own frame is self.
LEMMA DuplicateTable ==
  ASSUME NEW sp \in Space, NEW s0 \in 0 .. NFrames, Single(Holding(sp, s0)),
         NEW self \in Frames, NEW G \in Seq(Frames), IsInjective(G), self \notin Range(G),
         Len(G) = 1 + Cardinality(Mapped(sp, V)) + Cardinality(Range(sp.table) \ {NoFrame})
  PROVE  LET new == pagetable_duplicate(sp, G)
             k   == Holding(new, self)
         IN  /\ new \in Space
             /\ \A v \in V : new.map[v] = NoFrame <=> sp.map[v] = NoFrame
             /\ \A v, w \in V : new.map[v] # NoFrame /\ new.map[v] = new.map[w] => v = w
             /\ Single(k) /\ In(k) = {self} \cup Range(G)
<1> DEFINE vs == {v \in V : sp.map[v] # NoFrame}
           extra == {i \in 1 .. 2 : sp.table[i] # NoFrame}
           m == Cardinality(vs)
           n == Cardinality(extra)
           Q(v) == 1 + Rank(v, vs)
           T(i) == 1 + m + Rank(i, extra)
           new == pagetable_duplicate(sp, G)
<1>1. /\ IsFiniteSet(vs) /\ IsFiniteSet(extra) /\ m \in Nat /\ n \in Nat
      /\ Len(G) = 1 + m + n
  BY TableSizes
<1>2. vs \in SUBSET Int /\ extra \in SUBSET Int /\ vs \subseteq V /\ extra \subseteq 1 .. 2
  BY Sizes
<1>3. new = [directory |-> G[1],
             table |-> [i \in 1 .. 2 |-> IF i \in extra THEN G[T(i)] ELSE NoFrame],
             map |-> [v \in V |-> IF v \in vs THEN G[Q(v)] ELSE NoFrame]]
  BY DEF pagetable_duplicate
<1>4. /\ \A v \in V : v \in vs <=> sp.map[v] # NoFrame
      /\ \A i \in 1 .. 2 : i \in extra <=> sp.table[i] # NoFrame
  OBVIOUS
<1> HIDE DEF vs, extra, m, n, new
<1>5. /\ \A x \in vs : Rank(x, vs) \in 1 .. m
      /\ \A x, y \in vs : Rank(x, vs) = Rank(y, vs) => x = y
      /\ \A i \in 1 .. m : \E x \in vs : Rank(x, vs) = i
  BY <1>1, <1>2, Ranks DEF m
<1>6. /\ \A x \in extra : Rank(x, extra) \in 1 .. n
      /\ \A x, y \in extra : Rank(x, extra) = Rank(y, extra) => x = y
      /\ \A i \in 1 .. n : \E x \in extra : Rank(x, extra) = i
  BY <1>1, <1>2, Ranks DEF n
<1>7. /\ 1 \in 1 .. Len(G)
      /\ \A v \in vs : Q(v) \in 1 .. Len(G) /\ Q(v) # 1
      /\ \A i \in extra : T(i) \in 1 .. Len(G) /\ T(i) # 1
      /\ \A v, w \in vs : Q(v) = Q(w) => v = w
      /\ \A i, j \in extra : T(i) = T(j) => i = j
      /\ \A v \in vs, i \in extra : Q(v) # T(i)
      /\ \A l \in 1 .. Len(G) : \/ l = 1
                                \/ \E v \in vs : Q(v) = l
                                \/ \E i \in extra : T(i) = l
  <2> DEFINE q(v) == Rank(v, vs)
             r(i) == Rank(i, extra)
  <2>1. \A v \in vs : q(v) \in 1 .. m /\ Q(v) = 1 + q(v)
    BY <1>5
  <2>2. \A i \in extra : r(i) \in 1 .. n /\ T(i) = 1 + m + r(i)
    BY <1>6
  <2>3. /\ \A v, w \in vs : q(v) = q(w) => v = w
        /\ \A i, j \in extra : r(i) = r(j) => i = j
        /\ \A l \in 1 .. m : \E v \in vs : q(v) = l
        /\ \A l \in 1 .. n : \E i \in extra : r(i) = l
    BY <1>5, <1>6
  <2> HIDE DEF q, r, Q, T
  <2>4. \A v \in vs : Q(v) \in 2 .. 1 + m
    BY <1>1, <2>1
  <2>5. \A i \in extra : T(i) \in m + 2 .. 1 + m + n
    <3> TAKE i \in extra
    <3>1. r(i) \in 1 .. n /\ T(i) = 1 + m + r(i)
      BY <2>2
    <3> QED BY <1>1, <3>1
  <2>6. \A v, w \in vs : Q(v) = Q(w) => v = w
    <3> TAKE v, w \in vs
    <3> HAVE Q(v) = Q(w)
    <3>1. q(v) = q(w)
      BY <1>1, <2>1
    <3> QED BY <3>1, <2>3
  <2>7. \A i, j \in extra : T(i) = T(j) => i = j
    <3> TAKE i, j \in extra
    <3> HAVE T(i) = T(j)
    <3>1. r(i) = r(j)
      BY <1>1, <2>2
    <3> QED BY <3>1, <2>3
  <2>8. \A l \in 1 .. Len(G) : l = 1 \/ (\E v \in vs : Q(v) = l) \/ (\E i \in extra : T(i) = l)
    <3> TAKE l \in 1 .. Len(G)
    <3>1. CASE l \in 2 .. 1 + m
      <4>1. l - 1 \in 1 .. m
        BY <1>1, <3>1
      <4>2. PICK v \in vs : q(v) = l - 1
        BY <2>3, <4>1
      <4>3. Q(v) = l
        BY <2>1, <4>2, <3>1
      <4> QED BY <4>3
    <3>2. CASE l \in m + 2 .. 1 + m + n
      <4>1. l - 1 - m \in 1 .. n
        BY <1>1, <3>2
      <4>2. PICK i \in extra : r(i) = l - 1 - m
        BY <2>3, <4>1
      <4>3. T(i) = l
        BY <2>2, <4>2, <3>2, <1>1
      <4> QED BY <4>3
    <3> QED BY <1>1, <3>1, <3>2
  <2>9. 1 \in 1 .. Len(G)
    BY <1>1
  <2>10. \A v \in vs : Q(v) \in 1 .. Len(G) /\ Q(v) # 1
    BY <1>1, <2>4
  <2>11. \A i \in extra : T(i) \in 1 .. Len(G) /\ T(i) # 1
    BY <1>1, <2>5
  <2>12. \A v \in vs, i \in extra : Q(v) # T(i)
    BY <1>1, <2>4, <2>5
  <2> QED BY <2>6, <2>7, <2>8, <2>9, <2>10, <2>11, <2>12
<1>8. \A l \in 1 .. Len(G) : G[l] \in Frames /\ G[l] # NoFrame /\ G[l] \in 0 .. NFrames
  <2>1. \A l \in 1 .. Len(G) : G[l] \in Frames
    OBVIOUS
  <2> QED BY <2>1, SomeFrames
<1>9. \A i, j \in 1 .. Len(G) : G[i] = G[j] => i = j
  <2>1. DOMAIN G = 1 .. Len(G)
    OBVIOUS
  <2> QED BY <2>1 DEF IsInjective
<1> HIDE DEF Q, T
<1>10. NoFrame \in 0 .. NFrames /\ self \in 0 .. NFrames /\ self # NoFrame
  BY SomeFrames DEF NoFrame
<1>11. new \in Space /\ new.directory = G[1]
  <2>1. [v \in V |-> IF v \in vs THEN G[Q(v)] ELSE NoFrame] \in [V -> 0 .. NFrames]
    BY <1>7, <1>8, <1>10
  <2>2. [i \in 1 .. 2 |-> IF i \in extra THEN G[T(i)] ELSE NoFrame] \in [1 .. 2 -> 0 .. NFrames]
    BY <1>7, <1>8, <1>10
  <2> QED BY <1>3, <1>7, <1>8, <2>1, <2>2 DEF Space
<1>12. /\ \A v \in V : new.map[v] = IF v \in vs THEN G[Q(v)] ELSE NoFrame
       /\ \A i \in 1 .. 2 : new.table[i] = IF i \in extra THEN G[T(i)] ELSE NoFrame
  BY <1>3
<1>13. \A v \in V : new.map[v] = NoFrame <=> sp.map[v] = NoFrame
  BY <1>4, <1>7, <1>8, <1>12
<1>14. \A v, w \in V : new.map[v] # NoFrame /\ new.map[v] = new.map[w] => v = w
  <2> TAKE v, w \in V
  <2> HAVE new.map[v] # NoFrame /\ new.map[v] = new.map[w]
  <2>1. v \in vs /\ w \in vs
    BY <1>12
  <2>2. Q(v) \in 1 .. Len(G) /\ Q(w) \in 1 .. Len(G) /\ G[Q(v)] = G[Q(w)]
    BY <1>7, <1>12, <2>1
  <2>3. Q(v) = Q(w)
    BY <1>9, <2>2
  <2> QED BY <1>7, <2>1, <2>3
<1>15. /\ Single(Holding(new, self))
       /\ In(Holding(new, self)) = {self} \cup Range(G)
  <2> DEFINE h == Holding(NoSpace, self)
             k == Holding(new, self)
             N == vs \cup {Top - 1 + i : i \in extra} \cup {Top + 2}
             at == [x \in N |-> IF x = Top + 2 THEN 1 ELSE IF x \in V THEN Q(x) ELSE T(x - Top + 1)]
  <2>1. /\ \A v \in V : v \in Place /\ h[v] = NoFrame
        /\ \A i \in 1 .. 2 : Top - 1 + i \in Place /\ h[Top - 1 + i] = NoFrame
        /\ Top + 2 \in Place /\ h[Top + 2] = NoFrame /\ h[Top + 3] = self
        /\ \A x \in Place : \/ x \in V
                            \/ x - Top + 1 \in 1 .. 2 /\ x = Top - 1 + (x - Top + 1)
                            \/ x = Top + 2 \/ x = Top + 3
    <3>1. /\ NoSpace \in Space /\ NoSpace.directory = NoFrame
          /\ \A v \in V : NoSpace.map[v] = NoFrame
          /\ \A i \in 1 .. 2 : NoSpace.table[i] = NoFrame
      BY EmptySpace DEF NoSpace
    <3>2. self \in 0 .. NFrames
      BY <1>10
    <3> QED BY <3>1, <3>2, Places
  <2>2. /\ \A v \in V : k[v] = new.map[v]
        /\ \A i \in 1 .. 2 : k[Top - 1 + i] = new.table[i]
        /\ k[Top + 2] = new.directory /\ k[Top + 3] = self
    BY <1>10, <1>11, Places
  <2>3. Single(h) /\ In(h) = {self}
    BY <1>10, EmptySpace
  <2> HIDE DEF h, k
  <2>4. Top \in Nat /\ V = 0 .. Top - 1
    BY Sizes DEF V
  <2>5. /\ \A i \in 1 .. 2 : /\ Top - 1 + i \notin V /\ (Top - 1 + i) - Top + 1 = i
                             /\ Top - 1 + i # Top + 2
        /\ Top + 2 \notin V
    BY <2>4
  <2>6. N \subseteq Place
    BY <1>2, <2>1
  <2>7. /\ \A v \in vs : v \in N /\ at[v] = Q(v)
        /\ \A i \in extra : Top - 1 + i \in N /\ at[Top - 1 + i] = T(i)
        /\ Top + 2 \in N /\ at[Top + 2] = 1
        /\ \A x \in N : x \in vs \/ (\E i \in extra : x = Top - 1 + i) \/ x = Top + 2
    BY <1>2, <2>5
  <2>8. at = [x \in N |-> at[x]]
    OBVIOUS
  <2> HIDE DEF N, at
  <2>9. at \in [N -> 1 .. Len(G)]
    <3>1. ASSUME NEW x \in N PROVE at[x] \in 1 .. Len(G)
      <4>1. CASE x \in vs
        BY <4>1, <1>7, <2>7
      <4>2. CASE \E i \in extra : x = Top - 1 + i
        <5>1. PICK i \in extra : x = Top - 1 + i
          BY <4>2
        <5>2. at[x] = T(i)
          BY <5>1, <2>7
        <5> QED BY <5>1, <5>2, <1>7
      <4>3. CASE x = Top + 2
        BY <4>3, <1>7, <2>7
      <4> QED BY <4>1, <4>2, <4>3, <2>7
    <3> QED BY <3>1, <2>8
  <2>10. \A x, y \in N : at[x] = at[y] => x = y
    BY <1>7, <2>7
  <2>11. \A l \in 1 .. Len(G) : \E x \in N : at[x] = l
    BY <1>7, <2>7, ZenonT(40)
  <2>12. \A x \in N : h[x] = NoFrame /\ k[x] = G[at[x]]
    <3> TAKE x \in N
    <3>1. CASE x \in vs
      BY <3>1, <1>2, <1>12, <2>1, <2>2, <2>7
    <3>2. CASE \E i \in extra : x = Top - 1 + i
      <4>1. PICK i \in extra : x = Top - 1 + i
        BY <3>2
      <4>2. i \in 1 .. 2 /\ new.table[i] = G[T(i)] /\ at[x] = T(i)
        BY <4>1, <1>2, <1>12, <2>7
      <4> QED BY <4>1, <4>2, <2>1, <2>2
    <3>3. CASE x = Top + 2
      BY <3>3, <1>11, <2>1, <2>2, <2>7
    <3> QED BY <3>1, <3>2, <3>3, <2>7
  <2>13. \A x \in Place \ N : k[x] = h[x]
    <3> TAKE x \in Place \ N
    <3>1. CASE x \in V
      <4>1. x \notin vs
        BY <2>7
      <4> QED BY <3>1, <4>1, <1>12, <2>1, <2>2
    <3>2. CASE x - Top + 1 \in 1 .. 2 /\ x = Top - 1 + (x - Top + 1)
      <4>1. x - Top + 1 \notin extra
        BY <2>7, <3>2
      <4>2. /\ k[Top - 1 + (x - Top + 1)] = new.table[x - Top + 1]
            /\ h[Top - 1 + (x - Top + 1)] = NoFrame
        BY <3>2, <2>1, <2>2
      <4>3. new.table[x - Top + 1] = NoFrame
        BY <4>1, <3>2, <1>12
      <4> QED BY <3>2, <4>2, <4>3
    <3>3. CASE x = Top + 2 \/ x = Top + 3
      <4>1. x # Top + 2
        BY <2>7
      <4> QED BY <3>3, <4>1, <2>1, <2>2
    <3> QED BY <3>1, <3>2, <3>3, <2>1
  <2>14. Fills(h, k, G, N, at)
    BY <2>6, <2>9, <2>10, <2>11, <2>12, <2>13 DEF Fills
  <2>15. Single(k) /\ In(k) = In(h) \cup Range(G)
    BY <2>3, <2>14, Filled
  <2> QED BY <2>3, <2>15 DEF k
<1> QED BY <1>11, <1>13, <1>14, <1>15 DEF new

\* process_create: its frame, and a page table with the pages of data and stack.
LEMMA FreshSpace ==
  ASSUME NEW F \in Seq(Frames), Len(F) = Created
  PROVE  /\ F[1] \in Frames /\ F[2] \in Frames
         /\ NewSpace(F) \in Space /\ NewSpace(F).directory = F[2]
         /\ \A v \in V : IF v \in Initial THEN NewSpace(F).map[v] \in Range(F)
                         ELSE NewSpace(F).map[v] = NoFrame
         /\ IsInjective(F) =>
              /\ Single(Holding(NewSpace(F), F[1]))
              /\ In(Holding(NewSpace(F), F[1])) = Range(F)
              /\ pagetable_delete(NewSpace(F)) = Range(F) \ {F[1]}
<1> DEFINE b == [NoSpace EXCEPT !.directory = F[2]]
           G == SubSeq(F, 3, Len(F))
           w == Wanted(NoSpace, Initial)
<1>0. w \in Nat
  <2>1. IsFiniteSet(Missing(NoSpace, Initial)) /\ IsFiniteSet(NoTable(NoSpace, Initial))
    <3>1. Missing(NoSpace, Initial) \subseteq V /\ NoTable(NoSpace, Initial) \subseteq 1 .. 2
      BY Sizes DEF Missing, NoTable
    <3>2. IsFiniteSet(1 .. 2) /\ IsFiniteSet(V)
      BY 1 \in Int, 2 \in Int, FS_Interval, Sizes
    <3> QED BY <3>1, <3>2, FS_Subset
  <2> QED BY <2>1, FS_CardinalityType DEF Wanted
<1>1. Len(F) = 2 + w /\ Len(F) \in Nat /\ DOMAIN F = 1 .. Len(F)
  BY DEF Created
<1> HIDE DEF w
<1>2. F[1] \in Frames /\ F[2] \in Frames
  <2>1. 1 \in 1 .. Len(F) /\ 2 \in 1 .. Len(F)
    BY <1>0, <1>1
  <2> QED BY <2>1
<1>3. /\ G \in Seq(Frames) /\ Len(G) = w
      /\ \A i \in 1 .. w : G[i] = F[i + 2] /\ i + 2 \in 1 .. Len(F)
  <2>1. G = [i \in 1 .. Len(F) - 3 + 1 |-> F[3 + i - 1]]
    BY <1>1 DEF SubSeq
  <2>2. G = [i \in 1 .. w |-> F[i + 2]]
    BY <1>0, <1>1, <2>1
  <2>3. \A i \in 1 .. w : i + 2 \in 1 .. Len(F)
    BY <1>0, <1>1
  <2> HIDE DEF G
  <2>4. \A i \in 1 .. w : G[i] = F[i + 2] /\ G[i] \in Frames
    BY <2>2, <2>3
  <2>5. G \in [1 .. w -> Frames]
    BY <2>2, <2>4
  <2> QED BY <1>0, <2>3, <2>4, <2>5, IsASeq
<1> HIDE DEF G
<1>4. /\ b.directory = F[2] /\ b.map = NoSpace.map /\ b.table = NoSpace.table
      /\ b = [directory |-> F[2], table |-> NoSpace.table, map |-> NoSpace.map]
  BY DEF NoSpace
<1> HIDE DEF b
<1>5. b \in Space
  <2>1. F[2] \in 0 .. NFrames
    BY <1>2, SomeFrames
  <2>2. NoSpace.table \in [1 .. 2 -> 0 .. NFrames] /\ NoSpace.map \in [V -> 0 .. NFrames]
    BY EmptySpace DEF Space
  <2> QED BY <1>4, <2>1, <2>2 DEF Space
<1>6. Missing(b, Initial) = Initial /\ Wanted(b, Initial) = w
  BY <1>4, Sizes, EmptySpace DEF Missing, NoTable, Wanted, w
<1>7. NewSpace(F) = pagetable_alloc(b, Initial, G)
  BY DEF NewSpace, b, G
<1>8. Range(F) = {F[1], F[2]} \cup Range(G)
  <2>1. DOMAIN G = 1 .. w
    BY <1>3
  <2>2. ASSUME NEW i \in 1 .. Len(F) PROVE F[i] \in {F[1], F[2]} \cup Range(G)
    <3>1. CASE i = 1 \/ i = 2
      BY <3>1
    <3>2. CASE i # 1 /\ i # 2
      <4>1. i - 2 \in 1 .. w /\ i - 2 + 2 = i
        BY <1>0, <1>1, <3>2
      <4>2. G[i - 2] = F[i]
        BY <1>3, <4>1
      <4> QED BY <2>1, <4>1, <4>2 DEF Range
    <3> QED BY <3>1, <3>2
  <2>3. ASSUME NEW i \in 1 .. w PROVE G[i] \in Range(F)
    BY <1>1, <1>3 DEF Range
  <2>4. 1 \in 1 .. Len(F) /\ 2 \in 1 .. Len(F)
    BY <1>0, <1>1
  <2>5. F[1] \in Range(F) /\ F[2] \in Range(F)
    BY <1>1, <2>4 DEF Range
  <2>6. Range(F) \subseteq {F[1], F[2]} \cup Range(G)
    BY <1>1, <2>2 DEF Range
  <2>7. Range(G) \subseteq Range(F)
    BY <2>1, <2>3 DEF Range
  <2> QED BY <2>5, <2>6, <2>7
<1>9. /\ NewSpace(F) \in Space /\ NewSpace(F).directory = F[2]
      /\ \A v \in V : IF v \in Initial THEN NewSpace(F).map[v] \in Range(G)
                      ELSE NewSpace(F).map[v] = NoFrame
      /\ \A self \in 0 .. NFrames :
           LET h == Holding(b, self)   k == Holding(NewSpace(F), self)
           IN Single(h) /\ IsInjective(G) /\ Range(G) \cap In(h) = {}
                => Single(k) /\ In(k) = In(h) \cup Range(G)
  <2>1. Initial \in SUBSET V /\ Len(G) = Wanted(b, Initial)
    BY Sizes, <1>3, <1>6
  <2> DEFINE new == pagetable_alloc(b, Initial, G)
  <2>2. /\ new \in Space /\ new.directory = b.directory
        /\ \A v \in V : IF v \in Missing(b, Initial)
                        THEN b.map[v] = NoFrame /\ new.map[v] \in Range(G)
                        ELSE new.map[v] = b.map[v]
        /\ \A self \in 0 .. NFrames :
             LET h == Holding(b, self)   k == Holding(new, self)
             IN Single(h) /\ IsInjective(G) /\ Range(G) \cap In(h) = {}
                  => Single(k) /\ In(k) = In(h) \cup Range(G)
    BY <1>3, <1>5, <2>1, AllocTable
  <2> HIDE DEF new
  <2>3. NewSpace(F) = new
    BY <1>7 DEF new
  <2>4. \A v \in V : IF v \in Initial THEN new.map[v] \in Range(G) ELSE new.map[v] = NoFrame
    BY <2>2, <1>4, <1>6, EmptySpace
  <2> QED BY <2>2, <2>3, <2>4, <1>4
<1>10. ASSUME IsInjective(F)
       PROVE  /\ Single(Holding(NewSpace(F), F[1]))
              /\ In(Holding(NewSpace(F), F[1])) = Range(F)
              /\ pagetable_delete(NewSpace(F)) = Range(F) \ {F[1]}
  <2> DEFINE h == Holding(b, F[1])
  <2>1. /\ \A v \in V : v \in Place /\ h[v] = NoFrame
        /\ \A i \in 1 .. 2 : Top - 1 + i \in Place /\ h[Top - 1 + i] = NoFrame
        /\ Top + 2 \in Place /\ h[Top + 2] = F[2]
        /\ Top + 3 \in Place /\ h[Top + 3] = F[1]
        /\ \A x \in Place : \/ x \in V
                            \/ x - Top + 1 \in 1 .. 2 /\ x = Top - 1 + (x - Top + 1)
                            \/ x = Top + 2 \/ x = Top + 3
    <3>1. \A i \in 1 .. 2 : NoSpace.table[i] = NoFrame
      BY DEF NoSpace
    <3>2. F[1] \in 0 .. NFrames
      BY <1>2, SomeFrames
    <3> QED BY <1>4, <1>5, <3>1, <3>2, EmptySpace, Places
  <2> HIDE DEF h
  <2>2. /\ \A i, j \in 1 .. Len(F) : F[i] = F[j] => i = j
        /\ F[1] # NoFrame /\ F[2] # NoFrame /\ F[1] # F[2]
    <3>1. \A i, j \in 1 .. Len(F) : F[i] = F[j] => i = j
      BY <1>1, <1>10 DEF IsInjective
    <3>2. 1 \in 1 .. Len(F) /\ 2 \in 1 .. Len(F) /\ 1 # 2
      BY <1>0, <1>1
    <3>3. F[1] # F[2]
      BY <3>1, <3>2
    <3> QED BY <3>1, <3>3, <1>2, SomeFrames
  <2>3. \A x \in Place : x # Top + 2 /\ x # Top + 3 => h[x] = NoFrame
    <3> TAKE x \in Place
    <3> HAVE x # Top + 2 /\ x # Top + 3
    <3>1. CASE x - Top + 1 \in 1 .. 2 /\ x = Top - 1 + (x - Top + 1)
      BY <3>1, <2>1
    <3> QED BY <3>1, <2>1
  <2>4. Single(h) /\ In(h) = {F[1], F[2]}
    <3>1. Single(h)
      BY <2>1, <2>2, <2>3 DEF Single
    <3>2. In(h) = {F[1], F[2]}
      BY <2>1, <2>2, <2>3 DEF In
    <3> QED BY <3>1, <3>2
  <2>5. DOMAIN G = 1 .. w
    BY <1>3
  <2>6. IsInjective(G)
    <3>1. ASSUME NEW i \in 1 .. w, NEW j \in 1 .. w, G[i] = G[j] PROVE i = j
      <4>1. i + 2 = j + 2
        BY <1>3, <2>2, <3>1
      <4> QED BY <4>1
    <3> QED BY <2>5, <3>1 DEF IsInjective
  <2>7. Range(G) \cap In(h) = {}
    <3>1. ASSUME NEW i \in 1 .. w PROVE G[i] # F[1] /\ G[i] # F[2]
      <4>1. /\ 1 \in 1 .. Len(F) /\ 2 \in 1 .. Len(F) /\ i + 2 \in 1 .. Len(F)
            /\ i + 2 # 1 /\ i + 2 # 2
        BY <1>0, <1>1
      <4> QED BY <1>3, <2>2, <4>1
    <3> QED BY <3>1, <2>4, <2>5 DEF Range
  <2>8. F[1] \in 0 .. NFrames
    BY <1>2, SomeFrames
  <2>9. /\ Single(Holding(NewSpace(F), F[1]))
        /\ In(Holding(NewSpace(F), F[1])) = In(h) \cup Range(G)
    BY <1>9, <2>4, <2>6, <2>7, <2>8 DEF h
  <2>10. In(Holding(NewSpace(F), F[1])) = Range(F)
    BY <2>4, <2>9, <1>8
  <2>11. pagetable_delete(NewSpace(F)) = In(Holding(NewSpace(F), F[1])) \ {F[1]}
    BY <1>2, <1>9, <2>9, DeleteTable
  <2> QED BY <2>9, <2>10, <2>11
<1>11. \A v \in V : IF v \in Initial THEN NewSpace(F).map[v] \in Range(F)
                    ELSE NewSpace(F).map[v] = NoFrame
  BY <1>8, <1>9
<1> QED BY <1>2, <1>9, <1>10, <1>11
-----------------------------------------------------------------------------
(* The invariant.                                                          *)

Held == [p \in Processes |-> Holding(space[p], proc[p].self)]

Owned   == Sole(Held, freemap)
Counted == pages_free = Cardinality(freemap) /\ freemap # {}

\* What a process is in the middle of.
JobOK(p) ==
  /\ state[p] = "none" => space[p] = NoSpace /\ proc[p] = NoProcess /\ job[p] = NoJob
  /\ state[p] # "none" => proc[p].self # NoFrame
  /\ state[p] = "made" => job[p] = NoJob
  /\ job[p].stage = "none" => job[p] = NoJob /\ (state[p] # "none" => proc[p].pagetable = p)
  /\ job[p].stage # "none" =>
       \/ /\ job[p].child = p /\ p # Shell /\ state[p] \in {"live", "grave"}
          /\ proc[p].pagetable = p
       \/ /\ job[p].child # p /\ state[p] = "live" /\ state[job[p].child] = "made"
          /\ \A q \in Processes \ {p} : job[q].child # job[p].child
  /\ picked[p] # NoFrame =>
       state[p] = "live" /\ (job[p].stage = "begun" \/ (p = Shell /\ job[p].stage = "none"))
Jobs == state[Shell] = "live" /\ \A p \in Processes : JobOK(p)

Good == Jobs /\ Owned /\ Counted
IInv == PagingTypeOK /\ (raced \/ torn \/ Good)

Contained == {"zero", "text", "stale"} \cup Processes
MemoryOK ==
  /\ freemap \subseteq Frames /\ pages_free \in 0 .. NFrames
  /\ content \in [Frames -> Contained] /\ space \in [Processes -> Space]
  /\ picked \in [Processes -> 0 .. NFrames] /\ raced \in BOOLEAN

ProcOK == proc \in [Processes -> [self : 0 .. NFrames, pagetable : Processes,
                                 data : 0 .. MaxData, stack : 0 .. InitialPages]]

LEMMA Typed ==
  PagingTypeOK => /\ MemoryOK
                  /\ ProcOK
                  /\ \A p \in Processes : /\ space[p] \in Space /\ proc[p].self \in 0 .. NFrames
                                    /\ \A v \in V : space[p].map[v] \in 0 .. NFrames
  BY DEF PagingTypeOK, MemoryOK, ProcOK, Space, Contained

\* What a process holds, in the words of the module.
LEMMA UsedIsIn ==
  ASSUME PagingTypeOK, NEW p \in Processes
  PROVE  Held[p] = Holding(space[p], proc[p].self) /\ Used(p) = In(Held[p])
         /\ Mapped(space[p], V) \subseteq In(Held[p])
<1>1. space[p] \in Space /\ proc[p].self \in 0 .. NFrames
  BY Typed
<1>2. Held[p] = Holding(space[p], proc[p].self)
  BY DEF Held
<1>3. In(Held[p]) = (Mapped(space[p], V) \cup Range(space[p].table)
                      \cup {space[p].directory, proc[p].self}) \ {NoFrame}
  BY <1>1, <1>2, HeldFrames
<1>4. NoFrame \notin Mapped(space[p], V)
  BY DEF Mapped
<1> QED BY <1>2, <1>3, <1>4 DEF Used

LEMMA CountedFree ==
  ASSUME freemap \subseteq Frames, Counted
  PROVE  /\ IsFiniteSet(freemap) /\ pages_free \in Nat /\ pages_free = Cardinality(freemap)
         /\ pages_free > 0 /\ pages_free <= NFrames
<1>1. IsFiniteSet(freemap) /\ Cardinality(freemap) \in Nat /\ Cardinality(freemap) <= NFrames
  BY SomeFrames
<1>2. Cardinality(freemap) # 0
  BY <1>1, FS_EmptySet DEF Counted
<1> QED BY <1>1, <1>2 DEF Counted
-----------------------------------------------------------------------------
(* What is in the frames.                                                  *)

LEMMA ContentType ==
  ASSUME content \in [Frames -> Contained], NEW c, NEW text, content' = Content(c, text)
  PROVE  content' \in [Frames -> Contained]
  BY DEF Content, Contained

\* Frames that c gets are cleared or filled; the memory of nobody else changes.
LEMMA ContentChange ==
  ASSUME PagingTypeOK, Owned, Owned', space' \in [Processes -> Space], ProcOK',
         NEW c \in Processes, NEW text, content' = Content(c, text),
         text \subseteq Mapped(space'[c], V),
         \A q \in Processes \ {c} : space'[q] = space[q],
         \A v \in V : \/ space'[c].map[v] \in {NoFrame, space[c].map[v]}
                      \/ /\ space[c].map[v] = NoFrame
                         /\ space'[c].map[v] \notin Mapped(space[c], V)
  PROVE  Private!Change(c)
<1> DEFINE H == Held'
<1>1. \A p \in Processes : Mapped(space'[p], V) \subseteq In(H[p])
  <2> TAKE p \in Processes
  <2>1. space'[p] \in Space /\ proc'[p].self \in 0 .. NFrames
    BY DEF ProcOK
  <2>2. H[p] = Holding(space'[p], proc'[p].self)
    BY DEF Held
  <2>3. In(H[p]) = (Mapped(space'[p], V) \cup Range(space'[p].table)
                      \cup {space'[p].directory, proc'[p].self}) \ {NoFrame}
    BY <2>1, <2>2, HeldFrames
  <2>4. NoFrame \notin Mapped(space'[p], V)
    BY DEF Mapped
  <2> QED BY <2>3, <2>4
<1>2. /\ \A p \in Processes : In(H[p]) \cap freemap' = {}
      /\ \A p, q \in Processes : p # q => In(H[p]) \cap In(H[q]) = {}
  BY DEF Owned, Sole
<1> HIDE DEF H
<1>3. \A p \in Processes, v \in V : space'[p].map[v] # NoFrame =>
        /\ space'[p].map[v] \in Mapped(space'[p], V) /\ space'[p].map[v] \in Frames
        /\ space'[p].map[v] \notin freemap'
  <2> TAKE p \in Processes, v \in V
  <2> HAVE space'[p].map[v] # NoFrame
  <2>1. space'[p].map[v] \in 0 .. NFrames
    BY DEF Space
  <2>2. space'[p].map[v] \in Mapped(space'[p], V)
    BY DEF Mapped
  <2> QED BY <2>1, <2>2, <1>1, <1>2, SomeFrames
<1> DEFINE gained == Mapped(space'[c], V) \ Mapped(space[c], V)
<1>4. \A f \in Frames : content'[f] = IF f \in freemap' THEN "stale"
                                      ELSE IF f \in text THEN "text"
                                      ELSE IF f \in gained THEN "zero" ELSE content[f]
  BY DEF Content
<1>5. mem = [p \in Processes |-> [v \in V |-> IF space[p].map[v] = NoFrame THEN "unmapped"
                                              ELSE content[space[p].map[v]]]]
  BY DEF mem
<1>6. mem' = [p \in Processes |-> [v \in V |-> IF space'[p].map[v] = NoFrame THEN "unmapped"
                                               ELSE content'[space'[p].map[v]]]]
  BY DEF mem
<1>7. ASSUME NEW q \in Processes \ {c} PROVE mem'[q] = mem[q]
  <2>1. space'[q] = space[q]
    OBVIOUS
  <2>2. ASSUME NEW v \in V, space[q].map[v] # NoFrame
        PROVE  content'[space[q].map[v]] = content[space[q].map[v]]
    <3>1. /\ space[q].map[v] \in Mapped(space'[q], V) /\ space[q].map[v] \in Frames
          /\ space[q].map[v] \notin freemap'
      BY <1>3, <2>1, <2>2
    <3>2. space[q].map[v] \notin Mapped(space'[c], V)
      BY <1>1, <1>2, <3>1
    <3> QED BY <1>4, <3>1, <3>2
  <2> QED BY <1>5, <1>6, <2>1, <2>2
<1>8. ASSUME NEW v \in V
      PROVE  \/ mem'[c][v] \in {mem[c][v], "unmapped", "text"}
             \/ mem'[c][v] = "zero" /\ mem[c][v] = "unmapped"
  <2> DEFINE f == space'[c].map[v]
             g == space[c].map[v]
  <2>1. mem'[c][v] = IF f = NoFrame THEN "unmapped" ELSE content'[f]
    BY <1>6
  <2>2. mem[c][v] = IF g = NoFrame THEN "unmapped" ELSE content[g]
    BY <1>5
  <2>3. f \in {NoFrame, g} \/ (g = NoFrame /\ f \notin Mapped(space[c], V))
    OBVIOUS
  <2>4. f # NoFrame => f \in Mapped(space'[c], V) /\ f \in Frames /\ f \notin freemap'
    BY <1>3
  <2>5. g # NoFrame => g \in Mapped(space[c], V)
    BY DEF Mapped
  <2> HIDE DEF f, g
  <2>6. CASE f = NoFrame
    BY <2>1, <2>6
  <2>7. CASE f # NoFrame /\ f \in text
    BY <1>4, <2>1, <2>4, <2>7
  <2>8. CASE f # NoFrame /\ f \notin text /\ f = g
    BY <1>4, <2>1, <2>2, <2>4, <2>5, <2>8
  <2>9. CASE f # NoFrame /\ f \notin text /\ f # g
    BY <1>4, <2>1, <2>2, <2>3, <2>4, <2>9
  <2> QED BY <2>6, <2>7, <2>8, <2>9
<1> QED BY <1>7, <1>8 DEF Private!Change
-----------------------------------------------------------------------------
(* What a call does to the frames of the process it is about.              *)

\* The frames are in order again, and c alone has noticed.
Effect(c) == MemoryOK' /\ (raced' \/ (Owned' /\ Counted' /\ Private!Change(c)))

\* The process stays: its frame is what it was.
SelfKept == ProcOK' /\ \A q \in Processes : proc'[q].self = proc[q].self

\* c's pages vs are mapped, by a call of p.
LEMMA GiveStep ==
  ASSUME PagingTypeOK, ~raced, Owned, Counted, SelfKept, NEW p \in Processes, NEW c \in Processes,
         NEW vs \in SUBSET V,
         Enough(freemap, Wanted(space[c], vs)),
         picked[p] = NoFrame \/ Wanted(space[c], vs) > 0,
         NEW F, F = Allocated(p, Wanted(space[c], vs)), page_alloc(p, F),
         space' = [space EXCEPT ![c] = pagetable_alloc(@, vs, F)],
         NEW text, content' = Content(c, text), text \subseteq Mapped(space'[c], V)
  PROVE  Effect(c)
<1> DEFINE n == Wanted(space[c], vs)
           sp == space[c]
           new == pagetable_alloc(sp, vs, F)
           taken == picked[p] # NoFrame /\ picked[p] \notin freemap
           H == Held
           K == Held'
<1>1. /\ freemap \in SUBSET Frames /\ picked[p] \in 0 .. NFrames /\ sp \in Space
      /\ content \in [Frames -> Contained] /\ space \in [Processes -> Space]
      /\ picked \in [Processes -> 0 .. NFrames]
  BY Typed DEF MemoryOK
<1>2. n \in Nat
  <2>1. Missing(sp, vs) \subseteq V /\ NoTable(sp, vs) \subseteq 1 .. 2
    BY DEF Missing, NoTable
  <2>2. IsFiniteSet(1 .. 2) /\ IsFiniteSet(V)
    BY 1 \in Int, 2 \in Int, FS_Interval, Sizes
  <2>3. IsFiniteSet(Missing(sp, vs)) /\ IsFiniteSet(NoTable(sp, vs))
    BY <2>1, <2>2, FS_Subset
  <2> QED BY <2>3, FS_CardinalityType DEF Wanted
<1>3. /\ F \in Seq(Frames) /\ Len(F) = n
      /\ ~taken => IsInjective(F) /\ Range(F) \subseteq freemap
  BY <1>1, <1>2, AllocatedGives
<1>4. /\ new \in Space
      /\ \A v \in V : IF v \in Missing(sp, vs) THEN sp.map[v] = NoFrame /\ new.map[v] \in Range(F)
                      ELSE new.map[v] = sp.map[v]
      /\ \A self \in 0 .. NFrames :
           LET h == Holding(sp, self)   k == Holding(new, self)
           IN Single(h) /\ IsInjective(F) /\ Range(F) \cap In(h) = {}
                => Single(k) /\ In(k) = In(h) \cup Range(F)
  BY <1>1, <1>3, AllocTable, SMTT(30)
<1>5. space' = [space EXCEPT ![c] = new]
  OBVIOUS
<1> HIDE DEF n, new, taken
<1>6. /\ space' \in [Processes -> Space] /\ space'[c] = new
      /\ \A q \in Processes \ {c} : space'[q] = space[q]
  BY <1>1, <1>4, <1>5
<1>7. /\ freemap' = freemap \ Range(F) /\ pages_free' = pages_free - n
      /\ picked' = [picked EXCEPT ![p] = NoFrame] /\ raced' = (raced \/ taken)
  BY <1>3 DEF page_alloc, taken
<1>8. /\ IsFiniteSet(freemap) /\ pages_free \in Nat /\ pages_free = Cardinality(freemap)
      /\ pages_free > 0 /\ pages_free <= NFrames /\ NFrames \in Nat
  BY <1>1, CountedFree, SomeFrames
<1>9. n < pages_free
  BY <1>8 DEF Enough, n
<1>10. MemoryOK'
  <2>1. NoFrame \in 0 .. NFrames
    BY <1>8 DEF NoFrame
  <2>2. picked' \in [Processes -> 0 .. NFrames]
    BY <1>1, <1>7, <2>1
  <2>3. content' \in [Frames -> Contained]
    BY <1>1, ContentType
  <2>4. pages_free' \in 0 .. NFrames
    BY <1>2, <1>7, <1>8, <1>9
  <2>5. raced' \in BOOLEAN
    BY <1>7
  <2> QED BY <1>1, <1>6, <1>7, <2>2, <2>3, <2>4, <2>5 DEF MemoryOK
<1>11. CASE ~taken
  <2>1. IsInjective(F) /\ Range(F) \subseteq freemap
    BY <1>3, <1>11
  <2>2. Sole(H, freemap)
    BY DEF Owned
  <2> DEFINE s == proc[c].self
  <2>3. s \in 0 .. NFrames /\ H[c] = Holding(sp, s) /\ proc'[c].self = s
    BY Typed DEF SelfKept, Held
  <2>4. K[c] = Holding(new, s) /\ \A q \in Processes \ {c} : K[q] = H[q]
    BY <1>6, <2>3 DEF Held, SelfKept
  <2> HIDE DEF H, K, s
  <2>5. Single(H[c]) /\ In(H[c]) \cap freemap = {}
    BY <2>2 DEF Sole
  <2>6. Range(F) \cap In(H[c]) = {}
    BY <2>1, <2>5
  <2>7. Single(K[c]) /\ In(K[c]) = In(H[c]) \cup Range(F)
    BY <1>4, <2>1, <2>3, <2>4, <2>5, <2>6
  <2>8. Holds(K[c])
    BY <1>4, <2>3, <2>4, Places
  <2>9. Sole(K, freemap \ Range(F))
    BY <2>1, <2>2, <2>4, <2>7, <2>8, GiveFrames
  <2>10. Owned'
    BY <1>7, <2>9 DEF Owned, K
  <2>11. Counted'
    <3>1. Cardinality(Range(F)) = n
      BY <1>3, <2>1, ListSize
    <3>2. freemap \cap Range(F) = Range(F)
      BY <2>1
    <3>3. Cardinality(freemap \ Range(F)) = Cardinality(freemap) - n
      <4>1. Cardinality(freemap \ Range(F))
              = Cardinality(freemap) - Cardinality(freemap \cap Range(F))
        BY <1>8, FS_Difference
      <4> QED BY <3>1, <3>2, <4>1
    <3>4. Cardinality(freemap \ Range(F)) # 0
      BY <1>2, <1>8, <1>9, <3>3
    <3>5. freemap \ Range(F) # {}
      BY <3>4, FS_EmptySet
    <3> QED BY <1>7, <1>8, <3>3, <3>5 DEF Counted
  <2>12. \A v \in V : \/ space'[c].map[v] \in {NoFrame, space[c].map[v]}
                      \/ /\ space[c].map[v] = NoFrame
                         /\ space'[c].map[v] \notin Mapped(space[c], V)
    <3>1. Mapped(space[c], V) \subseteq In(H[c])
      BY UsedIsIn DEF H
    <3> QED BY <1>4, <1>6, <2>6, <3>1
  <2>13. Private!Change(c)
    BY <1>6, <2>10, <2>12, ContentChange DEF SelfKept
  <2> QED BY <1>10, <2>10, <2>11, <2>13 DEF Effect
<1>12. CASE taken
  BY <1>7, <1>10, <1>12 DEF Effect
<1> QED BY <1>11, <1>12

\* The pages vs of c are freed.
LEMMA TakeStep ==
  ASSUME PagingTypeOK, ~raced, Owned, Counted, SelfKept, NEW c \in Processes, NEW vs \in SUBSET V,
         page_free(Mapped(space[c], vs)),
         space' = [space EXCEPT ![c] = pagetable_free(@, vs)],
         NEW text, content' = Content(c, text), text \subseteq Mapped(space'[c], V)
  PROVE  Effect(c)
<1> DEFINE sp == space[c]
           new == pagetable_free(sp, vs)
           F == Mapped(sp, vs)
           H == Held
           K == Held'
<1>1. /\ freemap \in SUBSET Frames /\ sp \in Space
      /\ content \in [Frames -> Contained] /\ space \in [Processes -> Space]
      /\ picked \in [Processes -> 0 .. NFrames]
  BY Typed DEF MemoryOK
<1>2. /\ new \in Space
      /\ \A v \in V : new.map[v] = IF v \in vs THEN NoFrame ELSE sp.map[v]
      /\ \A self \in 0 .. NFrames :
           LET h == Holding(sp, self)   k == Holding(new, self)
           IN Single(h) => Single(k) /\ In(k) = In(h) \ F /\ F \subseteq In(h)
  BY <1>1, FreeTable
<1>3. space' = [space EXCEPT ![c] = new]
  OBVIOUS
<1>4. /\ freemap' = freemap \cup F /\ pages_free' = pages_free + Cardinality(F)
      /\ picked' = picked /\ raced' = raced
  BY DEF page_free
<1> HIDE DEF new, F
<1>5. /\ space' \in [Processes -> Space] /\ space'[c] = new
      /\ \A q \in Processes \ {c} : space'[q] = space[q]
  BY <1>1, <1>2, <1>3
<1>6. Sole(H, freemap)
  BY DEF Owned
<1> DEFINE s == proc[c].self
<1>7. s \in 0 .. NFrames /\ H[c] = Holding(sp, s) /\ proc'[c].self = s
  BY Typed DEF SelfKept, Held
<1>8. K[c] = Holding(new, s) /\ \A q \in Processes \ {c} : K[q] = H[q]
  BY <1>5, <1>7 DEF Held, SelfKept
<1> HIDE DEF H, K, s
<1>9. Single(H[c])
  BY <1>6 DEF Sole
<1>10. Single(K[c]) /\ In(K[c]) = In(H[c]) \ F /\ F \subseteq In(H[c])
  BY <1>2, <1>7, <1>8, <1>9
<1>11. Holds(K[c])
  BY <1>2, <1>7, <1>8, Places
<1>12. Sole(K, freemap \cup F) /\ F \cap freemap = {} /\ F \subseteq Frames
  BY <1>6, <1>8, <1>10, <1>11, TakeFrames
<1>13. Owned'
  BY <1>4, <1>12 DEF Owned, K
<1>14. Counted' /\ pages_free' \in 0 .. NFrames
  <2>1. IsFiniteSet(F) /\ Cardinality(F) \in Nat
    BY <1>12, SomeFrames
  <2>2. /\ IsFiniteSet(freemap) /\ pages_free \in Nat /\ pages_free = Cardinality(freemap)
        /\ freemap # {}
    BY <1>1, CountedFree DEF Counted
  <2>3. Cardinality(freemap \cap F) = 0
    BY <1>12, FS_EmptySet
  <2>4. Cardinality(freemap \cup F) = Cardinality(freemap) + Cardinality(F) - Cardinality(freemap \cap F)
    BY <2>1, <2>2, FS_Union
  <2>5. freemap' # {} /\ freemap' \in SUBSET Frames
    BY <1>1, <1>4, <1>12, <2>2
  <2>6. Cardinality(freemap') \in Nat /\ Cardinality(freemap') <= NFrames /\ NFrames \in Nat
    BY <2>5, SomeFrames
  <2>7. pages_free' = Cardinality(freemap')
    BY <1>4, <2>1, <2>2, <2>3, <2>4
  <2> QED BY <2>5, <2>6, <2>7 DEF Counted
<1>15. MemoryOK'
  <2>1. content' \in [Frames -> Contained]
    BY <1>1, ContentType
  <2>2. raced' \in BOOLEAN
    BY <1>4, Typed DEF MemoryOK
  <2> QED BY <1>1, <1>4, <1>5, <1>12, <1>14, <2>1, <2>2 DEF MemoryOK
<1>16. \A v \in V : \/ space'[c].map[v] \in {NoFrame, space[c].map[v]}
                    \/ /\ space[c].map[v] = NoFrame
                       /\ space'[c].map[v] \notin Mapped(space[c], V)
  BY <1>2, <1>5
<1>17. Private!Change(c)
  BY <1>5, <1>13, <1>16, ContentChange DEF SelfKept
<1> QED BY <1>13, <1>14, <1>15, <1>17 DEF Effect

\* The process c is deleted.
LEMMA DeleteStep ==
  ASSUME PagingTypeOK, ~raced, Owned, Counted, NEW c \in Processes,
         proc[c].self # NoFrame, proc[c].pagetable = c, page_free(Frees(c)),
         space' = [space EXCEPT ![c] = NoSpace], ProcOK', proc'[c].self = NoFrame,
         \A q \in Processes \ {c} : proc'[q].self = proc[q].self, content' = Content(c, {})
  PROVE  Effect(c)
<1> DEFINE sp == space[c]
           s == proc[c].self
           F == Frees(c)
           H == Held
           K == Held'
<1>1. /\ freemap \in SUBSET Frames /\ sp \in Space
      /\ content \in [Frames -> Contained] /\ space \in [Processes -> Space]
      /\ picked \in [Processes -> 0 .. NFrames]
  BY Typed DEF MemoryOK
<1>2. s \in Frames
  BY Typed, SomeFrames
<1>3. F = pagetable_delete(sp) \cup {s}
  BY DEF Frees
<1>4. /\ freemap' = freemap \cup F /\ pages_free' = pages_free + Cardinality(F)
      /\ picked' = picked /\ raced' = raced
  BY DEF page_free
<1> HIDE DEF F
<1>5. /\ space' \in [Processes -> Space] /\ space'[c] = NoSpace
      /\ \A q \in Processes \ {c} : space'[q] = space[q]
  BY <1>1, EmptySpace
<1>6. Sole(H, freemap)
  BY DEF Owned
<1>7. s \in 0 .. NFrames /\ H[c] = Holding(sp, s)
  BY Typed DEF Held
<1>8. K[c] = Holding(NoSpace, NoFrame) /\ \A q \in Processes \ {c} : K[q] = H[q]
  BY <1>5 DEF Held
<1> HIDE DEF H, K, s
<1>9. Single(H[c])
  BY <1>6 DEF Sole
<1>10. In(H[c]) = F
  <2>1. pagetable_delete(sp) = In(Holding(sp, s)) \ {s} /\ s \in In(Holding(sp, s))
    BY <1>1, <1>2, <1>7, <1>9, DeleteTable
  <2> QED BY <1>3, <1>7, <2>1
<1>11. NoFrame \in 0 .. NFrames
  BY SomeFrames DEF NoFrame
<1>12. Single(K[c]) /\ In(K[c]) = In(H[c]) \ F /\ Holds(K[c])
  <2>1. Single(K[c]) /\ In(K[c]) = {}
    BY <1>8, <1>11, EmptySpace
  <2>2. Holds(K[c])
    BY <1>8, <1>11, EmptySpace, Places
  <2> QED BY <1>10, <2>1, <2>2
<1>13. Sole(K, freemap \cup F) /\ F \cap freemap = {} /\ F \subseteq Frames
  <2>1. F \in SUBSET In(H[c])
    BY <1>10
  <2> QED BY <1>6, <1>8, <1>12, <2>1, TakeFrames
<1>14. Owned'
  BY <1>4, <1>13 DEF Owned, K
<1>15. Counted' /\ pages_free' \in 0 .. NFrames
  <2>1. IsFiniteSet(F) /\ Cardinality(F) \in Nat
    BY <1>13, SomeFrames
  <2>2. /\ IsFiniteSet(freemap) /\ pages_free \in Nat /\ pages_free = Cardinality(freemap)
        /\ freemap # {}
    BY <1>1, CountedFree DEF Counted
  <2>3. Cardinality(freemap \cap F) = 0
    BY <1>13, FS_EmptySet
  <2>4. Cardinality(freemap \cup F) = Cardinality(freemap) + Cardinality(F) - Cardinality(freemap \cap F)
    BY <2>1, <2>2, FS_Union
  <2>5. freemap' # {} /\ freemap' \in SUBSET Frames
    BY <1>1, <1>4, <1>13, <2>2
  <2>6. Cardinality(freemap') \in Nat /\ Cardinality(freemap') <= NFrames /\ NFrames \in Nat
    BY <2>5, SomeFrames
  <2>7. pages_free' = Cardinality(freemap')
    BY <1>4, <2>1, <2>2, <2>3, <2>4
  <2> QED BY <2>5, <2>6, <2>7 DEF Counted
<1>16. MemoryOK'
  <2>1. content' \in [Frames -> Contained]
    BY <1>1, ContentType
  <2>2. raced' \in BOOLEAN
    BY <1>4, Typed DEF MemoryOK
  <2> QED BY <1>1, <1>4, <1>5, <1>13, <1>15, <2>1, <2>2 DEF MemoryOK
<1>17. \A v \in V : \/ space'[c].map[v] \in {NoFrame, space[c].map[v]}
                    \/ /\ space[c].map[v] = NoFrame
                       /\ space'[c].map[v] \notin Mapped(space[c], V)
  BY <1>5, EmptySpace
<1>18. Private!Change(c)
  <2> DEFINE text == {}
  <2>1. content' = Content(c, text) /\ text \subseteq Mapped(space'[c], V)
    OBVIOUS
  <2> HIDE DEF text
  <2> QED BY <1>5, <1>14, <1>17, <2>1, ContentChange
<1> QED BY <1>14, <1>15, <1>16, <1>18 DEF Effect
-----------------------------------------------------------------------------
(* Every step keeps the invariant.                                         *)

RestOK ==
  /\ state \in [Processes -> {"none", "made", "live", "grave"}]
  /\ job \in [Processes -> [child : Processes, stage : {"none", "begun", "loaded"}]]
  /\ calls \in 0 .. MaxCalls /\ writes \in 0 .. MaxWrites /\ torn \in BOOLEAN

LEMMA TypeParts == PagingTypeOK <=> MemoryOK /\ ProcOK /\ RestOK
  BY DEF PagingTypeOK, MemoryOK, ProcOK, RestOK, Space, Contained

LEMMA TypePartsNext == PagingTypeOK' <=> MemoryOK' /\ ProcOK' /\ RestOK'
  BY TypeParts, PTL

\* Where a step starts, and what it leads to.
Ready == PagingTypeOK /\ Good /\ ~raced /\ ~torn

MemoryKept == \/ mem' = mem
              \/ \E c \in Processes : Private!Change(c)
              \/ \E p, c \in Processes : Private!Fork(p, c)

Outcome == PagingTypeOK' /\ (raced' \/ torn' \/ (Good' /\ MemoryKept))

LEMMA OutcomeOf ==
  ASSUME NEW c \in Processes, Effect(c), ProcOK', RestOK', Jobs' \/ torn'
  PROVE  Outcome
  BY TypePartsNext DEF Outcome, Effect, Good, MemoryKept

\* Steps that leave frames and pages alone.
LEMMA IdleStep ==
  ASSUME Ready, UNCHANGED <<freemap, pages_free, content, space, raced>>, SelfKept,
         picked' \in [Processes -> 0 .. NFrames], RestOK', Jobs' \/ torn'
  PROVE  Outcome
<1>1. MemoryOK'
  BY Typed DEF Ready, MemoryOK
<1>2. Held' = Held
  BY DEF Held, SelfKept
<1>3. Owned' /\ Counted'
  BY <1>2 DEF Ready, Good, Owned, Counted
<1>4. mem' = mem
  BY DEF mem
<1> QED BY <1>1, <1>3, <1>4, TypePartsNext DEF Outcome, Good, MemoryKept, SelfKept

LEMMA CountsType ==
  ASSUME RestOK, Counts
  PROVE  calls' \in 0 .. MaxCalls
<1>1. MaxCalls \in Nat
  BY PagingAssumption
<1> QED BY <1>1 DEF RestOK, Counts

LEMMA PickStep ==
  ASSUME Ready, NEW p \in Processes, Pick(p)
  PROVE  Outcome
<1>1. MemoryOK /\ ProcOK /\ RestOK /\ Jobs /\ Counted
  BY TypeParts DEF Ready, Good
<1>2. Min(freemap) \in freemap
  <2>1. freemap \in SUBSET Int /\ IsFiniteSet(freemap) /\ freemap # {}
    BY <1>1, SomeFrames DEF MemoryOK, Counted
  <2> QED BY <2>1, MinExists
<1>3. Min(freemap) \in 0 .. NFrames
  BY <1>1, <1>2, SomeFrames DEF MemoryOK
<1>4. picked' = [picked EXCEPT ![p] = Min(freemap)]
  BY DEF Pick
<1>5. picked' \in [Processes -> 0 .. NFrames]
  BY <1>1, <1>3, <1>4 DEF MemoryOK
<1>6. UNCHANGED <<freemap, pages_free, content, space, raced, proc, state, job, calls, writes, torn>>
  BY DEF Pick
<1>7. RestOK' /\ SelfKept
  BY <1>1, <1>6 DEF RestOK, SelfKept, ProcOK
<1>8. Jobs'
  <2> SUFFICES ASSUME NEW q \in Processes PROVE JobOK(q)'
    BY <1>1, <1>6 DEF Jobs
  <2>1. JobOK(q)
    BY <1>1 DEF Jobs
  <2>2. CASE q = p
    BY <2>1, <2>2, <1>6 DEF JobOK, Pick
  <2>3. CASE q # p
    <3>1. picked'[q] = picked[q]
      BY <2>3, <1>1, <1>4 DEF MemoryOK
    <3> QED BY <2>1, <3>1, <1>6 DEF JobOK
  <2> QED BY <2>2, <2>3
<1> QED BY <1>5, <1>6, <1>7, <1>8, IdleStep

LEMMA ExecBeginStep ==
  ASSUME Ready, NEW p \in Processes, exec_begin(p)
  PROVE  Outcome
<1>1. MemoryOK /\ ProcOK /\ RestOK /\ Jobs
  BY TypeParts DEF Ready, Good
<1>2. /\ UNCHANGED <<freemap, pages_free, content, space, picked, raced, proc, state, writes, torn>>
      /\ state[p] = "live" /\ job[p] = NoJob /\ p # Shell /\ Counts
  BY DEF exec_begin, Idle, memory
<1> DEFINE j == [child |-> p, stage |-> "begun"]
<1>3. job' = [job EXCEPT ![p] = j]
  BY DEF exec_begin
<1>4. j \in [child : Processes, stage : {"none", "begun", "loaded"}] /\ j.child = p /\ j.stage = "begun"
  OBVIOUS
<1> HIDE DEF j
<1>5. job' \in [Processes -> [child : Processes, stage : {"none", "begun", "loaded"}]]
  BY <1>1, <1>3, <1>4 DEF RestOK
<1>6. job'[p] = j /\ \A q \in Processes \ {p} : job'[q] = job[q]
  BY <1>1, <1>3 DEF RestOK
<1>7. RestOK'
  BY <1>1, <1>2, <1>5, CountsType DEF RestOK
<1>8. SelfKept
  BY <1>1, <1>2 DEF SelfKept, ProcOK
<1>9. Jobs'
  <2>1. state'[Shell] = "live"
    BY <1>1, <1>2 DEF Jobs
  <2> SUFFICES ASSUME NEW q \in Processes PROVE JobOK(q)'
    BY <2>1 DEF Jobs
  <2>2. JobOK(q) /\ JobOK(p)
    BY <1>1 DEF Jobs
  <2>3. CASE q = p
    <3>1. proc[p].pagetable = p
      BY <2>2, <1>2 DEF JobOK, NoJob
    <3> QED BY <2>2, <2>3, <3>1, <1>2, <1>4, <1>6 DEF JobOK
  <2>4. CASE q # p
    <3>1. job'[q] = job[q]
      BY <2>4, <1>6
    <3>2. job[q].stage # "none" /\ job[q].child # q => job[q].child # p
      BY <2>2, <1>2 DEF JobOK
    <3>3. \A r \in Processes \ {q} : job'[r].child = job[r].child \/ job'[r].child = p
      BY <1>4, <1>6
    <3> QED BY <2>2, <3>1, <3>2, <3>3, <1>2 DEF JobOK
  <2> QED BY <2>3, <2>4
<1> QED BY <1>1, <1>2, <1>7, <1>8, <1>9, IdleStep DEF MemoryOK

\* A process whose job ends: p is as it was before, and c, that the job was about,
\* is in the state s.
LEMMA JobEnds ==
  ASSUME MemoryOK, ProcOK, RestOK, Jobs, ProcOK', NEW p \in Processes,
         state[p] = "live", job[p].stage # "none", picked[p] = NoFrame,
         NEW s \in {"made", "live"},
         state' = [state EXCEPT ![job[p].child] = s], s = "made" => job[p].child # p,
         job' = [job EXCEPT ![p] = NoJob],
         \A q \in Processes : /\ proc'[q].self = proc[q].self
                              /\ q # p => proc'[q].pagetable = proc[q].pagetable
                              /\ state[q] = "none" => space'[q] = space[q] /\ proc'[q] = proc[q],
         proc'[p].pagetable = p, picked' = picked
  PROVE  Jobs'
<1> DEFINE c == job[p].child
<1>1. /\ c \in Processes /\ JobOK(p) /\ JobOK(c)
      /\ job'[p] = NoJob /\ \A q \in Processes \ {p} : job'[q] = job[q]
      /\ state'[c] = s /\ \A q \in Processes \ {c} : state'[q] = state[q]
  BY DEF RestOK, Jobs
<1> HIDE DEF c
<1>2. NoJob.stage = "none" /\ NoJob.child = Shell
  BY DEF NoJob
<1>3. c # Shell /\ (c = p \/ (c # p /\ state[c] = "made"))
  BY <1>1 DEF JobOK, Jobs, c
<1>4. state'[Shell] = "live"
  BY <1>1, <1>3, PagingAssumption DEF Jobs
<1> SUFFICES ASSUME NEW q \in Processes PROVE JobOK(q)'
  BY <1>4 DEF Jobs
<1>5. JobOK(q)
  BY DEF Jobs
<1>6. CASE q = p
  <2>1. state'[p] = "live"
    BY <1>1, <1>3 DEF c
  <2>2. proc[p].self # NoFrame
    BY <1>5, <1>6 DEF JobOK
  <2> QED BY <1>1, <1>2, <1>6, <2>1, <2>2 DEF JobOK
<1>7. CASE q # p /\ q = c
  <2>1. job[q] = NoJob /\ proc[q].pagetable = q /\ proc[q].self # NoFrame /\ picked[q] = NoFrame
    BY <1>2, <1>3, <1>5, <1>7 DEF JobOK
  <2> QED BY <1>1, <1>2, <1>7, <2>1 DEF JobOK
<1>8. CASE q # p /\ q # c
  <2>1. job'[q] = job[q] /\ state'[q] = state[q] /\ proc'[q].pagetable = proc[q].pagetable
        /\ proc'[q].self = proc[q].self /\ picked'[q] = picked[q]
    BY <1>1, <1>8
  <2>2. /\ job[q].stage # "none" => job[q].child # c \/ job[q].child = q
        /\ job[q].stage # "none" /\ job[q].child # q => job[q].child # Shell
    BY <1>1, <1>5, <1>8 DEF JobOK, Jobs, c
  <2>3. job[q].stage # "none" /\ job[q].child # q =>
          /\ state'[job[q].child] = "made"
          /\ \A r \in Processes \ {q} : job'[r].child # job[q].child
    <3> HAVE job[q].stage # "none" /\ job[q].child # q
    <3>1. job[q].child \in Processes \ {c}
      BY <2>2 DEF RestOK
    <3>2. state[job[q].child] = "made" /\ \A r \in Processes \ {q} : job[r].child # job[q].child
      BY <1>5 DEF JobOK
    <3>3. \A r \in Processes \ {q} : job'[r].child \in {job[r].child, Shell}
      BY <1>1, <1>2
    <3> QED BY <1>1, <2>2, <3>1, <3>2, <3>3
  <2>4. state[q] = "none" => space'[q] = NoSpace /\ proc'[q] = NoProcess
    BY <1>5 DEF JobOK
  <2> QED BY <1>5, <2>1, <2>3, <2>4 DEF JobOK
<1> QED BY <1>6, <1>7, <1>8

\* The call refuses the file: nothing but the job and the page table in use change.
LEMMA RefusedStep ==
  ASSUME Ready, NEW p \in Processes, load_refused(p)
  PROVE  Outcome
<1> DEFINE c == job[p].child
<1>1. MemoryOK /\ ProcOK /\ RestOK /\ Jobs /\ JobOK(p)
  BY TypeParts DEF Ready, Good, Jobs
<1>2. /\ UNCHANGED <<freemap, pages_free, content, space, picked, raced, state, calls, writes, torn>>
      /\ state[p] = "live" /\ job[p].stage = "begun" /\ picked[p] = NoFrame
      /\ proc' = [proc EXCEPT ![p].pagetable = p] /\ job' = [job EXCEPT ![p] = NoJob]
  BY DEF load_refused, memory
<1>3. ProcOK'
  BY <1>1, <1>2 DEF ProcOK
<1>4. /\ \A q \in Processes : proc'[q].self = proc[q].self
      /\ \A q \in Processes \ {p} : proc'[q] = proc[q]
      /\ proc'[p].pagetable = p
  BY <1>1, <1>2 DEF ProcOK
<1>5. RestOK'
  <2>1. NoJob \in [child : Processes, stage : {"none", "begun", "loaded"}]
    BY PagingAssumption DEF NoJob
  <2> QED BY <1>1, <1>2, <2>1 DEF RestOK
<1>6. Jobs'
  <2>1. PICK s \in {"made", "live"} : s = state[c] /\ (s = "made" => c # p)
    BY <1>1, <1>2 DEF JobOK
  <2>2. state' = [state EXCEPT ![c] = s]
    BY <1>1, <1>2, <2>1 DEF RestOK
  <2> QED BY <1>1, <1>2, <1>3, <1>4, <2>1, <2>2, JobEnds
<1> QED BY <1>1, <1>2, <1>3, <1>4, <1>5, <1>6, IdleStep DEF SelfKept, MemoryOK

\* The load is complete.
LEMMA LoadEndStep ==
  ASSUME Ready, NEW p \in Processes, load_end(p)
  PROVE  Outcome
<1> DEFINE c == job[p].child
           gone == Stack(proc[c].stack) \ Stack(1)
           text == Mapped(space'[c], Stack(1))
<1>1. MemoryOK /\ ProcOK /\ RestOK /\ Jobs /\ JobOK(p) /\ c \in Processes
  BY TypeParts DEF Ready, Good, Jobs, RestOK
<1>2. /\ state[p] = "live" /\ job[p].stage = "loaded"
      /\ page_free(Mapped(space[c], gone))
      /\ space' = [space EXCEPT ![c] = pagetable_free(@, gone)]
      /\ content' = Content(c, text)
      /\ proc' = [proc EXCEPT ![p].pagetable = p, ![c].stack = 1]
      /\ state' = [state EXCEPT ![c] = "live"] /\ job' = [job EXCEPT ![p] = NoJob]
      /\ UNCHANGED <<calls, writes, torn>>
  BY DEF load_end
<1>3. gone \in SUBSET V /\ Stack(1) \subseteq V
  <2>1. proc[c].stack \in 0 .. InitialPages /\ 1 \in 0 .. InitialPages
    BY <1>1 DEF ProcOK, InitialPages
  <2> QED BY <2>1, Sizes
<1>4. text \subseteq Mapped(space'[c], V)
  BY <1>3 DEF Mapped
<1>5. c # Shell /\ c # p => state[c] = "made"
  BY <1>1, <1>2 DEF JobOK
<1>6. picked[p] = NoFrame /\ state[c] # "none"
  BY <1>1, <1>2 DEF JobOK
<1> HIDE DEF text, gone
<1>7. ProcOK'
  <2>1. 1 \in 0 .. InitialPages
    BY DEF InitialPages
  <2> QED BY <1>1, <1>2, <2>1 DEF ProcOK
<1>8. /\ \A q \in Processes : proc'[q].self = proc[q].self
      /\ \A q \in Processes \ {p} : proc'[q].pagetable = proc[q].pagetable
      /\ \A q \in Processes \ {p, c} : proc'[q] = proc[q]
      /\ proc'[p].pagetable = p
  BY <1>1, <1>2 DEF ProcOK
<1>9. RestOK'
  <2>1. NoJob \in [child : Processes, stage : {"none", "begun", "loaded"}]
    BY PagingAssumption DEF NoJob
  <2> QED BY <1>1, <1>2, <2>1 DEF RestOK
<1>10. Effect(c)
  BY <1>1, <1>2, <1>3, <1>4, <1>7, <1>8, TakeStep DEF Ready, Good, SelfKept
<1>11. \A q \in Processes \ {c} : space'[q] = space[q]
  BY <1>1, <1>2 DEF MemoryOK
<1>12. picked' = picked
  BY <1>2 DEF page_free
<1>13. Jobs'
  <2> DEFINE s == "live"
  <2>1. s \in {"made", "live"} /\ s # "made" /\ state' = [state EXCEPT ![c] = s]
    BY <1>2
  <2>2. \A q \in Processes : state[q] = "none" => space'[q] = space[q] /\ proc'[q] = proc[q]
    BY <1>2, <1>6, <1>8, <1>11
  <2>3. \A q \in Processes : /\ proc'[q].self = proc[q].self
                             /\ q # p => proc'[q].pagetable = proc[q].pagetable
                             /\ state[q] = "none" => space'[q] = space[q] /\ proc'[q] = proc[q]
    BY <1>8, <2>2
  <2>4. /\ MemoryOK /\ ProcOK /\ RestOK /\ Jobs /\ ProcOK' /\ state[p] = "live"
        /\ job[p].stage # "none" /\ picked[p] = NoFrame /\ picked' = picked
        /\ job' = [job EXCEPT ![p] = NoJob] /\ proc'[p].pagetable = p
    BY <1>1, <1>2, <1>6, <1>7, <1>8, <1>12
  <2> HIDE DEF s
  <2> QED BY <2>1, <2>3, <2>4, JobEnds
<1> QED BY <1>1, <1>7, <1>9, <1>10, <1>13, OutcomeOf

\* The file could not be read.
LEMMA FailedStep ==
  ASSUME Ready, NEW p \in Processes, load_failed(p)
  PROVE  Outcome
<1> DEFINE c == job[p].child
<1>1. MemoryOK /\ ProcOK /\ RestOK /\ Jobs /\ JobOK(p) /\ c \in Processes /\ JobOK(c)
  BY TypeParts DEF Ready, Good, Jobs, RestOK
<1>2. /\ state[p] = "live" /\ job[p].stage = "loaded" /\ picked[p] = NoFrame
      /\ job' = [job EXCEPT ![p] = NoJob] /\ UNCHANGED <<calls, writes, torn>>
  BY <1>1 DEF load_failed, JobOK
<1>3. NoJob.stage = "none" /\ NoJob.child = Shell
      /\ NoJob \in [child : Processes, stage : {"none", "begun", "loaded"}]
  BY PagingAssumption DEF NoJob
<1>4. job'[p] = NoJob /\ \A q \in Processes \ {p} : job'[q] = job[q]
  BY <1>1, <1>2 DEF RestOK
<1>5. CASE c = p
  <2>1. /\ UNCHANGED <<freemap, pages_free, content, space, picked, raced, proc>>
        /\ state' = [state EXCEPT ![p] = "grave"]
    BY <1>5 DEF load_failed, memory
  <2>2. RestOK'
    BY <1>1, <1>2, <1>3, <2>1 DEF RestOK
  <2>3. SelfKept
    BY <1>1, <2>1 DEF SelfKept, ProcOK
  <2>4. p # Shell /\ proc[p].pagetable = p /\ proc[p].self # NoFrame
    BY <1>1, <1>2, <1>5 DEF JobOK
  <2>5. state'[p] = "grave" /\ \A q \in Processes \ {p} : state'[q] = state[q]
    BY <1>1, <2>1 DEF RestOK
  <2>6. Jobs'
    <3>1. state'[Shell] = "live"
      BY <1>1, <2>4, <2>5, PagingAssumption DEF Jobs
    <3> SUFFICES ASSUME NEW q \in Processes PROVE JobOK(q)'
      BY <3>1 DEF Jobs
    <3>2. JobOK(q)
      BY <1>1 DEF Jobs
    <3>3. CASE q = p
      BY <1>2, <1>3, <1>4, <2>1, <2>4, <2>5, <3>3 DEF JobOK
    <3>4. CASE q # p
      <4>1. /\ state'[q] = state[q] /\ job'[q] = job[q]
            /\ proc'[q] = proc[q] /\ space'[q] = space[q] /\ picked'[q] = picked[q]
        BY <1>4, <2>1, <2>5, <3>4
      <4>2. job[q].stage # "none" /\ job[q].child # q =>
              /\ state'[job[q].child] = "made"
              /\ \A r \in Processes \ {q} : job'[r].child # job[q].child
        <5> HAVE job[q].stage # "none" /\ job[q].child # q
        <5>1. job[q].child \in Processes /\ state[job[q].child] = "made"
          BY <1>1, <3>2 DEF RestOK, JobOK
        <5>2. job[q].child # p /\ job[q].child # Shell
          BY <1>1, <1>2, <5>1 DEF Jobs
        <5>3. \A r \in Processes \ {q} : job'[r].child \in {job[r].child, Shell}
          BY <1>3, <1>4
        <5> QED BY <2>5, <3>2, <5>1, <5>2, <5>3 DEF JobOK
      <4> QED BY <3>2, <4>1, <4>2 DEF JobOK
    <3> QED BY <3>3, <3>4
  <2> QED BY <1>1, <2>1, <2>2, <2>3, <2>6, IdleStep DEF MemoryOK
<1>6. CASE c # p
  <2>1. /\ state' = [state EXCEPT ![c] = "none"] /\ page_free(Frees(c))
        /\ space' = [space EXCEPT ![c] = NoSpace]
        /\ proc' = [proc EXCEPT ![c] = NoProcess, ![p].pagetable = p]
        /\ content' = Content(c, {})
    BY <1>6 DEF load_failed
  <2>2. /\ state[c] = "made" /\ c # Shell /\ job[c] = NoJob /\ proc[c].pagetable = c
        /\ proc[c].self # NoFrame /\ picked[c] = NoFrame
        /\ \A q \in Processes \ {p} : job[q].child # c
    BY <1>1, <1>2, <1>3, <1>6 DEF JobOK, Jobs
  <2>3. NoProcess \in [self : 0 .. NFrames, pagetable : Processes,
                       data : 0 .. MaxData, stack : 0 .. InitialPages] /\ NoProcess.self = NoFrame
    <3>1. MaxData \in Nat /\ NFrames \in Nat
      BY PagingAssumption
    <3> QED BY <3>1, PagingAssumption DEF NoProcess, NoFrame, InitialPages
  <2>4. ProcOK'
    <3> DEFINE n == NoProcess
    <3>1. n \in [self : 0 .. NFrames, pagetable : Processes,
                    data : 0 .. MaxData, stack : 0 .. InitialPages]
          /\ proc' = [proc EXCEPT ![c] = n, ![p].pagetable = p]
      BY <2>1, <2>3
    <3> HIDE DEF n
    <3> QED BY <1>1, <3>1 DEF ProcOK
  <2>5. /\ proc'[c] = NoProcess
        /\ proc'[p].self = proc[p].self /\ proc'[p].pagetable = p
        /\ \A q \in Processes \ {p, c} : proc'[q] = proc[q]
    BY <1>1, <1>6, <2>1 DEF ProcOK
  <2>6. RestOK'
    BY <1>1, <1>2, <1>3, <2>1 DEF RestOK
  <2>7. Effect(c)
    <3>1. \A q \in Processes \ {c} : proc'[q].self = proc[q].self
      BY <2>5
    <3>2. proc'[c].self = NoFrame
      BY <2>3, <2>5
    <3> QED BY <1>1, <2>1, <2>2, <2>4, <3>1, <3>2, DeleteStep DEF Ready, Good
  <2>8. /\ state'[c] = "none" /\ \A q \in Processes \ {c} : state'[q] = state[q]
        /\ space'[c] = NoSpace /\ \A q \in Processes \ {c} : space'[q] = space[q]
        /\ picked' = picked
    BY <1>1, <2>1 DEF RestOK, MemoryOK, page_free
  <2>9. Jobs'
    <3>1. state'[Shell] = "live"
      BY <1>1, <2>2, <2>8, PagingAssumption DEF Jobs
    <3> SUFFICES ASSUME NEW q \in Processes PROVE JobOK(q)'
      BY <3>1 DEF Jobs
    <3>2. JobOK(q)
      BY <1>1 DEF Jobs
    <3>3. CASE q = c
      BY <1>3, <1>4, <1>6, <2>2, <2>5, <2>8, <3>3 DEF JobOK
    <3>4. CASE q = p
      <4>1. state'[p] = "live"
        BY <1>2, <1>6, <2>8
      <4>2. proc'[p].self # NoFrame
        BY <1>2, <2>5, <3>2, <3>4 DEF JobOK
      <4> QED BY <1>2, <1>3, <1>4, <2>5, <2>8, <3>4, <4>1, <4>2 DEF JobOK
    <3>5. CASE q # c /\ q # p
      <4>1. /\ state'[q] = state[q] /\ job'[q] = job[q]
            /\ proc'[q] = proc[q] /\ space'[q] = space[q] /\ picked'[q] = picked[q]
        BY <1>4, <2>5, <2>8, <3>5
      <4>2. job[q].stage # "none" /\ job[q].child # q =>
              /\ state'[job[q].child] = "made"
              /\ \A r \in Processes \ {q} : job'[r].child # job[q].child
        <5> HAVE job[q].stage # "none" /\ job[q].child # q
        <5>1. job[q].child \in Processes /\ state[job[q].child] = "made"
          BY <1>1, <3>2 DEF RestOK, JobOK
        <5>2. job[q].child # c /\ job[q].child # Shell
          BY <1>1, <2>2, <3>5, <5>1 DEF Jobs
        <5>3. \A r \in Processes \ {q} : job'[r].child \in {job[r].child, Shell}
          BY <1>3, <1>4
        <5> QED BY <2>8, <3>2, <5>1, <5>2, <5>3 DEF JobOK
      <4> QED BY <3>2, <4>1, <4>2 DEF JobOK
    <3> QED BY <3>3, <3>4, <3>5
  <2> QED BY <1>1, <2>4, <2>6, <2>7, <2>9, OutcomeOf
<1> QED BY <1>5, <1>6

\* A kill; of a process that a load is about, it tears.
LEMMA KillStep ==
  ASSUME Ready, NEW q \in Processes, process_kill(q)
  PROVE  Outcome
<1>1. MemoryOK /\ ProcOK /\ RestOK /\ Jobs /\ JobOK(q) /\ ~torn
  BY TypeParts DEF Ready, Good, Jobs
<1>2. /\ UNCHANGED <<freemap, pages_free, content, space, raced, proc, job, calls, writes>>
      /\ state[q] \in {"made", "live"} /\ q # Shell
      /\ state' = [state EXCEPT ![q] = "grave"] /\ picked' = [picked EXCEPT ![q] = NoFrame]
      /\ torn' = (torn \/ job[q].child \notin {q, Shell}
                   \/ \E p \in Processes \ {q} : job[p].stage # "none" /\ job[p].child = q)
  BY DEF process_kill
<1>3. /\ picked' \in [Processes -> 0 .. NFrames] /\ picked'[q] = NoFrame
      /\ \A p \in Processes \ {q} : picked'[p] = picked[p]
  <2>1. NoFrame \in 0 .. NFrames
    BY SomeFrames DEF NoFrame
  <2> QED BY <1>1, <1>2, <2>1 DEF MemoryOK
<1>4. RestOK' /\ SelfKept
  <2>1. torn' \in BOOLEAN
    BY <1>1, <1>2
  <2>2. SelfKept
    BY <1>1, <1>2 DEF SelfKept, ProcOK
  <2> QED BY <1>1, <1>2, <2>1, <2>2 DEF RestOK
<1>5. state'[q] = "grave" /\ \A p \in Processes \ {q} : state'[p] = state[p]
  BY <1>1, <1>2 DEF RestOK
<1>6. ASSUME ~torn' PROVE Jobs'
  <2>1. state'[Shell] = "live"
    BY <1>1, <1>2, <1>5, PagingAssumption DEF Jobs
  <2> SUFFICES ASSUME NEW p \in Processes PROVE JobOK(p)'
    BY <2>1 DEF Jobs
  <2>2. JobOK(p)
    BY <1>1 DEF Jobs
  <2>3. /\ job[q].child \in {q, Shell}
        /\ \A r \in Processes \ {q} : job[r].stage # "none" => job[r].child # q
    BY <1>2, <1>6
  <2>4. CASE p = q
    <3>1. job[q].stage # "none" => job[q].child = q
      BY <1>1, <2>2, <2>3, <2>4 DEF JobOK, Jobs
    <3> QED BY <1>2, <1>3, <1>5, <2>2, <2>4, <3>1 DEF JobOK
  <2>5. CASE p # q
    <3>1. state'[p] = state[p] /\ picked'[p] = picked[p]
      BY <1>3, <1>5, <2>5
    <3>2. job[p].stage # "none" /\ job[p].child # p => state'[job[p].child] = "made"
      <4> HAVE job[p].stage # "none" /\ job[p].child # p
      <4>1. job[p].child \in Processes \ {q} /\ state[job[p].child] = "made"
        BY <1>1, <2>2, <2>3, <2>5 DEF RestOK, JobOK
      <4> QED BY <1>5, <4>1
    <3> QED BY <1>2, <2>2, <3>1, <3>2 DEF JobOK
  <2> QED BY <2>4, <2>5
<1> QED BY <1>2, <1>3, <1>4, <1>6, IdleStep

LEMMA ReapStep ==
  ASSUME Ready, NEW q \in Processes, process_reap(q)
  PROVE  Outcome
<1>1. MemoryOK /\ ProcOK /\ RestOK /\ Jobs /\ JobOK(q)
  BY TypeParts DEF Ready, Good, Jobs
<1>2. /\ state[q] = "grave" /\ page_free(Frees(q))
      /\ space' = [space EXCEPT ![q] = NoSpace] /\ proc' = [proc EXCEPT ![q] = NoProcess]
      /\ state' = [state EXCEPT ![q] = "none"] /\ job' = [job EXCEPT ![q] = NoJob]
      /\ content' = Content(q, {}) /\ UNCHANGED <<calls, writes, torn>>
  BY DEF process_reap
<1>3. NoJob.stage = "none" /\ NoJob.child = Shell
      /\ NoJob \in [child : Processes, stage : {"none", "begun", "loaded"}]
  BY PagingAssumption DEF NoJob
<1>4. NoProcess \in [self : 0 .. NFrames, pagetable : Processes,
                     data : 0 .. MaxData, stack : 0 .. InitialPages] /\ NoProcess.self = NoFrame
  <2>1. MaxData \in Nat /\ NFrames \in Nat
    BY PagingAssumption
  <2> QED BY <2>1, PagingAssumption DEF NoProcess, NoFrame, InitialPages
<1>5. ProcOK' /\ proc'[q] = NoProcess /\ \A p \in Processes \ {q} : proc'[p] = proc[p]
  BY <1>1, <1>2, <1>4 DEF ProcOK
<1>6. RestOK'
  BY <1>1, <1>2, <1>3 DEF RestOK
<1>7. /\ state'[q] = "none" /\ \A p \in Processes \ {q} : state'[p] = state[p]
      /\ space'[q] = NoSpace /\ \A p \in Processes \ {q} : space'[p] = space[p]
      /\ job'[q] = NoJob /\ \A p \in Processes \ {q} : job'[p] = job[p]
      /\ picked' = picked
  BY <1>1, <1>2 DEF RestOK, MemoryOK, page_free
<1>8. /\ q # Shell /\ proc[q].self # NoFrame /\ proc[q].pagetable = q /\ picked[q] = NoFrame
  BY <1>1, <1>2 DEF JobOK, Jobs
<1>9. Effect(q)
  <2>1. proc'[q].self = NoFrame /\ \A p \in Processes \ {q} : proc'[p].self = proc[p].self
    BY <1>4, <1>5
  <2> QED BY <1>1, <1>2, <1>5, <1>8, <2>1, DeleteStep DEF Ready, Good
<1>10. Jobs'
  <2>1. state'[Shell] = "live"
    BY <1>1, <1>7, <1>8, PagingAssumption DEF Jobs
  <2> SUFFICES ASSUME NEW p \in Processes PROVE JobOK(p)'
    BY <2>1 DEF Jobs
  <2>2. JobOK(p)
    BY <1>1 DEF Jobs
  <2>3. CASE p = q
    BY <1>3, <1>5, <1>7, <1>8, <2>3 DEF JobOK
  <2>4. CASE p # q
    <3>1. /\ state'[p] = state[p] /\ job'[p] = job[p]
          /\ proc'[p] = proc[p] /\ space'[p] = space[p] /\ picked'[p] = picked[p]
      BY <1>5, <1>7, <2>4
    <3>2. job[p].stage # "none" /\ job[p].child # p =>
            /\ state'[job[p].child] = "made"
            /\ \A r \in Processes \ {p} : job'[r].child # job[p].child
      <4> HAVE job[p].stage # "none" /\ job[p].child # p
      <4>1. job[p].child \in Processes /\ state[job[p].child] = "made"
        BY <1>1, <2>2 DEF RestOK, JobOK
      <4>2. job[p].child # q /\ job[p].child # Shell
        BY <1>1, <1>2, <4>1 DEF Jobs
      <4>3. \A r \in Processes \ {p} : job'[r].child \in {job[r].child, Shell}
        BY <1>3, <1>7
      <4> QED BY <1>7, <2>2, <4>1, <4>2, <4>3 DEF JobOK
    <3> QED BY <2>2, <3>1, <3>2 DEF JobOK
  <2> QED BY <2>3, <2>4
<1> QED BY <1>5, <1>6, <1>9, <1>10, OutcomeOf

LEMMA WriteStep ==
  ASSUME Ready, NEW p \in Processes, NEW v \in V, write(p, v)
  PROVE  Outcome
<1> DEFINE f == space[p].map[v]
<1>1. MemoryOK /\ ProcOK /\ RestOK /\ Jobs /\ Owned /\ Counted
  BY TypeParts DEF Ready, Good
<1>2. /\ content' = [content EXCEPT ![f] = p] /\ writes < MaxWrites /\ writes' = writes + 1
      /\ f # NoFrame
      /\ UNCHANGED <<freemap, pages_free, space, picked, raced, proc, state, job, calls, torn>>
  BY DEF write
<1>3. \A q \in Processes : /\ Mapped(space[q], V) \subseteq In(Held[q])
                           /\ \A w \in V : /\ space[q].map[w] \in 0 .. NFrames
                                           /\ Held[q][w] = space[q].map[w] /\ w \in Place
  <2> TAKE q \in Processes
  <2>1. /\ Mapped(space[q], V) \subseteq In(Held[q])
        /\ Held[q] = Holding(space[q], proc[q].self)
        /\ space[q] \in Space /\ proc[q].self \in 0 .. NFrames
        /\ \A w \in V : space[q].map[w] \in 0 .. NFrames
    BY UsedIsIn, Typed DEF Ready
  <2> QED BY <2>1, Places
<1>4. /\ \A q \in Processes : Single(Held[q])
      /\ \A q, r \in Processes : q # r => In(Held[q]) \cap In(Held[r]) = {}
  BY <1>1 DEF Owned, Sole
<1>5. f \in Frames /\ f \in Mapped(space[p], V)
  BY <1>2, <1>3, SomeFrames DEF Mapped
<1>6. \A q \in Processes, w \in V : (q # p \/ w # v) /\ space[q].map[w] # NoFrame
        => space[q].map[w] # f
  <2> TAKE q \in Processes, w \in V
  <2> HAVE (q # p \/ w # v) /\ space[q].map[w] # NoFrame
  <2>1. CASE q = p
    BY <1>3, <1>4, <2>1 DEF Single
  <2>2. CASE q # p
    <3>1. space[q].map[w] \in Mapped(space[q], V)
      BY DEF Mapped
    <3>2. f \in In(Held[p]) /\ space[q].map[w] \in In(Held[q])
      BY <1>3, <1>5, <3>1
    <3>3. In(Held[q]) \cap In(Held[p]) = {}
      BY <1>4, <2>2
    <3> QED BY <3>2, <3>3
  <2> QED BY <2>1, <2>2
<1>7. content \in [Frames -> Contained] /\ \A q \in Processes, w \in V :
        space[q].map[w] # NoFrame => space[q].map[w] \in Frames
  BY <1>1, <1>3, SomeFrames DEF MemoryOK
<1>8. content' \in [Frames -> Contained] /\ content'[f] = p
      /\ \A g \in Frames : g # f => content'[g] = content[g]
  BY <1>2, <1>5, <1>7 DEF Contained
<1>9. mem = [q \in Processes |-> [w \in V |-> IF space[q].map[w] = NoFrame THEN "unmapped"
                                              ELSE content[space[q].map[w]]]]
  BY DEF mem
<1>10. mem' = [q \in Processes |-> [w \in V |-> IF space[q].map[w] = NoFrame THEN "unmapped"
                                                ELSE content'[space[q].map[w]]]]
  BY <1>2 DEF mem
<1>11. \A q \in Processes, w \in V : (q # p \/ w # v) => mem'[q][w] = mem[q][w]
  <2> TAKE q \in Processes, w \in V
  <2> HAVE q # p \/ w # v
  <2>1. mem[q][w] = IF space[q].map[w] = NoFrame THEN "unmapped" ELSE content[space[q].map[w]]
    BY <1>9
  <2>2. mem'[q][w] = IF space[q].map[w] = NoFrame THEN "unmapped" ELSE content'[space[q].map[w]]
    BY <1>10
  <2> QED BY <1>6, <1>7, <1>8, <2>1, <2>2
<1>12. mem'[p][v] = p /\ mem[p][v] # "unmapped"
  <2>1. mem'[p][v] = p
    BY <1>2, <1>8, <1>10
  <2>2. mem[p][v] = content[f]
    BY <1>2, <1>9
  <2>3. content[f] \in Contained
    BY <1>5, <1>7
  <2> QED BY <2>1, <2>2, <2>3, PagingAssumption DEF Contained
<1>13. \A q \in Processes \ {p} : mem'[q] = mem[q]
  <2> TAKE q \in Processes \ {p}
  <2>1. mem[q] = [w \in V |-> mem[q][w]] /\ mem'[q] = [w \in V |-> mem'[q][w]]
    BY <1>9, <1>10
  <2>2. \A w \in V : mem'[q][w] = mem[q][w]
    BY <1>11
  <2> QED BY <2>1, <2>2
<1>14. Private!Change(p)
  <2> SUFFICES ASSUME NEW w \in V
               PROVE  \/ mem'[p][w] = mem[p][w]
                      \/ mem'[p][w] = p /\ mem[p][w] # "unmapped"
    BY <1>13 DEF Private!Change
  <2> QED BY <1>11, <1>12
<1>15. Owned' /\ Counted'
  <2>1. Held' = Held
    BY <1>2 DEF Held
  <2> QED BY <1>1, <1>2, <2>1 DEF Owned, Counted
<1>16. MemoryOK' /\ ProcOK' /\ RestOK'
  <2>1. MaxWrites \in Nat
    BY PagingAssumption
  <2>2. writes' \in 0 .. MaxWrites
    BY <1>1, <1>2, <2>1 DEF RestOK
  <2> QED BY <1>1, <1>2, <1>8, <2>2 DEF MemoryOK, ProcOK, RestOK
<1>17. Jobs'
  BY <1>1, <1>2 DEF Jobs, JobOK
<1> QED BY <1>14, <1>15, <1>16, <1>17, OutcomeOf DEF Effect

\* A change of size: the frames are in order, and the sizes what was asked for.
LEMMA SizeStep ==
  ASSUME Ready, NEW p \in Processes, NEW c \in Processes, NEW size \in 1 .. MaxData,
         process_data_size_set(p, c, size),
         NEW text, content' = Content(c, text), text \subseteq Mapped(space'[c], V)
  PROVE  /\ Effect(c) /\ SelfKept /\ picked'[p] = NoFrame
         /\ \A q \in Processes : /\ proc'[q].pagetable = proc[q].pagetable
                                 /\ picked'[q] \in {picked[q], NoFrame}
                                 /\ q # c => space'[q] = space[q] /\ proc'[q] = proc[q]
<1> DEFINE old == proc[c].data
<1>1. MemoryOK /\ ProcOK /\ Owned /\ Counted /\ ~raced /\ PagingTypeOK
  BY TypeParts DEF Ready, Good
<1>2. /\ old \in 0 .. MaxData /\ MaxData \in Nat /\ size \in 0 .. MaxData
      /\ DataTop \in Nat /\ Top = DataTop + 2 /\ V = 0 .. Top - 1
  BY <1>1, Sizes, PagingAssumption DEF ProcOK, V
<1>3. proc' = [proc EXCEPT ![c].data = size]
  BY DEF process_data_size_set
<1>4. SelfKept /\ \A q \in Processes : /\ proc'[q].pagetable = proc[q].pagetable
                                       /\ q # c => proc'[q] = proc[q]
  BY <1>1, <1>2, <1>3 DEF SelfKept, ProcOK
<1>5. CASE grow(p, c, size)
  <2> DEFINE vs == old .. old + size - 1
             n == Wanted(space[c], vs)
             F == Allocated(p, n)
  <2>1. /\ old + size <= DataTop /\ Enough(freemap, n) /\ (picked[p] # NoFrame => n > 0)
        /\ page_alloc(p, F) /\ space' = [space EXCEPT ![c] = pagetable_alloc(@, vs, F)]
    BY <1>5 DEF grow
  <2>2. vs \in SUBSET V
    BY <1>2, <2>1
  <2> HIDE DEF vs
  <2>3. Effect(c)
    BY <1>1, <1>4, <2>1, <2>2, GiveStep
  <2>4. picked' = [picked EXCEPT ![p] = NoFrame]
    BY <2>1 DEF page_alloc
  <2>5. \A q \in Processes \ {c} : space'[q] = space[q]
    BY <1>1, <2>1 DEF MemoryOK
  <2> QED BY <1>1, <1>4, <2>3, <2>4, <2>5 DEF MemoryOK
<1>6. CASE picked[p] = NoFrame /\ shrink(c, size)
  <2> DEFINE vs == size .. size + old - 1
  <2>1. /\ size + old <= DataTop /\ page_free(Mapped(space[c], vs))
        /\ space' = [space EXCEPT ![c] = pagetable_free(@, vs)]
    BY <1>6 DEF shrink
  <2>2. vs \in SUBSET V
    BY <1>2, <2>1
  <2> HIDE DEF vs
  <2>3. Effect(c)
    BY <1>1, <1>4, <2>1, <2>2, TakeStep
  <2>4. picked' = picked
    BY <2>1 DEF page_free
  <2>5. \A q \in Processes \ {c} : space'[q] = space[q]
    BY <1>1, <2>1 DEF MemoryOK
  <2> QED BY <1>4, <1>6, <2>3, <2>4, <2>5
<1>7. CASE keep(p, c, size)
  <2>1. UNCHANGED <<freemap, pages_free, space, picked, raced>> /\ picked[p] = NoFrame
    BY <1>7 DEF keep
  <2>2. content' \in [Frames -> Contained]
    BY <1>1, ContentType DEF MemoryOK
  <2>3. MemoryOK'
    BY <1>1, <2>1, <2>2 DEF MemoryOK
  <2>4. Held' = Held
    BY <1>4, <2>1 DEF Held, SelfKept
  <2>5. Owned' /\ Counted'
    BY <1>1, <2>1, <2>4 DEF Owned, Counted
  <2>6. /\ \A q \in Processes \ {c} : space'[q] = space[q]
        /\ \A v \in V : space'[c].map[v] \in {NoFrame, space[c].map[v]}
        /\ space' \in [Processes -> Space]
    BY <1>1, <2>1 DEF MemoryOK
  <2>7. Private!Change(c)
    BY <1>1, <1>4, <2>5, <2>6, ContentChange DEF SelfKept
  <2> QED BY <1>4, <2>1, <2>3, <2>5, <2>7 DEF Effect
<1> QED BY <1>5, <1>6, <1>7 DEF process_data_size_set

\* Nothing a process is in the middle of changes, but for a load that goes on.
LEMMA JobsKept ==
  ASSUME Jobs, state' = state,
         \A q \in Processes :
           /\ proc'[q].self = proc[q].self /\ proc'[q].pagetable = proc[q].pagetable
           /\ picked'[q] \in {picked[q], NoFrame}
           /\ state[q] = "none" => space'[q] = space[q] /\ proc'[q] = proc[q]
           /\ job'[q].child = job[q].child
           /\ \/ job'[q] = job[q]
              \/ job[q].stage = "begun" /\ job'[q].stage = "loaded" /\ picked'[q] = NoFrame
  PROVE  Jobs'
<1> SUFFICES ASSUME NEW q \in Processes PROVE JobOK(q)'
  BY DEF Jobs
<1>1. JobOK(q)
  BY DEF Jobs
<1>2. CASE job'[q] = job[q]
  BY <1>1, <1>2 DEF JobOK
<1>3. CASE job[q].stage = "begun" /\ job'[q].stage = "loaded" /\ picked'[q] = NoFrame
  <2>1. job[q] # NoJob /\ state[q] # "none" /\ state[q] # "made"
    BY <1>1, <1>3 DEF JobOK, NoJob
  <2> QED BY <1>1, <1>3, <2>1 DEF JobOK
<1> QED BY <1>2, <1>3

LEMMA HeapStep ==
  ASSUME Ready, NEW p \in Processes, sys_process_heap(p)
  PROVE  Outcome
<1>1. MemoryOK /\ ProcOK /\ RestOK /\ Jobs
  BY TypeParts DEF Ready, Good
<1>2. PICK size \in 1 .. MaxData : process_data_size_set(p, p, size)
  BY DEF sys_process_heap
<1>3. /\ Counts /\ state[p] = "live" /\ content' = Content(p, {})
      /\ UNCHANGED <<state, job, writes, torn>>
  BY DEF sys_process_heap, Idle
<1> DEFINE text == {}
<1>4. content' = Content(p, text) /\ text \subseteq Mapped(space'[p], V)
  BY <1>3
<1> HIDE DEF text
<1>5. /\ Effect(p) /\ SelfKept
      /\ \A q \in Processes : /\ proc'[q].pagetable = proc[q].pagetable
                              /\ picked'[q] \in {picked[q], NoFrame}
                              /\ q # p => space'[q] = space[q] /\ proc'[q] = proc[q]
  BY <1>2, <1>4, SizeStep
<1>6. RestOK'
  BY <1>1, <1>3, CountsType DEF RestOK
<1>7. Jobs'
  BY <1>1, <1>3, <1>5, JobsKept DEF SelfKept
<1> QED BY <1>5, <1>6, <1>7, OutcomeOf DEF SelfKept

LEMMA LoadStep ==
  ASSUME Ready, NEW p \in Processes, elf_load(p)
  PROVE  Outcome
<1> DEFINE c == job[p].child
<1>1. MemoryOK /\ ProcOK /\ RestOK /\ Jobs /\ JobOK(p) /\ c \in Processes
  BY TypeParts DEF Ready, Good, Jobs, RestOK
<1>2. PICK size \in 1 .. MaxData :
        /\ process_data_size_set(p, c, size)
        /\ content' = Content(c, Mapped(space'[c], 0 .. size - 1))
  BY DEF elf_load
<1>3. /\ state[p] = "live" /\ job[p].stage = "begun"
      /\ job' = [job EXCEPT ![p].stage = "loaded"] /\ UNCHANGED <<state, calls, writes, torn>>
  BY DEF elf_load
<1>4. state[c] # "none"
  BY <1>1, <1>3 DEF JobOK
<1> DEFINE text == Mapped(space'[c], 0 .. size - 1)
<1>5. text \subseteq Mapped(space'[c], V)
  <2>1. 0 .. size - 1 \subseteq V
    <3>1. MaxData \in Nat /\ DataTop = 2 * MaxData /\ Top = DataTop + 2
      BY PagingAssumption, Sizes DEF DataTop
    <3> QED BY <3>1 DEF V
  <2> QED BY <2>1 DEF Mapped
<1>6. content' = Content(c, text)
  BY <1>2
<1> HIDE DEF text, c
<1>7. /\ Effect(c) /\ SelfKept /\ picked'[p] = NoFrame
      /\ \A q \in Processes : /\ proc'[q].pagetable = proc[q].pagetable
                              /\ picked'[q] \in {picked[q], NoFrame}
                              /\ q # c => space'[q] = space[q] /\ proc'[q] = proc[q]
  BY <1>1, <1>2, <1>5, <1>6, SizeStep
<1>8. RestOK' /\ job'[p].stage = "loaded" /\ job'[p].child = job[p].child
      /\ \A q \in Processes \ {p} : job'[q] = job[q]
  BY <1>1, <1>3 DEF RestOK
<1>9. Jobs'
  <2>1. \A q \in Processes :
          /\ state[q] = "none" => space'[q] = space[q] /\ proc'[q] = proc[q]
          /\ job'[q].child = job[q].child
          /\ \/ job'[q] = job[q]
             \/ job[q].stage = "begun" /\ job'[q].stage = "loaded" /\ picked'[q] = NoFrame
    BY <1>3, <1>4, <1>7, <1>8
  <2> QED BY <1>1, <1>3, <1>7, <2>1, JobsKept DEF SelfKept
<1> QED BY <1>1, <1>7, <1>8, <1>9, OutcomeOf DEF SelfKept

LEMMA FaultStep ==
  ASSUME Ready, NEW p \in Processes, NEW v \in V, page_fault(p, v)
  PROVE  Outcome
<1> DEFINE n == Wanted(space[p], {v})
           F == Lowest(freemap, n)
<1>1. MemoryOK /\ ProcOK /\ RestOK /\ Jobs /\ JobOK(p)
  BY TypeParts DEF Ready, Good, Jobs
<1>2. Counts /\ state[p] = "live" /\ job[p] = NoJob /\ p # Shell /\ UNCHANGED <<proc, job, writes, torn>>
  BY DEF page_fault, Idle
<1>3. picked[p] = NoFrame
  BY <1>1, <1>2 DEF JobOK, NoJob
<1>4. SelfKept
  BY <1>1, <1>2 DEF SelfKept, ProcOK
<1>5. CASE /\ Enough(freemap, n) /\ page_alloc(p, F) /\ state' = state
           /\ space' = [space EXCEPT ![p] = pagetable_alloc(@, {v}, F)]
           /\ content' = Content(p, {})
  <2> DEFINE vs == {v}
             text == {}
  <2>1. /\ vs \in SUBSET V /\ F = Allocated(p, Wanted(space[p], vs))
        /\ Enough(freemap, Wanted(space[p], vs)) /\ page_alloc(p, F)
        /\ space' = [space EXCEPT ![p] = pagetable_alloc(@, vs, F)]
        /\ content' = Content(p, text) /\ text \subseteq Mapped(space'[p], V)
    BY <1>3, <1>5 DEF Allocated
  <2> HIDE DEF vs, text, F
  <2>2. Effect(p)
    BY <1>3, <1>4, <2>1, GiveStep DEF Ready, Good
  <2>3. RestOK'
    BY <1>1, <1>2, <1>5, CountsType DEF RestOK
  <2>4. /\ \A q \in Processes \ {p} : space'[q] = space[q]
        /\ \A q \in Processes : picked'[q] \in {picked[q], NoFrame}
    BY <1>1, <2>1 DEF MemoryOK, page_alloc
  <2>5. Jobs'
    BY <1>1, <1>2, <1>5, <2>4, JobsKept
  <2> QED BY <1>4, <2>2, <2>3, <2>5, OutcomeOf DEF SelfKept
<1>6. CASE state' = [state EXCEPT ![p] = "grave"] /\ UNCHANGED memory
  <2>1. state'[p] = "grave" /\ \A q \in Processes \ {p} : state'[q] = state[q]
    BY <1>1, <1>6 DEF RestOK
  <2>2. RestOK'
    BY <1>1, <1>2, <1>6, CountsType DEF RestOK
  <2>3. UNCHANGED <<freemap, pages_free, content, space, picked, raced>>
    BY <1>6 DEF memory
  <2>4. Jobs'
    <3>1. state'[Shell] = "live"
      BY <1>1, <1>2, <2>1, PagingAssumption DEF Jobs
    <3> SUFFICES ASSUME NEW q \in Processes PROVE JobOK(q)'
      BY <3>1 DEF Jobs
    <3>2. JobOK(q)
      BY <1>1 DEF Jobs
    <3>3. CASE q = p
      BY <1>2, <1>3, <2>1, <2>3, <3>2, <3>3 DEF JobOK, NoJob
    <3>4. CASE q # p
      <4>1. state'[q] = state[q]
        BY <2>1, <3>4
      <4>2. job[q].stage # "none" /\ job[q].child # q => state'[job[q].child] = "made"
        <5> HAVE job[q].stage # "none" /\ job[q].child # q
        <5>1. job[q].child \in Processes /\ state[job[q].child] = "made"
          BY <1>1, <3>2 DEF RestOK, JobOK
        <5>2. job[q].child # p
          BY <1>2, <5>1
        <5> QED BY <2>1, <5>1, <5>2
      <4> QED BY <1>2, <2>3, <3>2, <4>1, <4>2 DEF JobOK
    <3> QED BY <3>3, <3>4
  <2> QED BY <1>1, <1>4, <2>2, <2>3, <2>4, IdleStep DEF MemoryOK
<1> QED BY <1>5, <1>6 DEF page_fault

LEMMA CreatedSome == Created \in Nat /\ Created > 0
<1>1. Missing(NoSpace, Initial) \subseteq V /\ NoTable(NoSpace, Initial) \subseteq 1 .. 2
  BY Sizes DEF Missing, NoTable
<1>2. IsFiniteSet(1 .. 2) /\ IsFiniteSet(V)
  BY 1 \in Int, 2 \in Int, FS_Interval, Sizes
<1>3. IsFiniteSet(Missing(NoSpace, Initial)) /\ IsFiniteSet(NoTable(NoSpace, Initial))
  BY <1>1, <1>2, FS_Subset
<1>4. Wanted(NoSpace, Initial) \in Nat
  BY <1>3, FS_CardinalityType DEF Wanted
<1> QED BY <1>4 DEF Created

\* A process that does not exist holds nothing.
LEMMA NothingHeld ==
  ASSUME Jobs, NEW c \in Processes, state[c] = "none"
  PROVE  /\ space[c] = NoSpace /\ proc[c] = NoProcess /\ job[c] = NoJob /\ picked[c] = NoFrame
         /\ In(Held[c]) = {} /\ Mapped(space[c], V) = {}
         /\ \A v \in V : space[c].map[v] = NoFrame
<1>1. space[c] = NoSpace /\ proc[c] = NoProcess /\ job[c] = NoJob /\ picked[c] = NoFrame
  BY DEF Jobs, JobOK
<1>2. NoFrame \in 0 .. NFrames
  BY SomeFrames DEF NoFrame
<1>3. Held[c] = Holding(NoSpace, NoFrame)
  BY <1>1 DEF Held, NoProcess
<1>4. In(Held[c]) = {} /\ \A v \in V : space[c].map[v] = NoFrame
  BY <1>1, <1>2, <1>3, EmptySpace
<1> QED BY <1>1, <1>4 DEF Mapped

\* The page table in use is that of the new process until the load ends.
LEMMA RunBeginStep ==
  ASSUME Ready, NEW p \in Processes, NEW c \in Processes, run_begin(p, c)
  PROVE  Outcome
<1> DEFINE F == Allocated(p, Created)
           new == NewSpace(F)
           np == NewProc(c, F)
           j == [child |-> c, stage |-> "begun"]
           taken == picked[p] # NoFrame /\ picked[p] \notin freemap
           H == Held
           K == Held'
           text == {}
<1>1. MemoryOK /\ ProcOK /\ RestOK /\ Jobs /\ Owned /\ Counted /\ JobOK(p) /\ ~raced
  BY TypeParts DEF Ready, Good, Jobs
<1>2. /\ Counts /\ state[p] = "live" /\ job[p] = NoJob /\ state[c] = "none"
      /\ Enough(freemap, Created) /\ page_alloc(p, F)
      /\ space' = [space EXCEPT ![c] = new]
      /\ content' = Content(c, text) /\ text = {}
      /\ proc' = [proc EXCEPT ![c] = np, ![p].pagetable = c]
      /\ state' = [state EXCEPT ![c] = "made"] /\ job' = [job EXCEPT ![p] = j]
      /\ UNCHANGED <<writes, torn>>
  BY DEF run_begin, Idle
<1>3. /\ space[c] = NoSpace /\ proc[c] = NoProcess /\ job[c] = NoJob /\ picked[c] = NoFrame
      /\ In(H[c]) = {} /\ Mapped(space[c], V) = {} /\ \A v \in V : space[c].map[v] = NoFrame
  BY <1>1, <1>2, NothingHeld
<1>4. c # p /\ c # Shell
  BY <1>1, <1>2 DEF Jobs
<1>5. /\ F \in Seq(Frames) /\ Len(F) = Created
      /\ ~taken => IsInjective(F) /\ Range(F) \subseteq freemap
  BY <1>1, <1>2, CreatedSome, AllocatedGives DEF MemoryOK
<1>6. /\ F[1] \in Frames /\ new \in Space
      /\ IsInjective(F) => Single(Holding(new, F[1])) /\ In(Holding(new, F[1])) = Range(F)
  BY <1>5, FreshSpace
<1>7. F[1] \in 0 .. NFrames /\ F[1] # NoFrame
  BY <1>6, SomeFrames
<1>8. /\ freemap' = freemap \ Range(F) /\ pages_free' = pages_free - Created
      /\ picked' = [picked EXCEPT ![p] = NoFrame] /\ raced' = (raced \/ taken)
  BY <1>2, <1>5 DEF page_alloc
<1>9. /\ IsFiniteSet(freemap) /\ pages_free \in Nat /\ pages_free = Cardinality(freemap)
      /\ pages_free > 0 /\ pages_free <= NFrames /\ NFrames \in Nat /\ Created < pages_free
  BY <1>1, <1>2, CountedFree, SomeFrames DEF MemoryOK, Enough
<1>10. /\ np \in [self : 0 .. NFrames, pagetable : Processes,
                  data : 0 .. MaxData, stack : 0 .. InitialPages]
       /\ np.self = F[1] /\ np.pagetable = c
  <2>1. InitialPages \in 0 .. MaxData /\ InitialPages \in 0 .. InitialPages
    BY PagingAssumption DEF InitialPages
  <2> QED BY <1>7, <2>1 DEF NewProc
<1>11. j \in [child : Processes, stage : {"none", "begun", "loaded"}] /\ j.child = c /\ j.stage = "begun"
  OBVIOUS
<1> HIDE DEF F, new, np, j, taken, text
<1>12. ProcOK'
  BY <1>1, <1>2, <1>10 DEF ProcOK
<1>13. /\ proc'[c] = np /\ proc'[p].self = proc[p].self /\ proc'[p].pagetable = c
       /\ \A q \in Processes \ {c, p} : proc'[q] = proc[q]
       /\ \A q \in Processes \ {c} : proc'[q].self = proc[q].self
  BY <1>1, <1>2, <1>4 DEF ProcOK
<1>14. RestOK'
  BY <1>1, <1>2, <1>11, CountsType DEF RestOK
<1>15. /\ space' \in [Processes -> Space] /\ space'[c] = new
       /\ \A q \in Processes \ {c} : space'[q] = space[q]
       /\ picked' \in [Processes -> 0 .. NFrames] /\ picked'[p] = NoFrame
       /\ \A q \in Processes \ {p} : picked'[q] = picked[q]
  <2>1. NoFrame \in 0 .. NFrames
    BY <1>9 DEF NoFrame
  <2> QED BY <1>1, <1>2, <1>6, <1>8, <2>1 DEF MemoryOK
<1>16. MemoryOK'
  <2>1. content' \in [Frames -> Contained]
    BY <1>1, <1>2, ContentType DEF MemoryOK
  <2>2. pages_free' \in 0 .. NFrames
    BY <1>8, <1>9, CreatedSome
  <2>3. raced' \in BOOLEAN /\ freemap' \subseteq Frames
    BY <1>1, <1>8 DEF MemoryOK
  <2> QED BY <1>15, <2>1, <2>2, <2>3 DEF MemoryOK
<1>17. ASSUME ~taken PROVE Effect(c)
  <2>1. IsInjective(F) /\ Range(F) \subseteq freemap
    BY <1>5, <1>17
  <2>2. Sole(H, freemap)
    BY <1>1 DEF Owned
  <2>3. K[c] = Holding(new, F[1]) /\ \A q \in Processes \ {c} : K[q] = H[q]
    BY <1>10, <1>13, <1>15 DEF Held
  <2> HIDE DEF H, K
  <2>4. Single(K[c]) /\ In(K[c]) = In(H[c]) \cup Range(F)
    BY <1>3, <1>6, <2>1, <2>3
  <2>5. Holds(K[c])
    BY <1>6, <1>7, <2>3, Places
  <2>6. Sole(K, freemap \ Range(F))
    BY <2>1, <2>2, <2>3, <2>4, <2>5, GiveFrames
  <2>7. Owned'
    BY <1>8, <2>6 DEF Owned, K
  <2>8. Counted'
    <3>1. Cardinality(Range(F)) = Created
      BY <1>5, <2>1, ListSize
    <3>2. freemap \cap Range(F) = Range(F)
      BY <2>1
    <3>3. Cardinality(freemap \ Range(F)) = Cardinality(freemap) - Created
      <4>1. Cardinality(freemap \ Range(F))
              = Cardinality(freemap) - Cardinality(freemap \cap Range(F))
        BY <1>9, FS_Difference
      <4> QED BY <3>1, <3>2, <4>1
    <3>4. Cardinality(freemap \ Range(F)) # 0
      BY <1>9, <3>3, CreatedSome
    <3>5. freemap \ Range(F) # {}
      BY <3>4, FS_EmptySet
    <3> QED BY <1>8, <1>9, <3>3, <3>5 DEF Counted
  <2>9. \A v \in V : \/ space'[c].map[v] \in {NoFrame, space[c].map[v]}
                     \/ /\ space[c].map[v] = NoFrame
                        /\ space'[c].map[v] \notin Mapped(space[c], V)
    BY <1>3
  <2>10. text \subseteq Mapped(space'[c], V)
    BY <1>2
  <2>11. Private!Change(c)
    BY <1>1, <1>2, <1>12, <1>15, <2>7, <2>9, <2>10, ContentChange DEF Ready
  <2> QED BY <1>16, <2>7, <2>8, <2>11 DEF Effect
<1>18. Effect(c)
  BY <1>8, <1>16, <1>17 DEF Effect
<1>19. Jobs'
  <2>1. /\ state'[c] = "made" /\ \A q \in Processes \ {c} : state'[q] = state[q]
        /\ job'[p] = j /\ \A q \in Processes \ {p} : job'[q] = job[q]
    BY <1>1, <1>2 DEF RestOK
  <2>2. state'[Shell] = "live"
    BY <1>1, <1>4, <2>1, PagingAssumption DEF Jobs
  <2>3. \A q \in Processes : job[q].child # c
    <3> TAKE q \in Processes
    <3>1. JobOK(q)
      BY <1>1 DEF Jobs
    <3>2. NoJob.child = Shell /\ NoJob.stage = "none"
      BY DEF NoJob
    <3> QED BY <1>2, <1>3, <1>4, <3>1, <3>2 DEF JobOK
  <2> SUFFICES ASSUME NEW q \in Processes PROVE JobOK(q)'
    BY <2>2 DEF Jobs
  <2>4. JobOK(q)
    BY <1>1 DEF Jobs
  <2>5. CASE q = c
    <3>1. job'[c] = NoJob /\ picked'[c] = NoFrame /\ proc'[c].self # NoFrame
          /\ proc'[c].pagetable = c
      BY <1>3, <1>4, <1>7, <1>10, <1>13, <1>15, <2>1
    <3>2. NoJob.stage = "none"
      BY DEF NoJob
    <3> QED BY <2>1, <2>5, <3>1, <3>2 DEF JobOK
  <2>6. CASE q = p
    <3>1. state'[p] = "live" /\ proc'[p].self # NoFrame /\ picked'[p] = NoFrame
      BY <1>2, <1>4, <1>13, <1>15, <2>1, <2>4, <2>6 DEF JobOK
    <3>2. \A r \in Processes \ {p} : job'[r].child # c
      BY <2>1, <2>3
    <3> QED BY <1>4, <1>11, <2>1, <2>6, <3>1, <3>2 DEF JobOK
  <2>7. CASE q # c /\ q # p
    <3>1. /\ state'[q] = state[q] /\ job'[q] = job[q]
          /\ proc'[q] = proc[q] /\ space'[q] = space[q] /\ picked'[q] = picked[q]
      BY <1>13, <1>15, <2>1, <2>7
    <3>2. job[q].stage # "none" /\ job[q].child # q =>
            /\ state'[job[q].child] = "made"
            /\ \A r \in Processes \ {q} : job'[r].child # job[q].child
      <4> HAVE job[q].stage # "none" /\ job[q].child # q
      <4>1. job[q].child \in Processes /\ state[job[q].child] = "made"
        BY <1>1, <2>4 DEF RestOK, JobOK
      <4>2. \A r \in Processes \ {q} : job'[r].child \in {job[r].child, c}
        BY <1>11, <2>1
      <4> QED BY <2>1, <2>3, <2>4, <4>1, <4>2 DEF JobOK
    <3> QED BY <2>4, <3>1, <3>2 DEF JobOK
  <2> QED BY <2>5, <2>6, <2>7
<1> QED BY <1>1, <1>12, <1>14, <1>18, <1>19, OutcomeOf

\* The frames of a fork: the process gets its own and those of the duplicate; what
\* process_create allocated for a page table is free again before.
LEMMA ForkFrames ==
  ASSUME Ready, NEW p \in Processes, NEW c \in Processes, sys_process_fork(p, c)
  PROVE  \E F \in Seq(Frames), G \in Seq(Frames) :
           /\ IsInjective(G) /\ F[1] \in freemap /\ F[1] \notin Range(G) /\ Range(G) \subseteq freemap
           /\ Len(G) = 1 + Cardinality(Mapped(space[p], V))
                         + Cardinality(Range(space[p].table) \ {NoFrame})
           /\ freemap' = freemap \ ({F[1]} \cup Range(G))
           /\ pages_free' = pages_free - 1 - Len(G) /\ pages_free' > 0
           /\ pages_free' = Cardinality(freemap')
           /\ space' = [space EXCEPT ![c] = pagetable_duplicate(space[p], G)]
           /\ proc' = [proc EXCEPT ![c] = NewProc(c, F)]
<1> DEFINE F == Allocated(p, Created)
           fresh == NewSpace(F)
           back == (freemap \ Range(F)) \cup pagetable_delete(fresh)
           sp == space[p]
           m == Cardinality(Mapped(sp, V))
           t == Cardinality(Range(sp.table) \ {NoFrame})
           n == 1 + m + t
           G == Lowest(back, n)
<1>1. MemoryOK /\ ProcOK /\ RestOK /\ Jobs /\ Owned /\ Counted /\ JobOK(p)
  BY TypeParts DEF Ready, Good, Jobs
<1>2. /\ state[p] = "live" /\ job[p] = NoJob /\ p # Shell
      /\ Enough(freemap, Created) /\ Enough(back, n) /\ freemap' = back \ Range(G)
      /\ pages_free' = Cardinality(pagetable_delete(fresh)) + pages_free - Created - n
      /\ space' = [space EXCEPT ![c] = pagetable_duplicate(sp, G)]
      /\ proc' = [proc EXCEPT ![c] = NewProc(c, F)]
  BY DEF sys_process_fork, Idle
<1>3. picked[p] = NoFrame
  BY <1>1, <1>2 DEF JobOK, NoJob
<1>4. /\ F \in Seq(Frames) /\ Len(F) = Created
      /\ IsInjective(F) /\ Range(F) \subseteq freemap
  BY <1>1, <1>2, <1>3, CreatedSome, AllocatedGives DEF MemoryOK
<1>5. F[1] \in Frames /\ F[1] \in Range(F) /\ pagetable_delete(fresh) = Range(F) \ {F[1]}
  <2>1. F[1] \in Frames /\ pagetable_delete(fresh) = Range(F) \ {F[1]}
    BY <1>4, FreshSpace
  <2>2. 1 \in DOMAIN F
    BY <1>4, CreatedSome
  <2> QED BY <2>1, <2>2 DEF Range
<1>6. back = freemap \ {F[1]}
  BY <1>4, <1>5
<1>7. m \in Nat /\ t \in Nat
  <2>1. Single(Held[p]) /\ Held[p] = Holding(sp, proc[p].self)
    BY <1>1 DEF Owned, Sole, Held
  <2>2. sp \in Space /\ proc[p].self \in 0 .. NFrames
    BY Typed DEF Ready
  <2> QED BY <2>1, <2>2, TableSizes
<1>8. n \in Nat /\ n = 1 + m + t
  BY <1>7
<1> HIDE DEF F, fresh, back, m, t, n
<1>9. /\ IsFiniteSet(freemap) /\ pages_free \in Nat /\ pages_free = Cardinality(freemap)
      /\ freemap \in SUBSET Frames
  BY <1>1, CountedFree DEF MemoryOK
<1>10. IsFiniteSet(back) /\ Cardinality(back) = pages_free - 1 /\ back \in SUBSET Frames
  <2>1. F[1] \in freemap
    BY <1>4, <1>5
  <2> QED BY <1>6, <1>9, <2>1, FS_RemoveElement
<1>11. n < pages_free - 1 /\ n \in 0 .. Cardinality(back)
  BY <1>2, <1>8, <1>9, <1>10 DEF Enough
<1>12. G \in Seq(back) /\ Len(G) = n /\ IsInjective(G) /\ Range(G) \subseteq back
  BY <1>10, <1>11, LowestGives
<1>13. G \in Seq(Frames)
  BY <1>10, <1>12
<1> HIDE DEF G
<1>14. Cardinality(Range(F) \ {F[1]}) = Created - 1
  <2>1. Cardinality(Range(F)) = Created /\ IsFiniteSet(Range(F))
    BY <1>4, ListSize, SomeFrames
  <2> QED BY <1>5, <2>1, FS_RemoveElement
<1>15. pages_free' = pages_free - 1 - n /\ pages_free' > 0
  BY <1>2, <1>5, <1>8, <1>9, <1>11, <1>14, CreatedSome
<1>16. freemap' = freemap \ ({F[1]} \cup Range(G))
  BY <1>2, <1>6
<1>17. Cardinality(freemap') = pages_free - 1 - n
  <2>1. Cardinality(Range(G)) = n
    BY <1>12, <1>13, ListSize
  <2>2. back \cap Range(G) = Range(G)
    BY <1>12
  <2>3. Cardinality(back \ Range(G)) = Cardinality(back) - Cardinality(back \cap Range(G))
    BY <1>10, FS_Difference
  <2> QED BY <1>2, <1>10, <2>1, <2>2, <2>3
<1>18. F[1] \in freemap /\ F[1] \notin Range(G) /\ Range(G) \subseteq freemap
  BY <1>4, <1>5, <1>6, <1>12
<1>19. /\ space' = [space EXCEPT ![c] = pagetable_duplicate(space[p], G)]
       /\ proc' = [proc EXCEPT ![c] = NewProc(c, F)]
  BY <1>2
<1>20. Len(G) = 1 + Cardinality(Mapped(space[p], V)) + Cardinality(Range(space[p].table) \ {NoFrame})
  BY <1>8, <1>12 DEF m, t
<1> QED BY <1>4, <1>12, <1>13, <1>15, <1>16, <1>17, <1>18, <1>19, <1>20

LEMMA ForkStep ==
  ASSUME Ready, NEW p \in Processes, NEW c \in Processes, sys_process_fork(p, c)
  PROVE  Outcome
<1> DEFINE sp == space[p]
           H == Held
           K == Held'
<1>1. MemoryOK /\ ProcOK /\ RestOK /\ Jobs /\ Owned /\ Counted /\ JobOK(p) /\ ~raced
  BY TypeParts DEF Ready, Good, Jobs
<1>2. /\ Counts /\ state[p] = "live" /\ state[c] = "none"
      /\ content' = [f \in Frames |->
                      IF \E v \in V : space'[c].map[v] = f
                      THEN content[sp.map[CHOOSE v \in V : space'[c].map[v] = f]]
                      ELSE IF f \in freemap' THEN "stale" ELSE content[f]]
      /\ state' = [state EXCEPT ![c] = "live"]
      /\ UNCHANGED <<picked, raced, job, writes, torn>>
  BY DEF sys_process_fork, Idle
<1>3. PICK F \in Seq(Frames), G \in Seq(Frames) :
           /\ IsInjective(G) /\ F[1] \in freemap /\ F[1] \notin Range(G) /\ Range(G) \subseteq freemap
           /\ Len(G) = 1 + Cardinality(Mapped(sp, V)) + Cardinality(Range(sp.table) \ {NoFrame})
           /\ freemap' = freemap \ ({F[1]} \cup Range(G))
           /\ pages_free' = pages_free - 1 - Len(G) /\ pages_free' > 0
           /\ pages_free' = Cardinality(freemap')
           /\ space' = [space EXCEPT ![c] = pagetable_duplicate(sp, G)]
           /\ proc' = [proc EXCEPT ![c] = NewProc(c, F)]
  BY ForkFrames
<1> DEFINE new == pagetable_duplicate(sp, G)
           np == NewProc(c, F)
           s == F[1]
<1>4. /\ space[c] = NoSpace /\ proc[c] = NoProcess /\ job[c] = NoJob /\ picked[c] = NoFrame
      /\ In(H[c]) = {} /\ Mapped(space[c], V) = {} /\ \A v \in V : space[c].map[v] = NoFrame
  BY <1>1, <1>2, NothingHeld
<1>5. c # p /\ c # Shell
  BY <1>1, <1>2 DEF Jobs
<1>6. s \in Frames /\ s \in 0 .. NFrames /\ s # NoFrame
  BY <1>1, <1>3, SomeFrames DEF MemoryOK
<1>7. /\ new \in Space
      /\ \A v \in V : new.map[v] = NoFrame <=> sp.map[v] = NoFrame
      /\ \A v, w \in V : new.map[v] # NoFrame /\ new.map[v] = new.map[w] => v = w
      /\ Single(Holding(new, s)) /\ In(Holding(new, s)) = {s} \cup Range(G)
  <2>1. Single(Holding(sp, proc[p].self))
    BY <1>1 DEF Owned, Sole, Held
  <2>2. sp \in Space /\ proc[p].self \in 0 .. NFrames
    BY Typed DEF Ready
  <2> QED BY <1>3, <1>6, <2>1, <2>2, DuplicateTable
<1>8. /\ np \in [self : 0 .. NFrames, pagetable : Processes,
                 data : 0 .. MaxData, stack : 0 .. InitialPages]
      /\ np.self = s /\ np.pagetable = c
  <2>1. InitialPages \in 0 .. MaxData /\ InitialPages \in 0 .. InitialPages
    BY PagingAssumption DEF InitialPages
  <2> QED BY <1>6, <2>1 DEF NewProc
<1> HIDE DEF new, np, s
<1>9. /\ ProcOK' /\ proc'[c] = np /\ \A q \in Processes \ {c} : proc'[q] = proc[q]
  BY <1>1, <1>3, <1>8 DEF ProcOK, np
<1>10. RestOK'
  BY <1>1, <1>2, CountsType DEF RestOK
<1>11. /\ space' \in [Processes -> Space] /\ space'[c] = new
       /\ \A q \in Processes \ {c} : space'[q] = space[q]
  BY <1>1, <1>3, <1>7 DEF MemoryOK, new
<1>12. /\ \A q \in Processes, v \in V : space'[q].map[v] # NoFrame => space'[q].map[v] \in Frames
       /\ \A v \in V : sp.map[v] # NoFrame => sp.map[v] \in Frames
  <2>1. \A q \in Processes, v \in V : space'[q].map[v] \in 0 .. NFrames
    BY <1>11 DEF Space
  <2>2. \A v \in V : sp.map[v] \in 0 .. NFrames
    BY Typed DEF Ready
  <2> QED BY <2>1, <2>2, SomeFrames
<1>13. \A f \in Frames :
         content'[f] = IF \E v \in V : new.map[v] = f
                       THEN content[sp.map[CHOOSE v \in V : new.map[v] = f]]
                       ELSE IF f \in freemap' THEN "stale" ELSE content[f]
  BY <1>2, <1>11
<1>14. \A v \in V : new.map[v] # NoFrame =>
         new.map[v] \in Frames /\ content'[new.map[v]] = content[sp.map[v]]
  <2> TAKE v \in V
  <2> HAVE new.map[v] # NoFrame
  <2> DEFINE f == new.map[v]
             w == CHOOSE x \in V : new.map[x] = f
  <2>1. f \in Frames
    BY <1>11, <1>12
  <2>2. w \in V /\ new.map[w] = f
    OBVIOUS
  <2>3. w = v
    BY <1>7, <2>2
  <2>4. content'[f] = content[sp.map[w]]
    BY <1>13, <2>1
  <2> QED BY <2>1, <2>3, <2>4
<1>15. content \in [Frames -> Contained]
  BY <1>1 DEF MemoryOK
<1>16. content' \in [Frames -> Contained]
  <2>1. ASSUME NEW f \in Frames PROVE content'[f] \in Contained
    <3>1. CASE \E v \in V : new.map[v] = f
      <4>1. PICK v \in V : new.map[v] = f
        BY <3>1
      <4>2. f # NoFrame
        BY SomeFrames
      <4>3. content'[f] = content[sp.map[v]] /\ sp.map[v] \in Frames
        BY <1>7, <1>12, <1>14, <4>1, <4>2
      <4> QED BY <1>15, <4>3
    <3>2. CASE ~\E v \in V : new.map[v] = f
      BY <1>13, <1>15, <3>2 DEF Contained
    <3> QED BY <3>1, <3>2
  <2> QED BY <1>2, <2>1
<1>17. MemoryOK'
  <2>1. freemap' \subseteq Frames /\ raced' \in BOOLEAN /\ picked' \in [Processes -> 0 .. NFrames]
    BY <1>1, <1>2, <1>3 DEF MemoryOK
  <2>2. pages_free' \in 0 .. NFrames
    <3>1. freemap' \in SUBSET Frames
      BY <2>1
    <3>2. Cardinality(freemap') \in Nat /\ Cardinality(freemap') <= NFrames /\ NFrames \in Nat
      BY <3>1, SomeFrames
    <3> QED BY <1>3, <3>2
  <2> QED BY <1>11, <1>16, <2>1, <2>2 DEF MemoryOK
<1>18. Owned'
  <2>1. Sole(H, freemap)
    BY <1>1 DEF Owned
  <2>2. K[c] = Holding(new, s) /\ \A q \in Processes \ {c} : K[q] = H[q]
    BY <1>8, <1>9, <1>11 DEF Held
  <2> HIDE DEF H, K
  <2> DEFINE D == {s} \cup Range(G)
  <2>3. D \in SUBSET freemap /\ freemap' = freemap \ D
    BY <1>3 DEF s
  <2>4. Single(K[c]) /\ In(K[c]) = In(H[c]) \cup D
    BY <1>4, <1>7, <2>2
  <2>5. Holds(K[c])
    BY <1>6, <1>7, <2>2, Places
  <2> HIDE DEF D
  <2>6. Sole(K, freemap \ D)
    BY <2>1, <2>2, <2>3, <2>4, <2>5, GiveFrames
  <2> QED BY <2>3, <2>6 DEF Owned, K
<1>19. Counted'
  <2>1. freemap' # {}
    <3>1. Cardinality(freemap') # 0
      BY <1>3
    <3>2. Cardinality({}) = 0
      BY FS_EmptySet
    <3> QED BY <3>1, <3>2
  <2> QED BY <1>3, <2>1 DEF Counted
<1>20. Private!Fork(p, c)
  <2>1. mem = [q \in Processes |-> [v \in V |-> IF space[q].map[v] = NoFrame THEN "unmapped"
                                                ELSE content[space[q].map[v]]]]
    BY DEF mem
  <2>2. mem' = [q \in Processes |-> [v \in V |-> IF space'[q].map[v] = NoFrame THEN "unmapped"
                                                 ELSE content'[space'[q].map[v]]]]
    BY DEF mem
  <2>3. mem[c] = [v \in V |-> "unmapped"]
    BY <1>4, <2>1
  <2>4. mem'[c] = mem[p]
    <3>1. ASSUME NEW v \in V PROVE mem'[c][v] = mem[p][v]
      <4>1. mem'[c][v] = IF new.map[v] = NoFrame THEN "unmapped" ELSE content'[new.map[v]]
        BY <1>11, <2>2
      <4>2. mem[p][v] = IF sp.map[v] = NoFrame THEN "unmapped" ELSE content[sp.map[v]]
        BY <2>1
      <4> QED BY <1>7, <1>14, <4>1, <4>2
    <3>2. mem'[c] = [v \in V |-> mem'[c][v]] /\ mem[p] = [v \in V |-> mem[p][v]]
      BY <2>1, <2>2
    <3> QED BY <3>1, <3>2
  <2>5. ASSUME NEW q \in Processes \ {c} PROVE mem'[q] = mem[q]
    <3>1. space'[q] = space[q]
      BY <1>11
    <3>2. ASSUME NEW v \in V, space[q].map[v] # NoFrame
          PROVE  content'[space[q].map[v]] = content[space[q].map[v]]
      <4> DEFINE f == space[q].map[v]
      <4>1. f \in In(H[q]) /\ f \in Frames
        <5>1. Mapped(space[q], V) \subseteq In(H[q]) /\ f \in Mapped(space[q], V)
          BY <3>2, UsedIsIn DEF Ready, Mapped
        <5> QED BY <5>1, <1>12, <3>1, <3>2
      <4>2. f \notin freemap
        BY <1>1, <4>1 DEF Owned, Sole
      <4>3. \A w \in V : new.map[w] # f
        <5> TAKE w \in V
        <5>1. new.map[w] # NoFrame => new.map[w] \in In(Holding(new, s))
          <6>1. Holding(new, s)[w] = new.map[w] /\ w \in Place
            BY <1>6, <1>7, Places
          <6> QED BY <6>1 DEF In
        <5>2. new.map[w] # NoFrame => new.map[w] \in freemap
          BY <1>3, <1>7, <5>1 DEF s
        <5> QED BY <3>2, <4>2, <5>2
      <4>4. f \notin freemap'
        BY <1>3, <4>2
      <4> QED BY <1>13, <4>1, <4>3, <4>4
    <3> QED BY <2>1, <2>2, <3>1, <3>2
  <2>6. mem' = [mem EXCEPT ![c] = mem[p]]
    <3>1. mem = [q \in Processes |-> mem[q]] /\ mem' = [q \in Processes |-> mem'[q]]
      BY <2>1, <2>2
    <3> DEFINE a == mem
               b == mem'
    <3>2. /\ a = [q \in Processes |-> a[q]] /\ b = [q \in Processes |-> b[q]]
          /\ b[c] = a[p] /\ \A q \in Processes \ {c} : b[q] = a[q]
      BY <2>4, <2>5, <3>1
    <3> HIDE DEF a, b
    <3>3. b = [a EXCEPT ![c] = a[p]]
      BY <3>2
    <3> QED BY <3>3 DEF a, b
  <2> QED BY <2>3, <2>6 DEF Private!Fork, Private!Blank
<1>21. Jobs'
  <2>1. /\ state'[c] = "live" /\ \A q \in Processes \ {c} : state'[q] = state[q]
        /\ job' = job /\ picked' = picked
    BY <1>1, <1>2 DEF RestOK
  <2>2. state'[Shell] = "live"
    BY <1>1, <1>5, <2>1, PagingAssumption DEF Jobs
  <2> SUFFICES ASSUME NEW q \in Processes PROVE JobOK(q)'
    BY <2>2 DEF Jobs
  <2>3. JobOK(q)
    BY <1>1 DEF Jobs
  <2>4. CASE q = c
    BY <1>4, <1>6, <1>8, <1>9, <2>1, <2>4 DEF JobOK, NoJob
  <2>5. CASE q # c
    <3>1. state'[q] = state[q] /\ proc'[q] = proc[q] /\ space'[q] = space[q]
      BY <1>9, <1>11, <2>1, <2>5
    <3>2. job[q].stage # "none" /\ job[q].child # q => state'[job[q].child] = "made"
      <4> HAVE job[q].stage # "none" /\ job[q].child # q
      <4>1. job[q].child \in Processes /\ state[job[q].child] = "made"
        BY <1>1, <2>3 DEF RestOK, JobOK
      <4> QED BY <1>2, <2>1, <4>1
    <3> QED BY <2>1, <2>3, <3>1, <3>2 DEF JobOK
  <2> QED BY <2>4, <2>5
<1> QED BY <1>9, <1>10, <1>17, <1>18, <1>19, <1>20, <1>21, TypePartsNext
        DEF Outcome, Good, MemoryKept
-----------------------------------------------------------------------------
(* The theorems.                                                           *)

LEMMA StepOutcome ==
  ASSUME IInv, PagingNext
  PROVE  Outcome
<1>1. Ready
  BY DEF IInv, PagingNext, Ready
<1>2. PICK p \in Processes : Step(p)
  BY DEF PagingNext
<1>3. CASE Pick(p)
  BY <1>1, <1>3, PickStep
<1>4. CASE exec_begin(p)
  BY <1>1, <1>4, ExecBeginStep
<1>5. CASE sys_process_heap(p)
  BY <1>1, <1>5, HeapStep
<1>6. CASE elf_load(p)
  BY <1>1, <1>6, LoadStep
<1>7. CASE load_end(p)
  BY <1>1, <1>7, LoadEndStep
<1>8. CASE load_refused(p)
  BY <1>1, <1>8, RefusedStep
<1>9. CASE load_failed(p)
  BY <1>1, <1>9, FailedStep
<1>10. CASE process_kill(p)
  BY <1>1, <1>10, KillStep
<1>11. CASE process_reap(p)
  BY <1>1, <1>11, ReapStep
<1>12. CASE \E c \in Processes : run_begin(p, c) \/ sys_process_fork(p, c)
  <2>1. PICK c \in Processes : run_begin(p, c) \/ sys_process_fork(p, c)
    BY <1>12
  <2> QED BY <1>1, <2>1, RunBeginStep, ForkStep
<1>13. CASE \E v \in V : page_fault(p, v) \/ write(p, v)
  <2>1. PICK v \in V : page_fault(p, v) \/ write(p, v)
    BY <1>13
  <2> QED BY <1>1, <2>1, FaultStep, WriteStep
<1> QED BY <1>2, <1>3, <1>4, <1>5, <1>6, <1>7, <1>8, <1>9, <1>10, <1>11, <1>12, <1>13 DEF Step

\* The kernel shell has the first frames, and the others are free.
LEMMA InitInvariant ==
  ASSUME PagingInit
  PROVE  IInv /\ Private!Init
<1> DEFINE F == Lowest(Frames, Created)
           new == NewSpace(F)
           np(p) == NewProc(p, F)
<1>1. /\ freemap = Frames \ Range(F) /\ pages_free = NFrames - Created
      /\ space = [p \in Processes |-> IF p = Shell THEN new ELSE NoSpace]
      /\ proc = [p \in Processes |-> IF p = Shell THEN np(p) ELSE NoProcess]
      /\ state = [p \in Processes |-> IF p = Shell THEN "live" ELSE "none"]
      /\ content = [f \in Frames |-> IF f \in Mapped(space[Shell], V) THEN "zero" ELSE "stale"]
      /\ job = [p \in Processes |-> NoJob] /\ picked = [p \in Processes |-> NoFrame]
      /\ calls = 0 /\ writes = 0 /\ raced = FALSE /\ torn = FALSE
  BY DEF PagingInit
<1>2. Shell \in Processes /\ NFrames \in Nat /\ MaxCalls \in Nat /\ MaxWrites \in Nat /\ MaxData \in Nat
      /\ IsFiniteSet(Frames) /\ Cardinality(Frames) = NFrames
      /\ Created \in Nat /\ Created < NFrames
  BY PagingAssumption, SomeFrames, CreatedSome, BootAssumption DEF Enough
<1>3. F \in Seq(Frames) /\ Len(F) = Created /\ IsInjective(F) /\ Range(F) \subseteq Frames
  <2>1. Created \in 0 .. Cardinality(Frames)
    BY <1>2
  <2> QED BY <2>1, LowestGives
<1>4. /\ F[1] \in Frames /\ new \in Space
      /\ Single(Holding(new, F[1])) /\ In(Holding(new, F[1])) = Range(F)
  BY <1>3, FreshSpace
<1>5. F[1] \in 0 .. NFrames /\ F[1] # NoFrame /\ NoFrame \in 0 .. NFrames
  BY <1>2, <1>4, SomeFrames DEF NoFrame
<1>6. /\ \A p \in Processes : np(p) \in [self : 0 .. NFrames, pagetable : Processes, data : 0 .. MaxData,
                                         stack : 0 .. InitialPages]
      /\ \A p \in Processes : np(p).self = F[1] /\ np(p).pagetable = p
  <2>1. InitialPages \in 0 .. MaxData /\ InitialPages \in 0 .. InitialPages
    BY PagingAssumption DEF InitialPages
  <2> QED BY <1>5, <2>1 DEF NewProc
<1>7. NoProcess \in [self : 0 .. NFrames, pagetable : Processes,
                     data : 0 .. MaxData, stack : 0 .. InitialPages]
      /\ NoProcess.self = NoFrame
  BY <1>2, <1>5 DEF NoProcess, InitialPages
<1>8. NoJob \in [child : Processes, stage : {"none", "begun", "loaded"}] /\ NoJob.stage = "none"
  BY <1>2 DEF NoJob
<1> HIDE DEF F, new, np
<1>9. ProcOK
  BY <1>1, <1>6, <1>7 DEF ProcOK
<1>10. RestOK
  <2>1. calls \in 0 .. MaxCalls /\ writes \in 0 .. MaxWrites
    BY <1>1, <1>2
  <2>2. torn \in BOOLEAN
    BY <1>1
  <2>3. \A p \in Processes : state[p] \in {"live", "none"}
    BY <1>1
  <2>4. job \in [Processes -> [child : Processes, stage : {"none", "begun", "loaded"}]]
    BY <1>1, <1>8
  <2> QED BY <1>1, <2>1, <2>2, <2>3, <2>4 DEF RestOK
<1>11. MemoryOK
  <2>1. space \in [Processes -> Space]
    BY <1>1, <1>4, EmptySpace
  <2>2. content \in [Frames -> Contained]
    BY <1>1 DEF Contained
  <2>3. pages_free \in 0 .. NFrames
    BY <1>1, <1>2
  <2>4. picked \in [Processes -> 0 .. NFrames]
    BY <1>1, <1>5
  <2>5. raced \in BOOLEAN /\ freemap \subseteq Frames
    BY <1>1
  <2> QED BY <2>1, <2>2, <2>3, <2>4, <2>5 DEF MemoryOK
<1>12. Jobs
  BY <1>1, <1>2, <1>5, <1>6, <1>8 DEF Jobs, JobOK
<1>13. Counted
  <2>1. Cardinality(Range(F)) = Created
    BY <1>3, ListSize
  <2>2. Frames \cap Range(F) = Range(F)
    BY <1>3
  <2>3. Cardinality(Frames \ Range(F)) = Cardinality(Frames) - Cardinality(Frames \cap Range(F))
    BY <1>2, FS_Difference
  <2>4. Cardinality(freemap) = pages_free /\ pages_free # 0
    BY <1>1, <1>2, <2>1, <2>2, <2>3
  <2>5. freemap # {}
    BY <2>4, FS_EmptySet
  <2> QED BY <2>4, <2>5 DEF Counted
<1>14. Owned
  <2>1. Held[Shell] = Holding(new, F[1])
    BY <1>1, <1>2, <1>6 DEF Held
  <2>2. \A p \in Processes \ {Shell} : Held[p] = Holding(NoSpace, NoFrame)
    BY <1>1, <1>7 DEF Held
  <2>3. /\ Single(Holding(NoSpace, NoFrame)) /\ In(Holding(NoSpace, NoFrame)) = {}
        /\ Holds(Holding(NoSpace, NoFrame)) /\ Holds(Holding(new, F[1]))
    BY <1>4, <1>5, EmptySpace, Places
  <2>4. \A p \in Processes : /\ Holds(Held[p]) /\ Single(Held[p])
                             /\ In(Held[p]) = IF p = Shell THEN Range(F) ELSE {}
    BY <1>4, <2>1, <2>2, <2>3
  <2>5. \A p \in Processes : In(Held[p]) \cap freemap = {}
    BY <1>1, <2>4
  <2>6. \A p, q \in Processes : p # q => In(Held[p]) \cap In(Held[q]) = {}
    BY <2>4
  <2>7. \A f \in Frames : f \in freemap \/ f \in In(Held[Shell])
    BY <1>1, <1>2, <2>4
  <2>8. freemap \subseteq Frames
    BY <1>1
  <2> QED BY <1>2, <2>4, <2>5, <2>6, <2>7, <2>8 DEF Owned, Sole
<1>15. Private!Init
  <2>1. ~(raced \/ torn)
    BY <1>1
  <2>2. ASSUME NEW p \in Processes, NEW v \in V PROVE mem[p][v] \in {"unmapped", "zero"}
    <3>1. mem[p][v] = IF space[p].map[v] = NoFrame THEN "unmapped" ELSE content[space[p].map[v]]
      BY DEF mem
    <3>2. CASE p = Shell
      <4>1. space[p].map[v] # NoFrame =>
              space[p].map[v] \in Mapped(space[Shell], V) /\ space[p].map[v] \in Frames
        <5>1. space[p].map[v] \in 0 .. NFrames
          BY <1>11 DEF MemoryOK, Space
        <5> QED BY <3>2, <5>1, SomeFrames DEF Mapped
      <4> QED BY <1>1, <3>1, <4>1
    <3>3. CASE p # Shell
      BY <1>1, <3>1, <3>3, EmptySpace
    <3> QED BY <3>2, <3>3
  <2> QED BY <2>1, <2>2 DEF Private!Init
<1> QED BY <1>9, <1>10, <1>11, <1>12, <1>13, <1>14, <1>15, TypeParts DEF IInv, Good

\* The invariant: frames are given to one place each and what a process is in the
\* middle of is known, until a race or a kill ends all promises.
THEOREM IInvHolds == PagingSpec => []IInv
<1>1. PagingInit => IInv
  BY InitInvariant
<1>2. IInv /\ [PagingNext]_pagingVars => IInv'
  <2> SUFFICES ASSUME IInv, [PagingNext]_pagingVars PROVE IInv'
    OBVIOUS
  <2>1. CASE PagingNext
    BY <2>1, StepOutcome DEF Outcome, IInv
  <2>2. CASE UNCHANGED pagingVars
    <3>1. PagingTypeOK' = PagingTypeOK /\ Held' = Held
      BY <2>2 DEF pagingVars, memory, PagingTypeOK, Held
    <3>2. Jobs' = Jobs
      BY <2>2 DEF pagingVars, memory, Jobs, JobOK
    <3>3. Owned' = Owned /\ Counted' = Counted /\ raced' = raced /\ torn' = torn
      BY <2>2, <3>1 DEF pagingVars, memory, Owned, Counted
    <3> QED BY <3>1, <3>2, <3>3 DEF IInv, Good
  <2> QED BY <2>1, <2>2
<1> QED BY <1>1, <1>2, PTL DEF PagingSpec

\* Every variable keeps its type: in particular no count of free pages goes below
\* zero, and no page table names a frame that is not there.
THEOREM PagingTypeCorrect == PagingSpec => []PagingTypeOK
<1>1. IInv => PagingTypeOK
  BY DEF IInv
<1> QED BY <1>1, IInvHolds, PTL

\* As many uses as frames used.
LEMMA UsesCount ==
  ASSUME PagingTypeOK, Owned, NEW p \in Processes
  PROVE  Uses(p) = Cardinality(Used(p))
<1> DEFINE sp == space[p]
           s == proc[p].self
           A == Mapped(sp, V)
           B == Range(sp.table) \ {NoFrame}
           C == {sp.directory} \ {NoFrame}
           D == {s} \ {NoFrame}
           a == Cardinality({v \in V : sp.map[v] # NoFrame})
           b == Cardinality({i \in 1 .. 2 : sp.table[i] # NoFrame})
<1>1. sp \in Space /\ s \in 0 .. NFrames
  BY Typed
<1>2. Single(Holding(sp, s))
  BY DEF Owned, Sole, Held
<1>3. /\ IsFiniteSet(A) /\ Cardinality(A) = a /\ a \in Nat
      /\ IsFiniteSet(B) /\ Cardinality(B) = b /\ b \in Nat
      /\ A \cap Range(sp.table) = {}
      /\ sp.directory # NoFrame => sp.directory \notin A \cup Range(sp.table)
      /\ s # NoFrame => s \notin A \cup Range(sp.table) \cup {sp.directory}
  BY <1>1, <1>2, TableSizes
<1>4. Used(p) = A \cup B \cup C \cup D
  <2>1. NoFrame \notin A
    BY DEF Mapped
  <2> QED BY <2>1 DEF Used
<1>5. Uses(p) = a + b + (IF sp.directory # NoFrame THEN 1 ELSE 0) + (IF s # NoFrame THEN 1 ELSE 0)
  BY DEF Uses
<1>6. /\ IsFiniteSet(C) /\ Cardinality(C) = IF sp.directory # NoFrame THEN 1 ELSE 0
      /\ IsFiniteSet(D) /\ Cardinality(D) = IF s # NoFrame THEN 1 ELSE 0
  <2>1. ASSUME NEW x
        PROVE  IsFiniteSet({x} \ {NoFrame})
               /\ Cardinality({x} \ {NoFrame}) = IF x # NoFrame THEN 1 ELSE 0
    <3>1. CASE x = NoFrame
      <4>1. {x} \ {NoFrame} = {}
        BY <3>1
      <4> QED BY <3>1, <4>1, FS_EmptySet
    <3>2. CASE x # NoFrame
      <4>1. {x} \ {NoFrame} = {x}
        BY <3>2
      <4> QED BY <3>2, <4>1, FS_Singleton
    <3> QED BY <3>1, <3>2
  <2> QED BY <2>1
<1>7. /\ A \cap B = {} /\ (A \cup B) \cap C = {} /\ (A \cup B \cup C) \cap D = {}
  BY <1>3
<1> HIDE DEF A, B, C, D, a, b
<1>8. IsFiniteSet(A \cup B) /\ Cardinality(A \cup B) = a + b
  BY <1>3, <1>7, DisjointSize
<1> DEFINE E == A \cup B
           F == E \cup C
           c == IF sp.directory # NoFrame THEN 1 ELSE 0
           d == IF s # NoFrame THEN 1 ELSE 0
<1>9. /\ IsFiniteSet(E) /\ Cardinality(E) = a + b /\ E \cap C = {}
      /\ Cardinality(C) = c /\ Cardinality(D) = d /\ F \cap D = {} /\ Used(p) = F \cup D
      /\ Uses(p) = a + b + c + d
  BY <1>4, <1>5, <1>6, <1>7, <1>8
<1> HIDE DEF E
<1>10. IsFiniteSet(F) /\ Cardinality(F) = Cardinality(E) + Cardinality(C)
  BY <1>6, <1>9, DisjointSize
<1>11. F \cap D = {}
  BY <1>9
<1> HIDE DEF F
<1>12. Cardinality(F \cup D) = Cardinality(F) + Cardinality(D)
  BY <1>6, <1>10, <1>11, DisjointSize
<1>13. Used(p) = F \cup D
  BY <1>9 DEF F
<1> HIDE DEF c, d
<1> QED BY <1>9, <1>10, <1>12, <1>13

\* A frame is free or has exactly one use in one process, and pages_free is the
\* number of the free ones, whatever calls are preempted, fail half-way or end in
\* a death; until the race of page_alloc, or a kill inside a load, happens.
THEOREM PagesSoundHolds == PagingSpec => []PagesSound
<1>1. IInv => PagesSound
  <2> SUFFICES ASSUME IInv, ~raced, ~torn
               PROVE  /\ pages_free = Cardinality(freemap)
                      /\ Frames \ freemap = UNION {Used(p) : p \in Processes}
                      /\ \A p \in Processes : Uses(p) = Cardinality(Used(p))
                      /\ \A p, q \in Processes : p # q => Used(p) \cap Used(q) = {}
    BY DEF PagesSound
  <2>1. PagingTypeOK /\ Owned /\ Counted
    BY DEF IInv, Good
  <2>2. \A p \in Processes : Used(p) = In(Held[p]) /\ In(Held[p]) \subseteq Frames
    <3> TAKE p \in Processes
    <3>1. Holds(Held[p])
      BY <2>1 DEF Owned, Sole
    <3>2. In(Held[p]) \subseteq Frames
      BY <3>1, SomeFrames DEF Holds, In
    <3> QED BY <2>1, <3>2, UsedIsIn
  <2>3. Frames \ freemap = UNION {Used(p) : p \in Processes}
    BY <2>1, <2>2 DEF Owned, Sole
  <2>4. \A p, q \in Processes : p # q => Used(p) \cap Used(q) = {}
    BY <2>1, <2>2 DEF Owned, Sole
  <2>5. \A p \in Processes : Uses(p) = Cardinality(Used(p))
    BY <2>1, UsesCount
  <2> QED BY <2>1, <2>3, <2>4, <2>5 DEF Counted
<1> QED BY <1>1, IInvHolds, PTL

\* The page tables implement private memory: no step of one process changes what
\* another finds in its pages, a page starts from zeros or the program file, and a
\* fork is the only copy.
THEOREM ImplementsPrivateMemory == PagingSpec => IsPrivate
<1>1. PagingInit => Private!Init
  BY InitInvariant
<1>2. IInv /\ [PagingNext]_pagingVars => [Private!Next]_<<mem, raced \/ torn>>
  <2> SUFFICES ASSUME IInv, [PagingNext]_pagingVars PROVE [Private!Next]_<<mem, raced \/ torn>>
    OBVIOUS
  <2>1. CASE PagingNext
    <3>1. Outcome /\ PagingTypeOK
      BY <2>1, StepOutcome DEF IInv
    <3>2. CASE raced' \/ torn'
      BY <3>2 DEF Private!Next
    <3>3. CASE ~raced' /\ ~torn'
      <4>1. (raced \/ torn) = FALSE /\ (raced' \/ torn') = FALSE
        BY <2>1, <3>3 DEF PagingNext
      <4>2. (raced' \/ torn') = (raced \/ torn)
        BY <4>1
      <4>3. MemoryKept
        BY <3>1, <3>3 DEF Outcome
      <4>4. CASE mem' = mem
        BY <4>2, <4>4
      <4>5. CASE \E c \in Processes : Private!Change(c)
        BY <4>2, <4>5 DEF Private!Next
      <4>6. CASE \E p, c \in Processes : Private!Fork(p, c)
        BY <4>2, <4>6 DEF Private!Next
      <4> QED BY <4>3, <4>4, <4>5, <4>6 DEF MemoryKept
    <3> QED BY <3>2, <3>3
  <2>2. CASE UNCHANGED pagingVars
    <3>1. mem' = mem /\ (raced' \/ torn') = (raced \/ torn)
      BY <2>2 DEF pagingVars, memory, mem
    <3> QED BY <3>1
  <2> QED BY <2>1, <2>2
<1> QED BY <1>1, <1>2, IInvHolds, PTL DEF PagingSpec, IsPrivate, Private!Spec
=============================================================================
