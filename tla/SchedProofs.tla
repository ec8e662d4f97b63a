---------------------------- MODULE SchedProofs ----------------------------
(***************************************************************************)
(* What the operators of Sched do to who is awake and who waits where.     *)
(***************************************************************************)
EXTENDS Sched, KListProofs

\* A process is running, ready, or on one queue.
Apart ==
  /\ IsInjective(ready) /\ current \notin Range(ready)
  /\ \A q \in Queues :
       /\ IsInjective(queue[q]) /\ current \notin Range(queue[q])
       /\ Range(queue[q]) \cap Range(ready) = {}
       /\ \A r \in Queues \ {q} : Range(queue[q]) \cap Range(queue[r]) = {}

SchedInv == SchedType /\ Apart

Awake == Range(ready) \cup ({current} \cap Procs)

LEMMA EmptyList == Range(<<>>) = {} /\ IsInjective(<<>>)
BY DEF Range, IsInjective

LEMMA ListRange == ASSUME NEW S, NEW s \in Seq(S) PROVE Range(s) \subseteq S
BY DEF Range

\* The next process is taken off the list it was on.
LEMMA RunMoves ==
  ASSUME NEW r \in Seq(Procs), IsInjective(r), Run(r)
  PROVE  /\ current' \in Procs \cup {NoProc} /\ ready' \in Seq(Procs)
         /\ IsInjective(ready') /\ current' \notin Range(ready')
         /\ Awake' = Range(r)
         /\ current' # NoProc => current' \in Range(r)
         /\ Range(ready') \subseteq Range(r)
<1>1. CASE r = <<>>
  <2>1. current' = NoProc /\ ready' = <<>>
    BY <1>1 DEF Run
  <2>2. Range(ready') = {} /\ IsInjective(ready')
    BY <2>1, EmptyList
  <2>3. Range(r) = {} /\ NoProc \notin Procs
    BY <1>1, EmptyList, SchedAssumption
  <2> QED BY <2>1, <2>2, <2>3 DEF Awake
<1>2. CASE r # <<>>
  <2>1. current' = Head(r) /\ ready' = Tail(r)
    BY <1>2 DEF Run
  <2>2. /\ Head(r) \in Range(r) /\ Head(r) \in Procs /\ Tail(r) \in Seq(Procs)
        /\ Range(r) = Range(Tail(r)) \cup {Head(r)}
        /\ IsInjective(Tail(r)) /\ Head(r) \notin Range(Tail(r))
    BY <1>2, HeadTailDistinct
  <2> QED BY <2>1, <2>2 DEF Awake
<1> QED BY <1>1, <1>2

LEMMA DispatchMoves ==
  ASSUME SchedInv, Dispatch
  PROVE  SchedInv' /\ Awake' = Awake /\ queue' = queue
<1>1. /\ current = NoProc /\ ready \in Seq(Procs) /\ IsInjective(ready) /\ Run(ready)
      /\ UNCHANGED <<queue, dead>>
  BY DEF Dispatch, SchedInv, SchedType, Apart
<1>2. /\ current' \in Procs \cup {NoProc} /\ ready' \in Seq(Procs)
      /\ IsInjective(ready') /\ current' \notin Range(ready')
      /\ Awake' = Range(ready) /\ (current' # NoProc => current' \in Range(ready))
      /\ Range(ready') \subseteq Range(ready)
  BY <1>1, RunMoves
<1>3. Awake = Range(ready)
  BY <1>1, SchedAssumption DEF Awake
<1>4. \A q \in Queues : NoProc \notin Range(queue[q])
  BY <1>1 DEF SchedInv, Apart
<1> QED BY <1>1, <1>2, <1>3, <1>4 DEF SchedInv, SchedType, Apart

LEMMA YieldMoves ==
  ASSUME SchedInv, Yield
  PROVE  SchedInv' /\ Awake' = Awake /\ queue' = queue
<1> DEFINE r == Append(ready, current)
<1>1. /\ current \in Procs /\ ready \in Seq(Procs) /\ IsInjective(ready)
      /\ current \notin Range(ready) /\ Run(r) /\ UNCHANGED <<queue, dead>>
  BY DEF Yield, SchedInv, SchedType, Apart
<1>2. r \in Seq(Procs) /\ IsInjective(r) /\ Range(r) = Range(ready) \cup {current}
  BY <1>1, AppendDistinct
<1> HIDE DEF r
<1>3. /\ current' \in Procs \cup {NoProc} /\ ready' \in Seq(Procs)
      /\ IsInjective(ready') /\ current' \notin Range(ready')
      /\ Awake' = Range(r) /\ (current' # NoProc => current' \in Range(r))
      /\ Range(ready') \subseteq Range(r)
  BY <1>1, <1>2, RunMoves
<1>4. Awake = Range(r)
  BY <1>1, <1>2 DEF Awake
<1>5. \A q \in Queues : Range(queue[q]) \cap Range(r) = {} /\ NoProc \notin Range(queue[q])
  <2>1. \A q \in Queues : Range(queue[q]) \subseteq Procs
    BY ListRange DEF SchedInv, SchedType
  <2> QED BY <1>2, <2>1, SchedAssumption DEF SchedInv, Apart
<1> QED BY <1>1, <1>3, <1>4, <1>5 DEF SchedInv, SchedType, Apart

LEMMA BlockMoves ==
  ASSUME SchedInv, NEW q \in Queues, Block(q)
  PROVE  /\ SchedInv' /\ Awake' = Awake \ {current}
         /\ Range(queue'[q]) = Range(queue[q]) \cup {current}
         /\ \A r \in Queues \ {q} : queue'[r] = queue[r]
<1>1. /\ current \in Procs /\ ready \in Seq(Procs) /\ IsInjective(ready)
      /\ current \notin Range(ready) /\ Run(ready) /\ UNCHANGED dead
      /\ queue \in [Queues -> Seq(Procs)]
      /\ queue' = [queue EXCEPT ![q] = Append(@, current)]
      /\ queue[q] \in Seq(Procs) /\ IsInjective(queue[q]) /\ current \notin Range(queue[q])
  BY DEF Block, SchedInv, SchedType, Apart
<1>2. /\ queue'[q] = Append(queue[q], current)
      /\ \A r \in Queues \ {q} : queue'[r] = queue[r]
  BY <1>1
<1>3. /\ Append(queue[q], current) \in Seq(Procs) /\ IsInjective(Append(queue[q], current))
      /\ Range(Append(queue[q], current)) = Range(queue[q]) \cup {current}
  BY <1>1, AppendDistinct
<1>4. /\ current' \in Procs \cup {NoProc} /\ ready' \in Seq(Procs)
      /\ IsInjective(ready') /\ current' \notin Range(ready')
      /\ Awake' = Range(ready) /\ (current' # NoProc => current' \in Range(ready))
      /\ Range(ready') \subseteq Range(ready)
  BY <1>1, RunMoves
<1>5. Awake = Range(ready) \cup {current}
  BY <1>1 DEF Awake
<1>6. queue' \in [Queues -> Seq(Procs)]
  BY <1>1, <1>3
<1>7. \A r \in Queues : /\ IsInjective(queue'[r])
                        /\ Range(queue'[r]) \subseteq Range(queue[r]) \cup {current}
                        /\ r # q => Range(queue'[r]) = Range(queue[r])
  BY <1>1, <1>2, <1>3 DEF SchedInv, Apart
<1>8. \A r \in Queues : NoProc \notin Range(queue[r]) /\ Range(queue[r]) \cap Range(ready) = {}
  <2>1. \A r \in Queues : Range(queue[r]) \subseteq Procs
    BY <1>1, ListRange
  <2> QED BY <2>1, SchedAssumption DEF SchedInv, Apart
<1>9. \A r \in Queues : Range(queue'[r]) \cap Range(ready) = {} /\ NoProc \notin Range(queue'[r])
  BY <1>1, <1>7, <1>8, SchedAssumption
<1>10. \A r \in Queues : \A s \in Queues \ {r} : Range(queue'[r]) \cap Range(queue'[s]) = {}
  <2>1. \A r \in Queues : \A s \in Queues \ {r} :
          Range(queue[r]) \cap Range(queue[s]) = {} /\ current \notin Range(queue[r])
    BY DEF SchedInv, Apart
  <2> QED BY <1>2, <1>3, <1>7, <2>1
<1>11. Apart'
  BY <1>4, <1>7, <1>9, <1>10 DEF Apart
<1> QED BY <1>1, <1>2, <1>3, <1>4, <1>5, <1>6, <1>11 DEF SchedInv, SchedType

LEMMA WakeOneMoves ==
  ASSUME SchedInv, NEW q \in Queues, WakeOne(q)
  PROVE  /\ SchedInv' /\ UNCHANGED current
         /\ queue[q] = <<>> => Awake' = Awake /\ queue' = queue
         /\ queue[q] # <<>> => /\ Head(queue[q]) \in Range(queue[q])
                               /\ Awake' = Awake \cup {Head(queue[q])}
                               /\ Range(queue'[q]) = Range(queue[q]) \ {Head(queue[q])}
         /\ \A r \in Queues \ {q} : queue'[r] = queue[r]
<1>1. CASE queue[q] = <<>>
  BY <1>1 DEF WakeOne, SchedInv, SchedType, Apart, Awake
<1>2. CASE queue[q] # <<>>
  <2> DEFINE h == Head(queue[q])
  <2>1. /\ queue' = [queue EXCEPT ![q] = Tail(@)] /\ ready' = Append(ready, h)
        /\ UNCHANGED <<current, dead>>
    BY <1>2 DEF WakeOne
  <2>2. /\ queue \in [Queues -> Seq(Procs)] /\ queue[q] \in Seq(Procs) /\ IsInjective(queue[q])
        /\ ready \in Seq(Procs) /\ IsInjective(ready) /\ current \in Procs \cup {NoProc}
        /\ Range(queue[q]) \cap Range(ready) = {} /\ current \notin Range(queue[q])
        /\ dead \in SUBSET Procs
    BY DEF SchedInv, SchedType, Apart
  <2>3. /\ h \in Range(queue[q]) /\ h \in Procs /\ Tail(queue[q]) \in Seq(Procs)
        /\ Range(queue[q]) = Range(Tail(queue[q])) \cup {h}
        /\ IsInjective(Tail(queue[q])) /\ h \notin Range(Tail(queue[q]))
    BY <1>2, <2>2, HeadTailDistinct
  <2>4. queue'[q] = Tail(queue[q]) /\ \A r \in Queues \ {q} : queue'[r] = queue[r]
    BY <2>1, <2>2
  <2> HIDE DEF h
  <2>5. ready' \in Seq(Procs) /\ Range(ready') = Range(ready) \cup {h} /\ IsInjective(ready')
    BY <2>1, <2>2, <2>3, AppendDistinct
  <2>6. \A r \in Queues : /\ IsInjective(queue'[r]) /\ h \notin Range(queue'[r])
                          /\ Range(queue'[r]) \subseteq Range(queue[r])
    BY <2>3, <2>4 DEF SchedInv, Apart
  <2>7. Apart'
    <3>1. ASSUME NEW r \in Queues
          PROVE  /\ Range(queue'[r]) \cap Range(ready') = {}
                 /\ current' \notin Range(queue'[r])
                 /\ \A s \in Queues \ {r} : Range(queue'[r]) \cap Range(queue'[s]) = {}
      <4>1. /\ Range(queue[r]) \cap Range(ready) = {} /\ current \notin Range(queue[r])
            /\ \A s \in Queues \ {r} : Range(queue[r]) \cap Range(queue[s]) = {}
        BY DEF SchedInv, Apart
      <4>2. Range(queue'[r]) \cap Range(ready') = {}
        BY <2>5, <2>6, <4>1
      <4>3. \A s \in Queues \ {r} : Range(queue'[r]) \cap Range(queue'[s]) = {}
        BY <2>6, <4>1
      <4> QED BY <2>1, <2>6, <4>1, <4>2, <4>3
    <3>2. current' \notin Range(ready')
      BY <2>1, <2>2, <2>3, <2>5 DEF SchedInv, Apart
    <3> QED BY <2>5, <2>6, <3>1, <3>2 DEF Apart
  <2>8. queue' \in [Queues -> Seq(Procs)]
    BY <2>1, <2>2, <2>3
  <2>9. Awake' = Awake \cup {h}
    BY <2>1, <2>5 DEF Awake
  <2>10. SchedInv'
    BY <2>1, <2>2, <2>5, <2>7, <2>8 DEF SchedInv, SchedType
  <2> QED BY <1>2, <2>1, <2>3, <2>4, <2>9, <2>10 DEF h
<1> QED BY <1>1, <1>2

LEMMA WakeAllMoves ==
  ASSUME SchedInv, NEW q \in Queues, WakeAll(q)
  PROVE  /\ SchedInv' /\ UNCHANGED current
         /\ Awake' = Awake \cup Range(queue[q]) /\ queue'[q] = <<>>
         /\ \A r \in Queues \ {q} : queue'[r] = queue[r]
<1>1. /\ queue' = [queue EXCEPT ![q] = <<>>] /\ ready' = ready \o queue[q]
      /\ UNCHANGED <<current, dead>>
  BY DEF WakeAll
<1>2. /\ queue \in [Queues -> Seq(Procs)] /\ queue[q] \in Seq(Procs) /\ IsInjective(queue[q])
      /\ ready \in Seq(Procs) /\ IsInjective(ready) /\ current \in Procs \cup {NoProc}
      /\ Range(queue[q]) \cap Range(ready) = {} /\ current \notin Range(queue[q])
      /\ dead \in SUBSET Procs
  BY DEF SchedInv, SchedType, Apart
<1>3. /\ ready' \in Seq(Procs) /\ Range(ready') = Range(ready) \cup Range(queue[q])
      /\ IsInjective(ready')
  BY <1>1, <1>2, ConcatDistinct
<1>4. queue'[q] = <<>> /\ \A r \in Queues \ {q} : queue'[r] = queue[r]
  BY <1>1, <1>2
<1>5. queue' \in [Queues -> Seq(Procs)]
  BY <1>1, <1>2
<1>6. \A r \in Queues : IsInjective(queue'[r]) /\ Range(queue'[r]) = IF r = q THEN {} ELSE Range(queue[r])
  BY <1>4, EmptyList DEF SchedInv, Apart
<1>7. Apart'
  <2>1. ASSUME NEW r \in Queues
        PROVE  /\ Range(queue'[r]) \cap Range(ready') = {}
               /\ current' \notin Range(queue'[r])
               /\ \A s \in Queues \ {r} : Range(queue'[r]) \cap Range(queue'[s]) = {}
    <3>1. /\ Range(queue[r]) \cap Range(ready) = {} /\ current \notin Range(queue[r])
          /\ \A s \in Queues \ {r} : Range(queue[r]) \cap Range(queue[s]) = {}
      BY DEF SchedInv, Apart
    <3>2. CASE r = q
      BY <1>1, <1>6, <3>2
    <3>3. CASE r # q
      <4>1. Range(queue'[r]) = Range(queue[r]) /\ q \in Queues \ {r}
        BY <1>6, <3>3
      <4>2. Range(queue'[r]) \cap Range(ready') = {}
        BY <1>3, <3>1, <4>1
      <4>3. \A s \in Queues \ {r} : Range(queue'[r]) \cap Range(queue'[s]) = {}
        BY <1>6, <3>1, <4>1
      <4> QED BY <1>1, <3>1, <4>1, <4>2, <4>3
    <3> QED BY <3>2, <3>3
  <2>2. current' \notin Range(ready')
    BY <1>1, <1>2, <1>3 DEF SchedInv, Apart
  <2> QED BY <1>3, <1>6, <2>1, <2>2 DEF Apart
<1> QED BY <1>1, <1>2, <1>3, <1>4, <1>5, <1>7 DEF SchedInv, SchedType, Awake

LEMMA KillMoves ==
  ASSUME SchedInv, NEW p \in Procs, Kill(p)
  PROVE  /\ SchedInv' /\ UNCHANGED current
         /\ Awake' = Awake \ {p}
         /\ \A q \in Queues : Range(queue'[q]) = Range(queue[q]) \ {p}
<1>1. /\ p # current /\ ready' = Without(ready, {p})
      /\ queue' = [q \in Queues |-> Without(queue[q], {p})]
      /\ dead' = dead \cup {p} /\ UNCHANGED current
      /\ ready \in Seq(Procs) /\ queue \in [Queues -> Seq(Procs)]
      /\ dead \in SUBSET Procs /\ current \in Procs \cup {NoProc}
  BY DEF Kill, SchedInv, SchedType
<1>2. /\ ready' \in Seq(Procs) /\ Range(ready') = Range(ready) \ {p}
      /\ IsInjective(ready) => IsInjective(ready')
  BY <1>1, WithoutDistinct
<1>3. \A q \in Queues : /\ queue'[q] \in Seq(Procs) /\ Range(queue'[q]) = Range(queue[q]) \ {p}
                        /\ IsInjective(queue[q]) => IsInjective(queue'[q])
  BY <1>1, WithoutDistinct
<1>4. queue' \in [Queues -> Seq(Procs)]
  BY <1>1, <1>3
<1>5. Apart'
  BY <1>1, <1>2, <1>3 DEF SchedInv, Apart
<1>6. Awake' = Awake \ {p}
  BY <1>1, <1>2 DEF Awake
<1> QED BY <1>1, <1>2, <1>3, <1>4, <1>5, <1>6 DEF SchedInv, SchedType

LEMMA InitApart == SchedInit => SchedInv
<1> SUFFICES ASSUME SchedInit PROVE SchedInv
  OBVIOUS
<1>1. Cardinality(Procs) \in Nat
  BY SchedAssumption, FS_CardinalityType
<1>2. ready \in [1 .. Cardinality(Procs) -> Procs] /\ IsInjective(ready)
  BY DEF SchedInit
<1>3. ready \in Seq(Procs)
  BY <1>1, <1>2, IsASeq
<1>4. Range(ready) \subseteq Procs
  BY <1>3, ListRange
<1>5. /\ current = NoProc /\ dead = {} /\ queue \in [Queues -> Seq(Procs)]
      /\ \A q \in Queues : queue[q] = <<>>
  BY DEF SchedInit
<1>6. \A q \in Queues : Range(queue[q]) = {} /\ IsInjective(queue[q])
  BY <1>5, EmptyList
<1> QED BY <1>2, <1>3, <1>4, <1>5, <1>6, SchedAssumption DEF SchedInv, SchedType, Apart
-----------------------------------------------------------------------------
\* The dead neither run nor stand on any list.
Buried == \A p \in dead : p \notin Awake /\ \A q \in Queues : p \notin Range(queue[q])

LEMMA DeadStayOff ==
  ASSUME SchedInv, Buried,
         \/ Dispatch \/ Yield
         \/ \E q \in Queues : Block(q) \/ WakeOne(q) \/ WakeAll(q)
         \/ \E p \in Procs : Kill(p)
  PROVE  Buried' /\ dead \subseteq dead'
<1>1. CASE Dispatch \/ Yield
  <2>1. Awake' = Awake /\ queue' = queue /\ dead' = dead
    BY <1>1, DispatchMoves, YieldMoves DEF Dispatch, Yield
  <2> QED BY <2>1 DEF Buried
<1>2. ASSUME NEW q \in Queues, Block(q) PROVE Buried' /\ dead' = dead
  <2>1. /\ Awake' = Awake \ {current} /\ dead' = dead
        /\ Range(queue'[q]) = Range(queue[q]) \cup {current}
        /\ \A r \in Queues \ {q} : queue'[r] = queue[r]
    BY <1>2, BlockMoves DEF Block
  <2>2. current \notin dead
    BY <1>2 DEF Block, Buried, Awake, SchedInv, SchedType
  <2> QED BY <2>1, <2>2 DEF Buried
<1>3. ASSUME NEW q \in Queues, WakeOne(q) PROVE Buried' /\ dead' = dead
  <2> DEFINE h == Head(queue[q])
  <2>1. /\ dead' = dead
        /\ queue[q] = <<>> => Awake' = Awake /\ queue' = queue
        /\ queue[q] # <<>> => /\ h \in Range(queue[q])
                              /\ Awake' = Awake \cup {h}
                              /\ Range(queue'[q]) = Range(queue[q]) \ {h}
        /\ \A r \in Queues \ {q} : queue'[r] = queue[r]
    BY <1>3, WakeOneMoves DEF WakeOne
  <2> HIDE DEF h
  <2> QED BY <2>1 DEF Buried
<1>4. ASSUME NEW q \in Queues, WakeAll(q) PROVE Buried' /\ dead' = dead
  <2>1. /\ dead' = dead
        /\ Awake' = Awake \cup Range(queue[q]) /\ Range(queue'[q]) = {}
        /\ \A r \in Queues \ {q} : queue'[r] = queue[r]
    BY <1>4, WakeAllMoves, EmptyList DEF WakeAll
  <2> QED BY <2>1 DEF Buried
<1>5. ASSUME NEW p \in Procs, Kill(p) PROVE Buried' /\ dead \subseteq dead'
  <2>1. /\ dead' = dead \cup {p} /\ Awake' = Awake \ {p}
        /\ \A q \in Queues : Range(queue'[q]) = Range(queue[q]) \ {p}
    BY <1>5, KillMoves DEF Kill
  <2> QED BY <2>1 DEF Buried
<1> QED BY <1>1, <1>2, <1>3, <1>4, <1>5

LEMMA InitBuried == SchedInit => Buried
BY DEF SchedInit, Buried
=============================================================================
