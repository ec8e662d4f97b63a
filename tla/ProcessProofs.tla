--------------------------- MODULE ProcessProofs ---------------------------
(***************************************************************************)
(* Proofs about Process, for every number of processes, pids and queues:   *)
(* first the types; then, until a fault (variable fault of Process), that  *)
(* the kernel's structures make sense: OneHome, OnlyAllocated,             *)
(* HeldIsDetached, TableSound and NoneLost, and with them NoEndlessKill    *)
(* and DeadStayDead.                                                       *)
(*                                                                         *)
(* None of them is inductive alone.  That a reaper's victim is on no list  *)
(* needs that it came off the grave list and that a process is in one      *)
(* place; that a new page is on no list needs that all listed pages are    *)
(* allocated; that a kill does not put a page on two lists needs to know   *)
(* which processes in the table are on none; that a killed loader's child  *)
(* is killed with it needs the child's parent pid; that a kill ends needs  *)
(* the order in which pids are given out.  IInv states them together, over *)
(* the set Placed of the processes that run or are on a list.              *)
(***************************************************************************)
EXTENDS Process, KListProofs

\* A call that works on a child has one.
ChildOK ==
  \A p \in Procs : stack[p].call \in {"load", "delete", "clear"} => stack[p].child \in Procs

TInv == TypeOK /\ ChildOK

Rosters == [Lists -> Seq(Procs)]
-----------------------------------------------------------------------------
(* The operations on the lists keep their types.                           *)

LEMMA ListNames ==
  /\ {"ready", "grave", "watchers"} \subseteq Lists /\ Queues \subseteq Lists
  /\ Clock \in Queues
  /\ \A q \in Queues : q # "ready" /\ q # "grave" /\ q # "watchers"
BY ProcessAssumption DEF Lists

LEMMA PushType ==
  ASSUME NEW ls \in Rosters, NEW l \in Lists, NEW p \in Procs
  PROVE  Push(ls, l, p) \in Rosters
<1>1. Append(ls[l], p) \in Seq(Procs)
  BY AppendDistinct DEF Rosters
<1> QED BY <1>1 DEF Push, Rosters

LEMMA UnlinkType ==
  ASSUME NEW ls \in Rosters, NEW K
  PROVE  Unlink(ls, K) \in Rosters
BY WithoutDistinct DEF Unlink, Rosters

LEMMA WokenType ==
  ASSUME NEW ls \in Rosters, NEW q \in Queues
  PROVE  WokenAll(ls, q) \in Rosters
<1>1. ls["ready"] \o ls[q] \in Seq(Procs) /\ <<>> \in Seq(Procs)
  BY ListNames, ConcatDistinct DEF Rosters
<1> QED BY <1>1, ListNames DEF WokenAll, Rosters

\* Setting the state or the exit reason of a process leaves it a process.
LEMMA FieldType ==
  ASSUME NEW pr \in [Procs -> Process], NEW p \in Procs
  PROVE  /\ \A s \in States : [pr EXCEPT ![p].state = s] \in [Procs -> Process]
         /\ \A n \in 0 .. MaxPid - 1 : [pr EXCEPT ![p].waitingFor = n] \in [Procs -> Process]
         /\ \A r \in Reasons : /\ [pr EXCEPT ![p].reason = r] \in [Procs -> Process]
                              /\ \A q \in Procs : /\ [pr EXCEPT ![p].reason = r][q].pid = pr[q].pid
                                                  /\ [pr EXCEPT ![p].reason = r][q].ppid = pr[q].ppid
<1>1. ASSUME NEW s \in States PROVE [pr EXCEPT ![p].state = s] \in [Procs -> Process]
  BY DEF Process
<1>2. ASSUME NEW r \in Reasons PROVE [pr EXCEPT ![p].reason = r] \in [Procs -> Process]
  BY DEF Process
<1>3. ASSUME NEW r \in Reasons, NEW q \in Procs
      PROVE  /\ [pr EXCEPT ![p].reason = r][q].pid = pr[q].pid
             /\ [pr EXCEPT ![p].reason = r][q].ppid = pr[q].ppid
  BY DEF Process
<1>4. ASSUME NEW n \in 0 .. MaxPid - 1
      PROVE  [pr EXCEPT ![p].waitingFor = n] \in [Procs -> Process]
  BY DEF Process
<1> QED BY <1>1, <1>2, <1>3, <1>4

LEMMA WakeType ==
  ASSUME NEW pr \in [Procs -> Process], NEW P
  PROVE  Wake(pr, P) \in [Procs -> Process]
BY DEF Wake, Process, States

LEMMA ResumeType ==
  ASSUME NEW pr \in [Procs -> Process], NEW ls \in Rosters, Resume(pr, ls)
  PROVE  /\ proc' \in [Procs -> Process] /\ list' \in Rosters
         /\ current' \in Procs \cup {NoProc}
<1>1. CASE ls["ready"] = <<>>
  BY <1>1 DEF Resume
<1>2. CASE ls["ready"] # <<>>
  <2>1. Head(ls["ready"]) \in Procs /\ Tail(ls["ready"]) \in Seq(Procs)
    BY <1>2, ListNames, HeadTailDistinct DEF Rosters
  <2> DEFINE next == Head(ls["ready"])
  <2>2. [pr EXCEPT ![next].state = "RUNNING"] \in [Procs -> Process]
    BY <2>1 DEF Process, States
  <2>3. [ls EXCEPT !["ready"] = Tail(@)] \in Rosters
    BY <2>1 DEF Rosters
  <2>4. /\ current' = next
        /\ proc' = [pr EXCEPT ![next].state = "RUNNING"]
        /\ list' = [ls EXCEPT !["ready"] = Tail(@)]
    BY <1>2 DEF Resume
  <2> QED BY <2>1, <2>2, <2>3, <2>4
<1> QED BY <1>1, <1>2

LEMMA SwitchType ==
  ASSUME NEW pr \in [Procs -> Process], NEW ls \in Rosters, current \in Procs,
         NEW s \in {"READY", "GRAVE", "BLOCKED"}, process_switch(s, pr, ls)
  PROVE  /\ proc' \in [Procs -> Process] /\ list' \in Rosters
         /\ current' \in Procs \cup {NoProc}
<1> DEFINE pr2 == [pr EXCEPT ![current].state = s]
           ls2 == CASE s = "READY" -> Push(ls, "ready", current)
                    [] s = "GRAVE" -> Push(ls, "grave", current)
                    [] s = "BLOCKED" -> ls
<1>1. pr2 \in [Procs -> Process]
  BY DEF Process, States
<1>2. ls2 \in Rosters
  BY PushType, ListNames
<1>3. Resume(pr2, ls2)
  BY DEF process_switch
<1> QED BY <1>1, <1>2, <1>3, ResumeType

LEMMA PidType ==
  ASSUME TypeOK
  PROVE  /\ process_allocate_pid \in 0 .. MaxPid - 1
         /\ process_allocate_pid # 0 => table[process_allocate_pid] = NoProc
<1> DEFINE Free(S) == {i \in S : table[i] = NoProc}
           above == Free(last + 1 .. MaxPid - 1)
           below == Free(1 .. last - 1)
<1>1. last \in Int /\ MaxPid \in Int /\ last >= 1 /\ last <= MaxPid - 1
  BY ProcessAssumption DEF TypeOK, Pids
<1>2. IsFiniteSet(above) /\ IsFiniteSet(below) /\ above \in SUBSET Int /\ below \in SUBSET Int
  <2>1. IsFiniteSet(last + 1 .. MaxPid - 1) /\ IsFiniteSet(1 .. last - 1)
    BY <1>1, FS_Interval
  <2>2. above \in SUBSET (last + 1 .. MaxPid - 1) /\ below \in SUBSET (1 .. last - 1)
    OBVIOUS
  <2> QED BY <2>1, <2>2, <1>1, FS_Subset
<1>3. above # {} => Min(above) \in above
  BY <1>2, MinExists
<1>4. below # {} => Min(below) \in below
  BY <1>2, MinExists
<1>5. process_allocate_pid =
        IF above # {} THEN Min(above) ELSE IF below # {} THEN Min(below) ELSE 0
  BY DEF process_allocate_pid
<1>6. \A i \in above \cup below : i \in 1 .. MaxPid - 1 /\ table[i] = NoProc
  BY <1>1
<1> HIDE DEF above, below
<1> QED BY <1>1, <1>3, <1>4, <1>5, <1>6
-----------------------------------------------------------------------------
(* TInv is inductive: the calls with a switch, the births, the deaths.     *)

LEMMA InitType == Init => TInv
<1> SUFFICES ASSUME NEW k \in Procs,
                    table = [i \in 0 .. MaxPid - 1 |-> IF i = 1 THEN k ELSE NoProc],
                    last = 1,
                    proc = [p \in Procs |-> IF p = k
                      THEN [Blank EXCEPT !.pid = 1, !.state = "READY", !.kernel = TRUE]
                      ELSE Blank],
                    list = [l \in Lists |-> <<>>], current = k, allocated = {k},
                    stack = [p \in Procs |-> Running],
                    lost = [p \in Procs |-> "no"], wrapped = FALSE, fault = "none"
             PROVE  TInv
  BY DEF Init
<1>1. 0 \in 0 .. MaxPid - 1 /\ 1 \in 0 .. MaxPid - 1 /\ 1 \in Pids
  BY ProcessAssumption DEF Pids
<1>2. Blank \in Process /\ [Blank EXCEPT !.pid = 1, !.state = "READY", !.kernel = TRUE] \in Process
  BY <1>1 DEF Blank, Process, States, Reasons
<1>3. Running \in Frame /\ Running.call = "run"
  BY <1>1 DEF Running, Frame, Calls
<1>4. list \in [Lists -> Seq(Procs)]
  OBVIOUS
<1>5. table \in [0 .. MaxPid - 1 -> Procs \cup {NoProc}] /\ proc \in [Procs -> Process]
  BY <1>2
<1> QED BY <1>1, <1>3, <1>4, <1>5 DEF TInv, TypeOK, ChildOK

LEMMA SwitchingTypes ==
  ASSUME TInv,
         \/ Dispatch \/ process_yield \/ clock_interrupt \/ process_exit
         \/ \E q \in Queues : process_wait(q) \/ process_wakeup(q) \/ process_wakeup_all(q)
         \/ sys_process_wait \/ wait_sleep
  PROVE  TInv'
<1> USE DEF Rosters
<1>1. /\ proc \in [Procs -> Process] /\ list \in Rosters /\ current \in Procs \cup {NoProc}
      /\ table \in [0 .. MaxPid - 1 -> Procs \cup {NoProc}] /\ last \in Pids
      /\ stack \in [Procs -> Frame]
  BY DEF TInv, TypeOK
<1> DEFINE Typed == /\ proc' \in [Procs -> Process] /\ list' \in Rosters
                    /\ current' \in Procs \cup {NoProc}
                    /\ stack' \in [Procs -> Frame] /\ ChildOK'
<1>2. SUFFICES Typed
  <2>1. UNCHANGED <<table, last, allocated, lost, wrapped, fault>>
    BY DEF Dispatch, process_yield, clock_interrupt, process_exit, process_wait,
           process_wakeup, process_wakeup_all, sys_process_wait, wait_sleep, GoToSleep
  <2> QED BY <2>1 DEF TInv, TypeOK
<1>4. UNCHANGED stack => stack' \in [Procs -> Frame] /\ ChildOK'
  BY DEF TInv, TypeOK, ChildOK
<1>5. CASE Dispatch
  BY <1>1, <1>4, <1>5, ResumeType DEF Dispatch
<1>6. CASE process_yield
  BY <1>1, <1>4, <1>6, SwitchType DEF process_yield
<1>7. CASE clock_interrupt
  <2> DEFINE pr == Wake(proc, Range(list[Clock]))
             ls == WokenAll(list, Clock)
  <2>1. pr \in [Procs -> Process] /\ ls \in Rosters
    BY <1>1, WakeType, WokenType, ListNames
  <2>2. \/ current # NoProc /\ process_switch("READY", pr, ls)
        \/ proc' = pr /\ list' = ls /\ UNCHANGED current
    BY <1>7 DEF clock_interrupt
  <2>3. UNCHANGED stack
    BY <1>7 DEF clock_interrupt
  <2> HIDE DEF pr, ls
  <2> QED BY <1>1, <1>4, <2>1, <2>2, <2>3, SwitchType
<1>8. CASE process_exit
  <2> DEFINE pr == [proc EXCEPT ![current].reason = "normal"]
             ws == WatchersOf(current)
             w  == list["watchers"][Min(ws)]
             pr2 == [pr EXCEPT ![w].state = "READY", ![w].waitingFor = 0]
             ls2 == Push(Unlink(list, {w}), "ready", w)
  <2>1. current \in Procs /\ UNCHANGED stack
    BY <1>1, <1>8 DEF process_exit, Calling
  <2>2. pr \in [Procs -> Process]
    BY <1>1 DEF Process, Reasons
  <2>3. ASSUME ws # {} PROVE w \in Procs
    <3>1. list["watchers"] \in Seq(Procs)
      BY <1>1, ListNames
    <3>2. ws \in SUBSET DOMAIN list["watchers"]
      BY DEF WatchersOf
    <3> HIDE DEF ws
    <3> QED BY <2>3, <3>1, <3>2, FirstOfList
  <2>4. ASSUME ws # {} PROVE pr2 \in [Procs -> Process] /\ ls2 \in Rosters
    <3>1. [pr EXCEPT ![w].state = "READY"] \in [Procs -> Process]
      <4>1. pr \in [Procs -> Process] /\ w \in Procs
        BY <2>2, <2>3, <2>4
      <4> HIDE DEF pr, w
      <4>2. "READY" \in States
        BY DEF States
      <4> QED BY <4>1, <4>2, FieldType
    <3>2. 0 \in 0 .. MaxPid - 1
      BY ProcessAssumption
    <3>3. pr2 \in [Procs -> Process]
      <4> DEFINE ready == [pr EXCEPT ![w].state = "READY"]
      <4>1. w \in Procs
        BY <2>3, <2>4
      <4>2. pr2 = [ready EXCEPT ![w].waitingFor = 0]
        BY <2>2, <4>1
      <4>3. ready \in [Procs -> Process]
        BY <3>1
      <4> HIDE DEF ready, pr, w, pr2
      <4> QED BY <3>2, <4>1, <4>2, <4>3, FieldType
    <3>4. Unlink(list, {w}) \in Rosters
      BY <1>1, UnlinkType
    <3> QED BY <3>3, <3>4, <2>3, <2>4, PushType, ListNames
  <2>5. \/ process_switch("GRAVE", pr, list)
        \/ ws # {} /\ process_switch("GRAVE", pr2, ls2)
    BY <1>8 DEF process_exit
  <2> HIDE DEF pr, ws, pr2, ls2
  <2> QED BY <1>1, <1>4, <2>1, <2>2, <2>4, <2>5, SwitchType
<1>9. ASSUME NEW q \in Queues, process_wait(q) PROVE Typed
  <2>1. Push(list, q, current) \in Rosters
    BY <1>1, <1>9, PushType, ListNames DEF process_wait
  <2> QED BY <1>1, <1>4, <1>9, <2>1, SwitchType DEF process_wait
<1>10. ASSUME NEW q \in Queues, process_wakeup(q) PROVE Typed
  <2>1. Head(list[q]) \in Procs /\ Tail(list[q]) \in Seq(Procs) /\ list["ready"] \in Seq(Procs)
    BY <1>1, <1>10, ListNames, HeadTailDistinct DEF process_wakeup
  <2>2. Append(list["ready"], Head(list[q])) \in Seq(Procs)
    BY <2>1, AppendDistinct
  <2>3. list' \in Rosters /\ proc' \in [Procs -> Process]
    BY <1>1, <1>10, <2>1, <2>2, ListNames, WakeType DEF process_wakeup
  <2> QED BY <1>1, <1>4, <1>10, <2>3 DEF process_wakeup
<1>11. ASSUME NEW q \in Queues, process_wakeup_all(q) PROVE Typed
  BY <1>1, <1>4, <1>11, WakeType, WokenType DEF process_wakeup_all
<1>12. ASSUME NEW n \in 0 .. MaxPid - 1, current \in Procs, GoToSleep(n) PROVE Typed
  <2>1. [proc EXCEPT ![current].waitingFor = n] \in [Procs -> Process]
    BY <1>1, <1>12 DEF Process
  <2>2. Push(list, "watchers", current) \in Rosters
    BY <1>1, <1>12, PushType, ListNames
  <2>3. stack' \in [Procs -> Frame] /\ ChildOK'
    <3>1. stack' = [stack EXCEPT ![current] = [call |-> "rescan", want |-> n, child |-> NoProc]]
      BY <1>12 DEF GoToSleep
    <3>2. [call |-> "rescan", want |-> n, child |-> NoProc] \in Frame
      BY DEF Frame, Calls
    <3> QED BY <1>1, <1>12, <3>1, <3>2 DEF TInv, ChildOK
  <2> QED BY <1>1, <1>12, <2>1, <2>2, <2>3, SwitchType DEF GoToSleep
<1>13. CASE sys_process_wait
  <2>1. 0 \in 0 .. MaxPid - 1 /\ current \in Procs
    BY <1>1, <1>13, ProcessAssumption DEF sys_process_wait, Calling
  <2> QED BY <1>12, <1>13, <2>1 DEF sys_process_wait
<1>14. CASE wait_sleep
  <2>1. current \in Procs /\ stack[current].want \in 0 .. MaxPid - 1
    BY <1>1, <1>14 DEF wait_sleep, Frame
  <2> QED BY <1>12, <1>14, <2>1 DEF wait_sleep
<1> QED BY <1>5, <1>6, <1>7, <1>8, <1>9, <1>10, <1>11, <1>13, <1>14

LEMMA BirthTypes ==
  ASSUME TInv,
         \/ \E p \in Procs : sys_process_fork(p) \/ sys_process_run(p)
         \/ process_launch \/ run_failed \/ run_dropped
  PROVE  TInv'
<1> USE DEF Rosters
<1>1. /\ proc \in [Procs -> Process] /\ list \in Rosters /\ current \in Procs \cup {NoProc}
      /\ table \in [0 .. MaxPid - 1 -> Procs \cup {NoProc}] /\ last \in Pids
      /\ stack \in [Procs -> Frame] /\ allocated \in SUBSET Procs
      /\ lost \in [Procs -> {"no", "stillborn", "abandoned"}] /\ wrapped \in BOOLEAN
      /\ fault \in {"none", "kill_detached", "kill_clearing", "recursion", "reuse"}
  BY DEF TInv, TypeOK
<1>2. Running \in Frame /\ Running.call = "run"
  BY ProcessAssumption DEF Running, Frame, Calls
<1>3. ASSUME NEW p \in Procs, Calling, process_create(p)
      PROVE  /\ current \in Procs
             /\ [proc EXCEPT ![p] = Born(process_allocate_pid, proc[current].pid)]
                  \in [Procs -> Process]
             /\ table' \in [0 .. MaxPid - 1 -> Procs \cup {NoProc}] /\ last' \in Pids
             /\ wrapped' \in BOOLEAN /\ allocated' \in SUBSET Procs
             /\ lost' \in [Procs -> {"no", "stillborn", "abandoned"}]
             /\ fault' \in {"none", "kill_detached", "kill_clearing", "recursion", "reuse"}
  <2> DEFINE n == process_allocate_pid
  <2>1. n \in 0 .. MaxPid - 1 /\ current \in Procs
    BY <1>1, <1>3, PidType DEF TInv, Calling
  <2>2. Born(n, proc[current].pid) \in Process
    <3>1. proc[current].pid \in 0 .. MaxPid - 1 /\ 0 \in 0 .. MaxPid - 1
      BY <1>1, <2>1, ProcessAssumption DEF Process
    <3> QED BY <2>1, <3>1 DEF Born, Blank, Process, States, Reasons
  <2>3. /\ table' = [table EXCEPT ![n] = p] /\ last' = (IF n = 0 THEN last ELSE n)
        /\ allocated' = allocated \cup {p} /\ lost' = [lost EXCEPT ![p] = "no"]
        /\ wrapped' = (wrapped \/ n <= last) /\ fault' \in {"reuse", fault}
    BY <1>3 DEF process_create
  <2>4. last' \in Pids
    BY <1>1, <2>1, <2>3, ProcessAssumption DEF Pids
  <2>5. wrapped' \in BOOLEAN
    BY <1>1, <2>3
  <2> QED BY <1>1, <2>1, <2>2, <2>3, <2>4, <2>5
<1>4. ASSUME NEW p \in Procs, sys_process_fork(p) PROVE TInv'
  <2>1. list' \in Rosters
    BY <1>1, <1>4, PushType, ListNames DEF sys_process_fork
  <2>2. stack' = [stack EXCEPT ![p] = Running] /\ current' = current
    BY <1>4 DEF sys_process_fork
  <2>3. stack' \in [Procs -> Frame] /\ ChildOK'
    BY <1>1, <1>2, <2>2 DEF TInv, ChildOK
  <2> QED BY <1>1, <1>3, <1>4, <2>1, <2>2, <2>3 DEF TInv, TypeOK, sys_process_fork
<1>5. ASSUME NEW p \in Procs, sys_process_run(p) PROVE TInv'
  <2>1. /\ stack' = [stack EXCEPT ![p] = Running, ![current].call = "load", ![current].child = p]
        /\ list' = list /\ current' = current
    BY <1>5 DEF sys_process_run
  <2>2. /\ \A q \in Procs \ {p, current} : stack'[q] = stack[q]
        /\ current # p => stack'[p] = Running
        /\ stack'[current] \in Frame /\ stack'[current].child = p
        /\ DOMAIN stack' = Procs
    <3>1. current \in Procs
      BY <1>3, <1>5 DEF sys_process_run
    <3>2. "load" \in Calls
      BY DEF Calls
    <3>3. stack[current] \in Frame /\ Running \in Frame
      BY <1>1, <1>2, <3>1
    <3> QED BY <1>1, <2>1, <3>1, <3>2, <3>3 DEF Frame
  <2>3. stack' \in [Procs -> Frame] /\ ChildOK'
    <3>1. \A q \in Procs : stack'[q] \in Frame
      BY <1>1, <1>2, <2>2
    <3>2. stack' \in [Procs -> Frame]
      BY <2>1, <3>1, <1>1
    <3>3. ChildOK'
      BY <1>2, <2>2 DEF TInv, ChildOK
    <3> QED BY <3>2, <3>3
  <2> QED BY <1>1, <1>3, <1>5, <2>1, <2>3 DEF TInv, TypeOK, sys_process_run
<1>6. ASSUME Loading PROVE current \in Procs /\ stack[current].child \in Procs
  BY <1>1, <1>6 DEF Loading, TInv, ChildOK
<1>7. CASE process_launch
  <2> DEFINE c == stack[current].child
  <2>1. current \in Procs /\ c \in Procs
    BY <1>6, <1>7 DEF process_launch
  <2>2. /\ proc' = [proc EXCEPT ![c].state = "CRADLE"] /\ list' = Push(list, "ready", c)
        /\ stack' = [stack EXCEPT ![current] = Running]
        /\ UNCHANGED <<table, last, current, allocated, lost, wrapped, fault>>
    BY <1>7 DEF process_launch
  <2> HIDE DEF c
  <2>3. list' \in Rosters
    BY <1>1, <2>1, <2>2, PushType, ListNames
  <2>4. proc' \in [Procs -> Process]
    <3>1. "CRADLE" \in States
      BY DEF States
    <3> QED BY <1>1, <2>1, <2>2, <3>1, FieldType
  <2>5. stack' \in [Procs -> Frame] /\ ChildOK'
    BY <1>1, <1>2, <2>2 DEF TInv, ChildOK
  <2> QED BY <1>1, <2>2, <2>3, <2>4, <2>5 DEF TInv, TypeOK
<1>8. CASE run_failed
  <2>1. /\ stack' = [stack EXCEPT ![current].call = "delete"]
        /\ UNCHANGED <<table, last, proc, list, current, allocated, lost, wrapped, fault>>
        /\ current \in Procs /\ stack[current].child \in Procs
    BY <1>6, <1>8 DEF run_failed
  <2>2. stack' \in [Procs -> Frame] /\ ChildOK'
    <3>1. "delete" \in Calls
      BY DEF Calls
    <3> QED BY <1>1, <2>1, <3>1 DEF Frame, TInv, ChildOK
  <2> QED BY <1>1, <2>1, <2>2 DEF TInv, TypeOK
<1>9. CASE run_dropped
  <2>1. /\ stack' = [stack EXCEPT ![current] = Running]
        /\ lost' = [lost EXCEPT ![stack[current].child] = "stillborn"]
        /\ UNCHANGED <<table, last, proc, list, current, allocated, wrapped, fault>>
    BY <1>9 DEF run_dropped
  <2>2. stack' \in [Procs -> Frame] /\ ChildOK'
    BY <1>1, <1>2, <2>1 DEF TInv, ChildOK
  <2> QED BY <1>1, <2>1, <2>2 DEF TInv, TypeOK
<1> QED BY <1>4, <1>5, <1>7, <1>8, <1>9

LEMMA DeathTypes ==
  ASSUME TInv,
         \/ \E n \in 0 .. MaxPid - 1 : process_reap(n) \/ shell_wait(n)
         \/ process_delete \/ delete_clear \/ wait_scan \/ wait_timeout
  PROVE  TInv'
<1> USE DEF Rosters
<1>1. /\ proc \in [Procs -> Process] /\ list \in Rosters /\ current \in Procs \cup {NoProc}
      /\ table \in [0 .. MaxPid - 1 -> Procs \cup {NoProc}] /\ last \in Pids
      /\ stack \in [Procs -> Frame] /\ allocated \in SUBSET Procs
  BY DEF TInv, TypeOK
<1>2. /\ Running \in Frame /\ Running.call = "run"
      /\ {"scan", "sleep", "delete", "clear"} \subseteq Calls
  BY ProcessAssumption DEF Running, Frame, Calls
<1>3. ASSUME NEW n \in 0 .. MaxPid - 1, process_reap(n) PROVE TInv'
  <2> DEFINE found == {i \in DOMAIN list["grave"] : proc[list["grave"][i]].pid = n}
             p == list["grave"][Min(found)]
  <2>1. /\ found # {} /\ list' = Unlink(list, {p})
        /\ stack' = [stack EXCEPT ![current].call = "delete", ![current].child = p]
        /\ current \in Procs
        /\ UNCHANGED <<table, last, proc, current, allocated, lost, wrapped, fault>>
    BY <1>1, <1>3 DEF process_reap, Calling
  <2>2. p \in Procs
    <3>1. list["grave"] \in Seq(Procs)
      BY <1>1, ListNames
    <3>2. found \in SUBSET DOMAIN list["grave"]
      OBVIOUS
    <3> HIDE DEF found
    <3> QED BY <2>1, <3>1, <3>2, FirstOfList
  <2> HIDE DEF p, found
  <2>3. list' \in Rosters
    BY <1>1, <2>1, UnlinkType
  <2>4. stack' \in [Procs -> Frame] /\ ChildOK'
    <3>1. stack[current] \in Frame
      BY <1>1, <2>1
    <3>2. [[stack[current] EXCEPT !.call = "delete"] EXCEPT !.child = p] \in Frame
      BY <1>2, <2>2, <3>1 DEF Frame
    <3> QED BY <1>1, <1>2, <2>1, <2>2, <3>2 DEF Frame, TInv, ChildOK
  <2> QED BY <1>1, <2>1, <2>3, <2>4 DEF TInv, TypeOK
<1>4. ASSUME NEW c \in Calls, current \in Procs, stack[current].child \in Procs,
             stack' = [stack EXCEPT ![current].call = c]
      PROVE  stack' \in [Procs -> Frame] /\ ChildOK'
  <2>1. stack[current] \in Frame
    BY <1>1, <1>4
  <2>2. [stack[current] EXCEPT !.call = c] \in Frame
    BY <1>4, <2>1 DEF Frame
  <2> QED BY <1>1, <1>4, <2>1, <2>2 DEF Frame, TInv, ChildOK
<1>5. CASE process_delete
  <2> DEFINE p == stack[current].child
             s == [stack EXCEPT ![current].call = "clear"]
  <2>1. /\ stack' = [s EXCEPT ![p] = Running]
        /\ allocated' \in SUBSET Procs /\ current \in Procs /\ p \in Procs
        /\ UNCHANGED <<table, last, proc, list, current, lost, wrapped, fault>>
    BY <1>1, <1>5 DEF process_delete, TInv, ChildOK
  <2>2. stack[current] \in Frame /\ [stack[current] EXCEPT !.call = "clear"] \in Frame
    BY <1>1, <1>2, <2>1 DEF Frame
  <2>3. s \in [Procs -> Frame] /\ \A q \in Procs : s[q].child = stack[q].child
    BY <1>1, <2>1, <2>2 DEF Frame
  <2>4. \A q \in Procs : q # current => s[q] = stack[q]
    BY <1>1
  <2> HIDE DEF s, p
  <2>5. stack' \in [Procs -> Frame]
    BY <1>2, <2>1, <2>3
  <2>6. ChildOK'
    BY <1>2, <2>1, <2>3, <2>4 DEF TInv, ChildOK, p
  <2> QED BY <1>1, <2>1, <2>5, <2>6 DEF TInv, TypeOK
<1>6. ASSUME stack' = [stack EXCEPT ![current] = Running]
      PROVE  stack' \in [Procs -> Frame] /\ ChildOK'
  BY <1>1, <1>2, <1>6 DEF TInv, ChildOK
<1>7. CASE delete_clear
  <2> DEFINE p == stack[current].child
  <2>1. /\ table' = [table EXCEPT ![proc[p].pid] = NoProc]
        /\ proc' = [proc EXCEPT ![p] = Blank]
        /\ stack' = [stack EXCEPT ![current] = Running]
        /\ UNCHANGED <<last, list, current, allocated, lost, wrapped, fault>>
    BY <1>7 DEF delete_clear
  <2>2. Blank \in Process
    BY ProcessAssumption DEF Blank, Process, States, Reasons
  <2> HIDE DEF p
  <2> QED BY <1>1, <1>6, <2>1, <2>2 DEF TInv, TypeOK
<1>8. ASSUME NEW n \in 0 .. MaxPid - 1, shell_wait(n) PROVE TInv'
  <2>1. /\ stack' = [stack EXCEPT ![current] = [call |-> "scan", want |-> n, child |-> NoProc]]
        /\ UNCHANGED <<table, last, proc, list, current, allocated, lost, wrapped, fault>>
    BY <1>8 DEF shell_wait
  <2>2. [call |-> "scan", want |-> n, child |-> NoProc] \in Frame
    BY <1>2 DEF Frame
  <2>3. stack' \in [Procs -> Frame] /\ ChildOK'
    BY <1>1, <2>1, <2>2 DEF TInv, ChildOK
  <2> QED BY <1>1, <2>1, <2>3 DEF TInv, TypeOK
<1>9. CASE wait_scan
  <2>1. /\ \/ stack' = [stack EXCEPT ![current] = Running]
           \/ stack' = [stack EXCEPT ![current].call = "sleep"]
        /\ UNCHANGED <<table, last, proc, list, current, allocated, lost, wrapped, fault>>
        /\ current \in Procs
    BY <1>1, <1>9 DEF wait_scan
  <2>2. ASSUME stack' = [stack EXCEPT ![current].call = "sleep"]
        PROVE  stack' \in [Procs -> Frame] /\ ChildOK'
    <3>1. stack[current] \in Frame /\ [stack[current] EXCEPT !.call = "sleep"] \in Frame
      BY <1>1, <1>2, <2>1 DEF Frame
    <3> QED BY <1>1, <2>1, <2>2, <3>1 DEF Frame, TInv, ChildOK
  <2> QED BY <1>1, <1>6, <2>1, <2>2 DEF TInv, TypeOK
<1>10. CASE wait_timeout
  <2>1. /\ stack' = [stack EXCEPT ![current] = Running]
        /\ UNCHANGED <<table, last, proc, list, current, allocated, lost, wrapped, fault>>
    BY <1>10 DEF wait_timeout
  <2> QED BY <1>1, <1>6, <2>1 DEF TInv, TypeOK
<1> QED BY <1>3, <1>5, <1>7, <1>8, <1>9, <1>10

LEMMA KillTypes ==
  ASSUME TInv, NEW n \in Pids, process_kill(n)
  PROVE  TInv'
<1> USE DEF Rosters
<1>1. /\ proc \in [Procs -> Process] /\ list \in Rosters /\ current \in Procs \cup {NoProc}
      /\ table \in [0 .. MaxPid - 1 -> Procs \cup {NoProc}] /\ last \in Pids
      /\ stack \in [Procs -> Frame] /\ allocated \in SUBSET Procs
      /\ lost \in [Procs -> {"no", "stillborn", "abandoned"}] /\ wrapped \in BOOLEAN
      /\ fault \in {"none", "kill_detached", "kill_clearing", "recursion", "reuse"}
  BY DEF TInv, TypeOK
<1>2. /\ UNCHANGED <<table, last, allocated, stack, wrapped>>
      /\ current \in Procs /\ table[n] \in Procs
  <2>1. n \in 0 .. MaxPid - 1
    BY ProcessAssumption DEF Pids
  <2> QED BY <1>1, <2>1 DEF process_kill, Calling
<1>3. PICK below, before :
        \/ fault' = "recursion" /\ UNCHANGED <<proc, list, current, lost>>
        \/ process_make_dead(below, before, table[n])
  BY DEF process_kill
<1>4. CASE fault' = "recursion" /\ UNCHANGED <<proc, list, current, lost>>
  BY <1>1, <1>2, <1>4 DEF TInv, TypeOK, ChildOK
<1>5. CASE process_make_dead(below, before, table[n])
  <2> DEFINE reached == Subtree(below, table[n])
             suicide == current \in reached
             killed  == IF suicide
                        THEN {current} \cup {q \in reached : <<q, current>> \in before}
                        ELSE reached
             victims == killed \ {current}
             pr == [p \in Procs |-> IF p \in killed THEN [proc[p] EXCEPT !.reason = "killed"]
                                                     ELSE proc[p]]
  <2>1. PICK order \in Orders(before, victims) :
          LET ls == [Unlink(list, victims) EXCEPT !["grave"] = @ \o order]
          IN  IF suicide THEN process_switch("GRAVE", pr, ls)
              ELSE proc' = pr /\ list' = ls /\ UNCHANGED current
    BY <1>5 DEF process_make_dead
  <2> DEFINE ls == [Unlink(list, victims) EXCEPT !["grave"] = @ \o order]
  <2>2. victims \in SUBSET Procs
    BY <1>2 DEF Subtree
  <2>3. order \in Seq(Procs)
    <3>1. IsFiniteSet(victims) /\ Cardinality(victims) \in Nat
      BY <2>2, ProcessAssumption, FS_Subset, FS_CardinalityType
    <3>2. order \in [1 .. Cardinality(victims) -> victims]
      BY <2>1 DEF Orders
    <3> HIDE DEF victims
    <3>3. order \in [1 .. Cardinality(victims) -> Procs]
      BY <2>2, <3>2
    <3> QED BY <3>1, <3>3, IsASeq
  <2>4. ls \in Rosters
    <3>1. Unlink(list, victims) \in Rosters
      BY <1>1, UnlinkType
    <3>2. Unlink(list, victims)["grave"] \o order \in Seq(Procs)
      BY <2>3, <3>1, ListNames, ConcatDistinct
    <3> QED BY <3>1, <3>2
  <2>5. pr \in [Procs -> Process]
    <3>1. ASSUME NEW r \in Process PROVE [r EXCEPT !.reason = "killed"] \in Process
      BY DEF Process, Reasons
    <3> HIDE DEF killed
    <3> QED BY <1>1, <3>1
  <2>6. /\ proc' \in [Procs -> Process] /\ list' \in Rosters
        /\ current' \in Procs \cup {NoProc}
    <3> HIDE DEF pr, ls, reached
    <3> QED BY <1>2, <2>1, <2>4, <2>5, SwitchType DEF ls
  <2>7. lost' \in [Procs -> {"no", "stillborn", "abandoned"}]
    BY <1>1, <1>5 DEF process_make_dead
  <2>8. fault' \in {"none", "kill_detached", "kill_clearing", "recursion", "reuse"}
    BY <1>1, <1>5 DEF process_make_dead
  <2> HIDE DEF pr, ls, reached
  <2>9. ChildOK'
    BY <1>2 DEF TInv, ChildOK
  <2> QED BY <1>1, <1>2, <2>6, <2>7, <2>8, <2>9 DEF TInv, TypeOK
<1> QED BY <1>3, <1>4, <1>5
-----------------------------------------------------------------------------
LEMMA TypeStep == TInv /\ Next => TInv'
<1>1. \A n \in Pids : n \in 0 .. MaxPid - 1
  BY ProcessAssumption DEF Pids
<1> QED BY <1>1, SwitchingTypes, BirthTypes, DeathTypes, KillTypes DEF Next

\* Whatever the system calls and interrupts do, every variable keeps its type.
THEOREM TypeCorrect == Spec => []TypeOK
<1>1. Init => TInv
  BY InitType
<1>2. TInv /\ [Next]_vars => TInv'
  <2>1. TInv /\ UNCHANGED vars => TInv'
    BY DEF vars, TInv, TypeOK, ChildOK
  <2> QED BY <2>1, TypeStep
<1>3. TInv => TypeOK
  BY DEF TInv
<1> QED BY <1>1, <1>2, <1>3, PTL DEF Spec
-----------------------------------------------------------------------------
(* The structures of the kernel.                                           *)

\* Every list holds a process at most once, and no two lists share one.
Homed(ls) ==
  /\ \A l \in Lists : IsInjective(ls[l])
  /\ \A k, l \in Lists : k # l => Range(ls[k]) \cap Range(ls[l]) = {}

On(ls) == {p \in Procs : \E l \in Lists : p \in Range(ls[l])}

Placed == On(list) \cup ({current} \cap Procs)

\* The processes in the hands of nobody that sys_process_run left behind.
StillbornInv ==
  \A p \in Procs : lost[p] = "stillborn" =>
    p \in allocated \ Placed /\ \A c \in Procs : ~Holds(c, p)

HeldInv ==
  \A c, p \in Procs : Holds(c, p) =>
    p \in allocated \ Placed /\ \A d \in Procs : Holds(d, p) => d = c

\* A child being loaded has not begun to run.
LoadInv ==
  \A c, p \in Procs : Holds(c, p) /\ stack[c].call = "load" => stack[p].call = "run"

Clearing(c) == stack[c].call = "clear"

\* A process at the end of process_delete, and the page it has just freed.
ClearInv ==
  \A c \in Procs : Clearing(c) =>
    /\ c \in Placed /\ c \notin Range(list["grave"])
    /\ stack[c].child \notin allocated
    /\ proc[stack[c].child].pid # 0 => table[proc[stack[c].child].pid] = stack[c].child

TableInv ==
  /\ \A p \in allocated : proc[p].pid # 0 => table[proc[p].pid] = p
  /\ \A i \in 0 .. MaxPid - 1 : table[i] # NoProc =>
       /\ proc[table[i]].pid = i
       /\ table[i] \in allocated \/ \E c \in Procs : Clearing(c) /\ stack[c].child = table[i]

\* No process is out of sight, and why when it is.
KeptInv ==
  \A p \in allocated : p \in Placed \/ lost[p] # "no" \/ \E c \in Procs : Holds(c, p)

\* A child being loaded is the child of its loader.
LineInv ==
  \A c, p \in Procs : Holds(c, p) /\ stack[c].call = "load" => proc[p].ppid = proc[c].pid

\* As long as no pid has been used twice, children have higher pids than parents.
AgeInv ==
  ~wrapped => \A p \in Procs : p \in allocated \/ Entered(p) =>
                 proc[p].ppid < proc[p].pid /\ proc[p].pid <= last

Sound ==
  /\ Homed(list) /\ current \notin On(list)
  /\ Placed \subseteq allocated
  /\ StillbornInv /\ HeldInv /\ LoadInv /\ ClearInv /\ TableInv
  /\ KeptInv /\ LineInv /\ AgeInv

IInv == TInv /\ (fault = "none" => Sound)
-----------------------------------------------------------------------------
(* The operations on the lists: who is on them afterwards.                 *)

\* The same pids and the same parents.
Kin(a, b) == \A p \in Procs : a[p].pid = b[p].pid /\ a[p].ppid = b[p].ppid

USE DEF Kin

LEMMA PushSafe ==
  ASSUME NEW ls \in Rosters, NEW l \in Lists, NEW p \in Procs
  PROVE  /\ \A k \in Lists : Range(Push(ls, l, p)[k]) =
                              IF k = l THEN Range(ls[k]) \cup {p} ELSE Range(ls[k])
         /\ On(Push(ls, l, p)) = On(ls) \cup {p}
         /\ Homed(ls) /\ p \notin On(ls) => Homed(Push(ls, l, p))
<1> DEFINE ls2 == Push(ls, l, p)
<1>1. ls[l] \in Seq(Procs)
  BY DEF Rosters
<1>2. /\ ls2[l] = Append(ls[l], p)
      /\ \A k \in Lists : k # l => ls2[k] = ls[k]
  BY DEF Push, Rosters
<1> HIDE DEF ls2
<1>6. /\ Range(ls2[l]) = Range(ls[l]) \cup {p}
      /\ IsInjective(ls[l]) /\ p \notin Range(ls[l]) => IsInjective(ls2[l])
  <2>1. /\ Range(Append(ls[l], p)) = Range(ls[l]) \cup {p}
        /\ IsInjective(ls[l]) /\ p \notin Range(ls[l]) => IsInjective(Append(ls[l], p))
    BY <1>1, AppendDistinct
  <2> QED BY <1>2, <2>1
<1>3. \A k \in Lists : Range(ls2[k]) = IF k = l THEN Range(ls[k]) \cup {p} ELSE Range(ls[k])
  BY <1>2, <1>6
<1>4. On(ls2) = On(ls) \cup {p}
  BY <1>3 DEF On
<1>5. ASSUME Homed(ls), p \notin On(ls) PROVE Homed(ls2)
  <2>1. \A k \in Lists : IsInjective(ls2[k])
    BY <1>2, <1>5, <1>6 DEF Homed, On
  <2>2. \A k, m \in Lists : k # m => Range(ls2[k]) \cap Range(ls2[m]) = {}
    BY <1>3, <1>5 DEF Homed, On
  <2> QED BY <2>1, <2>2 DEF Homed
<1> QED BY <1>3, <1>4, <1>5 DEF ls2

LEMMA UnlinkSafe ==
  ASSUME NEW ls \in Rosters, NEW K
  PROVE  /\ \A k \in Lists : Range(Unlink(ls, K)[k]) = Range(ls[k]) \ K
         /\ On(Unlink(ls, K)) = On(ls) \ K
         /\ Homed(ls) => Homed(Unlink(ls, K))
<1> DEFINE ls2 == Unlink(ls, K)
<1>1. \A k \in Lists : ls[k] \in Seq(Procs) /\ ls2[k] = Without(ls[k], K)
  BY DEF Unlink, Rosters
<1> HIDE DEF ls2
<1>2. \A k \in Lists : Range(ls2[k]) = Range(ls[k]) \ K
  BY <1>1, WithoutDistinct
<1>3. \A k \in Lists : IsInjective(ls[k]) => IsInjective(ls2[k])
  BY <1>1, WithoutDistinct
<1>4. On(ls2) = On(ls) \ K
  BY <1>2 DEF On
<1>5. Homed(ls) => Homed(ls2)
  BY <1>2, <1>3 DEF Homed
<1> QED BY <1>2, <1>4, <1>5 DEF ls2

LEMMA WokenSafe ==
  ASSUME NEW ls \in Rosters, NEW q \in Queues, Homed(ls)
  PROVE  /\ Homed(WokenAll(ls, q)) /\ On(WokenAll(ls, q)) = On(ls)
         /\ WokenAll(ls, q)["grave"] = ls["grave"]
<1> DEFINE ls2 == WokenAll(ls, q)
<1>1. /\ ls[q] \in Seq(Procs) /\ ls["ready"] \in Seq(Procs)
      /\ q \in Lists /\ "ready" \in Lists /\ q # "ready"
  BY ListNames DEF Rosters
<1>2. /\ ls2["ready"] = ls["ready"] \o ls[q] /\ ls2[q] = <<>>
      /\ \A k \in Lists : k # "ready" /\ k # q => ls2[k] = ls[k]
  BY <1>1 DEF WokenAll, Rosters
<1>3. ls2["grave"] = ls["grave"]
  BY <1>2, ListNames
<1>4. Range(ls["ready"]) \cap Range(ls[q]) = {} /\ IsInjective(ls["ready"]) /\ IsInjective(ls[q])
  BY <1>1 DEF Homed
<1>5. /\ Range(ls2["ready"]) = Range(ls["ready"]) \cup Range(ls[q])
      /\ IsInjective(ls2["ready"])
  BY <1>1, <1>2, <1>4, ConcatDistinct
<1>6. Range(ls2[q]) = {} /\ IsInjective(ls2[q])
  <2>1. Range(<<>>) = {} /\ IsInjective(<<>>)
    BY DEF Range, IsInjective
  <2> QED BY <1>2, <2>1
<1> HIDE DEF ls2
<1>7. \A k \in Lists : k # "ready" /\ k # q => Range(ls2[k]) = Range(ls[k]) /\ IsInjective(ls2[k])
  BY <1>2 DEF Homed
<1>8. Homed(ls2)
  <2>1. \A k \in Lists : IsInjective(ls2[k])
    BY <1>5, <1>6, <1>7
  <2>2. \A k, m \in Lists : k # m => Range(ls2[k]) \cap Range(ls2[m]) = {}
    BY <1>1, <1>5, <1>6, <1>7 DEF Homed
  <2> QED BY <2>1, <2>2 DEF Homed
<1>9. On(ls2) = On(ls)
  BY <1>1, <1>5, <1>6, <1>7 DEF On
<1> QED BY <1>3, <1>8, <1>9 DEF ls2

\* The head of a list leaves it.
LEMMA PopSafe ==
  ASSUME NEW ls \in Rosters, NEW q \in Lists, ls[q] # <<>>, Homed(ls)
  PROVE  LET ls2 == [ls EXCEPT ![q] = Tail(@)]
         IN  /\ ls2 \in Rosters /\ Homed(ls2) /\ Head(ls[q]) \in Procs
             /\ On(ls2) = On(ls) \ {Head(ls[q])} /\ Head(ls[q]) \in On(ls)
             /\ \A k \in Lists : k # q => ls2[k] = ls[k]
<1> DEFINE ls2 == [ls EXCEPT ![q] = Tail(@)]
           h == Head(ls[q])
<1>1. ls[q] \in Seq(Procs) /\ ls2[q] = Tail(ls[q])
  BY DEF Rosters
<1>2. \A k \in Lists : k # q => ls2[k] = ls[k]
  BY DEF Rosters
<1>3. /\ h \in Range(ls[q]) /\ h \in Procs /\ ls2[q] \in Seq(Procs)
      /\ Range(ls[q]) = Range(ls2[q]) \cup {h}
      /\ IsInjective(ls2[q]) /\ h \notin Range(ls2[q])
  BY <1>1, HeadTailDistinct DEF Homed
<1>4. ls2 \in Rosters
  BY <1>1, <1>3 DEF Rosters
<1> HIDE DEF ls2, h
<1>5. Homed(ls2)
  <2>1. \A k \in Lists : IsInjective(ls2[k])
    BY <1>2, <1>3 DEF Homed
  <2>2. \A k \in Lists : Range(ls2[k]) \subseteq Range(ls[k])
    BY <1>2, <1>3
  <2> QED BY <2>1, <2>2 DEF Homed
<1>6. On(ls2) = On(ls) \ {h} /\ h \in On(ls)
  <2>1. h \in On(ls)
    BY <1>3 DEF On
  <2>2. \A k \in Lists : k # q => h \notin Range(ls[k])
    BY <1>3 DEF Homed
  <2>3. \A k \in Lists : Range(ls2[k]) = Range(ls[k]) \ {h}
    BY <1>2, <1>3, <2>2
  <2> QED BY <2>1, <2>3 DEF On
<1> QED BY <1>2, <1>3, <1>4, <1>5, <1>6 DEF ls2, h

LEMMA ResumeSafe ==
  ASSUME NEW pr \in [Procs -> Process], NEW ls \in Rosters, Resume(pr, ls), Homed(ls)
  PROVE  /\ Homed(list') /\ current' \notin On(list') /\ Placed' = On(ls)
         /\ list'["grave"] = ls["grave"]
         /\ Kin(proc', pr)
<1>1. CASE ls["ready"] = <<>>
  <2>1. current' = NoProc /\ proc' = pr /\ list' = ls
    BY <1>1 DEF Resume
  <2>2. NoProc \notin Procs /\ On(ls) \subseteq Procs
    BY ProcessAssumption DEF On
  <2> QED BY <1>1, <2>1, <2>2 DEF Placed
<1>2. CASE ls["ready"] # <<>>
  <2> DEFINE next == Head(ls["ready"])
  <2>1. /\ current' = next /\ proc' = [pr EXCEPT ![next].state = "RUNNING"]
        /\ list' = [ls EXCEPT !["ready"] = Tail(@)]
    BY <1>2 DEF Resume
  <2>2. /\ Homed(list') /\ next \in Procs /\ On(list') = On(ls) \ {next} /\ next \in On(ls)
        /\ list'["grave"] = ls["grave"]
    <3> DEFINE ls2 == [ls EXCEPT !["ready"] = Tail(@)]
    <3>1. /\ Homed(ls2) /\ next \in Procs /\ On(ls2) = On(ls) \ {next} /\ next \in On(ls)
          /\ \A k \in Lists : k # "ready" => ls2[k] = ls[k]
      BY <1>2, PopSafe, ListNames
    <3> HIDE DEF ls2
    <3>2. list' = ls2
      BY <2>1 DEF ls2
    <3> QED BY <3>1, <3>2, ListNames
  <2>3. Kin(proc', pr)
    BY <2>1 DEF Process
  <2>4. Placed' = On(list') \cup ({current'} \cap Procs)
    BY DEF Placed
  <2> HIDE DEF next
  <2> QED BY <2>1, <2>2, <2>3, <2>4
<1> QED BY <1>1, <1>2

\* A switch keeps everybody placed; the process that left is on the list its
\* new state names, or the caller has already put it on one.
LEMMA SwitchSafe ==
  ASSUME NEW pr \in [Procs -> Process], NEW ls \in Rosters, current \in Procs,
         NEW s \in {"READY", "GRAVE", "BLOCKED"}, process_switch(s, pr, ls),
         Homed(ls), current \in On(ls) <=> s = "BLOCKED"
  PROVE  /\ Homed(list') /\ current' \notin On(list')
         /\ Placed' = On(ls) \cup {current}
         /\ Range(list'["grave"]) = Range(ls["grave"]) \cup (IF s = "GRAVE" THEN {current} ELSE {})
         /\ Kin(proc', pr)
<1> DEFINE pr2 == [pr EXCEPT ![current].state = s]
           ls2 == CASE s = "READY" -> Push(ls, "ready", current)
                    [] s = "GRAVE" -> Push(ls, "grave", current)
                    [] s = "BLOCKED" -> ls
<1>1. pr2 \in [Procs -> Process] /\ Kin(pr2, pr)
  BY DEF Process, States
<1>2. ls2 \in Rosters
  BY PushType, ListNames
<1>3. Resume(pr2, ls2)
  BY DEF process_switch
<1>4. /\ Homed(ls2) /\ On(ls2) = On(ls) \cup {current}
      /\ Range(ls2["grave"]) = Range(ls["grave"]) \cup (IF s = "GRAVE" THEN {current} ELSE {})
  <2>1. CASE s = "READY"
    <3>1. ls2 = Push(ls, "ready", current)
      BY <2>1
    <3> HIDE DEF ls2
    <3>2. "ready" \in Lists /\ "grave" \in Lists /\ current \notin On(ls)
      BY <2>1, ListNames
    <3>3. /\ \A k \in Lists : Range(ls2[k]) =
                 IF k = "ready" THEN Range(ls[k]) \cup {current} ELSE Range(ls[k])
          /\ On(ls2) = On(ls) \cup {current} /\ Homed(ls2)
      BY <3>1, <3>2, PushSafe
    <3> QED BY <2>1, <3>2, <3>3
  <2>2. CASE s = "GRAVE"
    <3>1. ls2 = Push(ls, "grave", current)
      BY <2>2
    <3> HIDE DEF ls2
    <3>2. "grave" \in Lists /\ "grave" \in Lists /\ current \notin On(ls)
      BY <2>2, ListNames
    <3>3. /\ \A k \in Lists : Range(ls2[k]) =
                 IF k = "grave" THEN Range(ls[k]) \cup {current} ELSE Range(ls[k])
          /\ On(ls2) = On(ls) \cup {current} /\ Homed(ls2)
      BY <3>1, <3>2, PushSafe
    <3> QED BY <2>2, <3>2, <3>3
  <2>3. CASE s = "BLOCKED"
    BY <2>3
  <2> QED BY <2>1, <2>2, <2>3
<1> HIDE DEF pr2, ls2
<1> QED BY <1>1, <1>2, <1>3, <1>4, ResumeSafe
-----------------------------------------------------------------------------
(* Steps that move processes between the CPU and the lists, and no more.   *)

\* The variables' types, for the steps below.
LEMMA Typed ==
  ASSUME TInv
  PROVE  /\ proc \in [Procs -> Process] /\ list \in Rosters /\ current \in Procs \cup {NoProc}
         /\ table \in [0 .. MaxPid - 1 -> Procs \cup {NoProc}] /\ last \in Pids
         /\ stack \in [Procs -> Frame] /\ allocated \in SUBSET Procs
         /\ lost \in [Procs -> {"no", "stillborn", "abandoned"}]
         /\ \A c \in Procs : stack[c].call \in {"load", "delete", "clear"} => stack[c].child \in Procs
BY DEF TInv, TypeOK, ChildOK, Rosters

\* The live processes are the placed ones that are not dead.
LEMMA LiveIff ==
  ASSUME NEW c \in Procs
  PROVE  /\ Homed(list) /\ current \notin On(list) =>
              (Live(c) <=> c \in Placed /\ c \notin Range(list["grave"]))
         /\ Homed(list') /\ current' \notin On(list') =>
              (Live(c)' <=> c \in Placed' /\ c \notin Range(list'["grave"]))
BY ListNames DEF Live, Placed, On, Homed

\* The table keeps naming the same processes.
LEMMA SameTable ==
  ASSUME TInv, Sound, UNCHANGED <<table, allocated>>,
         Kin(proc', proc),
         \A c \in Procs : Clearing(c) => Clearing(c)' /\ stack'[c].child = stack[c].child
  PROVE  TableInv'
<1>1. \A p \in allocated' : proc'[p].pid # 0 => table'[proc'[p].pid] = p
  BY Typed DEF Sound, TableInv
<1>2. ASSUME NEW i \in 0 .. MaxPid - 1, table'[i] # NoProc
      PROVE  /\ proc'[table'[i]].pid = i
             /\ table'[i] \in allocated' \/ \E c \in Procs : Clearing(c)' /\ stack'[c].child = table'[i]
  <2>1. table[i] \in Procs /\ table'[i] = table[i]
    BY Typed, <1>2
  <2>2. /\ proc[table[i]].pid = i
        /\ table[i] \in allocated \/ \E c \in Procs : Clearing(c) /\ stack[c].child = table[i]
    BY <1>2, <2>1 DEF Sound, TableInv
  <2> QED BY <2>1, <2>2
<1> QED BY <1>1, <1>2 DEF TableInv

\* No pid, no parent and no name in the table changes: nobody gets younger.
LEMMA SameAge ==
  ASSUME TInv, Sound, Kin(proc', proc), UNCHANGED <<table, last, wrapped>>,
         allocated' \subseteq allocated
  PROVE  AgeInv'
BY DEF Sound, AgeInv, Entered

\* A live process that has another in hand still has it.
LEMMA StillHeld ==
  ASSUME Homed(list), current \notin On(list), Homed(list'), current' \notin On(list'),
         NEW c \in Procs, NEW p \in Procs, Holds(c, p),
         c \in Placed => c \in Placed' /\ (c \in Range(list'["grave"]) => c \in Range(list["grave"])),
         stack'[c] = stack[c]
  PROVE  Holds(c, p)'
BY LiveIff DEF Holds

\* Frames of the stack change inside a process's own code only, or from a load that
\* has failed to the deletion of the child.
Frames ==
  \A c \in Procs :
    \/ stack'[c] = stack[c]
    \/ c \in Placed /\ {stack[c].call, stack'[c].call} \cap {"load", "delete", "clear"} = {}
    \/ /\ c \in Placed /\ stack[c].call = "load" /\ stack'[c].call = "delete"
       /\ stack'[c].child = stack[c].child

\* A step that moves processes between the CPU and the lists: none appears or goes,
\* and to the grave goes at most one that has nothing in hand.
Steady ==
  /\ Homed(list') /\ current' \notin On(list') /\ Placed' = Placed
  /\ Range(list["grave"]) \subseteq Range(list'["grave"])
  /\ \A c \in Range(list'["grave"]) \ Range(list["grave"]) : stack[c].call = "run"
  /\ Kin(proc', proc) /\ UNCHANGED <<table, last, allocated, lost, wrapped>>
  /\ Frames

LEMMA SteadySafe == ASSUME TInv, Sound, Steady PROVE Sound'
<1>1. \A c \in Procs : Clearing(c)' <=> Clearing(c)
  BY DEF Clearing, Steady, Frames
<1>2. \A c \in Procs : stack[c].call # "run" => (Live(c)' <=> Live(c))
  BY LiveIff DEF Steady, Sound
<1>3. \A c, p \in Procs : Holds(c, p)' <=> Holds(c, p)
  <2> SUFFICES ASSUME NEW c \in Procs, NEW p \in Procs PROVE Holds(c, p)' <=> Holds(c, p)
    OBVIOUS
  <2>1. \/ stack'[c] = stack[c]
        \/ {stack[c].call, stack'[c].call} \cap {"load", "delete", "clear"} = {}
        \/ stack[c].call = "load" /\ stack'[c].call = "delete" /\ stack'[c].child = stack[c].child
    BY DEF Steady, Frames
  <2> QED BY <1>2, <2>1 DEF Holds
<1>4. \A c \in Procs : stack'[c].call = "load" => stack[c].call = "load"
  BY DEF Steady, Frames
<1>5. StillbornInv' /\ HeldInv' /\ KeptInv'
  <2>1. StillbornInv'
    BY <1>3 DEF Sound, StillbornInv, Steady
  <2>2. HeldInv'
    BY <1>3 DEF Sound, HeldInv, Steady
  <2>3. KeptInv'
    BY <1>3, Typed DEF Sound, KeptInv, Steady
  <2> QED BY <2>1, <2>2, <2>3
<1>6. LoadInv'
  <2> SUFFICES ASSUME NEW c \in Procs, NEW p \in Procs, Holds(c, p)', stack'[c].call = "load"
               PROVE  stack'[p].call = "run"
    BY DEF LoadInv
  <2>1. Holds(c, p) /\ stack[c].call = "load" /\ p \notin Placed
    BY <1>3, <1>4 DEF Sound, HeldInv
  <2> QED BY <2>1 DEF Sound, LoadInv, Steady, Frames
<1>7. LineInv'
  BY <1>3, <1>4 DEF Sound, LineInv, Steady
<1>8. \A c \in Procs : Clearing(c) => stack'[c].child = stack[c].child
  BY DEF Clearing, Steady, Frames
<1>9. ClearInv'
  <2> SUFFICES ASSUME NEW c \in Procs, Clearing(c)'
               PROVE  /\ c \in Placed' /\ c \notin Range(list'["grave"])
                      /\ stack'[c].child \notin allocated'
                      /\ proc'[stack'[c].child].pid # 0 =>
                           table'[proc'[stack'[c].child].pid] = stack'[c].child
    BY DEF ClearInv
  <2>1. Clearing(c) /\ stack'[c].child = stack[c].child /\ stack[c].child \in Procs
    BY Typed, <1>1, <1>8 DEF Clearing
  <2>2. c \notin Range(list'["grave"])
    BY <2>1 DEF Sound, ClearInv, Clearing, Steady
  <2> QED BY <2>1, <2>2 DEF Sound, ClearInv, Steady
<1>10. TableInv'
  BY <1>1, <1>8, SameTable DEF Steady
<1>11. AgeInv'
  BY DEF Sound, AgeInv, Entered, Steady
<1> QED BY <1>5, <1>6, <1>7, <1>9, <1>10, <1>11 DEF Sound, Steady

\* The current process runs, and is on no list; listed processes are clearing
\* nothing if they are dead.
LEMMA Here ==
  ASSUME TInv, Sound
  PROVE  /\ current \in Procs => /\ current \in Placed /\ current \in allocated
                                 /\ \A l \in Lists : current \notin Range(list[l])
         /\ On(list) \subseteq Placed
         /\ \A c \in Procs : Clearing(c) => c \notin Range(list["grave"])
         /\ Homed(list) /\ current \notin On(list)
         /\ current \in Procs => Placed = On(list) \cup {current}
         /\ current = NoProc => Placed = On(list)
BY ProcessAssumption DEF Sound, Placed, On, ClearInv

LEMMA DispatchSteady == ASSUME TInv, Sound, Dispatch PROVE Steady
<1>1. Placed' = On(list) /\ Placed = On(list)
  BY Typed, Here, ResumeSafe DEF Dispatch
<1>2. /\ Homed(list') /\ current' \notin On(list') /\ list'["grave"] = list["grave"]
      /\ Kin(proc', proc)
  BY Typed, Here, ResumeSafe DEF Dispatch
<1>3. UNCHANGED <<table, allocated, lost, stack, last, wrapped>>
  BY DEF Dispatch
<1> QED BY <1>1, <1>2, <1>3, Here DEF Steady, Frames

LEMMA YieldSteady == ASSUME TInv, Sound, process_yield PROVE Steady
<1>1. current \in Procs /\ process_switch("READY", proc, list)
      /\ UNCHANGED <<table, allocated, lost, stack, last, wrapped>>
  BY Typed DEF process_yield
<1>2. /\ Homed(list') /\ current' \notin On(list') /\ Placed' = Placed
      /\ Range(list'["grave"]) = Range(list["grave"])
      /\ Kin(proc', proc)
  <2>1. proc \in [Procs -> Process] /\ list \in Rosters
    BY Typed
  <2>2. Homed(list) /\ current \notin On(list) /\ Placed = On(list) \cup {current}
    BY <1>1, Here
  <2>3. /\ Homed(list') /\ current' \notin On(list') /\ Placed' = On(list) \cup {current}
        /\ Range(list'["grave"]) = Range(list["grave"]) \cup {}
        /\ Kin(proc', proc)
    BY <1>1, <2>1, <2>2, SwitchSafe
  <2> QED BY <2>2, <2>3
<1> QED BY <1>1, <1>2, Here DEF Steady, Frames

LEMMA WaitSteady ==
  ASSUME TInv, Sound, NEW q \in Queues, process_wait(q) PROVE Steady
<1> DEFINE ls == Push(list, q, current)
<1>1. current \in Procs /\ process_switch("BLOCKED", proc, ls)
      /\ UNCHANGED <<table, allocated, lost, stack, last, wrapped>>
  BY Typed DEF process_wait
<1>2. /\ ls \in Rosters /\ Homed(ls) /\ On(ls) = On(list) \cup {current}
      /\ Range(ls["grave"]) = Range(list["grave"])
  <2>1. q \in Lists /\ "grave" \in Lists /\ q # "grave" /\ list \in Rosters
    BY Typed, ListNames
  <2>2. Homed(list) /\ current \notin On(list)
    BY Here
  <2>3. ls \in Rosters
    BY <1>1, <2>1, PushType
  <2>4. /\ \A k \in Lists : Range(ls[k]) =
               IF k = q THEN Range(list[k]) \cup {current} ELSE Range(list[k])
        /\ On(ls) = On(list) \cup {current} /\ Homed(ls)
    BY <1>1, <2>1, <2>2, PushSafe
  <2> HIDE DEF ls
  <2> QED BY <2>1, <2>3, <2>4
<1> HIDE DEF ls
<1>3. /\ Homed(list') /\ current' \notin On(list') /\ Placed' = Placed
      /\ Range(list'["grave"]) = Range(list["grave"])
      /\ Kin(proc', proc)
  <2>1. proc \in [Procs -> Process] /\ Placed = On(list) \cup {current} /\ current \in On(ls)
    BY <1>1, <1>2, Typed, Here
  <2>2. /\ Homed(list') /\ current' \notin On(list') /\ Placed' = On(ls) \cup {current}
        /\ Range(list'["grave"]) = Range(ls["grave"]) \cup {}
        /\ Kin(proc', proc)
    BY <1>1, <1>2, <2>1, SwitchSafe
  <2> QED BY <1>2, <2>1, <2>2
<1> QED BY <1>1, <1>3, Here DEF Steady, Frames

LEMMA WakeupSteady ==
  ASSUME TInv, Sound, NEW q \in Queues, process_wakeup(q) PROVE Steady
<1> DEFINE h == Head(list[q])
           ls == [list EXCEPT ![q] = Tail(@)]
<1>1. /\ list[q] # <<>> /\ proc' = Wake(proc, {h})
      /\ list' = [list EXCEPT ![q] = Tail(@), !["ready"] = Append(@, h)]
      /\ UNCHANGED <<current, table, allocated, lost, stack, last, wrapped>>
  BY DEF process_wakeup
<1>2. /\ ls \in Rosters /\ Homed(ls) /\ h \in Procs
      /\ On(ls) = On(list) \ {h} /\ h \in On(list)
      /\ \A k \in Lists : k # q => ls[k] = list[k]
  <2>1. list \in Rosters /\ q \in Lists /\ list[q] # <<>> /\ Homed(list)
    BY <1>1, Typed, Here, ListNames
  <2> QED BY <2>1, PopSafe
<1>3. list' = Push(ls, "ready", h)
  BY <1>1, Typed, ListNames DEF Push, Rosters
<1> HIDE DEF ls, h
<1>4. /\ Homed(list') /\ On(list') = On(list)
      /\ Range(list'["grave"]) = Range(list["grave"])
  <2>1. "ready" \in Lists /\ "grave" \in Lists /\ q # "grave"
    BY ListNames
  <2>2. /\ \A k \in Lists : Range(list'[k]) =
               IF k = "ready" THEN Range(ls[k]) \cup {h} ELSE Range(ls[k])
        /\ On(list') = On(ls) \cup {h} /\ Homed(list')
    <3>1. /\ \A k \in Lists : Range(Push(ls, "ready", h)[k]) =
                 IF k = "ready" THEN Range(ls[k]) \cup {h} ELSE Range(ls[k])
          /\ On(Push(ls, "ready", h)) = On(ls) \cup {h} /\ Homed(Push(ls, "ready", h))
      <4>1. ls \in Rosters /\ "ready" \in Lists /\ h \in Procs /\ Homed(ls) /\ h \notin On(ls)
        BY <1>2, <2>1
      <4> QED BY <4>1, PushSafe
    <3> QED BY <1>3, <3>1
  <2> QED BY <1>2, <2>1, <2>2
<1>5. current' \notin On(list') /\ Placed' = Placed
  BY <1>1, <1>4, Here DEF Placed
<1>6. Kin(proc', proc)
  BY <1>1, Typed DEF Wake, Process
<1> QED BY <1>1, <1>4, <1>5, <1>6, Here DEF Steady, Frames

LEMMA WakeupAllSteady ==
  ASSUME TInv, Sound, NEW q \in Queues, process_wakeup_all(q) PROVE Steady
<1>1. /\ proc' = Wake(proc, Range(list[q])) /\ list' = WokenAll(list, q)
      /\ UNCHANGED <<current, table, allocated, lost, stack, last, wrapped>>
  BY DEF process_wakeup_all
<1>2. Homed(list') /\ On(list') = On(list) /\ list'["grave"] = list["grave"]
  BY <1>1, Typed, Here, WokenSafe
<1>3. current' \notin On(list') /\ Placed' = Placed
  BY <1>1, <1>2, Here DEF Placed
<1>4. Kin(proc', proc)
  BY <1>1, Typed DEF Wake, Process
<1> QED BY <1>1, <1>2, <1>3, <1>4, Here DEF Steady, Frames

LEMMA ClockSteady == ASSUME TInv, Sound, clock_interrupt PROVE Steady
<1> DEFINE pr == Wake(proc, Range(list[Clock]))
           ls == WokenAll(list, Clock)
<1>1. /\ \/ current # NoProc /\ process_switch("READY", pr, ls)
         \/ proc' = pr /\ list' = ls /\ UNCHANGED current
      /\ UNCHANGED <<table, allocated, lost, stack, last, wrapped>>
  BY DEF clock_interrupt
<1>2. /\ pr \in [Procs -> Process] /\ ls \in Rosters
      /\ Kin(pr, proc)
  <2>1. pr \in [Procs -> Process] /\ ls \in Rosters
    BY Typed, WakeType, WokenType, ListNames
  <2>2. Kin(pr, proc)
    BY Typed DEF Wake, Process
  <2> QED BY <2>1, <2>2
<1>3. Homed(ls) /\ On(ls) = On(list) /\ ls["grave"] = list["grave"]
  <2>1. list \in Rosters /\ Clock \in Queues /\ Homed(list)
    BY Typed, Here, ListNames
  <2> QED BY <2>1, WokenSafe
<1> HIDE DEF pr, ls
<1>4. /\ Homed(list') /\ current' \notin On(list') /\ Placed' = Placed
      /\ Range(list'["grave"]) = Range(list["grave"])
      /\ Kin(proc', proc)
  <2>1. CASE current # NoProc /\ process_switch("READY", pr, ls)
    <3>1. current \in Procs /\ current \notin On(ls)
      BY <2>1, <1>3, Typed, Here
    <3>2. /\ Homed(list') /\ current' \notin On(list') /\ Placed' = On(ls) \cup {current}
          /\ Range(list'["grave"]) = Range(ls["grave"])
          /\ Kin(proc', pr)
      BY <2>1, <3>1, <1>2, <1>3, SwitchSafe
    <3> QED BY <3>1, <3>2, <1>2, <1>3, Here
  <2>2. CASE proc' = pr /\ list' = ls /\ UNCHANGED current
    BY <2>2, <1>2, <1>3, Here DEF Placed
  <2> QED BY <1>1, <2>1, <2>2
<1> QED BY <1>1, <1>4, Here DEF Steady, Frames

LEMMA ExitSteady == ASSUME TInv, Sound, process_exit PROVE Steady
<1> DEFINE pr == [proc EXCEPT ![current].reason = "normal"]
           ws == WatchersOf(current)
           w  == list["watchers"][Min(ws)]
           pr2 == [pr EXCEPT ![w].state = "READY", ![w].waitingFor = 0]
           ls1 == Unlink(list, {w})
           ls2 == Push(ls1, "ready", w)
<1>1. /\ current \in Procs /\ stack[current].call = "run"
      /\ UNCHANGED <<table, allocated, lost, stack, last, wrapped>>
  BY Typed DEF process_exit, Calling
<1>2. /\ pr \in [Procs -> Process] /\ Kin(pr, proc)
  <2>1. proc \in [Procs -> Process] /\ "normal" \in Reasons
    BY Typed DEF Reasons
  <2> QED BY <1>1, <2>1, FieldType
<1>3. ASSUME ws # {} PROVE w \in Range(list["watchers"]) /\ w \in Procs
  <2>1. list["watchers"] \in Seq(Procs)
    BY Typed, ListNames DEF Rosters
  <2>2. ws \in SUBSET DOMAIN list["watchers"]
    BY DEF WatchersOf
  <2> HIDE DEF ws
  <2> QED BY <1>3, <2>1, <2>2, FirstOfList
<1>4. \/ ws = {} /\ process_switch("GRAVE", pr, list)
      \/ ws # {} /\ process_switch("GRAVE", pr2, ls2)
  BY DEF process_exit
<1>5. ASSUME ws # {}
      PROVE  /\ pr2 \in [Procs -> Process] /\ Kin(pr2, proc)
             /\ ls2 \in Rosters /\ Homed(ls2) /\ On(ls2) = On(list)
             /\ Range(ls2["grave"]) = Range(list["grave"])
  <2>1. w \in Procs /\ w \in Range(list["watchers"]) /\ w \in On(list)
    BY <1>3, <1>5, ListNames DEF On
  <2>2. pr2 \in [Procs -> Process] /\ Kin(pr2, proc)
    <3> HIDE DEF pr, w
    <3>1. 0 \in 0 .. MaxPid - 1
      BY ProcessAssumption
    <3>2. /\ [pr EXCEPT ![w].state = "READY"] \in [Procs -> Process]
          /\ Kin([pr EXCEPT ![w].state = "READY"], pr)
      BY <1>2, <2>1 DEF Process, States
    <3>3. /\ pr2 \in [Procs -> Process]
          /\ Kin(pr2, [pr EXCEPT ![w].state = "READY"])
      BY <3>1, <3>2, <2>1, <1>2 DEF Process
    <3> QED BY <1>2, <3>2, <3>3
  <2>3. list \in Rosters /\ Homed(list) /\ {"ready", "grave", "watchers"} \subseteq Lists
    BY Typed, Here, ListNames
  <2> HIDE DEF w
  <2>4. /\ ls1 \in Rosters /\ Homed(ls1) /\ On(ls1) = On(list) \ {w}
        /\ \A k \in Lists : Range(ls1[k]) = Range(list[k]) \ {w}
    BY <2>3, UnlinkType, UnlinkSafe
  <2> HIDE DEF ls1
  <2>5. /\ ls2 \in Rosters /\ Homed(ls2) /\ On(ls2) = On(ls1) \cup {w}
        /\ \A k \in Lists : Range(ls2[k]) =
              IF k = "ready" THEN Range(ls1[k]) \cup {w} ELSE Range(ls1[k])
    <3>1. "ready" \in Lists /\ w \notin On(ls1)
      BY <2>3, <2>4
    <3>2. ls2 \in Rosters
      BY <2>1, <2>4, <3>1, PushType
    <3>3. /\ \A k \in Lists : Range(Push(ls1, "ready", w)[k]) =
                 IF k = "ready" THEN Range(ls1[k]) \cup {w} ELSE Range(ls1[k])
          /\ On(Push(ls1, "ready", w)) = On(ls1) \cup {w}
          /\ Homed(Push(ls1, "ready", w))
      BY <2>1, <2>4, <3>1, PushSafe
    <3> QED BY <3>2, <3>3
  <2> HIDE DEF ls2, pr2
  <2>6. w \notin Range(list["grave"])
    BY <2>1, <2>3 DEF Homed
  <2>7. On(ls2) = On(list)
    BY <2>1, <2>4, <2>5
  <2>8. Range(ls2["grave"]) = Range(list["grave"])
    <3>1. "grave" \in Lists /\ "grave" # "ready"
      BY <2>3
    <3>2. Range(ls2["grave"]) = Range(ls1["grave"])
      BY <2>5, <3>1
    <3>3. Range(ls1["grave"]) = Range(list["grave"]) \ {w}
      BY <2>4, <3>1
    <3> QED BY <3>2, <3>3, <2>6
  <2> QED BY <2>2, <2>5, <2>7, <2>8
<1> HIDE DEF pr, ws, w, pr2, ls1, ls2
<1>6. /\ Homed(list') /\ current' \notin On(list') /\ Placed' = Placed
      /\ Range(list'["grave"]) = Range(list["grave"]) \cup {current}
      /\ Kin(proc', proc)
  <2>1. CASE ws = {}
    BY <2>1, <1>1, <1>2, <1>4, Typed, Here, SwitchSafe
  <2>2. CASE ws # {}
    <3>1. current \notin On(ls2)
      BY <2>2, <1>5, Here
    <3>2. /\ Homed(list') /\ current' \notin On(list') /\ Placed' = On(ls2) \cup {current}
          /\ Range(list'["grave"]) = Range(ls2["grave"]) \cup {current}
          /\ Kin(proc', pr2)
      BY <2>2, <3>1, <1>1, <1>4, <1>5, SwitchSafe
    <3> QED BY <2>2, <3>2, <1>1, <1>5, Here
  <2> QED BY <2>1, <2>2
<1>7. \A c \in Procs : Clearing(c) => c \notin Range(list'["grave"])
  BY <1>1, <1>6, Here DEF Clearing
<1> QED BY <1>1, <1>6, <1>7 DEF Steady, Frames

\* The steps of process_wait_child and process_kill's refusals change at most
\* the place of the current process in the call.
LEMMA WaitChildSteady ==
  ASSUME TInv, Sound,
         \/ sys_process_wait \/ wait_scan \/ wait_sleep \/ wait_timeout
         \/ \E n \in 0 .. MaxPid - 1 : shell_wait(n)
  PROVE  Steady
<1> DEFINE Idle == {"run", "scan", "sleep", "rescan"}
<1>1. ASSUME NEW f \in Frame, f.call \in Idle, stack[current].call \in Idle, current \in Procs,
             stack' = [stack EXCEPT ![current] = f]
      PROVE  Frames
  <2>1. stack'[current] = f /\ \A c \in Procs : c # current => stack'[c] = stack[c]
    BY <1>1, Typed
  <2> QED BY <1>1, <2>1, Here DEF Frames
<1>2. ASSUME NEW n \in 0 .. MaxPid - 1, current \in Procs, stack[current].call \in Idle,
             GoToSleep(n)
      PROVE  Steady
  <2> DEFINE pr == [proc EXCEPT ![current].waitingFor = n]
             ls == Push(list, "watchers", current)
  <2>1. /\ process_switch("BLOCKED", pr, ls) /\ UNCHANGED <<table, allocated, lost, last, wrapped>>
        /\ stack' = [stack EXCEPT ![current] = [call |-> "rescan", want |-> n, child |-> NoProc]]
    BY <1>2 DEF GoToSleep
  <2>2. pr \in [Procs -> Process] /\ Kin(pr, proc)
    <3>1. proc \in [Procs -> Process]
      BY Typed
    <3> QED BY <1>2, <3>1 DEF Process
  <2>3. /\ ls \in Rosters /\ Homed(ls) /\ On(ls) = On(list) \cup {current}
        /\ Range(ls["grave"]) = Range(list["grave"])
    <3>1. {"watchers", "grave"} \subseteq Lists /\ list \in Rosters /\ Homed(list) /\ current \notin On(list)
      BY Typed, Here, ListNames
    <3>2. /\ \A k \in Lists : Range(ls[k]) =
                 IF k = "watchers" THEN Range(list[k]) \cup {current} ELSE Range(list[k])
          /\ On(ls) = On(list) \cup {current} /\ Homed(ls) /\ ls \in Rosters
      <4>1. "watchers" \in Lists /\ list \in Rosters /\ current \in Procs
        BY <1>2, <3>1
      <4>2. Homed(list) /\ current \notin On(list)
        BY <3>1
      <4>3. ls \in Rosters
        BY <4>1, PushType
      <4> QED BY <4>1, <4>2, <4>3, PushSafe
    <3> HIDE DEF ls
    <3> QED BY <3>1, <3>2
  <2> HIDE DEF pr, ls
  <2>4. /\ Homed(list') /\ current' \notin On(list') /\ Placed' = Placed
        /\ Range(list'["grave"]) = Range(list["grave"])
        /\ Kin(proc', proc)
    <3>1. current \in On(ls)
      BY <2>3
    <3>2. /\ Homed(list') /\ current' \notin On(list') /\ Placed' = On(ls) \cup {current}
          /\ Range(list'["grave"]) = Range(ls["grave"])
          /\ Kin(proc', pr)
      BY <1>2, <2>1, <2>2, <2>3, <3>1, SwitchSafe
    <3> QED BY <1>2, <2>2, <2>3, <3>2, Here
  <2>5. Frames
    <3> DEFINE f == [call |-> "rescan", want |-> n, child |-> NoProc]
    <3>1. f \in Frame /\ f.call = "rescan" /\ stack' = [stack EXCEPT ![current] = f]
      BY <2>1 DEF Frame, Calls
    <3> HIDE DEF f
    <3> QED BY <1>1, <1>2, <3>1
  <2> QED BY <2>1, <2>4, <2>5, Here DEF Steady
<1>3. ASSUME UNCHANGED <<table, proc, list, current, allocated, lost, last, wrapped>>,
             current \in Procs, stack[current].call \in Idle,
             NEW f \in Frame, f.call \in Idle, stack' = [stack EXCEPT ![current] = f]
      PROVE  Steady
  <2>1. /\ Homed(list') /\ current' \notin On(list') /\ Placed' = Placed
        /\ Range(list'["grave"]) = Range(list["grave"])
        /\ Kin(proc', proc)
    BY <1>3, Here DEF Placed
  <2>2. Frames
    BY <1>1, <1>3
  <2> QED BY <1>3, <2>1, <2>2, Here DEF Steady
<1>4. Running.call = "run" /\ Running \in Frame
  BY ProcessAssumption DEF Running, Frame, Calls
<1>5. CASE sys_process_wait
  <2>1. current \in Procs /\ stack[current].call = "run" /\ 0 \in 0 .. MaxPid - 1
    BY <1>5, Typed, ProcessAssumption DEF sys_process_wait, Calling
  <2> QED BY <1>2, <1>5, <2>1 DEF sys_process_wait
<1>6. CASE wait_sleep
  <2>1. current \in Procs /\ stack[current].call = "sleep" /\ stack[current].want \in 0 .. MaxPid - 1
    BY <1>6, Typed DEF wait_sleep, Frame
  <2> QED BY <1>2, <1>6, <2>1 DEF wait_sleep
<1>7. CASE wait_scan
  <2>1. /\ UNCHANGED <<table, proc, list, current, allocated, lost, last, wrapped>>
        /\ current \in Procs /\ stack[current].call \in {"scan", "rescan"}
        /\ \/ stack' = [stack EXCEPT ![current] = Running]
           \/ stack' = [stack EXCEPT ![current].call = "sleep"]
    BY <1>7, Typed DEF wait_scan
  <2>2. CASE stack' = [stack EXCEPT ![current] = Running]
    BY <1>3, <1>4, <2>1, <2>2
  <2>3. CASE stack' = [stack EXCEPT ![current].call = "sleep"]
    <3> DEFINE f == [stack[current] EXCEPT !.call = "sleep"]
    <3>1. /\ f.call = "sleep" /\ stack' = [stack EXCEPT ![current] = f] /\ f \in Frame
      BY <2>1, <2>3, Typed DEF Frame, Calls
    <3> QED BY <1>3, <2>1, <3>1
  <2> QED BY <2>1, <2>2, <2>3
<1>8. CASE wait_timeout
  <2>1. /\ UNCHANGED <<table, proc, list, current, allocated, lost, last, wrapped>>
        /\ current \in Procs /\ stack[current].call = "rescan"
        /\ stack' = [stack EXCEPT ![current] = Running]
    BY <1>8, Typed DEF wait_timeout
  <2> QED BY <1>3, <1>4, <2>1
<1>9. ASSUME NEW n \in 0 .. MaxPid - 1, shell_wait(n) PROVE Steady
  <2> DEFINE f == [call |-> "scan", want |-> n, child |-> NoProc]
  <2>1. /\ UNCHANGED <<table, proc, list, current, allocated, lost, last, wrapped>>
        /\ current \in Procs /\ stack[current].call = "run"
        /\ stack' = [stack EXCEPT ![current] = f] /\ f.call = "scan" /\ f \in Frame
    BY <1>9, Typed DEF shell_wait, Calling, Frame, Calls
  <2> QED BY <1>3, <2>1
<1> QED BY <1>5, <1>6, <1>7, <1>8, <1>9
-----------------------------------------------------------------------------
(* Births.                                                                 *)

\* What fork and run share: the page p is new, its pid n was free or is 0.
LEMMA CreateSafe ==
  ASSUME TInv, Sound, NEW p \in Procs, Calling, process_create(p), fault' = "none",
         proc' = [proc EXCEPT ![p] = Born(process_allocate_pid, proc[current].pid)],
         UNCHANGED current,
         \A c \in Procs \ {p, current} : stack'[c] = stack[c],
         stack'[p].call # "clear", stack'[current].call # "clear",
         Placed \subseteq Placed', Range(list'["grave"]) = Range(list["grave"])
  PROVE  /\ p \notin allocated /\ p \notin Placed /\ p # current /\ current \in Procs
         /\ allocated' = allocated \cup {p} /\ lost' = [lost EXCEPT ![p] = "no"]
         /\ ClearInv' /\ TableInv' /\ AgeInv'
         /\ proc'[p].ppid = proc[current].pid /\ \A q \in Procs : q # p => proc'[q] = proc[q]
<1> DEFINE n == process_allocate_pid
<1>1. /\ p \notin allocated /\ allocated' = allocated \cup {p}
      /\ table' = [table EXCEPT ![n] = p] /\ lost' = [lost EXCEPT ![p] = "no"]
      /\ \A q \in allocated : ~(Clearing(q) /\ stack[q].child = p)
  BY DEF process_create, Clearing
<1>2. /\ n \in 0 .. MaxPid - 1 /\ (n # 0 => table[n] = NoProc)
      /\ current \in Procs /\ stack[current].call = "run"
  BY PidType, Typed DEF TInv, Calling
<1>3. /\ proc'[p].pid = n /\ proc'[p].ppid = proc[current].pid
      /\ \A q \in Procs : q # p => proc'[q] = proc[q]
  BY Typed DEF Born, Blank
<1>15. last' = (IF n = 0 THEN last ELSE n) /\ (~wrapped' => ~wrapped /\ ~(n <= last))
  BY Zenon DEF process_create
<1> HIDE DEF n
<1>4. p \notin Placed /\ p # current
  BY <1>1, <1>2, Here DEF Sound
<1>5. \A c \in Procs : Clearing(c) => c # p /\ c # current /\ stack[c].child # p
  BY <1>1, <1>2, <1>4 DEF Sound, ClearInv, Clearing
<1>6. \A c \in Procs : Clearing(c)' <=> Clearing(c)
  BY <1>5 DEF Clearing
<1>7. \A c \in Procs : Clearing(c) => stack'[c].child = stack[c].child
  BY <1>5
<1>8. NoProc \notin Procs
  BY ProcessAssumption
<1>9. ClearInv'
  <2> SUFFICES ASSUME NEW c \in Procs, Clearing(c)'
               PROVE  /\ c \in Placed' /\ c \notin Range(list'["grave"])
                      /\ stack'[c].child \notin allocated'
                      /\ proc'[stack'[c].child].pid # 0 =>
                           table'[proc'[stack'[c].child].pid] = stack'[c].child
    BY DEF ClearInv
  <2> DEFINE r == stack[c].child
  <2>1. /\ Clearing(c) /\ stack'[c].child = r /\ r \in Procs /\ r # p
        /\ c \in Placed /\ c \notin Range(list["grave"]) /\ r \notin allocated
        /\ (proc[r].pid # 0 => table[proc[r].pid] = r)
    BY <1>5, <1>6, <1>7, Typed DEF Sound, ClearInv, Clearing
  <2> HIDE DEF r
  <2>2. proc'[r] = proc[r] /\ proc[r].pid \in 0 .. MaxPid - 1
    BY <1>3, <2>1, Typed DEF Process
  <2>3. proc[r].pid # 0 => table'[proc[r].pid] = r
    BY <1>1, <1>2, <1>8, <2>1, <2>2, Typed
  <2> QED BY <1>1, <2>1, <2>2, <2>3
<1>10. ASSUME NEW q \in allocated', proc'[q].pid # 0
       PROVE  table'[proc'[q].pid] = q
  <2>1. CASE q = p
    BY <1>1, <1>2, <1>3, <2>1, Typed
  <2>2. CASE q # p
    <3>1. q \in allocated /\ q \in Procs /\ proc'[q] = proc[q] /\ proc[q].pid \in 0 .. MaxPid - 1
      BY <1>1, <1>3, <2>2, Typed DEF Process
    <3>2. table[proc[q].pid] = q
      BY <1>10, <3>1 DEF Sound, TableInv
    <3> QED BY <1>1, <1>2, <1>8, <1>10, <3>1, <3>2, Typed
  <2> QED BY <2>1, <2>2
<1>11. ASSUME NEW i \in 0 .. MaxPid - 1, table'[i] # NoProc
       PROVE  /\ proc'[table'[i]].pid = i
              /\ table'[i] \in allocated' \/ \E c \in Procs : Clearing(c)' /\ stack'[c].child = table'[i]
  <2>1. CASE i = n
    BY <1>1, <1>2, <1>3, <2>1, Typed
  <2>2. CASE i # n
    <3>1. table'[i] = table[i] /\ table[i] \in Procs
      BY <1>1, <1>11, <2>2, Typed
    <3>2. /\ proc[table[i]].pid = i
          /\ table[i] \in allocated \/ \E c \in Procs : Clearing(c) /\ stack[c].child = table[i]
      BY <1>11, <3>1 DEF Sound, TableInv
    <3>3. table[i] # p
      BY <1>1, <1>5, <3>2
    <3> QED BY <1>1, <1>3, <1>6, <1>7, <3>1, <3>2, <3>3
  <2> QED BY <2>1, <2>2
<1>12. TableInv'
  BY <1>10, <1>11 DEF TableInv
<1>13. ASSUME ~wrapped', NEW q \in Procs, q \in allocated' \/ Entered(q)'
       PROVE  proc'[q].ppid < proc'[q].pid /\ proc'[q].pid <= last'
  <2>1. /\ ~wrapped /\ n > last /\ last' = n /\ last \in Nat /\ n \in Nat
        /\ \A r \in Procs : proc[r].pid \in Nat /\ proc[r].ppid \in Nat
    BY <1>2, <1>13, <1>15, Typed, ProcessAssumption, SMTT(30) DEF Pids, Process
  <2>2. CASE q = p
    <3>1. proc[current].pid <= last
      BY <1>2, <2>1, Here DEF Sound, AgeInv
    <3> QED BY <1>2, <1>3, <2>1, <2>2, <3>1
  <2>3. CASE q # p
    <3>1. q \in allocated \/ Entered(q)
      BY <1>1, <1>13, <2>3, Typed DEF Entered
    <3>2. proc[q].ppid < proc[q].pid /\ proc[q].pid <= last
      BY <2>1, <3>1 DEF Sound, AgeInv
    <3> QED BY <1>3, <2>1, <2>3, <3>2
  <2> QED BY <2>2, <2>3
<1>14. AgeInv'
  BY <1>13 DEF AgeInv
<1> QED BY <1>1, <1>2, <1>3, <1>4, <1>9, <1>12, <1>14

LEMMA ForkSafe ==
  ASSUME TInv, Sound, NEW p \in Procs, sys_process_fork(p), fault' = "none"
  PROVE  Sound'
<1>1. /\ Calling /\ process_create(p) /\ UNCHANGED current
      /\ proc' = [proc EXCEPT ![p] = Born(process_allocate_pid, proc[current].pid)]
      /\ list' = Push(list, "ready", p) /\ stack' = [stack EXCEPT ![p] = Running]
  BY DEF sys_process_fork
<1>2. p \notin allocated /\ p \notin Placed /\ p \notin On(list) /\ p # current
  BY <1>1, Here, Typed DEF process_create, Sound
<1>3. /\ Homed(list') /\ On(list') = On(list) \cup {p}
      /\ Range(list'["grave"]) = Range(list["grave"])
  <2>1. {"ready", "grave"} \subseteq Lists /\ list \in Rosters /\ Homed(list)
    BY Typed, Here, ListNames
  <2>2. /\ \A k \in Lists : Range(list'[k]) =
               IF k = "ready" THEN Range(list[k]) \cup {p} ELSE Range(list[k])
        /\ On(list') = On(list) \cup {p} /\ Homed(list')
    BY <1>1, <1>2, <2>1, PushSafe
  <2> QED BY <2>1, <2>2
<1>4. Placed' = Placed \cup {p} /\ current' \notin On(list')
  BY <1>1, <1>2, <1>3, Here DEF Placed
<1>5. /\ stack'[p].call = "run" /\ \A c \in Procs : c # p => stack'[c] = stack[c]
  BY <1>1, Typed DEF Running
<1>6. /\ allocated' = allocated \cup {p} /\ lost' = [lost EXCEPT ![p] = "no"]
      /\ ClearInv' /\ TableInv' /\ AgeInv' /\ \A q \in Procs : q # p => proc'[q] = proc[q]
  <2>1. stack'[current].call # "clear"
    BY <1>1, <1>2, <1>5, Typed DEF Calling
  <2> QED BY <1>1, <1>3, <1>4, <1>5, <2>1, CreateSafe
<1>7. \A c, q \in Procs : Holds(c, q)' => Holds(c, q) /\ q # p
  <2> SUFFICES ASSUME NEW c \in Procs, NEW q \in Procs, Holds(c, q)'
               PROVE  Holds(c, q) /\ q # p
    OBVIOUS
  <2>1. c # p /\ stack'[c] = stack[c]
    BY <1>5 DEF Holds
  <2>2. Live(c)' => Live(c)
    BY <1>3, <1>4, <2>1, LiveIff, Here
  <2>3. Holds(c, q)
    BY <2>1, <2>2 DEF Holds
  <2>4. q \in allocated
    BY <2>3 DEF Sound, HeldInv
  <2> QED BY <1>2, <2>3, <2>4
<1>8. HeldInv'
  BY <1>4, <1>6, <1>7 DEF Sound, HeldInv
<1>9. StillbornInv'
  BY <1>4, <1>6, <1>7, Typed DEF Sound, StillbornInv
<1>10. Placed' \subseteq allocated'
  BY <1>4, <1>6 DEF Sound
<1>11. LoadInv'
  BY <1>2, <1>5, <1>7 DEF Sound, LoadInv
<1>12. LineInv'
  BY <1>5, <1>6, <1>7 DEF Sound, LineInv, Holds
<1>13. KeptInv'
  <2> SUFFICES ASSUME NEW q \in allocated', q \notin Placed', lost'[q] = "no"
               PROVE  \E c \in Procs : Holds(c, q)'
    BY DEF KeptInv
  <2>1. q \in allocated /\ q \in Procs /\ q \notin Placed /\ lost[q] = "no"
    BY <1>4, <1>6, Typed
  <2>2. PICK c \in Procs : Holds(c, q)
    BY <2>1 DEF Sound, KeptInv
  <2>3. c # p
    BY <1>2, <2>2, LiveIff, Here DEF Holds
  <2>4. Holds(c, q)'
    BY <1>3, <1>4, <1>5, <2>1, <2>2, <2>3, StillHeld, Here
  <2> QED BY <2>4
<1> QED BY <1>3, <1>4, <1>6, <1>8, <1>9, <1>10, <1>11, <1>12, <1>13 DEF Sound

LEMMA RunSafe ==
  ASSUME TInv, Sound, NEW p \in Procs, sys_process_run(p), fault' = "none"
  PROVE  Sound'
<1>1. /\ Calling /\ process_create(p) /\ UNCHANGED <<current, list>>
      /\ proc' = [proc EXCEPT ![p] = Born(process_allocate_pid, proc[current].pid)]
      /\ stack' = [stack EXCEPT ![p] = Running, ![current].call = "load", ![current].child = p]
  BY DEF sys_process_run
<1>2. /\ p \notin allocated /\ p \notin Placed /\ p # current
      /\ current \in Procs /\ stack[current].call = "run"
  BY <1>1, Here, Typed DEF process_create, Sound, Calling
<1>3. /\ Homed(list') /\ current' \notin On(list') /\ Placed' = Placed
      /\ Range(list'["grave"]) = Range(list["grave"])
  BY <1>1, Here DEF Placed
<1>4. /\ stack'[p].call = "run"
      /\ stack'[current].call = "load" /\ stack'[current].child = p
      /\ \A c \in Procs \ {p, current} : stack'[c] = stack[c]
  BY <1>1, <1>2, Typed DEF Running, Frame
<1>5. /\ allocated' = allocated \cup {p} /\ lost' = [lost EXCEPT ![p] = "no"]
      /\ ClearInv' /\ TableInv' /\ AgeInv'
      /\ proc'[p].ppid = proc[current].pid /\ \A q \in Procs : q # p => proc'[q] = proc[q]
  BY <1>1, <1>3, <1>4, CreateSafe
<1>6. \A c \in Procs : Live(c)' <=> Live(c)
  BY <1>3, LiveIff, Here
<1>7. \A c, q \in Procs : Holds(c, q)' => \/ Holds(c, q) /\ q # p /\ c # current
                                          \/ c = current /\ q = p
  <2> SUFFICES ASSUME NEW c \in Procs, NEW q \in Procs, Holds(c, q)', c # current
               PROVE  Holds(c, q) /\ q # p
    BY <1>4 DEF Holds
  <2>1. c # p /\ stack'[c] = stack[c]
    BY <1>4 DEF Holds
  <2>2. Holds(c, q)
    BY <1>6, <2>1 DEF Holds
  <2>3. q \in allocated
    BY <2>2 DEF Sound, HeldInv
  <2> QED BY <1>2, <2>2, <2>3
<1>8. HeldInv'
  <2> SUFFICES ASSUME NEW c \in Procs, NEW q \in Procs, Holds(c, q)'
               PROVE  /\ q \in allocated' \ Placed'
                      /\ \A d \in Procs : Holds(d, q)' => d = c
    BY DEF HeldInv
  <2>1. CASE c = current /\ q = p
    BY <1>2, <1>3, <1>5, <1>7, <2>1
  <2>2. CASE Holds(c, q) /\ q # p
    BY <1>3, <1>5, <1>7, <2>2 DEF Sound, HeldInv
  <2> QED BY <1>7, <2>1, <2>2
<1>9. StillbornInv'
  BY <1>3, <1>5, <1>7, Typed DEF Sound, StillbornInv
<1>10. Placed' \subseteq allocated'
  BY <1>3, <1>5 DEF Sound
<1>11. LoadInv'
  <2> SUFFICES ASSUME NEW c \in Procs, NEW q \in Procs, Holds(c, q)', stack'[c].call = "load"
               PROVE  stack'[q].call = "run"
    BY DEF LoadInv
  <2>1. CASE c = current /\ q = p
    BY <1>4, <2>1
  <2>2. CASE Holds(c, q) /\ q # p /\ c # current
    <3>1. q # current
      BY <2>2, Here DEF Sound, HeldInv
    <3>2. c # p
      BY <1>4 DEF Holds
    <3> QED BY <1>4, <2>2, <3>1, <3>2 DEF Sound, LoadInv
  <2> QED BY <1>7, <2>1, <2>2
<1>12. LineInv'
  <2> SUFFICES ASSUME NEW c \in Procs, NEW q \in Procs, Holds(c, q)', stack'[c].call = "load"
               PROVE  proc'[q].ppid = proc'[c].pid
    BY DEF LineInv
  <2>1. CASE c = current /\ q = p
    BY <1>2, <1>5, <2>1
  <2>2. CASE Holds(c, q) /\ q # p /\ c # current
    <3>1. c # p
      BY <1>4 DEF Holds
    <3> QED BY <1>4, <1>5, <2>2, <3>1 DEF Sound, LineInv
  <2> QED BY <1>7, <2>1, <2>2
<1>13. KeptInv'
  <2> SUFFICES ASSUME NEW q \in allocated', q \notin Placed', lost'[q] = "no"
               PROVE  \E c \in Procs : Holds(c, q)'
    BY DEF KeptInv
  <2>1. CASE q = p
    <3>1. ASSUME NEW c \in Procs, c = current PROVE Holds(c, p)'
      BY <1>1, <1>2, <1>4, <3>1 DEF Holds, Live
    <3> QED BY <1>2, <2>1, <3>1
  <2>2. CASE q # p
    <3>1. q \in allocated /\ q \in Procs /\ q \notin Placed /\ lost[q] = "no"
      BY <1>3, <1>5, <2>2, Typed
    <3>2. PICK c \in Procs : Holds(c, q)
      BY <3>1 DEF Sound, KeptInv
    <3>3. c # p /\ c # current
      BY <1>2, <3>2, LiveIff, Here DEF Holds
    <3>4. Holds(c, q)'
      BY <1>3, <1>4, <3>1, <3>2, <3>3, StillHeld, Here
    <3> QED BY <3>4
  <2> QED BY <2>1, <2>2
<1> QED BY <1>3, <1>5, <1>8, <1>9, <1>10, <1>11, <1>12, <1>13 DEF Sound

\* The end of sys_process_run: launched, to be deleted, or dropped.
LEMMA LaunchSafe == ASSUME TInv, Sound, process_launch PROVE Sound'
<1> DEFINE c == stack[current].child
<1>1. /\ current \in Procs /\ stack[current].call = "load" /\ c \in Procs
      /\ proc' = [proc EXCEPT ![c].state = "CRADLE"] /\ list' = Push(list, "ready", c)
      /\ stack' = [stack EXCEPT ![current] = Running]
      /\ UNCHANGED <<table, current, allocated, lost, last, wrapped>>
  BY Typed DEF process_launch, Loading
<1> HIDE DEF c
<1>2. Holds(current, c)
  BY <1>1 DEF Holds, Live, c
<1>3. c \in allocated /\ c \notin Placed /\ c \notin On(list) /\ c # current
  BY <1>1, <1>2, Here DEF Sound, HeldInv
<1>4. /\ Homed(list') /\ On(list') = On(list) \cup {c}
      /\ Range(list'["grave"]) = Range(list["grave"])
  <2>1. {"ready", "grave"} \subseteq Lists /\ list \in Rosters /\ Homed(list)
    BY Typed, Here, ListNames
  <2>2. /\ \A k \in Lists : Range(Push(list, "ready", c)[k]) =
               IF k = "ready" THEN Range(list[k]) \cup {c} ELSE Range(list[k])
        /\ On(Push(list, "ready", c)) = On(list) \cup {c}
        /\ Homed(Push(list, "ready", c))
    <3>1. list \in Rosters /\ "ready" \in Lists /\ c \in Procs /\ Homed(list) /\ c \notin On(list)
      BY <1>1, <1>3, <2>1
    <3> QED BY <3>1, PushSafe
  <2> QED BY <1>1, <2>1, <2>2
<1>5. Placed' = Placed \cup {c} /\ current' \notin On(list')
  BY <1>1, <1>3, <1>4, Here DEF Placed
<1>6. stack'[current].call = "run" /\ \A d \in Procs : d # current => stack'[d] = stack[d]
  BY <1>1, Typed DEF Running
<1>7. Kin(proc', proc)
  BY <1>1, Typed DEF Process
<1>8. \A d, q \in Procs : Holds(d, q)' => Holds(d, q) /\ q # c
  <2> SUFFICES ASSUME NEW d \in Procs, NEW q \in Procs, Holds(d, q)'
               PROVE  Holds(d, q) /\ q # c
    OBVIOUS
  <2>1. d # current /\ stack'[d] = stack[d]
    BY <1>6 DEF Holds
  <2>2. stack[c].call = "run"
    BY <1>1, <1>2 DEF Sound, LoadInv
  <2>3. d # c
    BY <2>1, <2>2 DEF Holds
  <2>4. Live(d)' => Live(d)
    BY <1>4, <1>5, <2>3, LiveIff, Here
  <2>5. Holds(d, q)
    BY <2>1, <2>4 DEF Holds
  <2> QED BY <1>1, <1>2, <2>1, <2>5 DEF Sound, HeldInv
<1>9. HeldInv'
  BY <1>1, <1>5, <1>8 DEF Sound, HeldInv
<1>10. StillbornInv'
  BY <1>1, <1>2, <1>5, <1>8 DEF Sound, StillbornInv
<1>11. LoadInv'
  <2> SUFFICES ASSUME NEW d \in Procs, NEW q \in Procs, Holds(d, q)', stack'[d].call = "load"
               PROVE  stack'[q].call = "run"
    BY DEF LoadInv
  <2> QED BY <1>6, <1>8 DEF Sound, LoadInv, Holds
<1>12. \A d \in Procs : (Clearing(d)' <=> Clearing(d)) /\ (Clearing(d) => stack'[d] = stack[d])
  BY <1>1, <1>6 DEF Clearing
<1>13. ClearInv'
  <2> SUFFICES ASSUME NEW d \in Procs, Clearing(d)'
               PROVE  /\ d \in Placed' /\ d \notin Range(list'["grave"])
                      /\ stack'[d].child \notin allocated'
                      /\ proc'[stack'[d].child].pid # 0 =>
                           table'[proc'[stack'[d].child].pid] = stack'[d].child
    BY DEF ClearInv
  <2>1. Clearing(d) /\ stack'[d].child = stack[d].child /\ stack[d].child \in Procs
    BY <1>12, Typed DEF Clearing
  <2> QED BY <1>1, <1>4, <1>5, <1>7, <2>1 DEF Sound, ClearInv
<1>14. TableInv'
  BY <1>1, <1>7, <1>12, SameTable
<1>15. Placed' \subseteq allocated'
  BY <1>1, <1>3, <1>5 DEF Sound
<1>16. LineInv' /\ AgeInv'
  <2>1. \A d \in Procs : stack'[d].call = "load" => stack[d].call = "load"
    BY <1>6
  <2> QED BY <1>1, <1>7, <1>8, <2>1, SameAge DEF Sound, LineInv
<1>17. KeptInv'
  <2> SUFFICES ASSUME NEW q \in allocated', q \notin Placed', lost'[q] = "no"
               PROVE  \E d \in Procs : Holds(d, q)'
    BY DEF KeptInv
  <2>1. q \in allocated /\ q \in Procs /\ q \notin Placed /\ lost[q] = "no" /\ q # c
    BY <1>1, <1>5, Typed
  <2>2. PICK d \in Procs : Holds(d, q)
    BY <2>1 DEF Sound, KeptInv
  <2>3. d # current
    BY <1>1, <2>1, <2>2 DEF Holds, c
  <2>4. Holds(d, q)'
    BY <1>4, <1>5, <1>6, <2>1, <2>2, <2>3, StillHeld, Here
  <2> QED BY <2>4
<1> QED BY <1>4, <1>5, <1>9, <1>10, <1>11, <1>13, <1>14, <1>15, <1>16, <1>17 DEF Sound

LEMMA RunFailedSteady == ASSUME TInv, Sound, run_failed PROVE Steady
<1>1. /\ current \in Procs /\ stack[current].call = "load"
      /\ stack' = [stack EXCEPT ![current].call = "delete"]
      /\ UNCHANGED <<table, proc, list, current, allocated, lost, last, wrapped>>
  BY Typed DEF run_failed, Loading
<1>2. /\ stack'[current].call = "delete" /\ stack'[current].child = stack[current].child
      /\ \A c \in Procs : c # current => stack'[c] = stack[c]
  BY <1>1, Typed DEF Frame
<1>3. /\ Homed(list') /\ current' \notin On(list') /\ Placed' = Placed
      /\ Range(list'["grave"]) = Range(list["grave"])
      /\ Kin(proc', proc)
  BY <1>1, Here DEF Placed
<1>4. Frames
  <2> SUFFICES ASSUME NEW c \in Procs
               PROVE  \/ stack'[c] = stack[c]
                      \/ /\ c \in Placed /\ stack[c].call = "load" /\ stack'[c].call = "delete"
                         /\ stack'[c].child = stack[c].child
    BY DEF Frames
  <2> QED BY <1>1, <1>2, Here
<1> QED BY <1>1, <1>3, <1>4 DEF Steady

LEMMA RunDroppedSafe == ASSUME TInv, Sound, run_dropped PROVE Sound'
<1> DEFINE p == stack[current].child
<1>1. /\ current \in Procs /\ stack[current].call = "load" /\ p \in Procs
      /\ stack' = [stack EXCEPT ![current] = Running]
      /\ lost' = [lost EXCEPT ![p] = "stillborn"]
      /\ UNCHANGED <<table, proc, list, current, allocated, last, wrapped>>
  BY Typed DEF run_dropped, Loading
<1>2. Holds(current, p)
  BY <1>1 DEF Holds, Live
<1> HIDE DEF p
<1>3. stack'[current].call = "run" /\ \A c \in Procs : c # current => stack'[c] = stack[c]
  BY <1>1, Typed DEF Running
<1>4. /\ Homed(list') /\ current' \notin On(list') /\ Placed' = Placed /\ Placed' \subseteq allocated'
      /\ Range(list'["grave"]) = Range(list["grave"])
      /\ Kin(proc', proc)
  BY <1>1, Here DEF Placed, Sound
<1>5. \A c, q \in Procs : Holds(c, q)' => Holds(c, q) /\ c # current /\ q # p
  <2> SUFFICES ASSUME NEW c \in Procs, NEW q \in Procs, Holds(c, q)'
               PROVE  Holds(c, q) /\ c # current /\ q # p
    OBVIOUS
  <2>1. c # current /\ stack'[c] = stack[c]
    BY <1>3 DEF Holds
  <2>2. Holds(c, q)
    BY <1>1, <2>1 DEF Holds, Live
  <2> QED BY <1>1, <1>2, <2>1, <2>2 DEF Sound, HeldInv
<1>6. HeldInv'
  BY <1>1, <1>4, <1>5 DEF Sound, HeldInv
<1>7. StillbornInv'
  <2> SUFFICES ASSUME NEW q \in Procs, lost'[q] = "stillborn"
               PROVE  q \in allocated' \ Placed' /\ \A c \in Procs : ~Holds(c, q)'
    BY DEF StillbornInv
  <2>1. CASE q = p
    BY <1>1, <1>2, <1>4, <1>5, <2>1 DEF Sound, HeldInv
  <2>2. CASE q # p
    <3>1. lost[q] = "stillborn"
      BY <1>1, <2>2, Typed
    <3> QED BY <1>1, <1>4, <1>5, <3>1 DEF Sound, StillbornInv
  <2> QED BY <2>1, <2>2
<1>8. LoadInv'
  <2> SUFFICES ASSUME NEW d \in Procs, NEW q \in Procs, Holds(d, q)', stack'[d].call = "load"
               PROVE  stack'[q].call = "run"
    BY DEF LoadInv
  <2> QED BY <1>3, <1>5 DEF Sound, LoadInv, Holds
<1>9. \A d \in Procs : (Clearing(d)' <=> Clearing(d)) /\ (Clearing(d) => stack'[d] = stack[d])
  BY <1>1, <1>3 DEF Clearing
<1>10. ClearInv'
  <2> SUFFICES ASSUME NEW d \in Procs, Clearing(d)'
               PROVE  /\ d \in Placed' /\ d \notin Range(list'["grave"])
                      /\ stack'[d].child \notin allocated'
                      /\ proc'[stack'[d].child].pid # 0 =>
                           table'[proc'[stack'[d].child].pid] = stack'[d].child
    BY DEF ClearInv
  <2>1. Clearing(d) /\ stack'[d].child = stack[d].child /\ stack[d].child \in Procs
    BY <1>9, Typed DEF Clearing
  <2> QED BY <1>1, <1>4, <2>1 DEF Sound, ClearInv
<1>11. TableInv'
  BY <1>1, <1>4, <1>9, SameTable
<1>12. LineInv' /\ AgeInv'
  <2>1. \A d \in Procs : stack'[d].call = "load" => stack[d].call = "load"
    BY <1>3
  <2> QED BY <1>1, <1>4, <1>5, <2>1, SameAge DEF Sound, LineInv
<1>13. KeptInv'
  <2> SUFFICES ASSUME NEW q \in allocated', q \notin Placed', lost'[q] = "no"
               PROVE  \E d \in Procs : Holds(d, q)'
    BY DEF KeptInv
  <2>1. q \in allocated /\ q \in Procs /\ q \notin Placed /\ lost[q] = "no" /\ q # p
    BY <1>1, <1>4, Typed
  <2>2. PICK d \in Procs : Holds(d, q)
    BY <2>1 DEF Sound, KeptInv
  <2>3. d # current
    BY <1>2, <2>1, <2>2 DEF Holds
  <2>4. Holds(d, q)'
    BY <1>3, <1>4, <2>1, <2>2, <2>3, StillHeld, Here
  <2> QED BY <2>4
<1> QED BY <1>4, <1>6, <1>7, <1>8, <1>10, <1>11, <1>12, <1>13 DEF Sound
-----------------------------------------------------------------------------
(* Deaths.                                                                 *)

LEMMA ReapSafe ==
  ASSUME TInv, Sound, NEW n \in 0 .. MaxPid - 1, process_reap(n)
  PROVE  Sound'
<1> DEFINE found == {i \in DOMAIN list["grave"] : proc[list["grave"][i]].pid = n}
           p == list["grave"][Min(found)]
<1>1. /\ found # {} /\ list' = Unlink(list, {p})
      /\ stack' = [stack EXCEPT ![current].call = "delete", ![current].child = p]
      /\ current \in Procs /\ stack[current].call = "run"
      /\ UNCHANGED <<table, proc, current, allocated, lost, last, wrapped>>
  BY Typed DEF process_reap, Calling
<1>2. p \in Procs /\ p \in Range(list["grave"])
  <2>1. list["grave"] \in Seq(Procs)
    BY Typed, ListNames DEF Rosters
  <2>2. found \in SUBSET DOMAIN list["grave"]
    OBVIOUS
  <2> HIDE DEF found
  <2> QED BY <1>1, <2>1, <2>2, FirstOfList
<1> HIDE DEF found, p
<1>3. /\ p # current /\ p \in On(list) /\ p \in Placed /\ p \in allocated
      /\ ~Clearing(p) /\ \A c \in Procs : ~Holds(c, p)
  <2>1. p # current /\ p \in On(list) /\ p \in Placed
    BY <1>1, <1>2, Here, ListNames DEF On
  <2> QED BY <1>2, <2>1, Here DEF Sound, HeldInv
<1>4. /\ Homed(list') /\ On(list') = On(list) \ {p}
      /\ Range(list'["grave"]) = Range(list["grave"]) \ {p}
  BY <1>1, Typed, Here, UnlinkSafe, ListNames
<1>5. Placed' = Placed \ {p} /\ current' \notin On(list') /\ Placed' \subseteq allocated'
  <2>1. Placed = On(list) \cup {current} /\ Placed' = On(list') \cup {current}
    BY <1>1, Here DEF Placed
  <2>2. current \notin On(list) /\ current' = current /\ p # current
    BY <1>1, <1>3, Here
  <2>3. Placed \subseteq allocated /\ allocated' = allocated
    BY <1>1 DEF Sound
  <2> QED BY <1>4, <2>1, <2>2, <2>3
<1>6. /\ stack'[current].call = "delete" /\ stack'[current].child = p
      /\ \A c \in Procs : c # current => stack'[c] = stack[c]
  BY <1>1, Typed DEF Frame
<1>7. \A c \in Procs : Live(c)' => Live(c)
  BY <1>4, <1>5, LiveIff, Here
<1>8. \A c, q \in Procs : Holds(c, q)' => \/ Holds(c, q) /\ q # p /\ c # current
                                          \/ c = current /\ q = p
  <2> SUFFICES ASSUME NEW c \in Procs, NEW q \in Procs, Holds(c, q)', c # current
               PROVE  Holds(c, q) /\ q # p
    BY <1>6 DEF Holds
  <2>1. Holds(c, q)
    BY <1>6, <1>7 DEF Holds
  <2> QED BY <1>3, <2>1
<1>9. HeldInv'
  <2> SUFFICES ASSUME NEW c \in Procs, NEW q \in Procs, Holds(c, q)'
               PROVE  /\ q \in allocated' \ Placed'
                      /\ \A d \in Procs : Holds(d, q)' => d = c
    BY DEF HeldInv
  <2>1. CASE c = current /\ q = p
    BY <1>1, <1>3, <1>5, <1>8, <2>1
  <2>2. CASE Holds(c, q) /\ q # p
    BY <1>1, <1>5, <1>8, <2>2 DEF Sound, HeldInv
  <2> QED BY <1>8, <2>1, <2>2
<1>10. StillbornInv'
  <2> SUFFICES ASSUME NEW q \in Procs, lost'[q] = "stillborn"
               PROVE  q \in allocated' \ Placed' /\ \A c \in Procs : ~Holds(c, q)'
    BY DEF StillbornInv
  <2>1. q \in allocated \ Placed /\ \A c \in Procs : ~Holds(c, q)
    BY <1>1 DEF Sound, StillbornInv
  <2> QED BY <1>1, <1>3, <1>5, <1>8, <2>1
<1>11. LoadInv'
  <2> SUFFICES ASSUME NEW d \in Procs, NEW q \in Procs, Holds(d, q)', stack'[d].call = "load"
               PROVE  stack'[q].call = "run"
    BY DEF LoadInv
  <2>1. Holds(d, q) /\ d # current /\ stack[d].call = "load"
    BY <1>6, <1>8
  <2>2. q # current
    BY <2>1, Here DEF Sound, HeldInv
  <2> QED BY <1>6, <2>1, <2>2 DEF Sound, LoadInv
<1>12. \A d \in Procs : (Clearing(d)' <=> Clearing(d)) /\ (Clearing(d) => stack'[d] = stack[d])
  BY <1>1, <1>6 DEF Clearing
<1>13. ClearInv'
  <2> SUFFICES ASSUME NEW d \in Procs, Clearing(d)'
               PROVE  /\ d \in Placed' /\ d \notin Range(list'["grave"])
                      /\ stack'[d].child \notin allocated'
                      /\ proc'[stack'[d].child].pid # 0 =>
                           table'[proc'[stack'[d].child].pid] = stack'[d].child
    BY DEF ClearInv
  <2>1. Clearing(d) /\ stack'[d].child = stack[d].child /\ stack[d].child \in Procs
    BY <1>12, Typed DEF Clearing
  <2>2. /\ d \in Placed /\ d \notin Range(list["grave"]) /\ stack[d].child \notin allocated
        /\ proc[stack[d].child].pid # 0 => table[proc[stack[d].child].pid] = stack[d].child
    BY <2>1 DEF Sound, ClearInv
  <2>3. d # p
    BY <1>2, <2>2
  <2>4. d \in Placed' /\ d \notin Range(list'["grave"])
    BY <1>4, <1>5, <2>2, <2>3
  <2> QED BY <1>1, <2>1, <2>2, <2>4
<1>14. TableInv'
  BY <1>1, <1>12, SameTable
<1>15. LineInv' /\ AgeInv'
  <2>1. \A d, q \in Procs : Holds(d, q)' /\ stack'[d].call = "load" => Holds(d, q) /\ stack[d].call = "load"
    BY <1>6, <1>8
  <2> QED BY <1>1, <2>1, SameAge DEF Sound, LineInv
<1>16. KeptInv'
  <2> SUFFICES ASSUME NEW q \in allocated', q \notin Placed', lost'[q] = "no"
               PROVE  \E d \in Procs : Holds(d, q)'
    BY DEF KeptInv
  <2>1. CASE q = p
    <3>1. ASSUME NEW d \in Procs, d = current PROVE Holds(d, q)'
      BY <1>1, <1>6, <2>1, <3>1 DEF Holds, Live
    <3> QED BY <1>1, <3>1
  <2>2. CASE q # p
    <3>1. q \in allocated /\ q \in Procs /\ q \notin Placed /\ lost[q] = "no"
      BY <1>1, <1>5, <2>2, Typed
    <3>2. PICK d \in Procs : Holds(d, q)
      BY <3>1 DEF Sound, KeptInv
    <3>3. d # current /\ d # p
      BY <1>1, <1>2, <3>2, LiveIff, Here DEF Holds
    <3>4. Holds(d, q)'
      BY <1>4, <1>5, <1>6, <3>1, <3>2, <3>3, StillHeld, Here
    <3> QED BY <3>4
  <2> QED BY <2>1, <2>2
<1> QED BY <1>4, <1>5, <1>9, <1>10, <1>11, <1>13, <1>14, <1>15, <1>16 DEF Sound

LEMMA DeleteSafe == ASSUME TInv, Sound, process_delete PROVE Sound'
<1> DEFINE p == stack[current].child
<1>1. /\ current \in Procs /\ stack[current].call = "delete" /\ p \in Procs
      /\ allocated' = allocated \ {p}
      /\ stack' = [stack EXCEPT ![current].call = "clear", ![p] = Running]
      /\ UNCHANGED <<table, proc, list, current, lost, last, wrapped>>
  BY Typed DEF process_delete
<1>2. Holds(current, p)
  BY <1>1 DEF Holds, Live
<1>3. stack[current].child = p
  OBVIOUS
<1> HIDE DEF p
<1>4. p \in allocated /\ p \notin Placed /\ p # current /\ \A d \in Procs : Holds(d, p) => d = current
  BY <1>1, <1>2, Here DEF Sound, HeldInv
<1>5. /\ stack'[current].call = "clear" /\ stack'[current].child = p
      /\ stack'[p].call = "run"
      /\ \A c \in Procs \ {p, current} : stack'[c] = stack[c]
  BY <1>1, <1>3, <1>4, Typed DEF Frame, Running
<1>6. /\ Homed(list') /\ current' \notin On(list') /\ Placed' = Placed
      /\ Range(list'["grave"]) = Range(list["grave"]) /\ Placed' \subseteq allocated'
      /\ current \notin Range(list["grave"])
  BY <1>1, <1>4, Here, ListNames DEF Placed, Sound
<1>7. \A c, q \in Procs : Holds(c, q)' => Holds(c, q) /\ q # p /\ c # current /\ c # p
  <2> SUFFICES ASSUME NEW c \in Procs, NEW q \in Procs, Holds(c, q)'
               PROVE  Holds(c, q) /\ q # p /\ c # current /\ c # p
    OBVIOUS
  <2>1. c # current /\ c # p /\ stack'[c] = stack[c]
    BY <1>5 DEF Holds
  <2>2. Holds(c, q)
    BY <1>1, <2>1 DEF Holds, Live
  <2> QED BY <1>4, <2>1, <2>2
<1>8. HeldInv'
  BY <1>1, <1>6, <1>7 DEF Sound, HeldInv
<1>9. StillbornInv'
  <2> SUFFICES ASSUME NEW q \in Procs, lost'[q] = "stillborn"
               PROVE  q \in allocated' \ Placed' /\ \A c \in Procs : ~Holds(c, q)'
    BY DEF StillbornInv
  <2>1. q \in allocated \ Placed /\ \A c \in Procs : ~Holds(c, q)
    BY <1>1 DEF Sound, StillbornInv
  <2> QED BY <1>1, <1>2, <1>6, <1>7, <2>1
<1>10. LoadInv'
  <2> SUFFICES ASSUME NEW d \in Procs, NEW q \in Procs, Holds(d, q)', stack'[d].call = "load"
               PROVE  stack'[q].call = "run"
    BY DEF LoadInv
  <2>1. Holds(d, q) /\ q # p /\ d # current /\ stack[d].call = "load"
    BY <1>5, <1>7
  <2>2. q # current
    BY <2>1, Here DEF Sound, HeldInv
  <2> QED BY <1>5, <2>1, <2>2 DEF Sound, LoadInv
<1>11. \A c \in Procs : Clearing(c) => c # current /\ c # p
  BY <1>1, <1>4 DEF Clearing, Sound, ClearInv
<1>12. \A c \in Procs : Clearing(c) => Clearing(c)' /\ stack'[c] = stack[c]
  BY <1>5, <1>11 DEF Clearing
<1>13. \A c \in Procs : Clearing(c)' => Clearing(c) \/ c = current
  BY <1>5 DEF Clearing
<1>14. ClearInv'
  <2> SUFFICES ASSUME NEW d \in Procs, Clearing(d)'
               PROVE  /\ d \in Placed' /\ d \notin Range(list'["grave"])
                      /\ stack'[d].child \notin allocated'
                      /\ proc'[stack'[d].child].pid # 0 =>
                           table'[proc'[stack'[d].child].pid] = stack'[d].child
    BY DEF ClearInv
  <2>1. CASE d = current
    <3>1. proc[p].pid # 0 => table[proc[p].pid] = p
      BY <1>4 DEF Sound, TableInv
    <3> QED BY <1>1, <1>5, <1>6, <2>1, <3>1, Here
  <2>2. CASE Clearing(d)
    <3>1. stack'[d].child = stack[d].child /\ stack[d].child \in Procs
      BY <1>12, <2>2, Typed DEF Clearing
    <3> QED BY <1>1, <1>6, <2>2, <3>1 DEF Sound, ClearInv
  <2> QED BY <1>13, <2>1, <2>2
<1>15. TableInv'
  <2>1. ASSUME NEW q \in allocated', proc'[q].pid # 0 PROVE table'[proc'[q].pid] = q
    BY <1>1, <2>1 DEF Sound, TableInv
  <2>2. ASSUME NEW i \in 0 .. MaxPid - 1, table'[i] # NoProc
        PROVE  /\ proc'[table'[i]].pid = i
               /\ table'[i] \in allocated' \/ \E c \in Procs : Clearing(c)' /\ stack'[c].child = table'[i]
    <3>1. table[i] \in Procs /\ table'[i] = table[i]
      BY <1>1, Typed, <2>2
    <3>2. /\ proc[table[i]].pid = i
          /\ table[i] \in allocated \/ \E c \in Procs : Clearing(c) /\ stack[c].child = table[i]
      BY <2>2, <3>1 DEF Sound, TableInv
    <3>4. CASE table[i] = p
      <4>1. \A c \in Procs : stack'[c].call = "clear" => Clearing(c)'
        BY DEF Clearing
      <4> QED BY <1>1, <1>5, <3>1, <3>2, <3>4, <4>1
    <3>5. CASE table[i] # p
      BY <1>1, <1>12, <3>1, <3>2, <3>5
    <3> QED BY <3>4, <3>5
  <2> QED BY <2>1, <2>2 DEF TableInv
<1>16. LineInv' /\ AgeInv'
  <2>1. \A d, q \in Procs : Holds(d, q)' => Holds(d, q) /\ stack'[d] = stack[d]
    BY <1>5, <1>7
  <2>2. LineInv'
    BY <1>1, <2>1 DEF Sound, LineInv
  <2>3. Kin(proc', proc) /\ allocated' \subseteq allocated
    BY <1>1
  <2>4. AgeInv'
    BY <1>1, <2>3, SameAge
  <2> QED BY <2>2, <2>4
<1>17. KeptInv'
  <2> SUFFICES ASSUME NEW q \in allocated', q \notin Placed', lost'[q] = "no"
               PROVE  \E d \in Procs : Holds(d, q)'
    BY DEF KeptInv
  <2>1. q \in allocated /\ q \in Procs /\ q \notin Placed /\ lost[q] = "no" /\ q # p
    BY <1>1, <1>6, Typed
  <2>2. PICK d \in Procs : Holds(d, q)
    BY <2>1 DEF Sound, KeptInv
  <2>3. d # current /\ d # p
    BY <1>2, <1>4, <2>1, <2>2, LiveIff, Here DEF Holds
  <2>4. Holds(d, q)'
    BY <1>5, <1>6, <2>1, <2>2, <2>3, StillHeld, Here
  <2> QED BY <2>4
<1> QED BY <1>6, <1>8, <1>9, <1>10, <1>14, <1>15, <1>16, <1>17 DEF Sound

LEMMA DeleteClearSafe == ASSUME TInv, Sound, delete_clear PROVE Sound'
<1> DEFINE p == stack[current].child
<1>1. /\ current \in Procs /\ stack[current].call = "clear" /\ p \in Procs
      /\ table' = [table EXCEPT ![proc[p].pid] = NoProc]
      /\ proc' = [proc EXCEPT ![p] = Blank]
      /\ stack' = [stack EXCEPT ![current] = Running]
      /\ UNCHANGED <<list, current, allocated, lost, last, wrapped>>
  BY Typed DEF delete_clear
<1>2. p \notin allocated /\ (proc[p].pid # 0 => table[proc[p].pid] = p)
  BY <1>1 DEF Clearing, Sound, ClearInv
<1>3. stack[current].child = p
  OBVIOUS
<1> HIDE DEF p
<1>4. /\ stack'[current].call = "run" /\ \A c \in Procs : c # current => stack'[c] = stack[c]
  BY <1>1, Typed DEF Running
<1>5. /\ Homed(list') /\ current' \notin On(list') /\ Placed' = Placed
      /\ Range(list'["grave"]) = Range(list["grave"]) /\ Placed' \subseteq allocated'
  BY <1>1, Here DEF Placed, Sound
<1>6. \A c, q \in Procs : Holds(c, q)' => Holds(c, q) /\ c # current
  BY <1>1, <1>4 DEF Holds, Live
<1>7. HeldInv'
  BY <1>1, <1>5, <1>6 DEF Sound, HeldInv
<1>8. StillbornInv'
  BY <1>1, <1>5, <1>6 DEF Sound, StillbornInv
<1>9. LoadInv'
  <2> SUFFICES ASSUME NEW d \in Procs, NEW q \in Procs, Holds(d, q)', stack'[d].call = "load"
               PROVE  stack'[q].call = "run"
    BY DEF LoadInv
  <2> QED BY <1>4, <1>6 DEF Sound, LoadInv
<1>10. \A c \in Procs : Clearing(c)' <=> Clearing(c) /\ c # current
  BY <1>4 DEF Clearing
<1>11. /\ proc'[p].pid = 0 /\ \A q \in Procs : q # p => proc'[q] = proc[q]
       /\ \A q \in Procs : proc[q].pid \in 0 .. MaxPid - 1
       /\ \A i \in 0 .. MaxPid - 1 : table'[i] = IF i = proc[p].pid THEN NoProc ELSE table[i]
       /\ NoProc \notin Procs
  BY <1>1, Typed, ProcessAssumption DEF Blank, Process
<1>12. ClearInv'
  <2> SUFFICES ASSUME NEW d \in Procs, Clearing(d)'
               PROVE  /\ d \in Placed' /\ d \notin Range(list'["grave"])
                      /\ stack'[d].child \notin allocated'
                      /\ proc'[stack'[d].child].pid # 0 =>
                           table'[proc'[stack'[d].child].pid] = stack'[d].child
    BY DEF ClearInv
  <2> DEFINE r == stack[d].child
  <2>1. /\ Clearing(d) /\ d # current /\ stack'[d].child = r /\ r \in Procs
        /\ d \in Placed /\ d \notin Range(list["grave"]) /\ r \notin allocated
        /\ (proc[r].pid # 0 => table[proc[r].pid] = r)
    BY <1>4, <1>10, Typed DEF Clearing, Sound, ClearInv
  <2> HIDE DEF r
  <2>2. ASSUME proc'[r].pid # 0 PROVE table'[proc'[r].pid] = r
    <3>1. r # p /\ proc'[r] = proc[r] /\ table[proc[r].pid] = r
      BY <1>11, <2>1, <2>2
    <3>2. proc[r].pid # proc[p].pid
      BY <1>2, <2>2, <3>1
    <3> QED BY <1>11, <2>1, <3>1, <3>2
  <2> QED BY <1>1, <1>5, <2>1, <2>2
<1>13. TableInv'
  <2>1. ASSUME NEW q \in allocated', proc'[q].pid # 0 PROVE table'[proc'[q].pid] = q
    <3>1. q \in allocated /\ q \in Procs /\ q # p /\ proc'[q] = proc[q]
      BY <1>1, <1>2, <1>11, Typed
    <3>2. table[proc[q].pid] = q
      BY <2>1, <3>1 DEF Sound, TableInv
    <3>3. proc[q].pid # proc[p].pid
      BY <1>2, <2>1, <3>1, <3>2
    <3> QED BY <1>11, <3>1, <3>2, <3>3
  <2>2. ASSUME NEW i \in 0 .. MaxPid - 1, table'[i] # NoProc
        PROVE  /\ proc'[table'[i]].pid = i
               /\ table'[i] \in allocated' \/ \E c \in Procs : Clearing(c)' /\ stack'[c].child = table'[i]
    <3>1. i # proc[p].pid /\ table'[i] = table[i] /\ table[i] \in Procs
      BY <1>11, <2>2, Typed
    <3>2. /\ proc[table[i]].pid = i
          /\ table[i] \in allocated \/ \E c \in Procs : Clearing(c) /\ stack[c].child = table[i]
      BY <2>2, <3>1 DEF Sound, TableInv
    <3>3. table[i] # p
      BY <3>1, <3>2
    <3> QED BY <1>1, <1>3, <1>4, <1>10, <1>11, <3>1, <3>2, <3>3
  <2> QED BY <2>1, <2>2 DEF TableInv
<1>14. LineInv'
  <2> SUFFICES ASSUME NEW c \in Procs, NEW q \in Procs, Holds(c, q)', stack'[c].call = "load"
               PROVE  proc'[q].ppid = proc'[c].pid
    BY DEF LineInv
  <2>1. Holds(c, q) /\ c # current /\ q \in allocated /\ c \in allocated
    BY <1>6, LiveIff, Here DEF Sound, HeldInv, Holds
  <2> QED BY <1>2, <1>4, <1>11, <2>1 DEF Sound, LineInv
<1>15. AgeInv'
  <2> SUFFICES ASSUME ~wrapped, NEW q \in Procs, q \in allocated \/ Entered(q)'
               PROVE  proc'[q].ppid < proc'[q].pid /\ proc'[q].pid <= last
    BY <1>1 DEF AgeInv
  <2>1. q # p /\ (q \in allocated \/ Entered(q))
    <3>1. ASSUME NEW i \in 0 .. MaxPid - 1, table'[i] = q PROVE table[i] = q /\ q # p
      <4>1. table[i] = q /\ i # proc[p].pid /\ table[i] # NoProc
        BY <1>11, <3>1
      <4>2. proc[q].pid = i
        BY <4>1 DEF Sound, TableInv
      <4> QED BY <4>1, <4>2
    <3> QED BY <1>2, <3>1 DEF Entered
  <2> QED BY <1>11, <2>1 DEF Sound, AgeInv
<1>16. KeptInv'
  <2> SUFFICES ASSUME NEW q \in allocated', q \notin Placed', lost'[q] = "no"
               PROVE  \E d \in Procs : Holds(d, q)'
    BY DEF KeptInv
  <2>1. q \in allocated /\ q \in Procs /\ q \notin Placed /\ lost[q] = "no"
    BY <1>1, <1>5, Typed
  <2>2. PICK d \in Procs : Holds(d, q)
    BY <2>1 DEF Sound, KeptInv
  <2>3. d # current
    BY <1>1, <2>2 DEF Holds
  <2>4. Holds(d, q)'
    BY <1>4, <1>5, <2>1, <2>2, <2>3, StillHeld, Here
  <2> QED BY <2>4
<1> QED BY <1>5, <1>7, <1>8, <1>9, <1>12, <1>13, <1>14, <1>15, <1>16 DEF Sound

\* An order of a finite set lists every element of it once.
LEMMA OrderOfAll ==
  ASSUME NEW before, NEW K \in SUBSET Procs, NEW s \in Orders(before, K)
  PROVE  s \in Seq(Procs) /\ Range(s) = K /\ IsInjective(s)
<1> DEFINE m == Cardinality(K)
<1>1. IsFiniteSet(K) /\ m \in Nat
  BY ProcessAssumption, FS_Subset, FS_CardinalityType
<1>2. s \in [1 .. m -> K] /\ \A i, j \in 1 .. m : i < j => s[i] # s[j]
  BY DEF Orders
<1> HIDE DEF m
<1>3. IsInjective(s)
  BY <1>1, <1>2 DEF IsInjective
<1>4. s \in Injection(1 .. m, K)
  BY <1>2, <1>3 DEF Injection
<1>5. Cardinality(1 .. m) = Cardinality(K) /\ IsFiniteSet(1 .. m)
  <2>1. 1 \in Int /\ m \in Int
    BY <1>1
  <2>2. Cardinality(1 .. m) = IF 1 > m THEN 0 ELSE m - 1 + 1
    BY <2>1, FS_Interval
  <2>3. Cardinality(1 .. m) = m
    BY <1>1, <2>2
  <2> QED BY <2>1, <2>3, FS_Interval DEF m
<1>6. s \in Surjection(1 .. m, K)
  BY <1>1, <1>4, <1>5, FS_Injection
<1>7. Range(s) = K
  BY <1>2, <1>6 DEF Surjection, Range
<1>8. s \in [1 .. m -> Procs]
  BY <1>2
<1>9. s \in Seq(Procs)
  BY <1>1, <1>8, IsASeq
<1> QED BY <1>3, <1>7, <1>9

\* What a kill does to the lists: from wherever they are to the grave list.
Bury(ls, V, s) == [Unlink(ls, V) EXCEPT !["grave"] = @ \o s]

LEMMA BurySafe ==
  ASSUME NEW ls \in Rosters, NEW V \in SUBSET Procs, NEW s \in Seq(Procs),
         Homed(ls), Range(s) = V, IsInjective(s)
  PROVE  /\ Bury(ls, V, s) \in Rosters /\ Homed(Bury(ls, V, s))
         /\ On(Bury(ls, V, s)) = On(ls) \cup V
         /\ Range(Bury(ls, V, s)["grave"]) = Range(ls["grave"]) \cup V
<1> DEFINE u   == Unlink(ls, V)
           ls2 == [u EXCEPT !["grave"] = @ \o s]
<1>1. /\ u \in Rosters /\ \A k \in Lists : Range(u[k]) = Range(ls[k]) \ V
      /\ On(u) = On(ls) \ V /\ Homed(u)
  BY UnlinkType, UnlinkSafe
<1> HIDE DEF u
<1>2. /\ "grave" \in Lists /\ u["grave"] \in Seq(Procs)
      /\ ls2["grave"] = u["grave"] \o s
      /\ \A k \in Lists : k # "grave" => ls2[k] = u[k]
  BY <1>1, ListNames DEF Rosters
<1>3. Range(u["grave"]) \cap Range(s) = {} /\ IsInjective(u["grave"])
  BY <1>1, <1>2 DEF Homed
<1>4. /\ u["grave"] \o s \in Seq(Procs) /\ IsInjective(u["grave"] \o s)
      /\ Range(u["grave"] \o s) = Range(u["grave"]) \cup V
  BY <1>2, <1>3, ConcatDistinct
<1>5. ls2 \in Rosters
  BY <1>1, <1>4 DEF Rosters
<1>6. /\ Range(ls2["grave"]) = Range(u["grave"]) \cup V /\ IsInjective(ls2["grave"])
      /\ \A k \in Lists : k # "grave" => Range(ls2[k]) = Range(u[k]) /\ IsInjective(ls2[k])
  BY <1>1, <1>2, <1>4 DEF Homed
<1> HIDE DEF ls2
<1>7. Homed(ls2)
  <2>1. \A k \in Lists : IsInjective(ls2[k])
    BY <1>6
  <2>2. \A k, m \in Lists : k # m => Range(ls2[k]) \cap Range(ls2[m]) = {}
    <3>1. \A k, m \in Lists : k # m => Range(u[k]) \cap Range(u[m]) = {}
      BY <1>1 DEF Homed
    <3>2. \A k \in Lists : Range(u[k]) \cap V = {}
      BY <1>1
    <3>3. \A k \in Lists : Range(ls2[k]) = IF k = "grave" THEN Range(u[k]) \cup V ELSE Range(u[k])
      BY <1>6
    <3> QED BY <3>1, <3>2, <3>3
  <2> QED BY <2>1, <2>2 DEF Homed
<1>8. On(ls2) = On(ls) \cup V
  <2>1. \A k \in Lists : Range(ls2[k]) = IF k = "grave" THEN Range(u[k]) \cup V ELSE Range(u[k])
    BY <1>6
  <2>2. On(ls2) = On(u) \cup V
    BY <1>2, <2>1 DEF On
  <2> QED BY <1>1, <2>2
<1>9. Range(ls2["grave"]) = Range(ls["grave"]) \cup V
  BY <1>1, <1>2, <1>6
<1> QED BY <1>5, <1>7, <1>8, <1>9 DEF ls2, u, Bury

\* The recursion of process_make_dead reaches the children of whatever it reaches.
LEMMA ChildrenBelow ==
  ASSUME NEW c \in Procs, NEW p \in Procs, IsChild(p, c)
  PROVE  /\ <<c, p>> \in Descendants
         /\ \A a \in Procs : <<a, c>> \in Descendants => <<a, p>> \in Descendants
<1>1. <<c, p>> \in Descendants
  BY DEF Descendants
<1>2. ASSUME NEW a \in Procs, <<a, c>> \in Descendants PROVE <<a, p>> \in Descendants
  <2>1. ASSUME NEW S \in SUBSET Procs, \A q \in Procs : IsChild(q, a) => q \in S, Closed(S)
        PROVE  p \in S
    <3>1. c \in S
      BY <1>2, <2>1 DEF Descendants
    <3> QED BY <2>1, <3>1 DEF Closed
  <2> QED BY <2>1 DEF Descendants
<1> QED BY <1>1, <1>2

\* Whoever is buried, is buried after the children that the table names.
LEMMA ChildrenFirst ==
  ASSUME NEW c \in Procs, NEW p \in Procs, NEW d \in Procs, NEW e \in Procs, IsChild(p, c)
  PROVE  /\ c \in Subtree(Descendants, d) => p \in Subtree(Descendants, d)
         /\ <<c, e>> \in Burials(Descendants) => <<p, e>> \in Burials(Descendants)
<1> DEFINE D == Descendants
           W == D \cup {<<q, q>> : q \in Procs}
           G == {t \in Procs \X Procs : proc[t[1]].ppid = proc[t[2]].ppid /\ proc[t[1]].pid < proc[t[2]].pid}
<1>1. <<c, p>> \in D /\ \A a \in Procs : <<a, c>> \in D => <<a, p>> \in D
  BY ChildrenBelow
<1>2. \A x, y \in Procs : <<x, y>> \in Burials(D) <=>
          <<y, x>> \in D \/ \E t \in G : <<t[1], x>> \in W /\ <<t[2], y>> \in W
  BY DEF Burials
<1>3. c \in Subtree(D, d) => p \in Subtree(D, d)
  BY <1>1 DEF Subtree
<1>4. \A a \in Procs : <<a, c>> \in W => <<a, p>> \in W
  BY <1>1
<1>5. \A t \in G : t[1] \in Procs
  OBVIOUS
<1> HIDE DEF D, W, G
<1>6. <<c, e>> \in Burials(D) => <<p, e>> \in Burials(D)
  BY <1>1, <1>2, <1>4, <1>5
<1> QED BY <1>3, <1>6 DEF D

\* What a kill that ends does: its victims go to the grave list, from wherever they
\* are.  What a victim had in hand is counted as lost, or is a victim, too.  Without
\* a fault, the victims come from a list, or were left behind by sys_process_run.
LEMMA KillMoves ==
  ASSUME TInv, Sound, NEW n \in Pids, process_kill(n), fault' # "recursion"
  PROVE  \E V \in SUBSET Procs :
           /\ current \notin V
           /\ fault' = "none" => \A q \in V : (q \in Placed \/ lost[q] = "stillborn") /\ ~Clearing(q)
           /\ Homed(list') /\ current' \notin On(list') /\ Placed' = Placed \cup V
           /\ Range(list["grave"]) \cup V \subseteq Range(list'["grave"])
           /\ Range(list'["grave"]) \subseteq Range(list["grave"]) \cup V \cup {current}
           /\ Kin(proc', proc)
           /\ \A p \in Procs : lost'[p] = "stillborn" => p \notin V /\ lost[p] = "stillborn"
           /\ \A p \in Procs \ V : lost[p] # "no" => lost'[p] # "no"
           /\ \A c \in V, p \in Procs \ V : Holds(c, p) => lost'[p] # "no"
<1>1. current \in Procs /\ table[n] \in Procs
  <2>1. n \in 0 .. MaxPid - 1
    BY ProcessAssumption DEF Pids
  <2> QED BY <2>1, Typed DEF process_kill, Calling
<1>2. PICK below, before : /\ below = Descendants /\ before = Burials(below)
                           /\ process_make_dead(below, before, table[n])
  BY DEF process_kill
<1> DEFINE reached == Subtree(below, table[n])
           suicide == current \in reached
           killed  == IF suicide
                      THEN {current} \cup {q \in reached : <<q, current>> \in before}
                      ELSE reached
           victims == killed \ {current}
           pr == [p \in Procs |-> IF p \in killed THEN [proc[p] EXCEPT !.reason = "killed"]
                                                   ELSE proc[p]]
<1>3. PICK order \in Orders(before, victims) :
        LET ls == [Unlink(list, victims) EXCEPT !["grave"] = @ \o order]
        IN  IF suicide THEN process_switch("GRAVE", pr, ls)
            ELSE proc' = pr /\ list' = ls /\ UNCHANGED current
  BY <1>2 DEF process_make_dead
<1> DEFINE ls == Bury(list, victims, order)
<1>4. ASSUME fault' = "none"
      PROVE  /\ \A q \in victims : ~(Detached(q) /\ lost[q] # "stillborn")
             /\ \A q \in victims : ~Clearing(q)
  BY <1>2, <1>4 DEF process_make_dead, Clearing
<1>15. /\ \A p \in Procs \ victims : lost[p] # "no" => lost'[p] # "no"
       /\ \A q \in victims, p \in Procs : Leaves(q, p) => lost'[p] # "no"
  BY <1>2 DEF process_make_dead
<1>16. \A c \in victims, p \in Procs : IsChild(p, c) /\ p # current => p \in victims
  <2> SUFFICES ASSUME NEW c \in victims, NEW p \in Procs, IsChild(p, c), p # current
               PROVE  p \in killed
    OBVIOUS
  <2>1. c \in Procs /\ c \in killed /\ c # current
    BY <1>1 DEF Subtree
  <2>2. /\ c \in reached => p \in reached
        /\ <<c, current>> \in before => <<p, current>> \in before
    BY <1>1, <1>2, <2>1, ChildrenFirst
  <2> HIDE DEF reached
  <2> QED BY <2>1, <2>2
<1>5. \A p \in Procs : lost'[p] = "stillborn" => p \notin victims /\ lost[p] = "stillborn"
  BY <1>2 DEF process_make_dead
<1>6. victims \in SUBSET Procs /\ current \notin victims
  BY <1>1 DEF Subtree
<1>7. /\ pr \in [Procs -> Process] /\ Kin(pr, proc)
  <2>1. ASSUME NEW r \in Process
        PROVE  /\ [r EXCEPT !.reason = "killed"] \in Process
               /\ [r EXCEPT !.reason = "killed"].pid = r.pid
    BY DEF Process, Reasons
  <2>2. \A p \in Procs : proc[p] \in Process
    BY Typed
  <2> HIDE DEF killed
  <2> QED BY <2>1, <2>2
<1> HIDE DEF reached, victims, pr
<1>8. order \in Seq(Procs) /\ Range(order) = victims /\ IsInjective(order)
  BY <1>3, <1>6, OrderOfAll
<1>9. /\ ls \in Rosters /\ Homed(ls) /\ On(ls) = On(list) \cup victims
      /\ Range(ls["grave"]) = Range(list["grave"]) \cup victims
  <2>1. /\ list \in Rosters /\ victims \in SUBSET Procs /\ order \in Seq(Procs)
        /\ Homed(list) /\ Range(order) = victims /\ IsInjective(order)
    BY <1>6, <1>8, Typed, Here
  <2> HIDE DEF killed
  <2> QED BY <2>1, BurySafe
<1> HIDE DEF ls
<1>10. current \notin On(ls)
  BY <1>6, <1>9, Here
<1>11. IF suicide THEN process_switch("GRAVE", pr, ls)
       ELSE proc' = pr /\ list' = ls /\ UNCHANGED current
  BY <1>3 DEF ls, Bury
<1>12. /\ Homed(list') /\ current' \notin On(list') /\ Placed' = On(ls) \cup {current}
       /\ Range(ls["grave"]) \subseteq Range(list'["grave"])
       /\ Range(list'["grave"]) \subseteq Range(ls["grave"]) \cup {current}
       /\ Kin(proc', pr)
  <2>1. CASE suicide
    <3>1. process_switch("GRAVE", pr, ls)
      BY <1>11, <2>1
    <3> QED BY <1>1, <1>7, <1>9, <1>10, <3>1, SwitchSafe
  <2>2. CASE ~suicide
    <3>1. proc' = pr /\ list' = ls /\ current' = current
      BY <1>11, <2>2
    <3> QED BY <1>1, <1>9, <1>10, <3>1 DEF Placed
  <2> QED BY <2>1, <2>2
<1>13. Placed' = Placed \cup victims
  BY <1>1, <1>9, <1>12, Here
<1>14. fault' = "none" => \A q \in victims : (q \in Placed \/ lost[q] = "stillborn") /\ ~Clearing(q)
  <2> SUFFICES ASSUME fault' = "none", NEW q \in victims PROVE q \in Placed \/ lost[q] = "stillborn"
    BY <1>4
  <2>1. ~Detached(q) \/ lost[q] = "stillborn"
    BY <1>4
  <2> QED BY <1>6, <2>1, Here DEF Detached, Listed, On
<1>17. \A c \in victims, p \in Procs \ victims : Holds(c, p) => lost'[p] # "no"
  <2> SUFFICES ASSUME NEW c \in victims, NEW p \in Procs \ victims, Holds(c, p)
               PROVE  Leaves(c, p)
    BY <1>15
  <2>1. c \in Procs /\ p # current
    BY <1>6, Here DEF Sound, HeldInv
  <2>2. stack[c].call = "load" => proc[p].ppid = proc[c].pid
    BY <2>1 DEF Sound, LineInv
  <2>3. ~IsChild(p, c)
    BY <1>16, <2>1
  <2> QED BY <2>2, <2>3 DEF Holds, Leaves, IsChild
<1> HIDE DEF killed, suicide
<1> QED BY <1>5, <1>6, <1>7, <1>9, <1>12, <1>13, <1>14, <1>15, <1>17

LEMMA KillSafe ==
  ASSUME TInv, Sound, NEW n \in Pids, process_kill(n), fault' = "none"
  PROVE  Sound'
<1>1. PICK V \in SUBSET Procs :
        /\ current \notin V
        /\ \A q \in V : (q \in Placed \/ lost[q] = "stillborn") /\ ~Clearing(q)
        /\ Homed(list') /\ current' \notin On(list') /\ Placed' = Placed \cup V
        /\ Range(list["grave"]) \cup V \subseteq Range(list'["grave"])
        /\ Range(list'["grave"]) \subseteq Range(list["grave"]) \cup V \cup {current}
        /\ Kin(proc', proc)
        /\ \A p \in Procs : lost'[p] = "stillborn" => p \notin V /\ lost[p] = "stillborn"
        /\ \A p \in Procs \ V : lost[p] # "no" => lost'[p] # "no"
        /\ \A c \in V, p \in Procs \ V : Holds(c, p) => lost'[p] # "no"
  BY KillMoves
<1>2. current \in Procs /\ stack[current].call = "run" /\ UNCHANGED <<table, allocated, stack, last, wrapped>>
  BY Typed DEF process_kill, Calling
<1>3. \A q \in V : \A c \in Procs : ~Holds(c, q)
  BY <1>1 DEF Sound, StillbornInv, HeldInv
<1>4. \A c, p \in Procs : Holds(c, p)' => Holds(c, p) /\ p \notin V
  <2> SUFFICES ASSUME NEW c \in Procs, NEW p \in Procs, Holds(c, p)'
               PROVE  Holds(c, p)
    BY <1>3
  <2>1. Live(c)' /\ stack[c].call \in {"load", "delete"} /\ stack[c].child = p
    BY <1>2 DEF Holds
  <2>2. c \in Placed' /\ c \notin Range(list'["grave"])
    BY <1>1, <2>1, LiveIff
  <2>3. Live(c)
    BY <1>1, <2>2, LiveIff, Here
  <2> QED BY <2>1, <2>3 DEF Holds
<1>5. HeldInv'
  BY <1>1, <1>2, <1>4 DEF Sound, HeldInv
<1>6. StillbornInv'
  BY <1>1, <1>2, <1>4 DEF Sound, StillbornInv
<1>7. LoadInv'
  BY <1>2, <1>4 DEF Sound, LoadInv
<1>8. \A c \in Procs : Clearing(c)' <=> Clearing(c)
  BY <1>2 DEF Clearing
<1>9. ClearInv'
  <2> SUFFICES ASSUME NEW d \in Procs, Clearing(d)'
               PROVE  /\ d \in Placed' /\ d \notin Range(list'["grave"])
                      /\ stack'[d].child \notin allocated'
                      /\ proc'[stack'[d].child].pid # 0 =>
                           table'[proc'[stack'[d].child].pid] = stack'[d].child
    BY DEF ClearInv
  <2>1. Clearing(d) /\ stack[d].child \in Procs /\ d # current /\ d \notin V
    BY <1>1, <1>2, <1>8, Typed DEF Clearing
  <2>2. /\ d \in Placed /\ d \notin Range(list["grave"]) /\ stack[d].child \notin allocated
        /\ proc[stack[d].child].pid # 0 => table[proc[stack[d].child].pid] = stack[d].child
    BY <2>1 DEF Sound, ClearInv
  <2>3. d \in Placed' /\ d \notin Range(list'["grave"])
    BY <1>1, <2>1, <2>2
  <2> QED BY <1>1, <1>2, <2>1, <2>2, <2>3
<1>10. TableInv'
  <2>1. \A c \in Procs : Clearing(c) => Clearing(c)' /\ stack'[c].child = stack[c].child
    BY <1>2, <1>8
  <2> QED BY <1>1, <1>2, <2>1, SameTable
<1>11. Placed' \subseteq allocated'
  BY <1>1, <1>2 DEF Sound, StillbornInv
<1>12. LineInv' /\ AgeInv'
  BY <1>1, <1>2, <1>4, SameAge DEF Sound, LineInv
<1>13. KeptInv'
  <2> SUFFICES ASSUME NEW q \in allocated', q \notin Placed', lost'[q] = "no"
               PROVE  \E d \in Procs : Holds(d, q)'
    BY DEF KeptInv
  <2>1. q \in allocated /\ q \in Procs /\ q \notin Placed /\ q \notin V /\ lost[q] = "no"
    BY <1>1, <1>2, Typed
  <2>2. PICK d \in Procs : Holds(d, q)
    BY <2>1 DEF Sound, KeptInv
  <2>3. d # current /\ d \notin V
    BY <1>1, <1>2, <2>1, <2>2 DEF Holds
  <2>4. Holds(d, q)'
    BY <1>1, <1>2, <2>1, <2>2, <2>3, StillHeld, Here
  <2> QED BY <2>4
<1> QED BY <1>1, <1>5, <1>6, <1>7, <1>9, <1>10, <1>11, <1>12, <1>13 DEF Sound
-----------------------------------------------------------------------------
LEMMA InitSafe == Init => Sound
<1> SUFFICES ASSUME NEW k \in Procs,
                    table = [i \in 0 .. MaxPid - 1 |-> IF i = 1 THEN k ELSE NoProc],
                    proc = [p \in Procs |-> IF p = k
                      THEN [Blank EXCEPT !.pid = 1, !.state = "READY", !.kernel = TRUE]
                      ELSE Blank],
                    list = [l \in Lists |-> <<>>], current = k, allocated = {k}, last = 1,
                    stack = [p \in Procs |-> Running], lost = [p \in Procs |-> "no"]
             PROVE  Sound
  BY DEF Init
<1>1. \A l \in Lists : Range(list[l]) = {} /\ IsInjective(list[l])
  <2>1. Range(<<>>) = {} /\ IsInjective(<<>>)
    BY DEF Range, IsInjective
  <2> QED BY <2>1
<1>2. Homed(list) /\ On(list) = {} /\ Placed = {k}
  BY <1>1 DEF Homed, On, Placed
<1>3. \A c \in Procs : stack[c].call = "run" /\ lost[c] # "stillborn"
  BY DEF Running
<1>4. StillbornInv /\ HeldInv /\ LoadInv /\ ClearInv
  BY <1>3 DEF StillbornInv, HeldInv, LoadInv, ClearInv, Holds, Clearing
<1>5. proc[k].pid = 1 /\ proc[k].ppid = 0
  BY DEF Blank
<1>6. TableInv
  BY <1>5, ProcessAssumption DEF TableInv
<1>7. KeptInv /\ LineInv
  BY <1>2, <1>3 DEF KeptInv, LineInv
<1>8. AgeInv
  <2>1. \A p \in Procs : p \in allocated \/ Entered(p) => p = k
    BY ProcessAssumption DEF Entered
  <2>2. \A p \in Procs : p \in allocated \/ Entered(p) =>
                           proc[p].ppid = 0 /\ proc[p].pid = 1
    BY <1>5, <2>1
  <2>3. last = 1
    OBVIOUS
  <2> QED BY <2>2, <2>3 DEF AgeInv
<1> QED BY <1>2, <1>4, <1>6, <1>7, <1>8 DEF Sound

\* The steps that are steady.
LEMMA Steadies ==
  ASSUME TInv, Sound,
         \/ Dispatch \/ process_yield \/ clock_interrupt \/ run_failed \/ process_exit
         \/ \E q \in Queues : process_wait(q) \/ process_wakeup(q) \/ process_wakeup_all(q)
         \/ \E n \in 0 .. MaxPid - 1 : shell_wait(n)
         \/ sys_process_wait \/ wait_scan \/ wait_sleep \/ wait_timeout
  PROVE  Steady
BY DispatchSteady, YieldSteady, ClockSteady, RunFailedSteady, ExitSteady, WaitSteady,
   WakeupSteady, WakeupAllSteady, WaitChildSteady

\* IInv is inductive.
LEMMA SoundStep ==
  ASSUME TInv, Sound, Next, fault' = "none"
  PROVE  Sound'
<1>1. CASE \E p \in Procs : sys_process_fork(p) \/ sys_process_run(p)
  BY <1>1, ForkSafe, RunSafe
<1>2. CASE process_launch \/ run_dropped \/ process_delete \/ delete_clear
  BY <1>2, LaunchSafe, RunDroppedSafe, DeleteSafe, DeleteClearSafe
<1>3. CASE \/ \E n \in Pids : process_kill(n)
           \/ \E n \in 0 .. MaxPid - 1 : process_reap(n)
  BY <1>3, KillSafe, ReapSafe
<1>4. CASE Steady
  BY <1>4, SteadySafe
<1> QED BY <1>1, <1>2, <1>3, <1>4, Steadies DEF Next

LEMMA IInvHolds == Spec => []IInv
<1>1. Init => IInv
  BY InitType, InitSafe DEF IInv
<1>2. IInv /\ [Next]_vars => IInv'
  <2> SUFFICES ASSUME IInv, [Next]_vars PROVE IInv'
    OBVIOUS
  <2>1. CASE UNCHANGED vars
    BY <2>1 DEF vars, IInv, TInv, TypeOK, ChildOK, Sound, Homed, On, Placed,
         StillbornInv, HeldInv, LoadInv, ClearInv, TableInv, KeptInv, LineInv, AgeInv,
         Entered, Holds, Live, Clearing
  <2>2. CASE Next
    <3>1. TInv'
      BY <2>2, TypeStep DEF IInv
    <3>2. ASSUME fault' = "none" PROVE Sound'
      BY <2>2, <3>2, SoundStep DEF IInv, Next
    <3> QED BY <3>1, <3>2 DEF IInv
  <2> QED BY <2>1, <2>2
<1> QED BY <1>1, <1>2, PTL DEF Spec
-----------------------------------------------------------------------------
(* The theorems.                                                           *)

\* However calls and interrupts interleave, a process runs or has one place on
\* one list: no push in process.c is of a node that a list already holds.
THEOREM OneHomeHolds == Spec => []OneHome
<1>1. IInv => OneHome
  <2> SUFFICES ASSUME IInv, fault = "none" PROVE OneHome
    BY DEF OneHome
  <2>1. TInv /\ Homed(list) /\ current \notin On(list) /\ list \in Rosters
    BY Typed DEF IInv, Sound
  <2>2. ASSUME NEW k \in Lists, NEW l \in Lists, NEW i \in DOMAIN list[k],
               NEW j \in DOMAIN list[l], list[k][i] = list[l][j]
        PROVE  k = l /\ i = j
    <3>1. list[k][i] \in Range(list[k]) /\ list[l][j] \in Range(list[l])
      BY DEF Range
    <3>2. k = l
      BY <2>1, <2>2, <3>1 DEF Homed
    <3> QED BY <2>1, <2>2, <3>2 DEF Homed, IsInjective
  <2>3. \A l \in Lists : current \notin Range(list[l])
    <3>1. \A l \in Lists : Range(list[l]) \subseteq Procs
      BY <2>1 DEF Rosters, Range
    <3> QED BY <2>1, <3>1 DEF On
  <2> QED BY <2>2, <2>3 DEF OneHome
<1> QED BY <1>1, IInvHolds, PTL

\* No freed struct process is ever on a list or on the CPU.
THEOREM OnlyAllocatedHolds == Spec => []OnlyAllocated
<1>1. IInv => OnlyAllocated
  <2> SUFFICES ASSUME IInv, fault = "none" PROVE OnlyAllocated
    BY DEF OnlyAllocated
  <2>1. Placed \subseteq allocated /\ list \in Rosters /\ current \in Procs \cup {NoProc}
    BY Typed DEF IInv, Sound
  <2>2. \A l \in Lists : Range(list[l]) \subseteq Procs
    BY <2>1 DEF Rosters, Range
  <2> QED BY <2>1, <2>2 DEF OnlyAllocated, Placed, On
<1> QED BY <1>1, IInvHolds, PTL

\* A child being loaded, or a dead process being deleted, is in one process's
\* hands, and neither a list nor the CPU can reach it.
THEOREM HeldIsDetachedHolds == Spec => []HeldIsDetached
<1>1. IInv => HeldIsDetached
  <2> SUFFICES ASSUME IInv, fault = "none", NEW c \in Procs, NEW p \in Procs, Holds(c, p)
               PROVE  /\ p \in allocated /\ Detached(p)
                      /\ \A d \in Procs : Holds(d, p) => d = c
    BY DEF HeldIsDetached
  <2>1. p \in allocated \ Placed /\ \A d \in Procs : Holds(d, p) => d = c
    BY DEF IInv, Sound, HeldInv
  <2> QED BY <2>1 DEF Detached, Listed, Placed, On
<1> QED BY <1>1, IInvHolds, PTL

\* process_table names each allocated process by its pid, and nothing else.
THEOREM TableSoundHolds == Spec => []TableSound
<1>1. IInv => TableSound
  BY DEF IInv, Sound, TableInv, TableSound, Clearing
<1> QED BY <1>1, IInvHolds, PTL

\* No process falls out of the kernel's sight: whoever is allocated runs, is on a
\* list or in a live process's hands, or the steps that drop a process say so.
THEOREM NoneLostHolds == Spec => []NoneLost
<1>1. IInv => NoneLost
  <2> SUFFICES ASSUME IInv, fault = "none", NEW p \in allocated
               PROVE  p = current \/ Listed(p) \/ lost[p] # "no" \/ \E c \in Procs : Holds(c, p)
    BY DEF NoneLost
  <2>1. p \in Placed \/ lost[p] # "no" \/ \E c \in Procs : Holds(c, p)
    BY DEF IInv, Sound, KeptInv
  <2> QED BY <2>1 DEF Placed, On, Listed
<1> QED BY <1>1, IInvHolds, PTL
-----------------------------------------------------------------------------
(* The recursion of a kill, and the dead.                                  *)

\* As long as no pid has been used twice, no process is its own descendant.
LEMMA NoCircle ==
  ASSUME TInv, Sound, ~wrapped, NEW p \in Procs
  PROVE  <<p, p>> \notin Descendants
<1> DEFINE S == {q \in Procs : Entered(q) /\ proc[p].pid < proc[q].pid}
<1>1. \A q \in Procs : proc[q].pid \in Nat
  BY Typed, ProcessAssumption DEF Process
<1>2. \A q \in Procs : Entered(q) => proc[q].ppid < proc[q].pid
  BY DEF Sound, AgeInv
<1>3. \A q \in Procs : IsChild(q, p) => q \in S
  BY <1>2 DEF IsChild
<1>4. Closed(S)
  <2> SUFFICES ASSUME NEW r \in S, NEW q \in Procs, IsChild(q, r) PROVE q \in S
    BY DEF Closed
  <2>1. Entered(q) /\ proc[r].pid < proc[q].pid
    BY <1>2 DEF IsChild
  <2> QED BY <1>1, <2>1
<1>5. p \notin S /\ S \in SUBSET Procs
  BY <1>1
<1> HIDE DEF S
<1> QED BY <1>3, <1>4, <1>5 DEF Descendants

\* Only a kill can find the recursion without an end.
LEMMA OnlyKillRecurs ==
  ASSUME Next, fault' = "recursion"
  PROVE  \E n \in Pids : process_kill(n)
BY DEF Next, Dispatch, process_yield, clock_interrupt, process_wait, process_wakeup,
       process_wakeup_all, sys_process_fork, sys_process_run, process_create, process_launch,
       run_failed, run_dropped, process_exit, process_reap, shell_wait, process_delete,
       delete_clear, sys_process_wait, wait_scan, wait_sleep, wait_timeout, GoToSleep

\* Such a kill does nothing else, and pids have been used twice.
LEMMA KillRecurs ==
  ASSUME TInv, Sound, fault = "none", NEW n \in Pids, process_kill(n), fault' = "recursion"
  PROVE  wrapped /\ UNCHANGED <<list, current, wrapped>>
<1>1. PICK below, before :
        /\ below = Descendants /\ before = Burials(below)
        /\ IF \E p \in Subtree(below, table[n]) : <<p, p>> \in below
           THEN fault' = "recursion" /\ UNCHANGED <<proc, list, current, lost>>
           ELSE process_make_dead(below, before, table[n])
  BY DEF process_kill
<1>2. ~process_make_dead(below, before, table[n])
  BY DEF process_make_dead
<1>3. PICK p \in Subtree(below, table[n]) : <<p, p>> \in Descendants
  BY <1>1, <1>2
<1>4. p \in Procs
  BY <1>3 DEF Descendants
<1>5. UNCHANGED <<list, current, wrapped>>
  BY <1>1, <1>2 DEF process_kill
<1> QED BY <1>3, <1>4, <1>5, NoCircle

\* process_make_dead follows the parent pids without remembering where it has been:
\* until a pid is used twice, they lead from each child to an older process.
THEOREM NoEndlessKillHolds == Spec => []NoEndlessKill
<1>1. Init => NoEndlessKill
  BY DEF Init, NoEndlessKill
<1>2. IInv /\ NoEndlessKill /\ [Next]_vars => NoEndlessKill'
  <2> SUFFICES ASSUME IInv, NoEndlessKill, [Next]_vars, fault' = "recursion" PROVE wrapped'
    BY DEF NoEndlessKill
  <2>1. CASE Next
    <3>1. TInv /\ Sound /\ fault = "none"
      BY <2>1 DEF IInv, Next
    <3>2. PICK n \in Pids : process_kill(n)
      BY <2>1, OnlyKillRecurs
    <3> QED BY <3>1, <3>2, KillRecurs
  <2>2. CASE UNCHANGED vars
    BY <2>2 DEF vars, NoEndlessKill
  <2> QED BY <2>1, <2>2
<1> QED BY <1>1, <1>2, IInvHolds, PTL DEF Spec

\* Nobody comes back from the grave list but into the hands of a process_delete.
LEMMA DeadStep ==
  ASSUME TInv, Sound, Next, NEW p \in Range(list["grave"])
  PROVE  /\ current' # p
         /\ \/ p \in Range(list'["grave"])
            \/ \E c \in Procs : stack'[c].call = "delete" /\ stack'[c].child = p
<1>1. /\ "grave" \in Lists /\ "ready" \in Lists /\ "grave" # "ready" /\ list["grave"] \in Seq(Procs)
      /\ fault = "none" /\ list \in Rosters
  BY Typed, ListNames DEF Rosters, Next
<1>2. p \in Procs /\ p # current
  BY <1>1, Here DEF Range
<1>3. CASE Steady
  BY <1>1, <1>2, <1>3 DEF Steady, On
<1>4. CASE current' = current /\ list'["grave"] = list["grave"]
  BY <1>2, <1>4
<1>5. CASE \E q \in Procs : sys_process_fork(q) \/ sys_process_run(q)
  BY <1>1, <1>4, <1>5 DEF sys_process_fork, sys_process_run, Push, Rosters
<1>6. CASE process_launch \/ run_dropped \/ process_delete \/ delete_clear
  BY <1>1, <1>4, <1>6 DEF process_launch, run_dropped, process_delete, delete_clear, Push, Rosters
<1>7. ASSUME NEW n \in Pids, process_kill(n)
      PROVE  current' # p /\ p \in Range(list'["grave"])
  <2>1. CASE fault' = "recursion"
    BY <1>1, <1>2, <1>7, <2>1, KillRecurs
  <2>2. CASE fault' # "recursion"
    <3>1. current' \notin On(list') /\ Range(list["grave"]) \subseteq Range(list'["grave"])
      BY <1>7, <2>2, KillMoves
    <3> QED BY <1>1, <1>2, <3>1 DEF On
  <2> QED BY <2>1, <2>2
<1>8. ASSUME NEW n \in 0 .. MaxPid - 1, process_reap(n)
      PROVE  /\ current' # p
             /\ \/ p \in Range(list'["grave"])
                \/ \E c \in Procs : stack'[c].call = "delete" /\ stack'[c].child = p
  <2>1. PICK v : /\ list' = Unlink(list, {v})
                 /\ stack' = [stack EXCEPT ![current].call = "delete", ![current].child = v]
                 /\ current \in Procs /\ current' = current
    BY <1>8, Typed DEF process_reap, Calling
  <2>2. stack'[current].call = "delete" /\ stack'[current].child = v
    BY <2>1, Typed DEF Frame
  <2>3. Range(list'["grave"]) = Range(list["grave"]) \ {v}
    BY <1>1, <2>1, UnlinkSafe
  <2> QED BY <1>2, <2>1, <2>2, <2>3
<1> QED BY <1>3, <1>5, <1>6, <1>7, <1>8, Steadies DEF Next

\* The dead stay dead until somebody deletes them, whatever step follows.
THEOREM DeadStayDeadHolds == Spec => DeadStayDead
<1>1. IInv /\ [Next]_vars =>
        [\A p \in Range(list["grave"]) :
           /\ current' # p
           /\ \/ p \in Range(list'["grave"])
              \/ \E c \in Procs : stack'[c].call = "delete" /\ stack'[c].child = p]_vars
  BY DeadStep DEF IInv, Next
<1> QED BY <1>1, IInvHolds, PTL DEF Spec, DeadStayDead
=============================================================================
