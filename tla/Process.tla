------------------------------ MODULE Process ------------------------------
(***************************************************************************)
(* The process manager of the kernel (kernel/process.c, with the process   *)
(* part of kernel/syscall_handler.c and the clock handler that drives it): *)
(* pids, the ready list, the grave list, the wait queues, and the life of  *)
(* a process from process_create to process_delete.                        *)
(*                                                                         *)
(* One CPU.  Kernel code runs with interrupts off from the system call     *)
(* gate until the first process_switch (or mutex) inside the call, and     *)
(* with interrupts on from then on.  So a call is one step as far as the   *)
(* first point where another process can run, and one more step for every  *)
(* stretch between two such points; stack[p] remembers where in a call     *)
(* process p stands.  The few instructions inside process_wait and         *)
(* list_push_tail are taken as one step here.                              *)
(***************************************************************************)
EXTENDS KList

CONSTANTS
  Procs,    \* the pages a struct process can live in (bounds page_alloc)
  NoProc,   \* the null pointer
  MaxPid,   \* PROCESS_MAX_PID
  Queues,   \* the wait queues of the other parts: clock, mutexes, pipes...
  Clock     \* the queue of clock.c

ASSUME ProcessAssumption ==
  /\ IsFiniteSet(Procs) /\ Procs # {}
  /\ NoProc \notin Procs
  /\ MaxPid \in Nat /\ MaxPid >= 2
  /\ Queues \cap {"ready", "grave", "watchers"} = {}
  /\ Clock \in Queues

VARIABLES
  table,      \* process_table
  last,       \* the static variable of process_allocate_pid
  proc,       \* the struct process in each page
  list,       \* ready_list, grave_list, grave_watcher_list, wait queues
  current,    \* the running process, NoProc while the CPU idles
  allocated,  \* the pages page_alloc has given out for a struct process
  stack,      \* where each process stands inside a kernel call
  lost,       \* history: processes the kernel has dropped, and how
  wrapped,    \* history: pids have been reused, or pid 0 given out
  fault       \* history: the kernel's structures stopped making sense

vars == <<table, last, proc, list, current, allocated, stack, lost, wrapped, fault>>

Pids  == 1 .. MaxPid - 1
Lists == {"ready", "grave", "watchers"} \cup Queues

\* process.h: the states; exitreason is "none" until the process is dead.
States  == {"CRADLE", "READY", "RUNNING", "BLOCKED", "GRAVE"}
Reasons == {"none", "normal", "killed"}

Process == [pid : 0 .. MaxPid - 1, ppid : 0 .. MaxPid - 1, state : States,
            waitingFor : 0 .. MaxPid - 1, reason : Reasons, kernel : BOOLEAN]

\* "run": its own code; "scan", "sleep", "rescan": in process_wait_child;
\* "load": in sys_process_run; "delete", "clear": in process_delete.
Calls == {"run", "scan", "sleep", "rescan", "load", "delete", "clear"}
Frame == [call : Calls, want : 0 .. MaxPid - 1, child : Procs \cup {NoProc}]

Blank   == [pid |-> 0, ppid |-> 0, state |-> "CRADLE", waitingFor |-> 0,
            reason |-> "none", kernel |-> FALSE]
Running == [call |-> "run", want |-> 0, child |-> NoProc]
----------------------------------------------------------------------------
(* The lists of list.c, as the sequence of their elements.                 *)

Push(ls, l, p) == [ls EXCEPT ![l] = Append(@, p)]

Unlink(ls, K) == [l \in Lists |-> Without(ls[l], K)]

Listed(p) == \E l \in Lists : p \in Range(list[l])

\* Held by no list and not running: being loaded, being deleted, or dropped.
Detached(p) == p # current /\ ~Listed(p)
----------------------------------------------------------------------------
(* process_switch: leave the CPU in newstate and run the head of the ready *)
(* list; with an empty list the CPU idles until Dispatch.  pr and ls are   *)
(* the processes and lists as the caller leaves them.                      *)

Resume(pr, ls) ==
  IF ls["ready"] = <<>>
  THEN current' = NoProc /\ proc' = pr /\ list' = ls
  ELSE LET next == Head(ls["ready"])
       IN  /\ current' = next
           /\ proc' = [pr EXCEPT ![next].state = "RUNNING"]
           /\ list' = [ls EXCEPT !["ready"] = Tail(@)]

process_switch(newstate, pr, ls) ==
  Resume([pr EXCEPT ![current].state = newstate],
         CASE newstate = "READY" -> Push(ls, "ready", current)
           [] newstate = "GRAVE" -> Push(ls, "grave", current)
           [] newstate = "BLOCKED" -> ls)

\* The idle loop of process_switch finds a process that an interrupt woke.
Dispatch ==
  /\ current = NoProc
  /\ list["ready"] # <<>>
  /\ Resume(proc, list)
  /\ UNCHANGED <<table, last, allocated, stack, lost, wrapped, fault>>

\* The current process is at the top of its own code and makes a call.
Calling == current # NoProc /\ stack[current].call = "run"

process_yield ==
  /\ current # NoProc
  /\ process_switch("READY", proc, list)
  /\ UNCHANGED <<table, last, allocated, stack, lost, wrapped, fault>>

\* process_wait: the caller (a mutex, a pipe, the clock, the load of a
\* program that waits for the disk, ...) blocks the current process on q.
process_wait(q) ==
  /\ current # NoProc
  /\ stack[current].call \in {"run", "load", "delete"}
  /\ process_switch("BLOCKED", proc, Push(list, q, current))
  /\ UNCHANGED <<table, last, allocated, stack, lost, wrapped, fault>>

Wake(pr, P) == [p \in Procs |-> IF p \in P THEN [pr[p] EXCEPT !.state = "READY"]
                                            ELSE pr[p]]

\* Mutant: the woken process is not put on the ready list.
process_wakeup_drops(q) ==
  /\ list[q] # <<>>
  /\ proc' = Wake(proc, {Head(list[q])})
  /\ list' = [list EXCEPT ![q] = Tail(@)]
  /\ UNCHANGED <<table, last, current, allocated, stack, lost, wrapped, fault>>

process_wakeup(q) ==
  /\ list[q] # <<>>
  /\ proc' = Wake(proc, {Head(list[q])})
  /\ list' = [list EXCEPT ![q] = Tail(@), !["ready"] = Append(@, Head(list[q]))]
  /\ UNCHANGED <<table, last, current, allocated, stack, lost, wrapped, fault>>

WokenAll(ls, q) == [ls EXCEPT ![q] = <<>>, !["ready"] = @ \o ls[q]]

process_wakeup_all(q) ==
  /\ list[q] # <<>>
  /\ proc' = Wake(proc, Range(list[q]))
  /\ list' = WokenAll(list, q)
  /\ UNCHANGED <<table, last, current, allocated, stack, lost, wrapped, fault>>

\* clock_interrupt: wake the sleepers; on a whole second also process_preempt,
\* which switches only if somebody else is ready.
clock_interrupt ==
  /\ \E second \in BOOLEAN :
       LET pr == Wake(proc, Range(list[Clock]))
           ls == WokenAll(list, Clock)
       IN  IF second /\ current # NoProc /\ ls["ready"] # <<>>
           THEN process_switch("READY", pr, ls)
           ELSE proc' = pr /\ list' = ls /\ UNCHANGED current
  /\ UNCHANGED <<table, last, allocated, stack, lost, wrapped, fault>>
----------------------------------------------------------------------------
(* Birth: process_create, used by fork and run.                            *)

\* Mutant: the answer of a failed search is -1 instead of 0.
process_allocate_pid_minus ==
  LET Free(S) == {i \in S : table[i] = NoProc}
      above   == Free(last + 1 .. MaxPid - 1)
      below   == Free(1 .. last - 1)
  IN  IF above # {} THEN Min(above) ELSE IF below # {} THEN Min(below) ELSE -1

\* process_allocate_pid searches upward from last, then from 1 to last - 1;
\* it never looks at last itself, and answers 0 when it has found nothing.
process_allocate_pid ==
  LET Free(S) == {i \in S : table[i] = NoProc}
      above   == Free(last + 1 .. MaxPid - 1)
      below   == Free(1 .. last - 1)
  IN  IF above # {} THEN Min(above) ELSE IF below # {} THEN Min(below) ELSE 0

\* Mutant: the child inherits its own pid for its parent's.
Born_own(n, parent) == [Blank EXCEPT !.pid = n, !.ppid = n, !.state = "RUNNING"]

\* process_create in the free page p, for parent's child; nobody checks that
\* the pid is not 0.  A page that a process_delete still in progress has freed
\* makes that process_delete clear the table entry of its new owner.
Born(n, parent) == [Blank EXCEPT !.pid = n, !.ppid = parent, !.state = "RUNNING"]

process_create(p) ==
  LET n == process_allocate_pid
  IN  /\ p \in Procs \ allocated
      /\ allocated' = allocated \cup {p}
      /\ table' = [table EXCEPT ![n] = p]
      /\ last' = IF n = 0 THEN last ELSE n
      /\ wrapped' = (wrapped \/ n <= last)
      /\ lost' = [lost EXCEPT ![p] = "no"]
      /\ fault' = IF \E q \in allocated : stack[q].call = "clear" /\ stack[q].child = p
                  THEN "reuse" ELSE fault

\* sys_process_fork: the copy shares nothing here but its parent's pid.
sys_process_fork(p) ==
  /\ Calling
  /\ process_create(p)
  /\ proc' = [proc EXCEPT ![p] = Born(process_allocate_pid, proc[current].pid)]
  /\ list' = Push(list, "ready", p)
  /\ stack' = [stack EXCEPT ![p] = Running]
  /\ UNCHANGED current

\* Mutant: the child is ready before its image is loaded.
sys_process_run_early(p) ==
  /\ Calling
  /\ process_create(p)
  /\ proc' = [proc EXCEPT ![p] = Born(process_allocate_pid, proc[current].pid)]
  /\ list' = Push(list, "ready", p)
  /\ stack' = [stack EXCEPT ![p] = Running,
                            ![current].call = "load", ![current].child = p]
  /\ UNCHANGED current

\* sys_process_run (and wrun): the child exists, in the table, while its image
\* is read from the disk in the parent's context ...
sys_process_run(p) ==
  /\ Calling
  /\ process_create(p)
  /\ proc' = [proc EXCEPT ![p] = Born(process_allocate_pid, proc[current].pid)]
  /\ stack' = [stack EXCEPT ![p] = Running,
                            ![current].call = "load", ![current].child = p]
  /\ UNCHANGED <<list, current>>

Loading == current # NoProc /\ stack[current].call = "load"

\* ... and is launched when elf_load has succeeded, ...
process_launch ==
  /\ Loading
  /\ LET c == stack[current].child
     IN  /\ proc' = [proc EXCEPT ![c].state = "CRADLE"]
         /\ list' = Push(list, "ready", c)
  /\ stack' = [stack EXCEPT ![current] = Running]
  /\ UNCHANGED <<table, last, current, allocated, lost, wrapped, fault>>

\* ... deleted when elf_load has failed with KERROR_EXECUTION_FAILED, ...
run_failed ==
  /\ Loading
  /\ stack' = [stack EXCEPT ![current].call = "delete"]
  /\ UNCHANGED <<table, last, proc, list, current, allocated, lost, wrapped, fault>>

\* ... and forgotten when it has failed with any other error.
run_dropped ==
  /\ Loading
  /\ stack' = [stack EXCEPT ![current] = Running]
  /\ lost' = [lost EXCEPT ![stack[current].child] = "stillborn"]
  /\ UNCHANGED <<table, last, proc, list, current, allocated, wrapped, fault>>
----------------------------------------------------------------------------
(* Death: exit, kill, reap, delete.                                        *)

\* process_wakeup_parent: the first process on the watcher list that is the
\* parent of the current one and waits for it, or for any child.
WatchersOf(p) ==
  {i \in DOMAIN list["watchers"] :
     LET w == proc[list["watchers"][i]]
     IN  w.pid = proc[p].ppid /\ w.waitingFor \in {0, proc[p].pid}}

\* Mutant: the parent is not taken off the watcher list when it is woken.
process_exit_twice ==
  /\ Calling
  /\ LET pr == [proc EXCEPT ![current].reason = "normal"]
         ws == WatchersOf(current)
     IN  IF ws = {}
         THEN process_switch("GRAVE", pr, list)
         ELSE LET w == list["watchers"][Min(ws)]
              IN  process_switch("GRAVE",
                    [pr EXCEPT ![w].state = "READY", ![w].waitingFor = 0],
                    Push(list, "ready", w))
  /\ UNCHANGED <<table, last, allocated, stack, lost, wrapped, fault>>

process_exit ==
  /\ Calling
  /\ LET pr == [proc EXCEPT ![current].reason = "normal"]
         ws == WatchersOf(current)
     IN  IF ws = {}
         THEN process_switch("GRAVE", pr, list)
         ELSE LET w  == list["watchers"][Min(ws)]
                  ls == Push(Unlink(list, {w}), "ready", w)
              IN  process_switch("GRAVE",
                    [pr EXCEPT ![w].state = "READY", ![w].waitingFor = 0], ls)
  /\ UNCHANGED <<table, last, allocated, stack, lost, wrapped, fault>>

Entered(q) == \E i \in 0 .. MaxPid - 1 : table[i] = q

\* process_table has an entry for q that names p as the parent.
IsChild(q, p) == proc[q].ppid = proc[p].pid /\ Entered(q)

Closed(S) == \A p \in S, q \in Procs \ S : ~IsChild(q, p)

\* <<p, q>>: the recursion of process_make_dead reaches q from p; q is in every
\* set that holds the children of p and, with a process, its children.
Descendants ==
  {d \in Procs \X Procs :
     \A S \in SUBSET Procs :
       (\A q \in Procs : IsChild(q, d[1]) => q \in S) /\ Closed(S) => d[2] \in S}

Subtree(below, p) == {p} \cup {q \in Procs : <<p, q>> \in below}

\* <<q, r>>: q is buried before r.  Depth first, children in the order of their
\* pids, every process after its children (below is Descendants).
Burials(below) ==
  LET within   == below \cup {<<p, p>> : p \in Procs}
      siblings == {e \in Procs \X Procs : /\ proc[e[1]].ppid = proc[e[2]].ppid
                                          /\ proc[e[1]].pid < proc[e[2]].pid}
  IN  {e \in Procs \X Procs :
         \/ <<e[2], e[1]>> \in below
         \/ \E s \in siblings : <<s[1], e[1]>> \in within /\ <<s[2], e[2]>> \in within}

Orders(before, K) ==
  {s \in [1 .. Cardinality(K) -> K] :
     \A i, j \in DOMAIN s : i < j => s[i] # s[j] /\ <<s[i], s[j]>> \in before}

\* What q has in hand is nobody's when q is killed: the process it deletes, or a
\* child of pid 0 whose table entry has gone to the next process of pid 0.  (A
\* child that the table still names is buried with q, from no list.)
Leaves(q, p) == stack[q].child = p /\ \/ stack[q].call = "delete"
                                      \/ stack[q].call = "load" /\ ~Entered(p)

\* process_make_dead(dead) when the recursion ends: every victim moves to the
\* grave list.  The walk stops when it has buried the current process, which
\* never comes back to bury the rest.
process_make_dead(below, before, dead) ==
  LET reached == Subtree(below, dead)
      suicide == current \in reached
      killed  == IF suicide
                 THEN {current} \cup {q \in reached : <<q, current>> \in before}
                 ELSE reached
      victims == killed \ {current}
      pr == [p \in Procs |-> IF p \in killed THEN [proc[p] EXCEPT !.reason = "killed"]
                                              ELSE proc[p]]
  IN  \E order \in Orders(before, victims) :
        LET ls == [Unlink(list, victims) EXCEPT !["grave"] = @ \o order]
        IN  /\ IF suicide THEN process_switch("GRAVE", pr, ls)
               ELSE proc' = pr /\ list' = ls /\ UNCHANGED current
            /\ lost' = [p \in Procs |->
                 IF \E q \in victims : Leaves(q, p)
                 THEN "abandoned" ELSE IF p \in victims THEN "no" ELSE lost[p]]
            /\ fault' = IF \E q \in victims : Detached(q) /\ lost[q] # "stillborn"
                        THEN "kill_detached"
                        ELSE IF \E q \in victims : stack[q].call = "clear"
                        THEN "kill_clearing" ELSE fault

\* process_kill.  When pids have been reused the parent links can close into a
\* circle, and the recursion does not end.  (below and before are computed once.)
process_kill(n) ==
  /\ Calling
  /\ table[n] # NoProc
  /\ \E below \in {Descendants} : \E before \in {Burials(below)} :
       IF \E p \in Subtree(below, table[n]) : <<p, p>> \in below
       THEN fault' = "recursion" /\ UNCHANGED <<proc, list, current, lost>>
       ELSE process_make_dead(below, before, table[n])
  /\ UNCHANGED <<table, last, allocated, stack, wrapped>>

\* Mutant: the reaped process stays on the grave list.
process_reap_keeps(n) ==
  /\ Calling
  /\ LET found == {i \in DOMAIN list["grave"] : proc[list["grave"][i]].pid = n}
     IN  /\ found # {}
         /\ stack' = [stack EXCEPT ![current].call = "delete",
                                   ![current].child = list["grave"][Min(found)]]
  /\ UNCHANGED <<table, last, proc, list, current, allocated, lost, wrapped, fault>>

\* process_reap: anybody may take any process out of the grave list ...
process_reap(n) ==
  /\ Calling
  /\ LET found == {i \in DOMAIN list["grave"] : proc[list["grave"][i]].pid = n}
     IN  /\ found # {}
         /\ LET p == list["grave"][Min(found)]
            IN  /\ list' = Unlink(list, {p})
                /\ stack' = [stack EXCEPT ![current].call = "delete",
                                          ![current].child = p]
  /\ UNCHANGED <<table, last, proc, current, allocated, lost, wrapped, fault>>

\* ... and process_delete it: close its objects, free its pages, ...
process_delete ==
  /\ current # NoProc
  /\ stack[current].call = "delete"
  /\ allocated' = allocated \ {stack[current].child}
  /\ stack' = [stack EXCEPT ![current].call = "clear",
                            ![stack[current].child] = Running]
  /\ UNCHANGED <<table, last, proc, list, current, lost, wrapped, fault>>

\* Mutant: the table entry is left behind.
delete_clear_keeps ==
  /\ current # NoProc
  /\ stack[current].call = "clear"
  /\ proc' = [proc EXCEPT ![stack[current].child] = Blank]
  /\ stack' = [stack EXCEPT ![current] = Running]
  /\ UNCHANGED <<table, last, list, current, allocated, lost, wrapped, fault>>

\* ... and last, reading the pid from the page just freed, clear the table.
\* (Nothing reads the page from here to the process_create that clears it.)
delete_clear ==
  /\ current # NoProc
  /\ stack[current].call = "clear"
  /\ LET p == stack[current].child
     IN  /\ table' = [table EXCEPT ![proc[p].pid] = NoProc]
         /\ proc' = [proc EXCEPT ![p] = Blank]
  /\ stack' = [stack EXCEPT ![current] = Running]
  /\ UNCHANGED <<last, list, current, allocated, lost, wrapped, fault>>
----------------------------------------------------------------------------
(* process_wait_child: scan the grave list, sleep on the watcher list if   *)
(* there is nothing, and again.  The scan accepts the process asked for    *)
(* and any child of the caller.                                            *)

Found(p, n) ==
  {i \in DOMAIN list["grave"] :
     LET d == proc[list["grave"][i]] IN (n # 0 /\ d.pid = n) \/ d.ppid = proc[p].pid}

GoToSleep(n) ==
  /\ process_switch("BLOCKED", [proc EXCEPT ![current].waitingFor = n],
                    Push(list, "watchers", current))
  /\ stack' = [stack EXCEPT ![current] = [call |-> "rescan", want |-> n, child |-> NoProc]]
  /\ UNCHANGED <<table, last, allocated, lost, wrapped, fault>>

\* sys_process_wait enters with interrupts off: nothing comes between the
\* first scan and the sleep.  (With something found it returns at once.)
sys_process_wait ==
  /\ Calling /\ ~proc[current].kernel
  /\ Found(current, 0) = {}
  /\ GoToSleep(0)

\* The kernel shell calls process_wait_child with interrupts on.
shell_wait(n) ==
  /\ Calling /\ proc[current].kernel
  /\ stack' = [stack EXCEPT ![current] = [call |-> "scan", want |-> n, child |-> NoProc]]
  /\ UNCHANGED <<table, last, proc, list, current, allocated, lost, wrapped, fault>>

\* Mutant: the scan also takes the child it has found off the grave list.
wait_scan_takes ==
  /\ current # NoProc /\ stack[current].call \in {"scan", "rescan"}
  /\ LET found == Found(current, stack[current].want)
     IN  IF found # {}
         THEN /\ stack' = [stack EXCEPT ![current] = Running]
              /\ list' = Unlink(list, {list["grave"][Min(found)]})
         ELSE /\ stack' = [stack EXCEPT ![current].call = "sleep"]
              /\ UNCHANGED list
  /\ UNCHANGED <<table, last, proc, current, allocated, lost, wrapped, fault>>

wait_scan ==
  /\ current # NoProc /\ stack[current].call \in {"scan", "rescan"}
  /\ stack' = IF Found(current, stack[current].want) # {}
              THEN [stack EXCEPT ![current] = Running]
              ELSE [stack EXCEPT ![current].call = "sleep"]
  /\ UNCHANGED <<table, last, proc, list, current, allocated, lost, wrapped, fault>>

wait_sleep ==
  /\ current # NoProc /\ stack[current].call = "sleep"
  /\ GoToSleep(stack[current].want)

\* Woken after the timeout: the call answers 0 without another scan.
wait_timeout ==
  /\ current # NoProc /\ stack[current].call = "rescan"
  /\ stack' = [stack EXCEPT ![current] = Running]
  /\ UNCHANGED <<table, last, proc, list, current, allocated, lost, wrapped, fault>>
----------------------------------------------------------------------------
\* process_init: the process of kernel_main, which becomes the kernel shell.
Init ==
  \E k \in Procs :
    /\ table = [i \in 0 .. MaxPid - 1 |-> IF i = 1 THEN k ELSE NoProc]
    /\ last = 1
    /\ proc = [p \in Procs |-> IF p = k
         THEN [Blank EXCEPT !.pid = 1, !.state = "READY", !.kernel = TRUE] ELSE Blank]
    /\ list = [l \in Lists |-> <<>>]
    /\ current = k
    /\ allocated = {k}
    /\ stack = [p \in Procs |-> Running]
    /\ lost = [p \in Procs |-> "no"]
    /\ wrapped = FALSE
    /\ fault = "none"

Next ==
  /\ fault = "none"
  /\ \/ Dispatch
     \/ process_yield
     \/ clock_interrupt
     \/ \E q \in Queues : process_wait(q) \/ process_wakeup(q) \/ process_wakeup_all(q)
     \/ \E p \in Procs : sys_process_fork(p) \/ sys_process_run(p)
     \/ process_launch \/ run_failed \/ run_dropped
     \/ process_exit
     \/ \E n \in Pids : process_kill(n)
     \/ \E n \in 0 .. MaxPid - 1 : process_reap(n) \/ shell_wait(n)
     \/ process_delete \/ delete_clear
     \/ sys_process_wait \/ wait_scan \/ wait_sleep \/ wait_timeout

Spec == Init /\ [][Next]_vars
-----------------------------------------------------------------------------
(* Properties.                                                             *)

TypeOK ==
  /\ table \in [0 .. MaxPid - 1 -> Procs \cup {NoProc}]
  /\ last \in Pids
  /\ proc \in [Procs -> Process]
  /\ list \in [Lists -> Seq(Procs)]
  /\ current \in Procs \cup {NoProc}
  /\ allocated \in SUBSET Procs
  /\ stack \in [Procs -> Frame]
  /\ lost \in [Procs -> {"no", "stillborn", "abandoned"}]
  /\ wrapped \in BOOLEAN
  /\ fault \in {"none", "kill_detached", "kill_clearing", "recursion", "reuse"}

\* A struct process has one list node: every push in process.c, syscall or
\* interrupt, is of a node that no list holds.  So a process is running or has
\* one place on one list, never two.
OneHome ==
  fault = "none" =>
    /\ \A k, l \in Lists : \A i \in DOMAIN list[k], j \in DOMAIN list[l] :
         list[k][i] = list[l][j] => k = l /\ i = j
    /\ \A l \in Lists : current \notin Range(list[l])

\* Every list and the CPU hold only pages that are allocated: no freed struct
\* process is ever scheduled, woken or reaped.
OnlyAllocated ==
  fault = "none" =>
    /\ current \in allocated \cup {NoProc}
    /\ \A l \in Lists : Range(list[l]) \subseteq allocated

\* The live process c is inside sys_process_run or process_delete for p.
Live(c) == c = current \/ \E l \in Lists \ {"grave"} : c \in Range(list[l])

Holds(c, p) == Live(c) /\ stack[c].call \in {"load", "delete"} /\ stack[c].child = p

\* A child being loaded or a dead process being deleted is out of everybody
\* else's reach: allocated, on no list, and held by one process only.
HeldIsDetached ==
  fault = "none" =>
    \A c, p \in Procs : Holds(c, p) =>
      /\ p \in allocated /\ Detached(p)
      /\ \A d \in Procs : Holds(d, p) => d = c

\* No process falls out of the kernel's sight: it runs, is on a list, or is in
\* the hands of a live process, unless sys_process_run returned an error
\* without deleting it or a kill has left it behind (kept in lost).
NoneLost ==
  fault = "none" =>
    \A p \in allocated :
      p = current \/ Listed(p) \/ lost[p] # "no" \/ \E c \in Procs : Holds(c, p)

\* process_table names every process by its pid, and names nothing else: a kill
\* or wait by pid reaches the process that has the pid.  (Pid 0 is shared.)
TableSound ==
  fault = "none" =>
    /\ \A p \in allocated : proc[p].pid # 0 => table[proc[p].pid] = p
    /\ \A i \in 0 .. MaxPid - 1 : table[i] # NoProc =>
         /\ proc[table[i]].pid = i
         /\ table[i] \in allocated \/ \E c \in Procs : stack[c].call = "clear"
                                                   /\ stack[c].child = table[i]

\* process_make_dead follows the parent pids without remembering where it has
\* been.  It cannot run in a circle as long as no pid has been used twice.
NoEndlessKill == fault = "recursion" => wrapped

\* A process on the grave list never runs again, and leaves the list only into
\* the hands of the process that deletes it.
DeadStayDead ==
  [][\A p \in Range(list["grave"]) :
       /\ current' # p
       /\ \/ p \in Range(list'["grave"])
          \/ \E c \in Procs : stack'[c].call = "delete" /\ stack'[c].child = p]_vars

\* process.c:323, "On exit, wake up parent if need be": no parent sleeps for a
\* child that has already exited.
NoMissedExit ==
  \A w \in Range(list["watchers"]), d \in Range(list["grave"]) :
    proc[d].reason = "normal" /\ proc[d].ppid = proc[w].pid =>
      proc[w].waitingFor \notin {0, proc[d].pid}

\* README.md:275: once a process has been deleted, the next process created
\* gets its pid.
FreedPidIsNext ==
  [][\A p \in allocated' \ allocated :
       (\E i \in 1 .. last : table[i] = NoProc) => proc'[p].pid \in 1 .. last]_vars

\* process.c:80, "Valid pids start at 1": a new process gets an invalid one (0)
\* only when every valid one is taken.
NoPidWasted ==
  [][\A p \in allocated' \ allocated :
       proc'[p].pid = 0 => \A i \in Pids : table[i] # NoProc]_vars
=============================================================================
