------------------------------- MODULE Paging -------------------------------
(***************************************************************************)
(* The physical pages (kernel/page.c) and the address spaces made of them: *)
(* kernel/pagetable.c, the sizes in kernel/process.c, the loads of         *)
(* kernel/elf.c behind run and exec, fork and heap of                      *)
(* kernel/syscall_handler.c, and the page fault of kernel/interrupt.c.     *)
(*                                                                         *)
(* A system call runs with interrupts off until it first waits for the     *)
(* disk, which the loads do; the kernel shell always runs with them on.    *)
(* So a call is one action up to the wait, except that page_alloc may be   *)
(* preempted, in the shell and after a wait, between the test of a free    *)
(* bit and its change: Pick is the part of an allocation before that.      *)
(*                                                                         *)
(* Sizes are in pages.  Which of the frames that one call gets it uses for *)
(* what is not told apart; frames that come and go together are one: those *)
(* of struct process and the kernel stack, and those of the page directory *)
(* and the tables for the kernel.                                          *)
(***************************************************************************)
EXTENDS Integers, Sequences, FiniteSetsExt, Functions

CONSTANTS
  Processes,
  Shell,      \* the kernel shell, the first process
  NFrames,    \* the pages of freemap
  MaxData,    \* bound: the largest data size of a program
  MaxCalls,   \* bound: the calls and faults that allocate or free
  MaxWrites,  \* bound: the writes of user programs
  Written     \* bound: the pages they are to

InitialPages == 2   \* data and stack pages of process_create

ASSUME PagingAssumption ==
  /\ Shell \in Processes /\ "unmapped" \notin Processes /\ NFrames \in Nat /\ MaxData \in Nat \ {0, 1}
  /\ MaxCalls \in Nat /\ MaxWrites \in Nat

VARIABLES
  freemap, pages_free,
  content,   \* of each frame: "zero", from a file, written by a process, "stale"
  space,     \* the page table of each process, with its tables and pages
  proc,      \* struct process: its frame, page table and sizes
  state,     \* "none", "made" by process_create, "live", "grave"
  job,       \* the load a process is in: of which process, and how far
  picked,    \* the page an interrupted page_alloc has found free
  calls, writes,
  raced,     \* history: a page was found free and given to two
  torn       \* history: a kill left a load half done

memory == <<freemap, pages_free, content, space, picked, raced>>
pagingVars == <<memory, proc, state, job, calls, writes, torn>>

Frames  == 1 .. NFrames
NoFrame == 0

\* The user's pages: data_size_set can go to DataTop, the stack ends at Top.
DataTop == 2 * MaxData
Top     == DataTop + InitialPages
V       == 0 .. Top - 1
Slot(v) == IF v < DataTop THEN 1 ELSE 2   \* the second-level table of a page
Stack(size) == Top - size .. Top - 1

NoSpace   == [directory |-> NoFrame, table |-> [i \in 1 .. 2 |-> NoFrame], map |-> [v \in V |-> NoFrame]]
NoProcess == [self |-> NoFrame, pagetable |-> Shell, data |-> 0, stack |-> 0]
NoJob     == [child |-> Shell, stage |-> "none"]

-----------------------------------------------------------------------------
(* Frames. *)

Rank(x, S)   == Cardinality({y \in S : y <= x})
Lowest(S, n) == [i \in 1 .. n |-> CHOOSE f \in S : Rank(f, S) = i]

\* Enough is left for n calls of page_alloc, which otherwise halts.
Enough(S, n) == n < Cardinality(S)

\* What n calls of page_alloc by p return.
Allocated(p, n) ==
  IF picked[p] = NoFrame THEN Lowest(freemap, n)
  ELSE <<picked[p]>> \o Lowest(freemap \ {picked[p]}, n - 1)

\* Their effect; and that of the calls of page_free before and after.
page_alloc(p, F) ==
  /\ picked' = [picked EXCEPT ![p] = NoFrame]
  /\ freemap' = freemap \ Range(F)
  /\ pages_free' = pages_free - Len(F)
  /\ raced' = (raced \/ (picked[p] # NoFrame /\ picked[p] \notin freemap))

\* Mutant: page_free forgets to count.
page_free_uncounted(fs) ==
  /\ freemap' = freemap \cup fs
  /\ UNCHANGED <<pages_free, picked, raced>>

page_free(fs) ==
  /\ freemap' = freemap \cup fs
  /\ pages_free' = pages_free + Cardinality(fs)
  /\ UNCHANGED <<picked, raced>>

-----------------------------------------------------------------------------
(* Page tables. *)

Missing(sp, vs) == {v \in vs : sp.map[v] = NoFrame}
NoTable(sp, vs) == {Slot(v) : v \in Missing(sp, vs)} \cap {i \in 1 .. 2 : sp.table[i] = NoFrame}

\* The number of page_alloc calls of pagetable_alloc, and what it makes of them.
Wanted(sp, vs) == Cardinality(Missing(sp, vs)) + Cardinality(NoTable(sp, vs))
pagetable_alloc(sp, vs, F) ==
  LET pages == Missing(sp, vs)   tables == NoTable(sp, vs)
  IN [sp EXCEPT !.map = [v \in V |-> IF v \in pages THEN F[Rank(v, pages)] ELSE @[v]],
                !.table = [i \in 1 .. 2 |-> IF i \in tables
                             THEN F[Cardinality(pages) + Rank(i, tables)] ELSE @[i]]]

Mapped(sp, vs) == {sp.map[v] : v \in vs} \ {NoFrame}

\* pagetable_free; the tables stay.
pagetable_free(sp, vs) == [sp EXCEPT !.map = [v \in V |-> IF v \in vs THEN NoFrame ELSE @[v]]]

\* Mutant: pagetable_delete forgets the second-level tables of the user.
delete_shallow(sp) == Mapped(sp, V) \cup {sp.directory}

\* What pagetable_delete frees.
pagetable_delete(sp) ==
  (Mapped(sp, V) \cup Range(sp.table) \cup {sp.directory}) \ {NoFrame}

\* Mutant: pagetable_duplicate maps the pages of the original.
duplicate_shared(sp, F) ==
  LET extra == {i \in 1 .. 2 : sp.table[i] # NoFrame}
  IN [directory |-> F[1], map |-> sp.map,
      table |-> [i \in 1 .. 2 |-> IF i \in extra THEN F[1 + Rank(i, extra)] ELSE NoFrame]]

\* pagetable_duplicate (a second-level table without pages is copied too).
pagetable_duplicate(sp, F) ==
  LET vs    == {v \in V : sp.map[v] # NoFrame}
      extra == {i \in 1 .. 2 : sp.table[i] # NoFrame}
  IN [directory |-> F[1],
      map   |-> [v \in V |-> IF v \in vs THEN F[1 + Rank(v, vs)] ELSE NoFrame],
      table |-> [i \in 1 .. 2 |-> IF i \in extra THEN F[1 + Cardinality(vs) + Rank(i, extra)]
                                  ELSE NoFrame]]

\* Mutant: the page that page_alloc found is not cleared.
Content_uncleared(c, text) ==
  [f \in Frames |-> IF f \in freemap' THEN "stale"
                    ELSE IF f \in text THEN "text" ELSE content[f]]

\* What is in the frames when c has got the pages of space': pages are mapped
\* with PAGE_FLAG_CLEAR; text are those filled from the program file.  What is
\* in a free frame is not told apart.
Content(c, text) ==
  LET gained == Mapped(space'[c], V) \ Mapped(space[c], V)
  IN [f \in Frames |-> IF f \in freemap' THEN "stale"
                       ELSE IF f \in text THEN "text"
                       ELSE IF f \in gained THEN "zero" ELSE content[f]]

-----------------------------------------------------------------------------
(* Processes. *)

Idle(p) == state[p] = "live" /\ job[p] = NoJob

\* process_create for c: two frames, and the pages of its data and stack.
Initial == 0 .. InitialPages - 1 \cup Stack(InitialPages)
Created == 2 + Wanted(NoSpace, Initial)
ASSUME BootAssumption == Enough(Frames, Created)   \* the kernel halts otherwise
NewSpace(F) ==
  pagetable_alloc([NoSpace EXCEPT !.directory = F[2]], Initial, SubSeq(F, 3, Len(F)))
NewProc(c, F) ==
  [self |-> F[1], pagetable |-> c, data |-> InitialPages, stack |-> InitialPages]

Counts == calls < MaxCalls /\ calls' = calls + 1

\* page_alloc is preempted: only with interrupts on, and for a call that
\* allocates.
Pick(p) ==
  /\ job[p].stage = "begun" \/ (p = Shell /\ job[p].stage = "none")
  /\ state[p] = "live" /\ picked[p] = NoFrame
  /\ picked' = [picked EXCEPT ![p] = Min(freemap)]
  /\ UNCHANGED <<freemap, pages_free, content, space, raced, proc, state, job, calls, writes, torn>>

\* sys_process_run up to the first read of elf_load: p now uses c's page table.
run_begin(p, c) ==
  /\ Counts /\ Idle(p) /\ state[c] = "none"
  /\ Enough(freemap, Created)
  /\ LET F == Allocated(p, Created) IN
       /\ page_alloc(p, F)
       /\ space' = [space EXCEPT ![c] = NewSpace(F)]
       /\ content' = Content(c, {})
       /\ proc' = [proc EXCEPT ![c] = NewProc(c, F), ![p].pagetable = c]
  /\ state' = [state EXCEPT ![c] = "made"]
  /\ job' = [job EXCEPT ![p] = [child |-> c, stage |-> "begun"]]
  /\ UNCHANGED <<writes, torn>>

\* sys_process_exec up to there.
exec_begin(p) ==
  /\ Counts /\ Idle(p) /\ p # Shell
  /\ job' = [job EXCEPT ![p] = [child |-> p, stage |-> "begun"]]
  /\ UNCHANGED <<memory, proc, state, writes, torn>>

\* process_data_size_set, a larger size: the length given to pagetable_alloc is
\* the new size and not the difference.
grow(p, c, size) ==
  LET old == proc[c].data
      vs  == old .. old + size - 1
      n   == Wanted(space[c], vs)
      F   == Allocated(p, n)
  IN /\ size > old /\ old + size <= DataTop
     /\ Enough(freemap, n) /\ (picked[p] # NoFrame => n > 0)
     /\ page_alloc(p, F)
     /\ space' = [space EXCEPT ![c] = pagetable_alloc(@, vs, F)]

\* A smaller size: the length given to pagetable_free is the old size.
shrink(c, size) ==
  LET old == proc[c].data
      vs  == size .. size + old - 1
  IN /\ size < old /\ size + old <= DataTop
     /\ page_free(Mapped(space[c], vs))
     /\ space' = [space EXCEPT ![c] = pagetable_free(@, vs)]

keep(p, c, size) ==
  /\ size = proc[c].data /\ picked[p] = NoFrame
  /\ UNCHANGED <<freemap, pages_free, space, picked, raced>>

process_data_size_set(p, c, size) ==
  /\ grow(p, c, size) \/ (picked[p] = NoFrame /\ shrink(c, size)) \/ keep(p, c, size)
  /\ proc' = [proc EXCEPT ![c].data = size]

sys_process_heap(p) ==
  /\ Counts /\ Idle(p) /\ p # Shell
  /\ \E size \in 1 .. MaxData : process_data_size_set(p, p, size)
  /\ content' = Content(p, {})
  /\ UNCHANGED <<state, job, writes, torn>>
\* elf_load has read the headers: it sizes the data and fills it.  (Its further
\* sections may enlarge it once more, with the same two calls.)
elf_load(p) ==
  LET c == job[p].child
  IN /\ state[p] = "live" /\ job[p].stage = "begun"
     /\ \E size \in 1 .. MaxData :
          /\ process_data_size_set(p, c, size)
          /\ content' = Content(c, Mapped(space'[c], 0 .. size - 1))
     /\ job' = [job EXCEPT ![p].stage = "loaded"]
     /\ UNCHANGED <<state, calls, writes, torn>>

\* What process_delete frees.
Frees(c) == pagetable_delete(space[proc[c].pagetable]) \cup {proc[c].self}

\* Both calls after a load that succeeded: process_stack_reset to one page, and
\* the arguments in it; then run launches the child.
load_end(p) ==
  LET c    == job[p].child
      gone == Stack(proc[c].stack) \ Stack(1)
  IN /\ state[p] = "live" /\ job[p].stage = "loaded"
     /\ page_free(Mapped(space[c], gone))
     /\ space' = [space EXCEPT ![c] = pagetable_free(@, gone)]
     /\ content' = Content(c, Mapped(space'[c], Stack(1)))
     /\ proc' = [proc EXCEPT ![p].pagetable = p, ![c].stack = 1]
     /\ state' = [state EXCEPT ![c] = "live"]
     /\ job' = [job EXCEPT ![p] = NoJob]
     /\ UNCHANGED <<calls, writes, torn>>

\* The file is not a program: run leaves the child behind, exec returns.
load_refused(p) ==
  /\ state[p] = "live" /\ job[p].stage = "begun" /\ picked[p] = NoFrame
  /\ proc' = [proc EXCEPT ![p].pagetable = p]
  /\ job' = [job EXCEPT ![p] = NoJob]
  /\ UNCHANGED <<memory, state, calls, writes, torn>>

\* The file could not be read: run deletes the child, exec kills itself.
load_failed(p) ==
  LET c == job[p].child
  IN /\ state[p] = "live" /\ job[p].stage = "loaded"
     /\ job' = [job EXCEPT ![p] = NoJob]
     /\ IF c = p
        THEN /\ state' = [state EXCEPT ![c] = "grave"]
             /\ UNCHANGED <<memory, proc>>
        ELSE /\ state' = [state EXCEPT ![c] = "none"]
             /\ page_free(Frees(c))
             /\ space' = [space EXCEPT ![c] = NoSpace]
             /\ proc' = [proc EXCEPT ![c] = NoProcess, ![p].pagetable = p]
             /\ content' = Content(c, {})
     /\ UNCHANGED <<calls, writes, torn>>

\* sys_process_fork: a process is created, its page table deleted, and another
\* made from the caller's; the sizes stay those of process_create.
sys_process_fork(p, c) ==
  LET F     == Allocated(p, Created)
      fresh == NewSpace(F)
      back  == (freemap \ Range(F)) \cup pagetable_delete(fresh)
      sp    == space[p]
      n     == 1 + Cardinality(Mapped(sp, V)) + Cardinality(Range(sp.table) \ {NoFrame})
      G     == Lowest(back, n)
  IN /\ Counts /\ Idle(p) /\ p # Shell /\ state[c] = "none"
     /\ Enough(freemap, Created) /\ Enough(back, n)
     /\ freemap' = back \ Range(G)
     /\ pages_free' = Cardinality(pagetable_delete(fresh)) + pages_free - Created - n
     /\ space' = [space EXCEPT ![c] = pagetable_duplicate(sp, G)]
     /\ proc' = [proc EXCEPT ![c] = NewProc(c, F)]
     /\ content' = [f \in Frames |->
                      IF \E v \in V : space'[c].map[v] = f
                      THEN content[sp.map[CHOOSE v \in V : space'[c].map[v] = f]]
                      ELSE IF f \in freemap' THEN "stale" ELSE content[f]]
     /\ state' = [state EXCEPT ![c] = "live"]
     /\ UNCHANGED <<picked, raced, job, writes, torn>>

\* The page fault of an access that is not mapped: one below the stack pointer,
\* which is somewhere in the stack area, gets a page, wherever it is; one above
\* it ends the process.
page_fault(p, v) ==
  LET n == Wanted(space[p], {v})
      F == Lowest(freemap, n)
  IN /\ Counts /\ Idle(p) /\ p # Shell /\ space[p].map[v] = NoFrame
     /\ \/ /\ v < Top - 1 /\ Enough(freemap, n)
           /\ page_alloc(p, F)
           /\ space' = [space EXCEPT ![p] = pagetable_alloc(@, {v}, F)]
           /\ content' = Content(p, {})
           /\ UNCHANGED state
        \/ /\ v >= DataTop
           /\ state' = [state EXCEPT ![p] = "grave"]
           /\ UNCHANGED memory
     /\ UNCHANGED <<proc, job, writes, torn>>

\* A program writes to its memory.
write(p, v) ==
  /\ Idle(p) /\ p # Shell /\ writes < MaxWrites /\ v \in Written
  /\ space[p].map[v] # NoFrame /\ content[space[p].map[v]] # p
  /\ content' = [content EXCEPT ![space[p].map[v]] = p]
  /\ writes' = writes + 1
  /\ UNCHANGED <<freemap, pages_free, space, picked, raced, proc, state, job, calls, torn>>

\* process_kill of another process; and of one that a load is half done for, or
\* that is in the middle of one for another, which uses its page table.
process_kill(q) ==
  /\ state[q] \in {"made", "live"} /\ q # Shell
  /\ \E p \in Processes \ {q} : Idle(p) /\ picked[p] = NoFrame
  /\ state' = [state EXCEPT ![q] = "grave"]
  /\ torn' = (torn \/ job[q].child \notin {q, Shell}
                   \/ \E p \in Processes \ {q} : job[p].stage # "none" /\ job[p].child = q)
  /\ picked' = [picked EXCEPT ![q] = NoFrame]
  /\ UNCHANGED <<freemap, pages_free, content, space, raced, proc, job, calls, writes>>

\* process_reap: process_delete.
process_reap(q) ==
  /\ state[q] = "grave"
  /\ page_free(Frees(q))
  /\ space' = [space EXCEPT ![q] = NoSpace]
  /\ proc' = [proc EXCEPT ![q] = NoProcess]
  /\ state' = [state EXCEPT ![q] = "none"]
  /\ job' = [job EXCEPT ![q] = NoJob]
  /\ content' = Content(q, {})
  /\ UNCHANGED <<calls, writes, torn>>

PagingInit ==
  LET F == Lowest(Frames, Created) IN
  /\ freemap = Frames \ Range(F) /\ pages_free = NFrames - Created
  /\ space = [p \in Processes |-> IF p = Shell THEN NewSpace(F) ELSE NoSpace]
  /\ proc = [p \in Processes |-> IF p = Shell THEN NewProc(p, F) ELSE NoProcess]
  /\ state = [p \in Processes |-> IF p = Shell THEN "live" ELSE "none"]
  /\ content = [f \in Frames |-> IF f \in Mapped(space[Shell], V) THEN "zero" ELSE "stale"]
  /\ job = [p \in Processes |-> NoJob]
  /\ picked = [p \in Processes |-> NoFrame]
  /\ calls = 0 /\ writes = 0 /\ raced = FALSE /\ torn = FALSE

Step(p) ==
  \/ Pick(p) \/ exec_begin(p) \/ sys_process_heap(p)
  \/ elf_load(p) \/ load_end(p) \/ load_refused(p) \/ load_failed(p)
  \/ process_kill(p) \/ process_reap(p)
  \/ \E c \in Processes : run_begin(p, c) \/ sys_process_fork(p, c)
  \/ \E v \in V : page_fault(p, v) \/ write(p, v)

\* Nothing is claimed of what follows a page with two owners or a load half undone.
PagingNext == ~raced /\ ~torn /\ \E p \in Processes : Step(p)

PagingSpec == PagingInit /\ [][PagingNext]_pagingVars
-----------------------------------------------------------------------------
PagingTypeOK ==
  /\ freemap \subseteq Frames /\ pages_free \in 0 .. NFrames
  /\ content \in [Frames -> {"zero", "text", "stale"} \cup Processes]
  /\ space \in [Processes -> [directory : 0 .. NFrames, table : [1 .. 2 -> 0 .. NFrames],
                             map : [V -> 0 .. NFrames]]]
  /\ proc \in [Processes -> [self : 0 .. NFrames, pagetable : Processes,
                            data : 0 .. MaxData, stack : 0 .. InitialPages]]
  /\ state \in [Processes -> {"none", "made", "live", "grave"}]
  /\ job \in [Processes -> [child : Processes, stage : {"none", "begun", "loaded"}]]
  /\ picked \in [Processes -> 0 .. NFrames]
  /\ calls \in 0 .. MaxCalls /\ writes \in 0 .. MaxWrites
  /\ raced \in BOOLEAN /\ torn \in BOOLEAN

\* The frames a process uses, and for how many things.
Used(p) == (Mapped(space[p], V) \cup Range(space[p].table)
            \cup {space[p].directory, proc[p].self}) \ {NoFrame}
Uses(p) ==
  Cardinality({v \in V : space[p].map[v] # NoFrame})
  + Cardinality({i \in 1 .. 2 : space[p].table[i] # NoFrame})
  + (IF space[p].directory # NoFrame THEN 1 ELSE 0) + (IF proc[p].self # NoFrame THEN 1 ELSE 0)

\* Every frame is free, or has exactly one use in one process: none is given out
\* twice or kept by nobody, through loads that fail half-way, forks, sizes that
\* do not fit what is mapped, and deaths; and the count of the free ones agrees.
PagesSound ==
  ~raced /\ ~torn =>
    /\ pages_free = Cardinality(freemap)
    /\ Frames \ freemap = UNION {Used(p) : p \in Processes}
    /\ \A p \in Processes : Uses(p) = Cardinality(Used(p))
    /\ \A p, q \in Processes : p # q => Used(p) \cap Used(q) = {}

\* What a program finds in its memory.
mem == [p \in Processes |-> [v \in V |-> IF space[p].map[v] = NoFrame THEN "unmapped"
                                        ELSE content[space[p].map[v]]]]

\* Memory is private: nobody else's call or write changes it, it starts from
\* zeros or the program file, and a fork is the only copy.
Private == INSTANCE PrivateMemory WITH Procs <- Processes, broken <- raced \/ torn
IsPrivate == Private!Spec
=============================================================================
