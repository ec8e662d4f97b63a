--------------------------- MODULE PrivateMemory ---------------------------
(***************************************************************************)
(* What the page tables promise a program: its memory is its own.          *)
(***************************************************************************)
CONSTANTS
  Procs,
  V        \* the pages of an address space

VARIABLES
  mem,     \* what each process has in each page; "unmapped" if nothing
  broken   \* the promise has been lost

Blank == [v \in V |-> "unmapped"]

\* A process gets pages, cleared or from a file, writes to those it has, and
\* loses some.
Change(p) ==
  /\ \A q \in Procs \ {p} : mem'[q] = mem[q]
  /\ \A v \in V : \/ mem'[p][v] \in {mem[p][v], "unmapped", "text"}
                  \/ mem'[p][v] = "zero" /\ mem[p][v] = "unmapped"
                  \/ mem'[p][v] = p /\ mem[p][v] # "unmapped"

\* A new process starts with a copy.
Fork(p, c) ==
  /\ mem[c] = Blank
  /\ mem' = [mem EXCEPT ![c] = mem[p]]

Init == ~broken /\ \A p \in Procs, v \in V : mem[p][v] \in {"unmapped", "zero"}

Next ==
  \/ \E p \in Procs : Change(p) /\ UNCHANGED broken
  \/ \E p, c \in Procs : Fork(p, c) /\ UNCHANGED broken
  \/ broken'

Spec == Init /\ [][Next]_<<mem, broken>>
=============================================================================
