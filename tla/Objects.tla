------------------------------- MODULE Objects -------------------------------
(***************************************************************************)
(* What the object tables of the processes name, and the reference counts  *)
(* behind them: kernel/kobject.c, fs.c, device.c, window.c, console.c, the *)
(* object calls of syscall_handler.c and the mounts of kshell.c.  A kobject *)
(* has one entry of one table (kobject_addref has no caller), so the entry  *)
(* stands for it.  A directory entry holds its volume, a volume its device, *)
(* a console its window and a window its parent; the root window is static, *)
(* is never freed, and is None here.                                        *)
(* A call may lose the CPU at each access to the disk: every lookup of a   *)
(* path, and the last close of a directory entry.                          *)
(***************************************************************************)
EXTENDS Integers, FiniteSets, FiniteSetsExt, Functions

CONSTANTS
  Procs, Shell,  \* the kernel shell is one of the processes
  Res,           \* addresses for whatever is counted
  None,          \* the null pointer
  NFds,          \* PROCESS_MAX_OBJECTS
  STDDIR,        \* KNO_STDDIR
  MaxParts,      \* bound: parts of a path
  MaxRefs        \* bound: references to one resource

FDs == 0 .. NFds - 1

ASSUME ObjectsAssumption ==
  /\ Shell \in Procs /\ None \notin Procs \cup Res
  /\ IsFiniteSet(Procs) /\ IsFiniteSet(Res)
  /\ NFds \in Nat /\ STDDIR \in FDs /\ MaxParts \in Nat /\ MaxRefs \in Nat

VARIABLES
  res,      \* the memory: kind, count and what it holds, of each address
  ktable,   \* the object table of each process
  state,    \* of each process
  call,     \* the call each process is in
  leaked,   \* history: references that nobody will give back
  orphans,  \* history: whose last close was cut off by a kill
  unpaired, \* history: a close has no addref, see found
  fault     \* history: the kernel has used a null or freed kobject

history == <<leaked, orphans, unpaired>>
vars == <<res, ktable, state, call, history, fault>>

Kinds == {"device", "volume", "dir", "file", "window", "console", "pipe"}
Free == [kind |-> "free", refs |-> 0, holds |-> None]
New(k, h) == [kind |-> k, refs |-> 1, holds |-> h]
FreeRes == {r \in Res : res[r].kind = "free"}
OnDisk(r) == res[r].kind \in {"dir", "file"}

\* at: where the call stands.  walk: base, d, todo and dots are parent, d, the
\* parts to come and the references to parent taken by "." in fs_dirent_traverse;
\* goal says who gets the result, fd the entry that waits for it.  closing,
\* clearing: of fd, with copy the entry to copy there afterwards, or -1.
Call == [at : {"out", "walk", "closing", "clearing", "loading", "deleting"},
         base : Res \cup {None}, d : Res \cup {None}, todo : 0 .. MaxParts,
         dots : 0 .. MaxParts, goal : {"fd", "list", "use"},
         fd : FDs, copy : FDs \cup {-1}, child : Procs \cup {None}]

Idle == [at |-> "out", base |-> None, d |-> None, todo |-> 0, dots |-> 0,
         goal |-> "fd", fd |-> 0, copy |-> -1, child |-> None]

Runs(p) == state[p] = "live"
At(p, l) == Runs(p) /\ call[p].at = l
Return(p) == call' = [call EXCEPT ![p] = Idle]
\* What p has an entry for, of one of the kinds.
Named(p, kinds) == {r \in Range(ktable[p]) \ {None} : res[r].kind \in kinds}
Unused(p) == {fd \in FDs : ktable[p][fd] = None}
\* process_available_fd
Available(p) == Min(Unused(p))
-----------------------------------------------------------------------------
(* References. *)

Addref(h, r) == IF r = None THEN h ELSE [h EXCEPT ![r].refs = @ + 1]
Room(r) == r # None => res[r].refs < MaxRefs

\* What goes when r does: r, then what it holds if it held the last reference,
\* and so on.
Cascade(h, r) ==
  {x \in Res : \A G \in SUBSET Res :
     r \in G /\ (\A y \in G, z \in Res : h[y].holds = z /\ h[z].refs = 1 => z \in G) => x \in G}

\* Mutant: a console does not give its window back.
Destroy_keeps_window(h, r) ==
  LET gone == Cascade(h, r)
  IN  [x \in Res |-> IF x \in gone THEN Free
         ELSE IF h[x].kind # "window" /\ \E y \in gone : h[y].holds = x
              THEN [h[x] EXCEPT !.refs = @ - 1]
         ELSE h[x]]

Destroy(h, r) ==
  LET gone == Cascade(h, r)
  IN  [x \in Res |-> IF x \in gone THEN Free
         ELSE IF \E y \in gone : h[y].holds = x THEN [h[x] EXCEPT !.refs = @ - 1]
         ELSE h[x]]

\* Mutant: what the freed one holds stays in the freed memory.
Release_keeps_record(h, r) ==
  IF h[r].refs = 1 THEN [h EXCEPT ![r].kind = "free"] ELSE [h EXCEPT ![r].refs = @ - 1]

\* The close and delete functions of every kind.
Release(h, r) == IF h[r].refs = 1 THEN Destroy(h, r) ELSE [h EXCEPT ![r].refs = @ - 1]

\* Mutant: the caller's reference to the volume is not counted.
fs_dirent_new_uncounted(h, r, k, v) == [h EXCEPT ![r] = New(k, v)]

\* A directory entry of volume v, from lookup, mkdir or mkfile.
fs_dirent_new(h, r, k, v) == [Addref(h, v) EXCEPT ![r] = New(k, v)]

\* The copies m[fd] of the table t of s: an addref for each entry that names r.
kobject_copy_all(h, t, s, m) ==
  [r \in Res |-> [h[r] EXCEPT !.refs =
                    @ + Cardinality({fd \in FDs : m[fd] # -1 /\ t[s][m[fd]] = r})]]
-----------------------------------------------------------------------------
(* Opening.  A process starts a call with interrupts off. *)

\* A walk of n parts from directory b, whose result goes where goal and fd say.
Walk(p, b, n, goal, fd) ==
  /\ call' = [call EXCEPT ![p] = [Idle EXCEPT !.at = "walk", !.base = b, !.d = b,
                                             !.todo = n, !.goal = goal, !.fd = fd]]
  /\ UNCHANGED <<res, ktable, state, history, fault>>

\* sys_open_file, and sys_open_dir without KERNEL_FLAGS_CREATE.
sys_open_file(p) ==
  /\ At(p, "out") /\ Unused(p) # {}
  /\ \E d \in Named(p, {"dir"}), n \in 0 .. MaxParts : Walk(p, d, n, "fd", Available(p))

\* The kernel shell's list, and its mkdir and remove ("use").
fs_resolve ==
  /\ At(Shell, "out") /\ ktable[Shell][STDDIR] \in Named(Shell, {"dir"})
  /\ \E n \in 0 .. MaxParts, goal \in {"list", "use"} :
       Walk(Shell, ktable[Shell][STDDIR], n, goal, 0)

\* fs_dirent_lookup of ".", one more reference to the directory itself.  The
\* parent is not closed, even when an earlier "." has added a reference to it.
lookup_dot(p) ==
  LET c == call[p] IN
  /\ At(p, "walk") /\ c.todo > 0 /\ res[c.d].kind = "dir" /\ Room(c.d)
  /\ res' = IF c.d = c.base THEN Addref(res, c.d) ELSE Release(Addref(res, c.d), c.d)
  /\ call' = [call EXCEPT ![p].todo = @ - 1,
                          ![p].dots = IF c.d = c.base THEN @ + 1 ELSE @]
  /\ UNCHANGED <<ktable, state, history, fault>>

\* ... of a name that is there.
lookup_name(p) ==
  LET c == call[p] IN
  /\ At(p, "walk") /\ c.todo > 0 /\ res[c.d].kind = "dir" /\ Room(res[c.d].holds)
  /\ \E n \in FreeRes, k \in {"dir", "file"} :
       LET h == fs_dirent_new(res, n, k, res[c.d].holds) IN
       /\ res' = IF c.d = c.base THEN h ELSE Release(h, c.d)
       /\ call' = [call EXCEPT ![p].todo = @ - 1, ![p].d = n, ![p].dots = 0]
  /\ leaked' = [leaked EXCEPT ![c.base] = @ + c.dots]
  /\ UNCHANGED <<ktable, state, orphans, unpaired, fault>>

\* ... and of one that is not: the call fails.
lookup_missing(p) ==
  LET c == call[p] IN
  /\ At(p, "walk") /\ c.todo > 0
  /\ res' = IF c.d = c.base THEN res ELSE Release(res, c.d)
  /\ leaked' = [leaked EXCEPT ![c.base] = @ + c.dots]
  /\ Return(p)
  /\ UNCHANGED <<ktable, state, orphans, unpaired, fault>>

\* The path is used up.  With no part at all ("/", as in "list" of user/shell.c) the
\* result is the parent itself, without a reference, and whoever closes it
\* takes somebody else's.  The kernel shell's list never closes.
found(p) ==
  LET c == call[p]
      mine == IF c.d = c.base THEN c.dots ELSE 1
  IN
  /\ At(p, "walk") /\ c.todo = 0
  /\ ktable' = IF c.goal = "fd" THEN [ktable EXCEPT ![p][c.fd] = c.d] ELSE ktable
  /\ res' = IF c.goal = "use" THEN Release(res, c.d) ELSE res
  /\ unpaired' = (unpaired \/ (mine = 0 /\ c.goal # "list"))
  /\ leaked' = [leaked EXCEPT ![c.d] =
                  @ + IF c.goal = "list" THEN mine ELSE Max({mine - 1, 0})]
  /\ Return(p)
  /\ UNCHANGED <<state, orphans, fault>>

\* An entry of p for a new resource.
Opened(p, n, h) ==
  /\ res' = h /\ ktable' = [ktable EXCEPT ![p][Available(p)] = n]
  /\ UNCHANGED <<state, call, history, fault>>

\* sys_open_dir with KERNEL_FLAGS_CREATE.
sys_open_dir(p) ==
  /\ At(p, "out") /\ Unused(p) # {}
  /\ \E d \in Named(p, {"dir"}), n \in FreeRes :
       Room(res[d].holds) /\ Opened(p, n, fs_dirent_new(res, n, "dir", res[d].holds))

\* A window keeps its parent, a console its window.
window_create(w, n) == [Addref(res, w) EXCEPT ![n] = New("window", w)]

console_create(w, n) == [Addref(res, w) EXCEPT ![n] = New("console", w)]

sys_open_window(p) ==
  /\ At(p, "out") /\ Unused(p) # {}
  /\ \E w \in {None} \cup Named(p, {"window"}), n \in FreeRes :
       Room(w) /\ Opened(p, n, window_create(w, n))

sys_open_console(p) ==
  /\ At(p, "out") /\ Unused(p) # {}
  /\ \E w \in {None} \cup Named(p, {"window"}), n \in FreeRes :
       Room(w) /\ Opened(p, n, console_create(w, n))

sys_open_pipe(p) ==
  /\ At(p, "out") /\ Unused(p) # {}
  /\ \E n \in FreeRes : Opened(p, n, [res EXCEPT ![n] = New("pipe", None)])

\* A device, a volume on it and its root directory, with so many references more
\* than the chain itself has.
Volume(h, dev, v, d, more) ==
  [h EXCEPT ![dev] = [New("device", None) EXCEPT !.refs = 1 + more],
            ![v] = [New("volume", dev) EXCEPT !.refs = 1 + more], ![d] = New("dir", v)]

\* Neither the volume nor the device is ever closed again: the calls that would do
\* it come after the return (kshell.c:47, 56).
kshell_mount ==
  /\ At(Shell, "out") /\ ktable[Shell][STDDIR] = None
  /\ \E dev, v, d \in FreeRes :
       /\ Cardinality({dev, v, d}) = 3
       /\ res' = Volume(res, dev, v, d, 1)
       /\ ktable' = [ktable EXCEPT ![Shell][STDDIR] = d]
       /\ leaked' = [leaked EXCEPT ![dev] = 1, ![v] = 1]
  /\ UNCHANGED <<state, call, orphans, unpaired, fault>>

\* A mount of an unknown or broken file system, or an install that cannot open
\* the other side: what was opened before stays open.
kshell_install_failed ==
  /\ At(Shell, "out")
  /\ \E dev \in FreeRes : /\ res' = [res EXCEPT ![dev] = New("device", None)]
                          /\ leaked' = [leaked EXCEPT ![dev] = 1]
  /\ UNCHANGED <<ktable, state, call, orphans, unpaired, fault>>

\* An install whose copy fails below the root, as it does at an empty directory: the
\* entry it was at is not closed.  (An install that succeeds closes all.)
fs_dirent_copy_failed ==
  /\ At(Shell, "out")
  /\ \E dev, v, d \in FreeRes : /\ Cardinality({dev, v, d}) = 3
                                /\ res' = Volume(res, dev, v, d, 0)
                                /\ leaked' = [leaked EXCEPT ![d] = 1]
  /\ UNCHANGED <<ktable, state, call, orphans, unpaired, fault>>
-----------------------------------------------------------------------------
(* Closing and copying. *)

\* kobject_close of entry fd and the clearing of the entry, up to the first disk
\* access: the last close of a directory entry saves its inode.
kobject_close(p, fd, copy) ==
  LET r == ktable[p][fd] IN
  IF OnDisk(r) /\ res[r].refs = 1
  THEN /\ res' = [res EXCEPT ![r].refs = 0]
       /\ call' = [call EXCEPT ![p] = [Idle EXCEPT !.at = "closing", !.fd = fd, !.copy = copy]]
       /\ UNCHANGED ktable
  ELSE LET t == [ktable EXCEPT ![p][fd] = IF copy = -1 THEN None ELSE ktable[p][copy]]
           h == Release(res, r)
       IN  /\ ktable' = t
           /\ res' = IF copy = -1 THEN h ELSE Addref(h, t[p][fd])
           /\ UNCHANGED call

sys_object_close(p) ==
  /\ At(p, "out")
  /\ \E fd \in FDs : ktable[p][fd] # None /\ kobject_close(p, fd, -1)
  /\ UNCHANGED <<state, history, fault>>

\* The inode is saved; volume, device and kobject follow.
close_saved(p) ==
  /\ At(p, "closing")
  /\ res' = Destroy(res, ktable[p][call[p].fd])
  /\ call' = [call EXCEPT ![p].at = "clearing"]
  /\ UNCHANGED <<ktable, state, history, fault>>

\* The entry is cleared, and the copy that was waiting for it made.
close_clear(p) ==
  LET c == call[p]
      n == IF c.copy = -1 THEN None ELSE ktable[p][c.copy]
  IN
  /\ At(p, "clearing")
  /\ ktable' = [ktable EXCEPT ![p][c.fd] = n]
  /\ res' = Addref(res, n)
  /\ Return(p)
  /\ UNCHANGED <<state, history, fault>>

\* Copying an entry to itself closes it first and copies a null pointer; the
\* entry one past the end passes the test and lies outside the table.
copy_fault(p, src, dst) ==
  IF src = dst THEN fault' = "null_copy" ELSE dst = NFds /\ fault' = "past_table"

sys_object_copy(p) ==
  /\ At(p, "out")
  /\ \E src \in FDs, dst \in 0 .. NFds :
       /\ ktable[p][src] # None /\ Room(ktable[p][src])
       /\ \/ /\ copy_fault(p, src, dst)
             /\ UNCHANGED <<res, ktable, call>>
          \/ /\ src # dst /\ dst # NFds
             /\ IF ktable[p][dst] # None THEN kobject_close(p, dst, src)
                ELSE /\ ktable' = [ktable EXCEPT ![p][dst] = ktable[p][src]]
                     /\ res' = Addref(res, ktable[p][src])
                     /\ UNCHANGED call
             /\ UNCHANGED fault
  /\ UNCHANGED <<state, history>>
-----------------------------------------------------------------------------
(* Processes come and go. *)

\* process_selective_inherit: entry i of child q becomes a copy of entry m[i].
process_selective_inherit(p, q, m) ==
  /\ ktable' = [ktable EXCEPT ![q] = [fd \in FDs |-> IF m[fd] = -1 THEN None
                                                     ELSE ktable[p][m[fd]]]]
  /\ res' = kobject_copy_all(res, ktable, p, m)
  /\ \A r \in Res : res'[r].refs <= MaxRefs

\* process_inherit
Everything(p) == [fd \in FDs |-> IF ktable[p][fd] = None THEN -1 ELSE fd]

sys_process_fork(p) ==
  /\ At(p, "out")
  /\ \E q \in Procs : /\ state[q] = "none"
                      /\ process_selective_inherit(p, q, Everything(p))
                      /\ state' = [state EXCEPT ![q] = "live"]
  /\ UNCHANGED <<call, history, fault>>

\* sys_process_run, and sys_process_wrun with the entries the caller chooses, up to the
\* first disk access of elf_load.
sys_process_run(p) ==
  /\ At(p, "out") /\ Named(p, {"file"}) # {}
  /\ \E q \in Procs, m \in [FDs -> FDs \cup {-1}] :
       /\ state[q] = "none" /\ \A fd \in FDs : m[fd] # -1 => ktable[p][m[fd]] # None
       /\ process_selective_inherit(p, q, m)
       /\ state' = [state EXCEPT ![q] = "loading"]
       /\ call' = [call EXCEPT ![p] = [Idle EXCEPT !.at = "loading", !.child = q]]
  /\ UNCHANGED <<history, fault>>

\* sys_process_wrun does not look whether the entries it is given are in use.
wrun_of_unused(p) ==
  /\ At(p, "out") /\ Named(p, {"file"}) # {}
  /\ Unused(p) # {} /\ \E q \in Procs : state[q] = "none"
  /\ fault' = "null_copy"
  /\ UNCHANGED <<res, ktable, state, call, history>>

\* The load ends: the child runs; or it is deleted; or, with another error than
\* KERROR_EXECUTION_FAILED, it is left behind with all it names.
run_end(p) ==
  /\ At(p, "loading")
  /\ \/ /\ state' = [state EXCEPT ![call[p].child] = "live"] /\ Return(p)
     \/ /\ state' = [state EXCEPT ![call[p].child] = "deleting"]
        /\ call' = [call EXCEPT ![p].at = "deleting"]
     \/ Return(p) /\ UNCHANGED state
  /\ UNCHANGED <<res, ktable, history, fault>>

\* process_exit and process_make_dead.  What the call of p has taken and not yet given
\* to a table is nobody's from now on.
process_make_dead(p) ==
  LET c == call[p] IN
  /\ Runs(p)
  /\ state' = [state EXCEPT ![p] = "dead"]
  /\ leaked' = IF c.at # "walk" THEN leaked
               ELSE [leaked EXCEPT ![c.d] = @ + IF c.d = c.base THEN c.dots ELSE 1]
  /\ IF c.at = "closing"
     THEN /\ orphans' = orphans \cup {ktable[p][c.fd]}
          /\ ktable' = [ktable EXCEPT ![p][c.fd] = None]
     ELSE UNCHANGED <<orphans, ktable>>
  /\ call' = IF c.at = "clearing" THEN call ELSE [call EXCEPT ![p] = Idle]
  /\ UNCHANGED <<res, unpaired, fault>>

\* process_reap takes a dead process.  One that died between the end of its close
\* and the clearing of the entry has an entry for a kobject that is gone.
process_reap(p) ==
  /\ At(p, "out")
  /\ \E q \in Procs :
       /\ state[q] = "dead"
       /\ IF call[q].at = "clearing"
          THEN fault' = "freed_kobject" /\ UNCHANGED <<state, call>>
          ELSE /\ state' = [state EXCEPT ![q] = "deleting"]
               /\ call' = [call EXCEPT ![p] = [Idle EXCEPT !.at = "deleting", !.child = q]]
               /\ UNCHANGED fault
  /\ UNCHANGED <<res, ktable, history>>

\* process_delete closes the entries in their order, at the disk's pace, and then
\* frees the process.
process_delete(p) ==
  LET q == call[p].child
      used == FDs \ Unused(q)
  IN
  /\ At(p, "deleting")
  /\ IF used = {}
     THEN state' = [state EXCEPT ![q] = "none"] /\ Return(p) /\ UNCHANGED <<res, ktable>>
     ELSE /\ res' = Release(res, ktable[q][Min(used)])
          /\ ktable' = [ktable EXCEPT ![q][Min(used)] = None]
          /\ UNCHANGED <<state, call>>
  /\ UNCHANGED <<history, fault>>
-----------------------------------------------------------------------------
Init ==
  /\ res = [r \in Res |-> Free]
  /\ ktable = [p \in Procs |-> [fd \in FDs |-> None]]
  /\ state = [p \in Procs |-> IF p = Shell THEN "live" ELSE "none"]
  /\ call = [p \in Procs |-> Idle]
  /\ leaked = [r \in Res |-> 0] /\ orphans = {} /\ unpaired = FALSE /\ fault = "none"

Step(p) ==
  \/ sys_open_file(p) \/ lookup_dot(p) \/ lookup_name(p) \/ lookup_missing(p) \/ found(p)
  \/ sys_open_dir(p) \/ sys_open_window(p) \/ sys_open_console(p) \/ sys_open_pipe(p)
  \/ sys_object_close(p) \/ close_saved(p) \/ close_clear(p) \/ sys_object_copy(p)
  \/ sys_process_fork(p) \/ sys_process_run(p) \/ wrun_of_unused(p) \/ run_end(p)
  \/ process_make_dead(p) \/ process_reap(p) \/ process_delete(p)

\* Nothing is claimed of what follows a fault or an unpaired close.
Next ==
  /\ fault = "none" /\ ~unpaired
  /\ \/ kshell_mount \/ kshell_install_failed \/ fs_dirent_copy_failed \/ fs_resolve
     \/ \E p \in Procs : Step(p)

Spec == Init /\ [][Next]_vars
-----------------------------------------------------------------------------
TypeOK ==
  /\ res \in [Res -> [kind : Kinds \cup {"free"}, refs : Nat, holds : Res \cup {None}]]
  /\ \A r \in FreeRes : res[r] = Free
  /\ ktable \in [Procs -> [FDs -> Res \cup {None}]]
  /\ state \in [Procs -> {"none", "loading", "live", "dead", "deleting"}]
  /\ call \in [Procs -> Call]
  /\ leaked \in [Res -> Nat] /\ orphans \in SUBSET Res /\ unpaired \in BOOLEAN
  /\ fault \in {"none", "null_copy", "past_table", "freed_kobject"}

\* The entry fd of p is past its last reference.
Closed(p, fd) == call[p].at \in {"closing", "clearing"} /\ call[p].fd = fd

Entries(r) == {e \in Procs \X FDs : ktable[e[1]][e[2]] = r /\ ~Closed(e[1], e[2])}
Holders(r) == {x \in Res : res[x].kind # "free" /\ res[x].holds = r}
\* The references a path walk of a live process has to r.
Walking(r) == {w \in Procs \X (1 .. MaxParts) :
                 /\ At(w[1], "walk") /\ call[w[1]].d = r
                 /\ w[2] <= IF r = call[w[1]].base THEN call[w[1]].dots ELSE 1}

\* Every name in a table, in a resource or in a running call is of something that is
\* still there.
NamesAreAlive ==
  \A r \in FreeRes : Entries(r) = {} /\ Holders(r) = {} /\
                     \A p \in Procs : At(p, "walk") => r \notin {call[p].base, call[p].d}

\* No call, interleaved with any other or killed at any access to the disk, frees
\* what another still names; until somebody closes a directory the empty path gave it.
NoDangling == ~unpaired => NamesAreAlive

\* Counts are exact: each reference is an entry, a resource, a call under way, or one of
\* the losses that leaked names.  So nothing stays for ever but by those, and a
\* resource without references is one whose last close is under way or was cut off.
CountsMatch ==
  ~unpaired => \A r \in Res \ FreeRes :
    /\ res[r].refs = Cardinality(Entries(r)) + Cardinality(Holders(r))
                     + Cardinality(Walking(r)) + leaked[r]
    /\ res[r].refs > 0 \/ r \in orphans
         \/ \E p \in Procs : At(p, "closing") /\ ktable[p][call[p].fd] = r
=============================================================================
