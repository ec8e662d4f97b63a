-------------------------------- MODULE DiskFS --------------------------------
(***************************************************************************)
(* The disk file system: kernel/diskfs.c with the byte ranges of fs.c.     *)
(* Inode table, bitmap and data blocks change only by reading a block to a *)
(* page, editing the page and writing it back, and the process may lose    *)
(* the CPU at every access; so each access is a step, and two calls        *)
(* interleave at each.                                                     *)
(* A slot is one item of a directory, one pointer of an indirect block or  *)
(* one byte of a file: a block has Slots of them.  Inode table and bitmap  *)
(* are one block each, and every access succeeds.                          *)
(***************************************************************************)
EXTENDS Integers, Sequences, FiniteSets, FiniteSetsExt, Functions

CONSTANTS
  Procs, Names, Values,
  Dirents,   \* addresses for struct fs_dirent
  Root,      \* the one of the mounted root directory
  Zero,      \* a cleared word: blank item, null pointer, block zero
  Junk,      \* what is in a block that nobody has written
  None,
  NBlocks,   \* data_blocks
  NInodes,   \* inodes in the table
  Direct,    \* DISKFS_DIRECT_POINTERS
  Slots,     \* DISKFS_BLOCK_SIZE
  MaxSize,   \* bound: the size of a file
  MaxCalls   \* bound: calls started

Blocks == {Zero} \cup 1 .. NBlocks - 1
Inums == 0 .. NInodes - 1
Page == 0 .. Slots - 1
Full(x) == [s \in Page |-> x]

ASSUME DiskFSAssumption ==
  /\ Root \in Dirents /\ NBlocks \in Nat \ {0, 1} /\ NInodes \in Nat \ {0}
  /\ Direct \in Nat \ {0} /\ Slots \in Nat \ {0} /\ MaxCalls \in Nat
  /\ MaxSize \in 0 .. (Direct + Slots) * Slots

\* An item of a directory, and an inode.
Item == [name : Names \cup {"."}, inum : Inums, isdir : BOOLEAN]
Node == [inuse : BOOLEAN, size : Nat, direct : [0 .. Direct - 1 -> Blocks], indirect : Blocks]
Entry == [inum : Inums, disk : Node, isdir : BOOLEAN]

\* A blank slot, one nobody has written, and no entry can be told from the others.
ASSUME WordAssumption ==
  /\ Zero # Junk /\ {Zero, Junk, None} \cap (1 .. NBlocks - 1) = {}
  /\ \A x \in Item : x \notin {Zero, Junk}
  /\ \A x \in Values : x \notin {Zero, Junk, None}
  /\ None \notin Entry

VARIABLES
  inodes, bitmap, data,  \* on the disk
  dirents,  \* the open directory entries, each with its own copy of the inode
  call,     \* the call each process is in
  calls,    \* how many were started
  written,  \* history: the last write to each byte of each file
  created,  \* history: the names put in each directory and not removed
  folders,  \* history: the inodes made for directories
  lost,     \* history: blocks taken by a process that was killed before it used them
  damage    \* history: what has gone wrong, see Sound

disk == <<inodes, bitmap, data>>
history == <<written, created, folders, lost>>
vars == <<disk, dirents, call, calls, history, damage>>

Inode(u) == [inuse |-> u, size |-> 0, direct |-> [i \in 0 .. Direct - 1 |-> Zero], indirect |-> Zero]

\* at: the next step, goal what a read of the table or the bitmap is for, after what
\* follows the write of a block.  k, lo, hi, word: the block of d, the slots to change
\* and what to; page, table and bits are the private pages, page was read from block
\* from; n is the block found or taken, slot the pointer that waits for it.
Idle == [at |-> "idle", goal |-> "none", after |-> "none", op |-> "none", d |-> None, name |-> None,
         isdir |-> FALSE, off |-> 0, len |-> 0, k |-> 0, lo |-> 0, hi |-> 0, word |-> Zero,
         page |-> <<>>, from |-> None, table |-> <<>>, node |-> None, bits |-> {}, n |-> Zero,
         slot |-> "none", pointers |-> <<>>, inum |-> 0, victims |-> <<>>]

At(p, l) == call[p].at = l
Goes(c, l) == [c EXCEPT !.at = l]
ReadsTable(c, l) == [c EXCEPT !.at = "table", !.goal = l]
ReadsBits(c, l) == [c EXCEPT !.at = "bits", !.goal = l]
\* The pages are given back.
Done(c) == [c EXCEPT !.table = <<>>, !.bits = {}]
Becomes(p, c) == call' = [call EXCEPT ![p] = c]
Return(p) == Becomes(p, Idle)

Open == {d \in Dirents : dirents[d] # None}
Copy(d) == dirents[d].disk
Others(d) == {e \in Open \ {d} : dirents[e].inum = dirents[d].inum}
Damaged(S) == damage' = damage \cup S
When(b, what) == IF b THEN {what} ELSE {}

\* d changes its copy of the inode: another copy is out of date from now on.
Changed(d, node) == dirents' = [dirents EXCEPT ![d].disk = node]
Doubled(d) == When(Others(d) # {}, "doubled")

BlocksOf(node) == (node.size + Slots - 1) \div Slots
\* diskfs_inode_read: the block behind block k of a file.
BlockAt(node, k) == IF k < Direct THEN node.direct[k] ELSE data[node.indirect][k - Direct]
PageOf(b) == IF b \in Blocks THEN data[b] ELSE Full(Junk)
PageAt(node, k) == PageOf(BlockAt(node, k))
IsItem(x) == x \notin {Zero, Junk}
-----------------------------------------------------------------------------
(* Calls on an open entry that no call is closing. *)

Starts(p) == call[p] = Idle /\ calls < MaxCalls /\ calls' = calls + 1
Usable == {d \in Open : \A q \in Procs : ~(call[q].d = d /\ call[q].op = "close")}

\* Mutant: a piece goes to the start of its block.
piece_unshifted(c) ==
  LET s == c.off % Slots
      m == Min({Slots - s, c.len})
  IN  [c EXCEPT !.k = c.off \div Slots, !.lo = 0, !.hi = m - 1, !.word = c.name,
                !.from = None, !.page = Full(Zero), !.off = @ + m, !.len = @ - m,
                !.at = IF m = Slots THEN "put" ELSE "fill", !.after = "next"]

\* The next piece of a write: up to the end of the block, and read first unless it is
\* the whole block.
piece(c) ==
  LET s == c.off % Slots
      m == Min({Slots - s, c.len})
  IN  [c EXCEPT !.k = c.off \div Slots, !.lo = s, !.hi = s + m - 1, !.word = c.name,
                !.from = None, !.page = Full(Zero), !.off = @ + m, !.len = @ - m,
                !.at = IF m = Slots THEN "put" ELSE "fill", !.after = "next"]

\* len slots of value v; a write past the end resizes the file first.
fs_dirent_write(p) ==
  /\ Starts(p)
  /\ \E d \in Usable, off \in 0 .. MaxSize - 1, v \in Values :
    \E len \in 1 .. Min({Slots + 1, MaxSize - off}) :
    /\ ~dirents[d].isdir
    /\ Becomes(p, piece([Idle EXCEPT !.op = "write", !.d = d, !.name = v, !.off = off, !.len = len]))
    /\ IF off + len > Copy(d).size
       THEN Changed(d, [Copy(d) EXCEPT !.size = off + len]) /\ Damaged(Doubled(d))
       ELSE UNCHANGED <<dirents, damage>>
  /\ UNCHANGED <<disk, history>>

\* What reads of d return: each byte through the block it lies in.
fs_dirent_read(node) == [s \in 0 .. node.size - 1 |-> PageAt(node, s \div Slots)[s % Slots]]

next(p) ==
  /\ At(p, "next")
  /\ IF call[p].len = 0 THEN Return(p) ELSE Becomes(p, piece(call[p]))
  /\ UNCHANGED <<disk, dirents, calls, history, damage>>

fill(p) ==
  LET c == call[p]
      node == Copy(c.d)
  IN
  /\ At(p, "fill")
  /\ \/ Becomes(p, [c EXCEPT !.at = "put", !.page = PageAt(node, c.k), !.from = BlockAt(node, c.k)])
     \/ BlockAt(node, c.k) = Junk /\ Return(p)
  /\ UNCHANGED <<disk, dirents, calls, history, damage>>

\* Lookups of a name in a directory: to open it, to create or to remove it.
diskfs_dirent_lookup(p) ==
  /\ Starts(p)
  /\ \E d \in Usable, op \in {"open", "create", "remove"}, x \in Names, t \in BOOLEAN :
       /\ dirents[d].isdir /\ (t => op = "create")
       /\ Becomes(p, [Idle EXCEPT !.at = "look", !.op = op, !.d = d, !.name = x, !.isdir = t])
  /\ UNCHANGED <<disk, dirents, history, damage>>

fs_dirent_close(p) ==
  /\ Starts(p)
  /\ \E d \in Open \ {Root} :
       /\ \A q \in Procs : call[q].d # d
       /\ Becomes(p, [Idle EXCEPT !.at = "table", !.goal = "save", !.op = "close", !.d = d])
  /\ UNCHANGED <<disk, dirents, history, damage>>
-----------------------------------------------------------------------------
(* The inode table. *)

table(p) ==
  /\ At(p, "table")
  /\ Becomes(p, [call[p] EXCEPT !.at = call[p].goal, !.goal = "none", !.table = inodes])
  /\ UNCHANGED <<disk, dirents, calls, history, damage>>

\* The table page goes back with one inode changed, and what others have written
\* since it was read is undone.
write_table(p, i, node) ==
  /\ inodes' = [call[p].table EXCEPT ![i] = node]
  /\ Damaged(When(call[p].table # inodes, "raced"))
  /\ UNCHANGED <<bitmap, data, calls>>

\* diskfs_inode_save of the copy of d: a close ends with it; the pointer that has just
\* been set is saved before its block is written, a new size of a directory after.
save(p) ==
  LET c == call[p]
      then == CASE c.slot = "direct" -> "data" [] c.slot = "indirect" -> "zero" [] OTHER -> "load"
  IN
  /\ At(p, "save")
  /\ write_table(p, dirents[c.d].inum, Copy(c.d))
  /\ dirents' = IF c.op = "close" THEN [dirents EXCEPT ![c.d] = None] ELSE dirents
  /\ Becomes(p, IF c.op = "close" THEN Idle ELSE Goes(Done(c), then))
  /\ UNCHANGED history

\* diskfs_inumber_alloc
claim(p) ==
  LET c == call[p]
      unused == {i \in Inums : ~c.table[i].inuse}
  IN
  /\ At(p, "claim")
  /\ IF unused = {} THEN Return(p) /\ UNCHANGED <<disk, calls, damage, folders>>
     ELSE /\ write_table(p, Min(unused), [c.table[Min(unused)] EXCEPT !.inuse = TRUE])
          /\ Becomes(p, [ReadsTable(Done(c), "init") EXCEPT !.inum = Min(unused)])
          /\ folders' = folders \cup When(c.isdir, Min(unused))
  /\ UNCHANGED <<dirents, written, created, lost>>

\* Mutant: the inode is cleared and not marked.
init_cleared(p) ==
  /\ At(p, "init")
  /\ write_table(p, call[p].inum, Inode(FALSE))
  /\ Becomes(p, Goes(Done(call[p]), "add"))
  /\ UNCHANGED <<dirents, history>>

init(p) ==
  /\ At(p, "init")
  /\ write_table(p, call[p].inum, Inode(TRUE))
  /\ Becomes(p, Goes(Done(call[p]), "add"))
  /\ UNCHANGED <<dirents, history>>

\* Creating a name that is there opens and closes it, and so writes its inode back.
echo(p) ==
  LET c == call[p] IN
  /\ At(p, "echo")
  /\ inodes' = [c.table EXCEPT ![c.inum] = c.node]
  /\ Damaged(When(inodes' # inodes, "raced"))
  /\ Return(p)
  /\ UNCHANGED <<bitmap, data, dirents, calls, history>>

\* diskfs_dirent_create: the inode is copied to a new entry.
load(p) ==
  LET c == call[p] IN
  /\ At(p, "load")
  /\ IF c.op = "echo"
     THEN /\ Becomes(p, [ReadsTable(c, "echo") EXCEPT !.node = inodes[c.inum]])
          /\ UNCHANGED <<dirents, damage>>
     ELSE \E e \in Dirents \ Open :
            /\ dirents' = [dirents EXCEPT ![e] = [inum |-> c.inum, disk |-> inodes[c.inum],
                                                  isdir |-> c.isdir]]
            /\ Damaged(When(\E o \in Open : dirents[o].inum = c.inum /\ Copy(o) # inodes[c.inum],
                            "doubled"))
            /\ Return(p)
  /\ UNCHANGED <<disk, calls, history>>
-----------------------------------------------------------------------------
(* Directories. *)

\* One block of the scan for a name.  Removing a directory looks whether it is empty.
look(p) ==
  LET c == call[p]
      page == PageAt(Copy(c.d), c.k)
      hits == {s \in Page : IsItem(page[s]) /\ page[s].name = c.name}
      item == page[Min(hits)]
  IN
  /\ At(p, "look")
  /\ IF c.k >= BlocksOf(Copy(c.d))
     THEN IF c.op = "create"
          THEN Becomes(p, [ReadsTable(c, "claim") EXCEPT !.k = 0])
          ELSE Return(p)
     ELSE IF hits = {} THEN Becomes(p, [c EXCEPT !.k = @ + 1])
     ELSE Becomes(p, CASE c.op = "open" -> [c EXCEPT !.at = "load", !.inum = item.inum, !.isdir = item.isdir]
                       [] c.op = "create" -> [c EXCEPT !.at = "load", !.inum = item.inum, !.op = "echo"]
                       [] OTHER -> [c EXCEPT !.at = IF item.isdir THEN "empty" ELSE "put", !.after = "delete",
                                             !.inum = item.inum, !.page = page,
                                             !.from = BlockAt(Copy(c.d), c.k),
                                             !.lo = Min(hits), !.hi = Min(hits), !.word = Zero])
  /\ UNCHANGED <<disk, dirents, calls, history, damage>>

empty(p) ==
  /\ At(p, "empty")
  /\ IF inodes[call[p].inum].size > 0 THEN Return(p) ELSE Becomes(p, Goes(call[p], "put"))
  /\ UNCHANGED <<disk, dirents, calls, history, damage>>

\* diskfs_dirent_add: one block of the scan for a blank slot; a full directory grows
\* by a block, and its size is changed before the block is there; whether there is a
\* pointer for it is not looked at.  It may be full before whoever filled it has changed
\* its size.
add(p) ==
  LET c == call[p]
      node == Copy(c.d)
      page == PageAt(node, c.k)
      blanks == {s \in Page : page[s] = Zero}
      item == [name |-> c.name, inum |-> c.inum, isdir |-> c.isdir]
  IN
  /\ At(p, "add")
  /\ IF c.k >= BlocksOf(node)
     THEN /\ Becomes(p, [c EXCEPT !.at = "put", !.after = "save", !.page = Full(Zero), !.from = None,
                                  !.lo = 0, !.hi = 0, !.word = item])
          /\ Changed(c.d, [node EXCEPT !.size = @ + 1])
          /\ Damaged(Doubled(c.d) \cup When(node.size % Slots # 0, "raced")
                     \cup When(c.k >= Direct + Slots, "overrun"))
     ELSE /\ UNCHANGED <<dirents, damage>>
          /\ Becomes(p, IF blanks = {} THEN [c EXCEPT !.k = @ + 1]
                        ELSE [c EXCEPT !.at = "put", !.after = "grow",
                                       !.page = page, !.from = BlockAt(node, c.k),
                                       !.lo = Min(blanks), !.hi = Min(blanks), !.word = item])
  /\ UNCHANGED <<disk, calls, history>>

grow(p) ==
  LET c == call[p]
      node == Copy(c.d)
      newsize == c.k * Slots + c.lo + 1
  IN
  /\ At(p, "grow")
  /\ IF newsize > node.size
     THEN /\ Changed(c.d, [node EXCEPT !.size = newsize])
          /\ Damaged(Doubled(c.d))
          /\ Becomes(p, ReadsTable(c, "save"))
     ELSE UNCHANGED <<dirents, damage>> /\ Becomes(p, Goes(c, "load"))
  /\ UNCHANGED <<disk, calls, history>>
-----------------------------------------------------------------------------
(* diskfs_inode_write: block k of d, with blocks for it where there are none. *)

\* Without an access to the disk.
put(p) ==
  LET c == call[p]
      node == Copy(c.d)
      Takes(slot) == [ReadsBits(c, "take") EXCEPT !.slot = slot]
  IN
  /\ At(p, "put")
  /\ Becomes(p, IF c.k < Direct
                THEN IF node.direct[c.k] = Zero THEN Takes("direct")
                     ELSE [c EXCEPT !.at = "data", !.n = node.direct[c.k]]
                ELSE IF node.indirect = Zero THEN Takes("indirect") ELSE Goes(c, "pointers"))
  /\ UNCHANGED <<disk, dirents, calls, history, damage>>

bits(p) ==
  /\ At(p, "bits")
  /\ Becomes(p, [call[p] EXCEPT !.at = call[p].goal, !.goal = "none", !.bits = bitmap])
  /\ UNCHANGED <<disk, dirents, calls, history, damage>>

\* Mutants: the bits are not tested; the number is not compared with data_blocks.
take_any(c) == 1 .. NBlocks - 1
take_beyond(c) == (1 .. NBlocks) \ c.bits

\* diskfs_data_block_alloc never gives out block zero.
free_blocks(c) == (1 .. NBlocks - 1) \ c.bits

\* What follows the write of a block, done or failed.
Follows(c) == IF c.after = "save" THEN ReadsTable(c, "save") ELSE Goes(c, c.after)

\* No block is left, or the pointer read was not one: a write fails, and a directory goes
\* on as if it had the block.
no_block(p) ==
  LET c == call[p] IN
  /\ (At(p, "take") /\ free_blocks(c) = {}) \/ (At(p, "data") /\ c.n \notin Blocks)
  /\ IF c.op = "write" THEN Return(p) /\ UNCHANGED damage
     ELSE Becomes(p, Follows(c)) /\ Damaged({"nospace"})
  /\ UNCHANGED <<disk, dirents, calls, history>>

take(p) ==
  LET c == call[p]
      n == Min(free_blocks(c))
      node == Copy(c.d)
      old == IF c.slot = "direct" THEN node.direct[c.k] ELSE node.indirect
  IN
  /\ At(p, "take") /\ free_blocks(c) # {}
  /\ bitmap' = c.bits \cup {n}
  /\ CASE c.slot = "direct" -> Changed(c.d, [node EXCEPT !.direct[c.k] = n])
       [] c.slot = "indirect" -> Changed(c.d, [node EXCEPT !.indirect = n])
       [] OTHER -> UNCHANGED dirents
  /\ Damaged(When(c.bits # bitmap \/ (c.slot # "pointer" /\ old # Zero), "raced")
             \cup (IF c.slot = "pointer" THEN {} ELSE Doubled(c.d)))
  /\ Becomes(p, IF c.slot = "pointer" THEN [Goes(Done(c), "pointer") EXCEPT !.n = n]
                ELSE [ReadsTable(Done(c), "save") EXCEPT !.n = n])
  /\ UNCHANGED <<inodes, data, calls, history>>

zero(p) ==
  /\ At(p, "zero")
  /\ data' = [data EXCEPT ![Copy(call[p].d).indirect] = Full(Zero)]
  /\ Becomes(p, Goes(call[p], "pointers"))
  /\ UNCHANGED <<inodes, bitmap, dirents, calls, history, damage>>

pointers(p) ==
  LET c == call[p]
      page == data[Copy(c.d).indirect]
      n == page[c.k - Direct]
  IN
  /\ At(p, "pointers")
  /\ Becomes(p, IF n # Zero THEN [c EXCEPT !.at = "data", !.n = n, !.slot = "none"]
                ELSE [ReadsBits(c, "take") EXCEPT !.pointers = page, !.slot = "pointer"])
  /\ Damaged(When(n = Junk, "raced"))
  /\ UNCHANGED <<disk, dirents, calls, history>>

pointer(p) ==
  LET c == call[p]
      b == Copy(c.d).indirect
  IN
  /\ At(p, "pointer")
  /\ data' = [data EXCEPT ![b] = [c.pointers EXCEPT ![c.k - Direct] = c.n]]
  /\ Damaged(When(data[b] # c.pointers, "raced"))
  /\ Becomes(p, Goes(c, "data"))
  /\ UNCHANGED <<inodes, bitmap, dirents, calls, history>>

\* Names in use in a directory.
Listed(node) ==
  UNION {{PageAt(node, k)[s].name : s \in {s \in Page : IsItem(PageAt(node, k)[s])}} :
           k \in 0 .. BlocksOf(node) - 1}

\* The edited page goes to block n.  An update is lost if the page came from another
\* block, or from this one before somebody changed it, or if somebody was faster to
\* write to a new block; a name added since the lookup
\* is there twice.
data_write(p) ==
  LET c == call[p]
      whole == c.op = "write" /\ c.lo = 0 /\ c.hi = Slots - 1
      late == IF c.slot = "none" THEN c.from # c.n \/ data[c.n] # c.page
              ELSE c.from \notin {None, Zero, Junk} \/ data[c.n] # Full(Junk)
  IN
  /\ At(p, "data") /\ c.n \in Blocks
  /\ data' = [data EXCEPT ![c.n] = [s \in Page |-> IF s \in c.lo .. c.hi THEN c.word ELSE c.page[s]]]
  /\ written' = IF c.op # "write" THEN written
                ELSE [written EXCEPT ![dirents[c.d].inum] =
                        [s \in DOMAIN @ |-> IF s \in c.off - (c.hi - c.lo + 1) .. c.off - 1
                                            THEN c.name ELSE @[s]]]
  /\ created' = CASE c.op = "create" -> [created EXCEPT ![dirents[c.d].inum] = @ \cup {c.name}]
                  [] c.op = "remove" -> [created EXCEPT ![dirents[c.d].inum] = @ \ {c.name}]
                  [] OTHER -> created
  /\ Damaged(When(late /\ ~whole, "raced")
             \cup When(c.op = "create" /\ c.name \in Listed(Copy(c.d)), "raced"))
  /\ Becomes(p, [Follows(c) EXCEPT !.n = Zero, !.slot = "none", !.after = "none",
                                       !.page = <<>>, !.from = None, !.pointers = <<>>])
  /\ UNCHANGED <<inodes, bitmap, dirents, calls, folders, lost>>
-----------------------------------------------------------------------------
(* diskfs_dirent_remove and diskfs_inode_delete, which is given the inode of the *)
(* directory d, not the one of the file.                                         *)

delete(p) ==
  LET c == call[p]
      node == Copy(c.d)
      first == [i \in 1 .. Min({Direct, Max({1, BlocksOf(node)})}) |-> node.direct[i - 1]]
  IN
  /\ At(p, "delete")
  /\ Becomes(p, [ReadsBits(c, "free") EXCEPT !.victims = first,
                                             !.after = IF BlocksOf(node) > Direct THEN "rest" ELSE "none"])
  /\ Damaged({"removed"})
  /\ UNCHANGED <<disk, dirents, calls, history>>

\* The blocks behind the indirect one; the indirect block itself is not freed.
delete_rest(p) ==
  LET c == call[p]
      node == Copy(c.d)
      more == [i \in 1 .. Min({Slots, BlocksOf(node) - Direct}) |-> data[node.indirect][i - 1]]
  IN
  /\ At(p, "rest")
  /\ Becomes(p, [ReadsBits(c, "free") EXCEPT !.victims = more, !.after = "none"])
  /\ UNCHANGED <<disk, dirents, calls, history, damage>>

\* diskfs_data_block_free
free(p) ==
  LET c == call[p]
      left == [c EXCEPT !.victims = Tail(@)]
  IN
  /\ At(p, "free")
  /\ bitmap' = c.bits \ {Head(c.victims)}
  /\ Becomes(p, IF left.victims # <<>> THEN ReadsBits(left, "free")
                ELSE IF c.after = "rest" THEN Goes(left, "rest") ELSE ReadsTable(left, "bury"))
  /\ UNCHANGED <<inodes, data, dirents, calls, history, damage>>

bury(p) ==
  /\ At(p, "bury")
  /\ write_table(p, call[p].inum, Copy(call[p].d))
  /\ Becomes(p, ReadsTable(call[p], "unclaim"))
  /\ UNCHANGED <<dirents, history>>

\* diskfs_inumber_free
unclaim(p) ==
  LET c == call[p] IN
  /\ At(p, "unclaim")
  /\ write_table(p, c.inum, [c.table[c.inum] EXCEPT !.inuse = FALSE])
  /\ Return(p)
  /\ UNCHANGED <<dirents, history>>
-----------------------------------------------------------------------------
(* A kill ends a call between two accesses. *)

\* p has made a pointer or a size that is not good yet: an indirect block that is not
\* cleared, a directory block that is not there; or its close is the last.
Torn(p) ==
  \/ call[p].slot = "indirect" /\ (At(p, "zero") \/ At(p, "save") \/ call[p].goal = "save")
  \/ call[p].op = "create" /\ call[p].after = "save"
  \/ call[p].op = "close"

process_kill(p) ==
  LET c == call[p] IN
  /\ c # Idle
  /\ Return(p)
  /\ dirents' = IF c.op = "close" THEN [dirents EXCEPT ![c.d] = None] ELSE dirents
  /\ lost' = lost \cup When(At(p, "pointer"), c.n)
  /\ Damaged(When(Torn(p), "torn"))
  /\ UNCHANGED <<disk, calls, written, created, folders>>
-----------------------------------------------------------------------------
\* A disk just formatted and mounted.
RootInode == [Inode(TRUE) EXCEPT !.size = 1, !.direct[0] = 1]
Dot == [name |-> ".", inum |-> 0, isdir |-> TRUE]

Init ==
  /\ inodes = [i \in Inums |-> IF i = 0 THEN RootInode ELSE Inode(FALSE)]
  /\ bitmap = {Zero, 1}
  /\ \E x \in {Zero, Junk} :
       data = [b \in Blocks |-> IF b = 1 THEN [s \in Page |-> IF s = 0 THEN Dot ELSE Zero]
                                ELSE IF b = Zero THEN Full(x) ELSE Full(Junk)]
  /\ dirents = [d \in Dirents |-> IF d = Root THEN [inum |-> 0, disk |-> RootInode, isdir |-> TRUE]
                                  ELSE None]
  /\ call = [p \in Procs |-> Idle] /\ calls = 0
  /\ written = [i \in Inums |-> [s \in 0 .. MaxSize - 1 |-> None]]
  /\ created = [i \in Inums |-> {}] /\ folders = {0} /\ lost = {} /\ damage = {}

Step(p) ==
  \/ fs_dirent_write(p) \/ next(p) \/ fill(p) \/ diskfs_dirent_lookup(p) \/ fs_dirent_close(p)
  \/ save(p) \/ claim(p) \/ init(p) \/ echo(p) \/ load(p)
  \/ look(p) \/ empty(p) \/ add(p) \/ grow(p) \/ put(p)
  \/ no_block(p) \/ take(p) \/ zero(p) \/ pointers(p) \/ pointer(p) \/ data_write(p)
  \/ delete(p) \/ process_kill(p)

\* Nothing is claimed of what follows damage, but a removal comes to its end.
Next == \E p \in Procs :
  \/ damage = {} /\ Step(p)
  \/ damage \subseteq {"removed"}
       /\ (table(p) \/ bits(p) \/ delete_rest(p) \/ free(p) \/ bury(p) \/ unclaim(p))

Spec == Init /\ [][Next]_vars
-----------------------------------------------------------------------------
(* What holds until one of these has happened: "raced", a page was written back *)
(* over somebody else's update of it, or a name added twice; "doubled", a copy  *)
(* of an inode changed while another was open, or was loaded before that change *)
(* was saved; "nospace", the disk was full when a directory had to grow;        *)
(* "overrun", a directory has outgrown its pointers; "removed", a file was      *)
(* removed; "torn", a kill where Torn says.                                     *)
Sound == damage = {}

Used == {i \in Inums : inodes[i].inuse}
\* The inode as whoever uses it sees it.
Views(i) == LET open == {d \in Open : dirents[d].inum = i}
            IN  IF open = {} THEN {inodes[i]} ELSE {Copy(d) : d \in open}
View(i) == CHOOSE v \in Views(i) : TRUE

TypeOK ==
  /\ inodes \in [Inums -> Node] /\ bitmap \in SUBSET Blocks
  /\ DOMAIN data = Blocks /\ \A b \in Blocks : DOMAIN data[b] = Page
  /\ dirents \in [Dirents -> Entry \cup {None}]
  /\ DOMAIN call = Procs /\ calls \in 0 .. MaxCalls
  /\ \A p \in Procs : LET c == call[p] IN
       /\ DOMAIN c = DOMAIN Idle
       /\ c.inum \in Inums /\ c.n \in Blocks \cup {Junk} /\ c.k \in 0 .. Direct + Slots
       /\ c.off \in Nat /\ c.len \in Nat /\ c.lo \in Page /\ c.hi \in Page
       /\ c.table \in [Inums -> Node] \cup {<<>>} /\ c.bits \in SUBSET Blocks
  /\ written \in [Inums -> [0 .. MaxSize - 1 -> Values \cup {None}]]
  /\ created \in [Inums -> SUBSET (Names \cup {"."})]
  /\ folders \in SUBSET Inums /\ lost \in SUBSET Blocks

\* The pointers of an inode: the direct ones, the indirect one, and those behind it.
Pointer(v, k) ==
  IF k < Direct THEN v.direct[k] ELSE IF k = Direct THEN v.indirect
  ELSE IF v.indirect = Zero THEN Zero ELSE data[v.indirect][k - Direct - 1]
Pointers == {x \in Used \X (0 .. Direct + Slots) : Pointer(View(x[1]), x[2]) \notin {Zero, Junk}}
\* Blocks that a call has taken and not yet stored a pointer to.
Pending == {call[p].n : p \in {p \in Procs : At(p, "pointer")}}

\* Between any two steps of any two calls: all copies of an inode agree, no block has two
\* pointers to it, and the bitmap marks exactly the blocks with a pointer, those on
\* the way to one, and those a kill has lost.
SpaceSound ==
  Sound =>
    /\ \A i \in Used : Cardinality(Views(i)) = 1
    /\ \A x, y \in Pointers : x # y => Pointer(View(x[1]), x[2]) # Pointer(View(y[1]), y[2])
    /\ bitmap = {Zero} \cup {Pointer(View(x[1]), x[2]) : x \in Pointers} \cup Pending \cup lost

\* A read of a byte returns what was last written there, through whatever entry, and
\* after the last close of the file.
ReadBack ==
  Sound => \A i \in Used : \A v \in Views(i), s \in 0 .. MaxSize - 1 :
    written[i][s] # None => s < v.size /\ fs_dirent_read(v)[s] = written[i][s]

\* The items of the directory i.
Items(i) == {x \in (0 .. BlocksOf(View(i)) - 1) \X Page : IsItem(PageAt(View(i), x[1])[x[2]])}
ItemAt(i, x) == PageAt(View(i), x[1])[x[2]]

\* Names lead somewhere: in every directory no name is there twice, each is of an
\* inode in use, no inode has two names, and none that was put there and not
\* removed has gone.
NamesSound ==
  Sound => \A i \in folders :
    /\ \A x \in Items(i) : ItemAt(i, x).inum \in Used
    /\ \A j \in folders : \A x \in Items(i), y \in Items(j) :
         <<i, x>> # <<j, y>> => /\ ItemAt(i, x).inum # ItemAt(j, y).inum
                              /\ (i = j => ItemAt(i, x).name # ItemAt(j, y).name)
    /\ created[i] \subseteq Listed(View(i))
=============================================================================
