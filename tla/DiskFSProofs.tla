----------------------------- MODULE DiskFSProofs -----------------------------
(* Proofs about DiskFS. *)
EXTENDS DiskFS, FiniteSetTheorems, TLAPS

Nil == {Zero, Junk}
Kinds == 0 .. Direct + Slots
Slots0 == 0 .. Direct + Slots - 1
Numbers == 1 .. NBlocks - 1

\* What the assumptions say of the constants, in the form the provers need.
LEMMA Sizes ==
  /\ Slots \in Nat \ {0} /\ Direct \in Nat \ {0} /\ NBlocks \in Nat \ {0, 1} /\ NInodes \in Nat \ {0}
  /\ 0 \in Page /\ 0 \in Inums /\ Zero \in Blocks /\ Zero # Junk /\ Junk \notin Blocks
  /\ Blocks = {Zero} \cup Numbers /\ Zero \notin Numbers /\ 1 \in Numbers
  /\ MaxSize \in Nat
BY DiskFSAssumption, WordAssumption DEF Page, Inums, Blocks, Numbers

\* A finite set of numbers has a least one.
LEMMA MinExists ==
  ASSUME NEW S \in SUBSET Int, IsFiniteSet(S), S # {}
  PROVE  Min(S) \in S /\ \A i \in S : Min(S) <= i
<1> DEFINE Upto(i) == {j \in S : j <= i}
           T == {Upto(i) : i \in S}
           R == StrictSubsetOrdering(S)
<1>1. IsWellFoundedOn(R, SUBSET S)
  BY FS_StrictSubsetOrderingWellFounded, FS_FiniteSubsetsOfFinite
<1>2. T \subseteq SUBSET S /\ T # {}
  OBVIOUS
<1>3. PICK A \in T : \A B \in T : <<B, A>> \notin R
  <2> HIDE DEF T, R
  <2> QED BY <1>1, <1>2, WFMin
<1>4. PICK i \in S : A = Upto(i)
  BY <1>3
<1>5. ASSUME NEW j \in S, j < i PROVE FALSE
  <2>0. \A x \in S : x \in Int
    OBVIOUS
  <2>1. Upto(j) \in T /\ Upto(j) \subseteq A /\ i \in A /\ i \notin Upto(j)
    <3>1. Upto(j) \in T
      OBVIOUS
    <3>2. Upto(j) \subseteq Upto(i)
      <4>1. ASSUME NEW k \in S, k <= j PROVE k <= i
        BY <2>0, <1>5, <4>1
      <4> QED BY <4>1
    <3>3. i \in Upto(i) /\ i \notin Upto(j)
      BY <2>0, <1>5
    <3> QED BY <3>1, <3>2, <3>3, <1>4
  <2>2. <<Upto(j), A>> \in R
    BY <2>1, <1>2, <1>3 DEF StrictSubsetOrdering
  <2> QED BY <2>1, <2>2, <1>3
<1>6. \E x \in S : \A y \in S : x <= y
  BY <1>5
<1> QED BY <1>6 DEF Min
-----------------------------------------------------------------------------
\* The first position of a list where some condition holds: what a search that
\* walks the list from its head stops at.
LEMMA FirstOfList ==
  ASSUME NEW S, NEW s \in Seq(S), NEW I \in SUBSET DOMAIN s, I # {}
  PROVE  s[Min(I)] \in Range(s) /\ s[Min(I)] \in S
<1>1. DOMAIN s = 1 .. Len(s) /\ Len(s) \in Int
  OBVIOUS
<1>2. IsFiniteSet(DOMAIN s) /\ DOMAIN s \in SUBSET Int
  BY <1>1, FS_Interval
<1>3. IsFiniteSet(I) /\ I \in SUBSET Int
  BY <1>2, FS_Subset
<1>4. Min(I) \in DOMAIN s
  BY <1>3, MinExists
<1>5. \A i \in DOMAIN s : s[i] \in S
  OBVIOUS
<1> QED BY <1>4, <1>5 DEF Range

\* A place in a file is a block and a slot of it.
LEMMA Times ==
  /\ \A a \in Nat : a * Slots \in Nat
  /\ \A a, b \in Nat : a <= b => a * Slots <= b * Slots
  /\ \A a, b \in Nat : a < b => a * Slots + Slots <= b * Slots
<1>1. Slots \in Nat \ {0}
  BY Sizes
<1>2. \A a \in Nat : a * Slots \in Nat
  BY <1>1, Z3
<1>3. \A a, b \in Nat : a <= b => a * Slots <= b * Slots
  BY <1>1, Z3
<1>4. \A a, b \in Nat : a < b => a * Slots + Slots <= b * Slots
  <2>1. \A a \in Nat : (a + 1) * Slots = a * Slots + Slots
    BY <1>1, Z3
  <2> SUFFICES ASSUME NEW a \in Nat, NEW b \in Nat, a < b PROVE a * Slots + Slots <= b * Slots
    OBVIOUS
  <2>2. a + 1 \in Nat /\ a + 1 <= b
    OBVIOUS
  <2> QED BY <2>1, <2>2, <1>3
<1> QED BY <1>2, <1>3, <1>4

\* Every place is in one slot of one block.
LEMMA PlaceOf ==
  ASSUME NEW n \in Nat
  PROVE  n \div Slots \in Nat /\ (n % Slots) \in Page /\ n = (n \div Slots) * Slots + (n % Slots)
<1>1. Slots \in Nat \ {0}
  BY Sizes
<1>2. n \div Slots \in Nat /\ (n % Slots) \in 0 .. Slots - 1 /\ n = Slots * (n \div Slots) + (n % Slots)
  BY <1>1, Z3
<1>3. Slots * (n \div Slots) = (n \div Slots) * Slots
  BY <1>1, <1>2, Z3
<1> QED BY <1>2, <1>3 DEF Page

\* The block and the slot of the place that slot s of block k is.
LEMMA PlaceIs ==
  ASSUME NEW k \in Nat, NEW s \in Page
  PROVE  /\ k * Slots + s \in Nat
         /\ (k * Slots + s) \div Slots = k /\ (k * Slots + s) % Slots = s
<1> DEFINE n == k * Slots + s
           q == n \div Slots
           r == n % Slots
<1>1. n \in Nat /\ s \in 0 .. Slots - 1 /\ Slots \in Nat \ {0} /\ k * Slots \in Nat
  BY Times, Sizes DEF Page
<1>2. q \in Nat /\ r \in 0 .. Slots - 1 /\ n = q * Slots + r
  BY <1>1, PlaceOf DEF Page
<1>3. q * Slots \in Nat /\ (q < k => q * Slots + Slots <= k * Slots)
        /\ (k < q => k * Slots + Slots <= q * Slots)
  BY <1>2, Times
<1>4. n = k * Slots + s
  OBVIOUS
<1> HIDE DEF n, q, r
<1>5. ~(q < k) /\ ~(k < q)
  BY <1>1, <1>2, <1>3, <1>4
<1>6. q = k
  BY <1>2, <1>5
<1>7. r = s
  BY <1>1, <1>2, <1>4, <1>6
<1> QED BY <1>1, <1>6, <1>7 DEF n, q, r

\* Block k of a file is there if the file goes beyond its start.
LEMMA BlocksIff ==
  ASSUME NEW node, node.size \in Nat
  PROVE  BlocksOf(node) \in Nat /\ \A k \in Nat : k < BlocksOf(node) <=> k * Slots < node.size
<1> DEFINE m == node.size + Slots - 1
           q == m \div Slots
<1>1. Slots \in Nat \ {0} /\ m \in Nat
  BY Sizes
<1>2. q \in Nat /\ (m % Slots) \in 0 .. Slots - 1 /\ m = q * Slots + (m % Slots)
  BY <1>1, PlaceOf DEF Page
<1>3. BlocksOf(node) = q
  BY DEF BlocksOf
<1> SUFFICES ASSUME NEW k \in Nat PROVE k < q <=> k * Slots < node.size
  BY <1>2, <1>3
<1>4. /\ q * Slots \in Nat /\ k * Slots \in Nat
      /\ k < q => k * Slots + Slots <= q * Slots
      /\ q <= k => q * Slots <= k * Slots
  BY <1>2, Times
<1>5. m = node.size + Slots - 1
  OBVIOUS
<1> HIDE DEF m, q
<1> QED BY <1>1, <1>2, <1>4, <1>5
-----------------------------------------------------------------------------
(* The invariant.  Its parts speak of: E the open entries, N the inodes on the disk, *)
(* U those in use, F those of directories, Z the sizes of the files, T their         *)
(* pointers, D the blocks, and W what the files hold.                                *)

\* The step a call is at, or the one it reads the table or the bitmap for.
Where(c) == IF c.at \in {"table", "bits"} THEN c.goal ELSE c.at
\* In diskfs_inode_write; in that, or on the way to it with the block chosen.
InWrite(c) == Where(c) \in {"put", "take", "zero", "pointers", "pointer", "data"} \/ c.slot # "none"
HasBlock(c) == InWrite(c) \/ Where(c) \in {"fill", "empty"}
\* A create that has an inode and no name for it; a call that will use its inode.
Fresh(c) == c.op = "create" /\ (Where(c) \in {"init", "add"} \/ InWrite(c))
Aims(c) == Fresh(c) \/ Where(c) \in {"load", "echo"} \/ (c.op = "create" /\ Where(c) \in {"grow", "save"})
\* A call whose file has an indirect block that is not cleared yet.
Clears(c) == Where(c) \in {"save", "zero"} /\ c.slot = "indirect"

\* The control of one call.
Line(c, open) ==
  /\ c.at = "table" => c.goal \in {"save", "claim", "init", "echo", "bury", "unclaim"}
  /\ c.at = "bits" => c.goal \in {"take", "free"}
  /\ c.at \in {"save", "claim", "init", "echo", "bury", "unclaim"} => c.table \in [Inums -> Node]
  /\ Where(c) = "echo" => c.node \in Node
  /\ Where(c) = "idle" => c = Idle
  /\ Where(c) # "idle" => c.d \in open
  /\ c.op = "close" => Where(c) = "save"
  /\ c.isdir \in BOOLEAN

\* The control of all calls, and that nobody uses an entry that is being closed.
Lines ==
  /\ \A p \in Procs : Line(call[p], Open)
  /\ \A p, q \in Procs : call[p].op = "close" /\ p # q /\ Where(call[q]) # "idle" => call[q].d # call[p].d

\* Where a call can be, by what it is for.
Path(c) ==
  /\ Where(c) \in {"idle", "next", "fill", "look", "save", "claim", "init", "echo", "load", "empty",
                   "add", "grow", "put", "take", "zero", "pointers", "pointer", "data", "delete"}
  /\ Where(c) = "idle" <=> c.op = "none"
  /\ Where(c) = "look" => c.op \in {"open", "create", "remove"}
  /\ Where(c) \in {"next", "fill"} => c.op = "write"
  /\ Where(c) \in {"claim", "init", "add", "grow"} => c.op = "create"
  /\ Where(c) \in {"empty", "delete"} => c.op = "remove"
  /\ Where(c) = "load" => c.op \in {"open", "echo", "create"}
  /\ Where(c) = "echo" => c.op = "echo"
  /\ Where(c) = "save" /\ c.slot = "none" => c.op \in {"create", "close"}
  /\ c.op = "echo" => Where(c) \in {"load", "echo"}
  /\ c.op = "close" => c.slot = "none"
  /\ HasBlock(c) => \/ c.op = "write" /\ c.after = "next"
                    \/ c.op = "create" /\ c.after \in {"save", "grow"}
                    \/ c.op = "remove" /\ c.after = "delete"
  /\ \/ c.slot = "none"     /\ Where(c) \notin {"take", "zero", "pointer"}
     \/ c.slot = "direct"   /\ Where(c) \in {"take", "save", "data"} /\ c.k < Direct
     \/ c.slot = "indirect" /\ Where(c) \in {"take", "save", "zero", "pointers"} /\ c.k >= Direct
     \/ c.slot = "pointer"  /\ Where(c) \in {"take", "pointer", "data"} /\ c.k >= Direct

\* Block k of a file starts here.
Start(k) == k * Slots

\* Block, size and kind of the entry e a call works on, z the size of its file.
Reach(c, e, z) ==
  /\ Where(c) # "idle" /\ c.op \in {"open", "create", "echo", "remove"} => e.isdir
  /\ c.op = "write" => ~e.isdir /\ c.name \in Values /\ c.off + c.len <= z /\ c.off + c.len <= MaxSize
  /\ HasBlock(c) \/ Where(c) = "grow" => c.k < Direct + Slots /\ Start(c.k) < z
  /\ Where(c) \in {"look", "claim", "init", "add"} => c.k = 0 \/ Start(c.k - 1) < z
  /\ HasBlock(c) /\ c.op = "write" => c.word = c.name /\ Start(c.k) + c.hi < z
     /\ Start(c.k) + c.hi < MaxSize
  /\ HasBlock(c) /\ c.op = "write" => c.off = Start(c.k) + c.hi + 1
  /\ c.op = "create" => c.name \in Names

\* The page of a call that writes a block and what is to change in it.
Edit(c) ==
  /\ InWrite(c) \/ Where(c) = "empty" => /\ c.from \in Nil \cup {None} => \A s \in Page : c.page[s] \in Nil
                                         /\ c.op # "write" => c.lo = c.hi
  /\ InWrite(c) /\ c.op = "create" =>
       /\ c.word = [name |-> c.name, inum |-> c.inum, isdir |-> c.isdir]
       /\ \/ c.after = "grow" /\ c.page[c.lo] = Zero
          \/ c.after = "save" /\ c.from = None
  /\ HasBlock(c) /\ c.op = "remove" =>
       c.word = Zero /\ c.page[c.lo] \notin Nil /\ c.page[c.lo].name = c.name

\* The inode a create has made, and the one a call will use.
Aim(c, E, N, U, F) ==
  /\ Aims(c) => c.inum \in U /\ (c.op # "echo" => (c.isdir <=> c.inum \in F))
  /\ Fresh(c) => N[c.inum] = Inode(TRUE) /\ \A d \in Dirents : E[d] # None => E[d].inum # c.inum

\* The pointers of all files, Zero where there is none.
Kept(b) == IF b \in Nil THEN Zero ELSE b
Tree == [i \in Inums |-> [k \in Kinds |-> IF i \in Used THEN Kept(Pointer(View(i), k)) ELSE Zero]]
Behind(k) == IF k < Direct THEN k ELSE k + 1
Sz == [i \in Inums |-> View(i).size]

\* The block a call has found or taken, t the pointers of its file.
Found(c, t, D) ==
  /\ Where(c) = "save" /\ c.slot = "direct" => c.n = t[c.k] /\ c.n # Zero
  /\ Clears(c) => c.n = t[Direct] /\ c.n # Zero /\ \A s \in Page : D[c.n][s] = Junk
  /\ Where(c) = "pointers" \/ c.slot = "pointer" => c.k >= Direct /\ t[Direct] # Zero
  /\ Where(c) \in {"take", "pointer"} /\ c.slot = "pointer" =>
       DOMAIN c.pointers = Page /\ c.pointers[c.k - Direct] = Zero
         /\ \A s \in Page : c.pointers[s] \in Blocks
  /\ c.at = "data" => c.n = t[Behind(c.k)] /\ c.n # Zero

\* All that holds of one call.
Local(c, E, N, U, F, Z, T, D) ==
  /\ Path(c) /\ Edit(c) /\ Aim(c, E, N, U, F)
  /\ Where(c) # "idle" => Reach(c, E[c.d], Z[E[c.d].inum]) /\ Found(c, T[E[c.d].inum], D)

\* Two calls do not make the same inode, nor clear or fill in the same block.
Distinct(c, o) ==
  /\ Fresh(c) /\ Aims(o) => c.inum # o.inum
  /\ c.at = "pointer" /\ o.at = "pointer" => c.n # o.n
  /\ Clears(c) /\ Clears(o) => c.n # o.n

\* An open entry is of an inode in use, and knows whether it is a directory.
EntryOK(d) ==
  dirents[d].inum \in Used /\ (dirents[d].isdir <=> dirents[d].inum \in folders) /\ Copy(d).inuse
\* All copies of an inode agree, and an unused inode is blank.
Agree ==
  /\ 0 \in Used /\ folders \subseteq Used
  /\ \A d \in Open : EntryOK(d)
  /\ \A d, e \in Open : dirents[d].inum = dirents[e].inum => Copy(d) = Copy(e)
  /\ \A i \in Inums \ Used : inodes[i] = Inode(FALSE)

\* No file is longer than its pointers reach.
Small(U, Z) == \A i \in U : Z[i] <= Start(Direct + Slots)

\* Every block has at most one pointer; its bit is set if it has one, if it is on its way to
\* one (pend), or if it was lost on that way (gone).
Space(T, bm, pend, gone) ==
  /\ \A i, j \in Inums, k, l \in Kinds : T[i][k] # Zero /\ T[i][k] = T[j][l] => i = j /\ k = l
  /\ Zero \in bm /\ pend \subseteq Numbers /\ gone \subseteq Numbers /\ pend \cap gone = {}
  /\ \A b \in Numbers : b \in bm <=> (\E i \in Inums, k \in Kinds : T[i][k] = b) \/ b \in pend \cup gone
  /\ \A i \in Inums, k \in Kinds : T[i][k] \notin pend \cup gone

\* A block without a pointer is as it was found; an indirect block is cleared or is not.
Blank(T, D) ==
  /\ \A b \in Numbers : (\A i \in Inums, k \in Kinds : T[i][k] # b) => \A s \in Page : D[b][s] = Junk
  /\ (\A s \in Page : D[Zero][s] = Zero) \/ \A s \in Page : D[Zero][s] = Junk
  /\ \A i \in Inums : T[i][Direct] # Zero =>
       (\A s \in Page : D[T[i][Direct]][s] = Junk) \/ \A s \in Page : D[T[i][Direct]][s] \in Blocks

\* A directory has no block beyond its end.
Within(T, Z, F) == \A i \in F, k \in Slots0 : T[i][Behind(k)] # Zero => Start(k) < Z[i]

\* What the files hold, Zero for a slot that is blank or has no block.
CellsOf(T, D) ==
  [i \in Inums |-> [k \in Slots0 |-> [s \in Page |->
     IF T[i][Behind(k)] = Zero THEN Zero ELSE Kept(D[T[i][Behind(k)]][s])]]]
Cells == CellsOf(Tree, data)

\* An item names an inode in use, with the kind it has, and none that a create has made and
\* not named yet (fresh).
ItemsOK(W, U, F, fresh) ==
  \A i \in F, k \in Slots0, s \in Page : W[i][k][s] # Zero =>
    /\ W[i][k][s] \in Item /\ W[i][k][s].inum \in U \ fresh
    /\ W[i][k][s].isdir <=> W[i][k][s].inum \in F

\* No two items name one inode, none of a directory have one name; what was created is there.
NamesOK(W, F, names) ==
  /\ \A i, j \in F, k, l \in Slots0, s, t \in Page :
       W[i][k][s] # Zero /\ W[j][l][t] # Zero /\ ~(i = j /\ k = l /\ s = t) =>
         /\ W[i][k][s].inum # W[j][l][t].inum
         /\ i = j => W[i][k][s].name # W[j][l][t].name
  /\ \A i \in F, x \in Names \cup {"."} : x \in names[i] =>
       \E k \in Slots0, s \in Page : W[i][k][s] # Zero /\ W[i][k][s].name = x
  /\ \A i \in Inums \ F : names[i] = {}

\* The last byte written to each place of a file is there.
Bytes(W, Z, U, F, last) ==
  \A i \in Inums, s \in 0 .. MaxSize - 1 : last[i][s] # None =>
    i \in U \ F /\ s < Z[i] /\ W[i][s \div Slots][s % Slots] = last[i][s]

\* The inodes of the creates that have not added their name yet.
Freshes == {call[p].inum : p \in {q \in Procs : Fresh(call[q])}}

\* What holds of the calls, and of any two of them.
Locals ==
  /\ \A p \in Procs : Local(call[p], dirents, inodes, Used, folders, Sz, Tree, data)
  /\ \A p, q \in Procs : p # q => Distinct(call[p], call[q])

\* What keeps the disk sound while nothing has been damaged.
Good ==
  /\ Agree /\ Small(Used, Sz) /\ Space(Tree, bitmap, Pending, lost) /\ Blank(Tree, data)
  /\ Within(Tree, Sz, folders)
  /\ ItemsOK(Cells, Used, folders, Freshes) /\ NamesOK(Cells, folders, created)
  /\ Bytes(Cells, Sz, Used, folders, written)
  /\ Locals
\* The inductive invariant.
IInv == TypeOK /\ Lines /\ (Sound => Good)

-----------------------------------------------------------------------------
(* Views and pointers.                                                       *)

\* All copies of an inode agree, and the view of it is the copy, or what is on the
\* disk while there is none.
LEMMA ViewIs ==
  Agree => /\ \A d \in Open : View(dirents[d].inum) = Copy(d)
           /\ \A i \in Inums : (\A d \in Open : dirents[d].inum # i) => View(i) = inodes[i]
           /\ \A i \in Inums : Views(i) = {View(i)}
<1> SUFFICES ASSUME Agree
             PROVE  /\ \A d \in Open : View(dirents[d].inum) = Copy(d)
                    /\ \A i \in Inums : (\A d \in Open : dirents[d].inum # i) => View(i) = inodes[i]
                    /\ \A i \in Inums : Views(i) = {View(i)}
  OBVIOUS
<1>1. ASSUME NEW d \in Open
      PROVE  Views(dirents[d].inum) = {Copy(d)} /\ View(dirents[d].inum) = Copy(d)
  <2>1. Views(dirents[d].inum) = {Copy(d)}
    BY DEF Views, Agree
  <2>2. \A v \in {Copy(d)} : v = Copy(d)
    OBVIOUS
  <2> QED BY <2>1, <2>2 DEF View
<1>2. ASSUME NEW i \in Inums, \A d \in Open : dirents[d].inum # i
      PROVE  Views(i) = {inodes[i]} /\ View(i) = inodes[i]
  <2>1. Views(i) = {inodes[i]}
    BY <1>2 DEF Views
  <2> QED BY <2>1 DEF View
<1>3. ASSUME NEW i \in Inums PROVE Views(i) = {View(i)}
  <2>1. CASE \A d \in Open : dirents[d].inum # i
    BY <1>2, <2>1
  <2>2. CASE \E d \in Open : dirents[d].inum = i
    BY <1>1, <2>2
  <2> QED BY <2>1, <2>2
<1> QED BY <1>1, <1>2, <1>3

\* An open entry names an inode and has a copy of one.
LEMMA OpenTyped ==
  TypeOK => \A d \in Open : d \in Dirents /\ dirents[d] \in Entry /\ dirents[d].inum \in Inums
    /\ Copy(d) \in Node
BY DEF TypeOK, Open, Entry, Copy

\* The view of an inode is an inode, its size a number.
LEMMA ViewTyped ==
  TypeOK /\ Agree => \A i \in Inums : View(i) \in Node /\ Sz[i] = View(i).size /\ Sz[i] \in Nat
<1> SUFFICES ASSUME TypeOK, Agree, NEW i \in Inums PROVE View(i) \in Node
  BY DEF Sz, Node
<1>1. CASE \A d \in Open : dirents[d].inum # i
  BY <1>1, ViewIs DEF TypeOK
<1>2. CASE \E d \in Open : dirents[d].inum = i
  BY <1>2, ViewIs, OpenTyped
<1> QED BY <1>1, <1>2

\* The kinds of pointers: direct ones, the indirect one, and those in its block; a block
\* of a file has one direct pointer or one behind the indirect.
LEMMA KindIs ==
  /\ \A k \in Kinds : k \in 0 .. Direct - 1 \/ k = Direct \/ \E s \in Page : k = Direct + 1 + s
  /\ \A k \in 0 .. Direct - 1 : k \in Kinds /\ k # Direct
  /\ Direct \in Kinds
  /\ \A s \in Page : Direct + 1 + s \in Kinds /\ Direct + 1 + s # Direct /\ ~(Direct + 1 + s < Direct)
  /\ \A k \in Slots0 : /\ k < Direct => k \in 0 .. Direct - 1 /\ Behind(k) = k
                       /\ ~(k < Direct) => k - Direct \in Page /\ Behind(k) = Direct + 1 + (k - Direct)
                       /\ Behind(k) \in Kinds /\ Behind(k) # Direct
  /\ \A k, l \in Slots0 : Behind(k) = Behind(l) => k = l
<1>1. Direct \in Nat \ {0} /\ Slots \in Nat \ {0} /\ Page = 0 .. Slots - 1
  BY Sizes DEF Page
<1>2. \A k \in Kinds : k \in 0 .. Direct - 1 \/ k = Direct \/ \E s \in Page : k = Direct + 1 + s
  <2>1. ASSUME NEW k \in Kinds, ~(k \in 0 .. Direct - 1), k # Direct
          PROVE \E s \in Page : k = Direct + 1 + s
    <3>1. k - Direct - 1 \in Page /\ k = Direct + 1 + (k - Direct - 1)
      BY <1>1, <2>1 DEF Kinds
    <3> QED BY <3>1
  <2> QED BY <2>1
<1> QED BY <1>1, <1>2 DEF Kinds, Slots0, Behind

\* The pointer map, read off the views.
LEMMA TreeIs ==
  ASSUME TypeOK, Agree, Blank(Tree, data)
  PROVE  /\ Tree \in [Inums -> [Kinds -> Blocks]]
         /\ \A i \in Inums \ Used, k \in Kinds : Tree[i][k] = Zero
         /\ \A i \in Used :
              /\ \A k \in 0 .. Direct - 1 : Tree[i][k] = View(i).direct[k]
              /\ Tree[i][Direct] = View(i).indirect
              /\ \A s \in Page : Tree[i][Direct + 1 + s] =
                   IF View(i).indirect = Zero THEN Zero ELSE Kept(data[View(i).indirect][s])
<1>1. /\ \A i \in Inums, k \in Kinds : Tree[i][k] = IF i \in Used THEN Kept(Pointer(View(i), k)) ELSE Zero
      /\ Used \subseteq Inums
  BY DEF Tree, Used
<1>2. \A i \in Inums : /\ View(i).direct \in [0 .. Direct - 1 -> Blocks] /\ View(i).indirect \in Blocks
  BY ViewTyped DEF Node
<1>3. ASSUME NEW i \in Used
      PROVE  /\ \A k \in 0 .. Direct - 1 : Tree[i][k] = View(i).direct[k] /\ Tree[i][k] \in Blocks
             /\ Tree[i][Direct] = View(i).indirect /\ Tree[i][Direct] \in Blocks
             /\ \A s \in Page : /\ Tree[i][Direct + 1 + s] =
                                     IF View(i).indirect = Zero THEN Zero
                                       ELSE Kept(data[View(i).indirect][s])
                                /\ Tree[i][Direct + 1 + s] \in Blocks
  <2>1. i \in Inums
    BY <1>1
  <2>2. \A b \in Blocks : Kept(b) = b
    BY Sizes DEF Kept, Nil
  <2>3. \A k \in 0 .. Direct - 1 : Tree[i][k] = View(i).direct[k] /\ Tree[i][k] \in Blocks
    <3> SUFFICES ASSUME NEW k \in 0 .. Direct - 1
          PROVE Tree[i][k] = View(i).direct[k] /\ Tree[i][k] \in Blocks
      OBVIOUS
    <3>1. k \in Kinds /\ k < Direct /\ View(i).direct[k] \in Blocks
      BY <1>2, <2>1, KindIs, Sizes
    <3> QED BY <1>1, <2>1, <2>2, <3>1 DEF Pointer
  <2>4. Tree[i][Direct] = View(i).indirect /\ Tree[i][Direct] \in Blocks
    <3>1. Pointer(View(i), Direct) = View(i).indirect
      BY Sizes DEF Pointer
    <3> QED BY <1>1, <1>2, <2>1, <2>2, <3>1, KindIs
  <2>5. ASSUME NEW s \in Page
        PROVE  /\ Tree[i][Direct + 1 + s] =
                    IF View(i).indirect = Zero THEN Zero ELSE Kept(data[View(i).indirect][s])
               /\ Tree[i][Direct + 1 + s] \in Blocks
    <3>1. Pointer(View(i), Direct + 1 + s) = IF View(i).indirect = Zero THEN Zero
            ELSE data[View(i).indirect][s]
      <4>1. (Direct + 1 + s) - Direct - 1 = s /\ ~(Direct + 1 + s < Direct) /\ Direct + 1 + s # Direct
        BY Sizes DEF Page
      <4> QED BY <4>1 DEF Pointer
    <3>2. View(i).indirect # Zero => data[View(i).indirect][s] = Junk
            \/ data[View(i).indirect][s] \in Blocks
      BY <2>1, <2>4 DEF Blank
    <3>3. Kept(Zero) = Zero /\ Kept(Junk) = Zero
      BY DEF Kept, Nil
    <3>4. Tree[i][Direct + 1 + s] = Kept(Pointer(View(i), Direct + 1 + s))
      BY <1>1, <2>1, KindIs
    <3>5. CASE View(i).indirect = Zero
      BY <3>1, <3>3, <3>4, <3>5, Sizes
    <3>6. CASE View(i).indirect # Zero
      BY <2>2, <3>1, <3>2, <3>3, <3>4, <3>6, Sizes
    <3> QED BY <3>5, <3>6
  <2> QED BY <2>3, <2>4, <2>5
<1>4. \A i \in Inums \ Used, k \in Kinds : Tree[i][k] = Zero
  BY <1>1
<1>5. Tree \in [Inums -> [Kinds -> Blocks]]
  <2>1. \A i \in Inums, k \in Kinds : Tree[i][k] \in Blocks
    <3> SUFFICES ASSUME NEW i \in Inums, NEW k \in Kinds PROVE Tree[i][k] \in Blocks
      OBVIOUS
    <3>1. CASE i \notin Used
      BY <3>1, <1>4, Sizes
    <3>2. CASE i \in Used
      BY <3>2, <1>3, KindIs
    <3> QED BY <3>1, <3>2
  <2>2. Tree = [i \in Inums |-> [k \in Kinds |-> Tree[i][k]]]
    BY DEF Tree
  <2> HIDE DEF Tree
  <2> QED BY <2>1, <2>2
<1> QED BY <1>3, <1>4, <1>5

\* What a read of a block gets.
LEMMA PageIs ==
  ASSUME TypeOK, Agree, Blank(Tree, data), NEW i \in Used, NEW k \in Slots0
  PROVE  /\ Tree[i][Behind(k)] # Zero => /\ BlockAt(View(i), k) = Tree[i][Behind(k)]
                                         /\ PageAt(View(i), k) = data[Tree[i][Behind(k)]]
         /\ Tree[i][Behind(k)] = Zero => /\ BlockAt(View(i), k) \in Nil
                                         /\ \A s \in Page : PageAt(View(i), k)[s] \in Nil
<1> DEFINE b == BlockAt(View(i), k)
<1>1. i \in Inums /\ Tree[i][Behind(k)] \in Blocks
  BY TreeIs, KindIs DEF Used
<1>2. Tree[i][Behind(k)] = Kept(b) /\ (b \in Blocks \/ b = Junk)
  <2>1. CASE k < Direct
    <3>1. b = Tree[i][Behind(k)] /\ b \in Blocks
      BY <2>1, <1>1, TreeIs, KindIs DEF BlockAt
    <3> QED BY <3>1, Sizes DEF Kept, Nil
  <2>2. CASE ~(k < Direct) /\ View(i).indirect # Zero
    <3>1. b = data[View(i).indirect][k - Direct] /\ k - Direct \in Page
            /\ Behind(k) = Direct + 1 + (k - Direct)
      BY <2>2, KindIs DEF BlockAt
    <3>2. Tree[i][Behind(k)] = Kept(b)
      BY <2>2, <3>1, TreeIs
    <3>3. b \in Blocks \/ b = Junk
      BY <1>1, <2>2, <3>1, TreeIs DEF Blank
    <3> QED BY <3>2, <3>3
  <2>3. CASE ~(k < Direct) /\ View(i).indirect = Zero
    <3>1. b = data[Zero][k - Direct] /\ k - Direct \in Page /\ Behind(k) = Direct + 1 + (k - Direct)
      BY <2>3, KindIs DEF BlockAt
    <3>2. b \in Nil
      BY <3>1 DEF Blank, Nil
    <3>3. Tree[i][Behind(k)] = Zero
      BY <2>3, <3>1, TreeIs
    <3> QED BY <3>2, <3>3, Sizes DEF Kept, Nil
  <2> QED BY <2>1, <2>2, <2>3
<1>3. CASE b \in Nil
  <2>1. PageAt(View(i), k) = IF b \in Blocks THEN data[b] ELSE Full(Junk)
    BY DEF PageAt, PageOf
  <2>2. \A s \in Page : PageAt(View(i), k)[s] \in Nil
    BY <1>3, <2>1, Sizes DEF Nil, Blank, Full
  <2> QED BY <1>2, <1>3, <2>2 DEF Kept
<1>4. CASE b \notin Nil
  <2>1. b \in Blocks /\ b # Zero /\ Tree[i][Behind(k)] = b
    BY <1>2, <1>4 DEF Kept, Nil
  <2> QED BY <2>1 DEF PageAt, PageOf
<1> QED BY <1>3, <1>4

ViewFacts ==
  /\ \A d \in Open : View(dirents[d].inum) = Copy(d)
  /\ \A i \in Inums : (\A d \in Open : dirents[d].inum # i) => View(i) = inodes[i]

\* ViewFacts is ViewIs in a form that can be primed.
LEMMA ViewsNow == Agree => ViewFacts
BY ViewIs DEF ViewFacts

\* The same of the next state.
LEMMA ViewsNext == Agree' => ViewFacts'
BY ViewsNow, PTL

\* The open entries stay what they are, and nothing a reader of a file sees changes.
Lasting == \A d \in Open : d \in Open' /\ dirents'[d].inum = dirents[d].inum
  /\ dirents'[d].isdir = dirents[d].isdir
SameViews == Used' = Used /\ \A i \in Inums : View(i)' = View(i)

\* Saving an inode: the disk gets what everybody sees already.
LEMMA SaveViews ==
  ASSUME TypeOK, Agree, NEW d \in Open, folders' = folders,
         inodes' = [inodes EXCEPT ![dirents[d].inum] = Copy(d)],
         dirents' = dirents \/ dirents' = [dirents EXCEPT ![d] = None]
  PROVE  /\ Agree' /\ SameViews /\ Open' \subseteq Open
         /\ \A e \in Open \ {d} : e \in Open' /\ dirents'[e] = dirents[e]
         /\ dirents' = dirents => Open' = Open
         /\ \A i \in Inums : (\A e \in Open : dirents[e].inum # i) => inodes'[i] = inodes[i]
<1>1. /\ d \in Dirents /\ dirents[d].inum \in Inums /\ Copy(d).inuse /\ dirents[d].inum \in Used
      /\ inodes \in [Inums -> Node] /\ dirents \in [Dirents -> Entry \cup {None}]
  BY OpenTyped DEF TypeOK, Agree, EntryOK
<1>2. Used' = Used
  BY <1>1 DEF Used
<1>3. /\ Open' \subseteq Open
      /\ \A e \in Open \ {d} : e \in Open' /\ dirents'[e] = dirents[e]
      /\ dirents' = dirents => Open' = Open
      /\ \A e \in Open' : dirents'[e] = dirents[e] /\ Copy(e)' = Copy(e)
  BY <1>1 DEF Open, Copy
<1>4. \A i \in Inums : i # dirents[d].inum => inodes'[i] = inodes[i]
  BY <1>1
<1>5. inodes'[dirents[d].inum] = Copy(d)
  BY <1>1
<1>6. Agree'
  <2>1. 0 \in Used' /\ folders' \subseteq Used' /\ \A i \in Inums \ Used' : inodes'[i] = Inode(FALSE)
    BY <1>1, <1>2, <1>3, <1>4 DEF Agree
  <2>2. ASSUME NEW d1 \in Open' PROVE EntryOK(d1)'
    BY <2>2, <1>1, <1>2, <1>3, <1>4 DEF Agree, EntryOK
  <2>3. ASSUME NEW d1 \in Open', NEW d2 \in Open', dirents'[d1].inum = dirents'[d2].inum
        PROVE  Copy(d1)' = Copy(d2)'
    BY <2>3, <1>1, <1>2, <1>3, <1>4 DEF Agree
  <2> QED BY <2>1, <2>2, <2>3 DEF Agree
<1>7. ASSUME NEW i \in Inums PROVE View(i)' = View(i)
  <2>1. CASE \E e \in Open' : dirents'[e].inum = i
    <3>1. PICK e \in Open' : dirents'[e].inum = i
      BY <2>1
    <3>2. e \in Open /\ dirents[e].inum = i /\ Copy(e)' = Copy(e)
      BY <1>3, <3>1
    <3>3. View(i) = Copy(e)
      BY <3>2, ViewsNow DEF ViewFacts
    <3>4. View(i)' = Copy(e)'
      BY <1>6, <3>1, ViewsNext DEF ViewFacts
    <3> QED BY <3>2, <3>3, <3>4
  <2>2. CASE \A e \in Open' : dirents'[e].inum # i
    <3>1. View(i)' = inodes'[i]
      BY <1>6, <2>2, ViewsNext DEF ViewFacts
    <3>2. CASE i = dirents[d].inum
      BY <1>5, <3>1, <3>2, ViewsNow DEF ViewFacts
    <3>3. CASE i # dirents[d].inum
      <4>1. \A e \in Open : dirents[e].inum # i
        BY <1>3, <2>2, <3>3
      <4> QED BY <1>4, <3>1, <3>3, <4>1, ViewsNow DEF ViewFacts
    <3> QED BY <3>2, <3>3
  <2> QED BY <2>1, <2>2
<1> QED BY <1>2, <1>3, <1>4, <1>6, <1>7 DEF SameViews

\* A new entry for an inode nobody has changed since it was saved.
LEMMA LoadViews ==
  ASSUME TypeOK, Agree, NEW e \in Dirents \ Open, NEW i \in Used, NEW t \in BOOLEAN, t <=> i \in folders,
         \A o \in Open : dirents[o].inum = i => Copy(o) = inodes[i],
         dirents' = [dirents EXCEPT ![e] = [inum |-> i, disk |-> inodes[i], isdir |-> t]],
         inodes' = inodes, folders' = folders
  PROVE  /\ Agree' /\ SameViews /\ Open' = Open \cup {e}
         /\ \A d \in Open : dirents'[d] = dirents[d]
<1> DEFINE new == [inum |-> i, disk |-> inodes[i], isdir |-> t]
<1>1. /\ i \in Inums /\ inodes[i].inuse /\ inodes[i] \in Node /\ new \in Entry
      /\ dirents \in [Dirents -> Entry \cup {None}]
  BY DEF TypeOK, Used, Entry
<1>2. new # None
  BY <1>1, WordAssumption
<1>3. Used' = Used
  BY DEF Used
<1>4. /\ Open' = Open \cup {e} /\ \A d \in Open : dirents'[d] = dirents[d] /\ Copy(d)' = Copy(d)
      /\ dirents'[e] = new /\ Copy(e)' = inodes[i] /\ dirents'[e].inum = i /\ (dirents'[e].isdir <=> t)
  BY <1>1, <1>2 DEF Open, Copy
<1>5. Agree'
  <2>1. 0 \in Used' /\ folders' \subseteq Used' /\ \A u \in Inums \ Used' : inodes'[u] = Inode(FALSE)
    BY <1>1, <1>3, <1>4 DEF Agree
  <2>2. ASSUME NEW d1 \in Open' PROVE EntryOK(d1)'
    BY <2>2, <1>1, <1>3, <1>4 DEF Agree, EntryOK
  <2>3. ASSUME NEW d1 \in Open', NEW d2 \in Open', dirents'[d1].inum = dirents'[d2].inum
        PROVE  Copy(d1)' = Copy(d2)'
    BY <2>3, <1>1, <1>3, <1>4 DEF Agree
  <2> QED BY <2>1, <2>2, <2>3 DEF Agree
<1>6. ASSUME NEW j \in Inums PROVE View(j)' = View(j)
  <2>1. CASE \E d \in Open : dirents[d].inum = j
    <3>1. PICK d \in Open : dirents[d].inum = j
      BY <2>1
    <3>2. View(j) = Copy(d)
      BY <3>1, ViewsNow DEF ViewFacts
    <3>3. View(j)' = Copy(d)'
      BY <1>4, <1>5, <3>1, ViewsNext DEF ViewFacts
    <3> QED BY <1>4, <3>2, <3>3
  <2>2. CASE \A d \in Open : dirents[d].inum # j
    <3>1. View(j) = inodes[j]
      BY <2>2, ViewsNow DEF ViewFacts
    <3>2. CASE j = i
      <4>1. View(j)' = Copy(e)'
        BY <1>4, <1>5, <3>2, ViewsNext DEF ViewFacts
      <4> QED BY <1>4, <3>1, <3>2, <4>1
    <3>3. CASE j # i
      <4>1. \A d \in Open' : dirents'[d].inum # j
        BY <1>4, <2>2, <3>3
      <4>2. View(j)' = inodes'[j]
        BY <1>5, <4>1, ViewsNext DEF ViewFacts
      <4> QED BY <3>1, <4>2
    <3> QED BY <3>2, <3>3
  <2> QED BY <2>1, <2>2
<1> QED BY <1>3, <1>4, <1>5, <1>6 DEF SameViews

\* The only entry of an inode changes its copy.
LEMMA ChangeViews ==
  ASSUME TypeOK, Agree, NEW d \in Open, Others(d) = {}, NEW node \in Node, node.inuse, Changed(d, node),
         inodes' = inodes, folders' = folders
  PROVE  /\ Agree' /\ Used' = Used /\ Open' = Open /\ Lasting
         /\ View(dirents[d].inum)' = node
         /\ \A i \in Inums : i # dirents[d].inum => View(i)' = View(i)
<1>1. /\ d \in Dirents /\ dirents[d] \in Entry /\ dirents[d].inum \in Inums
      /\ dirents \in [Dirents -> Entry \cup {None}]
      /\ dirents' = [dirents EXCEPT ![d] = [dirents[d] EXCEPT !.disk = node]]
  BY OpenTyped DEF TypeOK, Changed
<1>2. [dirents[d] EXCEPT !.disk = node] \in Entry
  BY <1>1 DEF Entry
<1>3. /\ [dirents[d] EXCEPT !.disk = node].inum = dirents[d].inum
      /\ [dirents[d] EXCEPT !.disk = node].isdir = dirents[d].isdir
      /\ [dirents[d] EXCEPT !.disk = node].disk = node
  BY <1>1 DEF Entry
<1>4. Used' = Used
  BY DEF Used
<1>5. /\ Open' = Open /\ \A e \in Open \ {d} : dirents'[e] = dirents[e] /\ Copy(e)' = Copy(e)
      /\ Copy(d)' = node /\ Lasting
  BY <1>1, <1>2, <1>3, WordAssumption DEF Open, Copy, Lasting
<1>6. \A e \in Open \ {d} : dirents[e].inum # dirents[d].inum
  BY DEF Others
<1>7. Agree'
  <2>1. 0 \in Used' /\ folders' \subseteq Used' /\ \A i \in Inums \ Used' : inodes'[i] = Inode(FALSE)
    BY <1>4, <1>5, <1>6 DEF Agree
  <2>2. ASSUME NEW d1 \in Open' PROVE EntryOK(d1)'
    BY <2>2, <1>4, <1>5, <1>6 DEF Agree, EntryOK, Lasting
  <2>3. ASSUME NEW d1 \in Open', NEW d2 \in Open', dirents'[d1].inum = dirents'[d2].inum
        PROVE  Copy(d1)' = Copy(d2)'
    BY <2>3, <1>4, <1>5, <1>6 DEF Agree, Lasting
  <2> QED BY <2>1, <2>2, <2>3 DEF Agree
<1>8. View(dirents[d].inum)' = node
  BY <1>5, <1>7, ViewsNext DEF ViewFacts, Lasting
<1>9. ASSUME NEW i \in Inums, i # dirents[d].inum PROVE View(i)' = View(i)
  <2>1. CASE \E e \in Open : dirents[e].inum = i
    <3>1. PICK e \in Open : dirents[e].inum = i
      BY <2>1
    <3>2. View(i) = Copy(e)
      BY <3>1, ViewsNow DEF ViewFacts
    <3>3. View(i)' = Copy(e)'
      BY <1>5, <1>7, <3>1, ViewsNext DEF ViewFacts, Lasting
    <3> QED BY <1>5, <1>9, <3>1, <3>2, <3>3
  <2>2. CASE \A e \in Open : dirents[e].inum # i
    <3>1. \A e \in Open' : dirents'[e].inum # i
      BY <1>5, <2>2 DEF Lasting
    <3> QED BY <1>7, <2>2, <3>1, ViewsNow, ViewsNext DEF ViewFacts
  <2> QED BY <2>1, <2>2
<1> QED BY <1>4, <1>5, <1>7, <1>8, <1>9

\* An unused inode is taken: it has no entry, no size and no pointer.
LEMMA ClaimViews ==
  ASSUME TypeOK, Agree, NEW u \in Inums \ Used,
         inodes' = [inodes EXCEPT ![u] = Inode(TRUE)], dirents' = dirents,
         folders' = folders \/ folders' = folders \cup {u}
  PROVE  /\ Agree' /\ Used' = Used \cup {u} /\ Open' = Open
         /\ \A d \in Open : dirents[d].inum # u
         /\ View(u) = Inode(FALSE) /\ View(u)' = Inode(TRUE)
         /\ \A i \in Inums : i # u => View(i)' = View(i)
<1>1. inodes \in [Inums -> Node] /\ Inode(TRUE).inuse /\ inodes[u] = Inode(FALSE)
  BY DEF TypeOK, Agree, Inode
<1>2. Used' = Used \cup {u} /\ \A i \in Inums : i # u => inodes'[i] = inodes[i]
  BY <1>1 DEF Used
<1>3. Open' = Open /\ \A d \in Open : Copy(d)' = Copy(d) /\ dirents[d].inum # u
  BY DEF Open, Copy, Agree, EntryOK
<1>4. Agree'
  <2>1. 0 \in Used' /\ folders' \subseteq Used' /\ \A i \in Inums \ Used' : inodes'[i] = Inode(FALSE)
    BY <1>2, <1>3 DEF Agree
  <2>2. ASSUME NEW d1 \in Open' PROVE EntryOK(d1)'
    BY <2>2, <1>2, <1>3 DEF Agree, EntryOK
  <2>3. ASSUME NEW d1 \in Open', NEW d2 \in Open', dirents'[d1].inum = dirents'[d2].inum
        PROVE  Copy(d1)' = Copy(d2)'
    BY <2>3, <1>2, <1>3 DEF Agree
  <2> QED BY <2>1, <2>2, <2>3 DEF Agree
<1>5. View(u) = inodes[u] /\ View(u)' = inodes'[u]
  BY <1>3, <1>4, ViewsNow, ViewsNext DEF ViewFacts
<1>6. ASSUME NEW i \in Inums, i # u PROVE View(i)' = View(i)
  <2>1. CASE \E e \in Open : dirents[e].inum = i
    BY <1>3, <1>4, <2>1, ViewsNow, ViewsNext DEF ViewFacts
  <2>2. CASE \A e \in Open : dirents[e].inum # i
    <3>1. View(i) = inodes[i]
      BY <2>2, ViewsNow DEF ViewFacts
    <3>2. View(i)' = inodes'[i]
      BY <1>3, <1>4, <2>2, ViewsNext DEF ViewFacts
    <3> QED BY <1>2, <1>6, <3>1, <3>2
  <2> QED BY <2>1, <2>2
<1> QED BY <1>1, <1>2, <1>3, <1>4, <1>5, <1>6

\* The pointer map by kind of pointer.
TreeFacts ==
  \A i \in Inums :
    /\ \A k \in 0 .. Direct - 1 : Tree[i][k] = IF i \in Used THEN Kept(View(i).direct[k]) ELSE Zero
    /\ Tree[i][Direct] = IF i \in Used THEN Kept(View(i).indirect) ELSE Zero
    /\ \A s \in Page : Tree[i][Direct + 1 + s] =
         IF i \in Used /\ View(i).indirect # Zero THEN Kept(data[View(i).indirect][s]) ELSE Zero

\* What the pointer map is, kind by kind, by definition.
LEMMA TreeNow == TreeFacts
<1>1. \A i \in Inums, k \in Kinds : Tree[i][k] = IF i \in Used THEN Kept(Pointer(View(i), k)) ELSE Zero
  BY DEF Tree
<1>2. Kept(Zero) = Zero
  BY DEF Kept
<1>3. \A i \in Inums, k \in 0 .. Direct - 1 : Pointer(View(i), k) = View(i).direct[k]
  BY Sizes DEF Pointer
<1>4. \A i \in Inums : Pointer(View(i), Direct) = View(i).indirect
  BY Sizes DEF Pointer
<1>5. ASSUME NEW i \in Inums, NEW s \in Page
      PROVE  Pointer(View(i), Direct + 1 + s) =
               IF View(i).indirect = Zero THEN Zero ELSE data[View(i).indirect][s]
  <2>1. (Direct + 1 + s) - Direct - 1 = s /\ ~(Direct + 1 + s < Direct) /\ Direct + 1 + s # Direct
    BY Sizes DEF Page
  <2> QED BY <2>1 DEF Pointer
<1> SUFFICES ASSUME NEW i \in Inums
             PROVE  /\ \A k \in 0 .. Direct - 1 : Tree[i][k] = IF i \in Used THEN Kept(View(i).direct[k])
                       ELSE Zero
                    /\ Tree[i][Direct] = IF i \in Used THEN Kept(View(i).indirect) ELSE Zero
                    /\ \A s \in Page : Tree[i][Direct + 1 + s] =
                         IF i \in Used /\ View(i).indirect # Zero THEN Kept(data[View(i).indirect][s])
                           ELSE Zero
  BY DEF TreeFacts
<1>6. \A k \in 0 .. Direct - 1 : Tree[i][k] = IF i \in Used THEN Kept(View(i).direct[k]) ELSE Zero
  BY <1>1, <1>3, KindIs
<1>7. Tree[i][Direct] = IF i \in Used THEN Kept(View(i).indirect) ELSE Zero
  BY <1>1, <1>4, KindIs
<1>8. ASSUME NEW s \in Page
      PROVE  Tree[i][Direct + 1 + s] =
               IF i \in Used /\ View(i).indirect # Zero THEN Kept(data[View(i).indirect][s]) ELSE Zero
  <2>1. Tree[i][Direct + 1 + s] = IF i \in Used THEN Kept(Pointer(View(i), Direct + 1 + s)) ELSE Zero
    BY <1>1, KindIs
  <2> QED BY <1>2, <1>5, <2>1
<1> QED BY <1>6, <1>7, <1>8

\* The same of the next state.
LEMMA TreeNext == TreeFacts'
BY TreeNow, PTL

\* Two maps are the same if they are the same at each kind of pointer.
LEMMA TreeSame ==
  ASSUME \A i \in Inums : /\ \A k \in 0 .. Direct - 1 : Tree'[i][k] = Tree[i][k]
                          /\ Tree'[i][Direct] = Tree[i][Direct]
                          /\ \A s \in Page : Tree'[i][Direct + 1 + s] = Tree[i][Direct + 1 + s]
  PROVE  Tree' = Tree
<1>1. \A i \in Inums, k \in Kinds : Tree'[i][k] = Tree[i][k]
  BY KindIs
<1>2. /\ Tree = [i \in Inums |-> [k \in Kinds |-> Tree[i][k]]]
      /\ Tree' = [i \in Inums |-> [k \in Kinds |-> Tree'[i][k]]]
  BY DEF Tree
<1> HIDE DEF Tree
<1> QED BY <1>1, <1>2

\* An inode just made has no size and no pointers.
LEMMA NewInode ==
  \A v : v = Inode(TRUE) => v.size = 0 /\ v.indirect = Zero /\ \A k \in 0 .. Direct - 1 : v.direct[k] = Zero
BY DEF Inode

\* Views with the same pointers, and indirect blocks with the same content.
LEMMA TreeKept ==
  ASSUME Used \subseteq Used', Used' \subseteq Inums,
         \A i \in Used : View(i)'.direct = View(i).direct /\ View(i)'.indirect = View(i).indirect,
         \A i \in Used' \ Used : View(i)' = Inode(TRUE),
         \A i \in Used, s \in Page : View(i).indirect # Zero =>
           Kept(data'[View(i).indirect][s]) = Kept(data[View(i).indirect][s])
  PROVE  Tree' = Tree
<1>1. TreeFacts /\ TreeFacts'
  BY TreeNow, TreeNext
<1>2. Kept(Zero) = Zero
  BY DEF Kept
<1>3. ASSUME NEW i \in Inums
      PROVE  /\ \A k \in 0 .. Direct - 1 : Tree'[i][k] = Tree[i][k]
             /\ Tree'[i][Direct] = Tree[i][Direct]
             /\ \A s \in Page : Tree'[i][Direct + 1 + s] = Tree[i][Direct + 1 + s]
  <2>1. CASE i \in Used
    <3>1. i \in Used' /\ View(i)'.direct = View(i).direct /\ View(i)'.indirect = View(i).indirect
      BY <2>1
    <3>2. \A s \in Page : View(i).indirect # Zero =>
            Kept(data'[View(i).indirect][s]) = Kept(data[View(i).indirect][s])
      BY <2>1
    <3> QED BY <1>1, <2>1, <3>1, <3>2 DEF TreeFacts
  <2>2. CASE i \notin Used'
    BY <1>1, <2>2 DEF TreeFacts
  <2>3. CASE i \in Used' \ Used
    <3>0. View(i)' = Inode(TRUE)
      BY <2>3
    <3>1. i \in Used' /\ i \notin Used /\ View(i)'.indirect = Zero
          /\ \A k \in 0 .. Direct - 1 : View(i)'.direct[k] = Zero
      BY <2>3, <3>0, NewInode
    <3>2. \A k \in 0 .. Direct - 1 : Tree'[i][k] = Tree[i][k]
      <4> SUFFICES ASSUME NEW k \in 0 .. Direct - 1 PROVE Tree'[i][k] = Tree[i][k]
        OBVIOUS
      <4>1. Tree'[i][k] = Kept(View(i)'.direct[k])
        BY <1>1, <3>1 DEF TreeFacts
      <4>2. Tree[i][k] = Zero
        BY <1>1, <3>1 DEF TreeFacts
      <4> QED BY <1>2, <3>1, <4>1, <4>2
    <3>3. Tree'[i][Direct] = Tree[i][Direct]
      BY <1>1, <1>2, <3>1 DEF TreeFacts
    <3>4. \A s \in Page : Tree'[i][Direct + 1 + s] = Tree[i][Direct + 1 + s]
      BY <1>1, <1>2, <3>1 DEF TreeFacts
    <3> QED BY <3>2, <3>3, <3>4
  <2> QED BY <2>1, <2>2, <2>3
<1> QED BY <1>3, TreeSame

\* The pointers and sizes are those of the views and the blocks.
LEMMA TreeViews ==
  ASSUME SameViews, data' = data
  PROVE  Tree' = Tree /\ Sz' = Sz
<1>1. Used' = Used /\ Used \subseteq Inums /\ \A i \in Inums : View(i)' = View(i)
  BY DEF SameViews, Used
<1>2. \A i \in Used : View(i)'.direct = View(i).direct /\ View(i)'.indirect = View(i).indirect
  BY <1>1
<1>3. Tree' = Tree
  BY <1>1, <1>2, TreeKept
<1> QED BY <1>1, <1>3 DEF Sz

\* A direct pointer, an indirect one, and one behind it, are set.
LEMMA TreeDirect ==
  ASSUME NEW i \in Used, NEW k \in 0 .. Direct - 1, NEW b \in Numbers, Used' = Used, data' = data,
         View(i) \in Node, View(i)' = [View(i) EXCEPT !.direct[k] = b],
         \A j \in Inums : j # i => View(j)' = View(j)
  PROVE  /\ k \in Kinds /\ \A j \in Inums, l \in Kinds : Tree'[j][l] = IF j = i /\ l = k THEN b
            ELSE Tree[j][l]
         /\ Sz' = Sz
<1>1. TreeFacts /\ TreeFacts'
  BY TreeNow, TreeNext
<1>2. /\ View(i)'.indirect = View(i).indirect /\ View(i)'.size = View(i).size
      /\ \A l \in 0 .. Direct - 1 : View(i)'.direct[l] = IF l = k THEN b ELSE View(i).direct[l]
  BY DEF Node
<1>3. Kept(b) = b /\ i \in Inums
  BY Sizes DEF Kept, Nil, Numbers, Blocks, Used
<1>4. ASSUME NEW j \in Inums
      PROVE  /\ \A l \in 0 .. Direct - 1 : Tree'[j][l] = IF j = i /\ l = k THEN b ELSE Tree[j][l]
             /\ Tree'[j][Direct] = Tree[j][Direct]
             /\ \A s \in Page : Tree'[j][Direct + 1 + s] = Tree[j][Direct + 1 + s]
  <2>1. CASE j = i
    <3>1. \A l \in 0 .. Direct - 1 : Tree'[j][l] = IF j = i /\ l = k THEN b ELSE Tree[j][l]
      <4> SUFFICES ASSUME NEW l \in 0 .. Direct - 1
                   PROVE  Tree'[i][l] = IF l = k THEN b ELSE Tree[i][l]
        BY <2>1
      <4>1. Tree'[i][l] = Kept(View(i)'.direct[l]) /\ Tree[i][l] = Kept(View(i).direct[l])
        BY <1>1, <1>3 DEF TreeFacts
      <4> QED BY <1>2, <1>3, <4>1
    <3>2. Tree'[j][Direct] = Tree[j][Direct]
      <4>1. Tree'[i][Direct] = Kept(View(i)'.indirect) /\ Tree[i][Direct] = Kept(View(i).indirect)
        BY <1>1, <1>3 DEF TreeFacts
      <4> QED BY <1>2, <2>1, <4>1
    <3>3. \A s \in Page : Tree'[j][Direct + 1 + s] = Tree[j][Direct + 1 + s]
      <4> DEFINE m == View(i).indirect
                 m2 == View(i)'.indirect
      <4>1. \A s \in Page :
              /\ Tree[i][Direct + 1 + s] = IF m # Zero THEN Kept(data[m][s]) ELSE Zero
              /\ Tree'[i][Direct + 1 + s] = IF m2 # Zero THEN Kept(data'[m2][s]) ELSE Zero
        BY <1>1, <1>3 DEF TreeFacts
      <4>2. m = m2
        BY <1>2
      <4> HIDE DEF m, m2
      <4> QED BY <2>1, <4>1, <4>2
    <3> QED BY <3>1, <3>2, <3>3
  <2>2. CASE j # i
    <3>1. View(j)' = View(j) /\ (j \in Used' <=> j \in Used)
      BY <2>2
    <3> QED BY <1>1, <2>2, <3>1 DEF TreeFacts
  <2> QED BY <2>1, <2>2
<1>5. \A l \in Kinds : l \in 0 .. Direct - 1 \/ (l # k
        /\ (l = Direct \/ \E s \in Page : l = Direct + 1 + s))
  BY KindIs
<1>6. Sz' = Sz
  BY <1>2 DEF Sz
<1> QED BY <1>4, <1>5, <1>6, KindIs

\* An indirect pointer is set, to a block nobody has written.
LEMMA TreeIndirect ==
  ASSUME NEW i \in Used, NEW b \in Numbers, Used' = Used, data' = data,
         View(i) \in Node, View(i)' = [View(i) EXCEPT !.indirect = b], View(i).indirect = Zero,
         \A j \in Inums : j # i => View(j)' = View(j), \A s \in Page : data[b][s] = Junk
  PROVE  /\ \A j \in Inums, l \in Kinds : Tree'[j][l] = IF j = i /\ l = Direct THEN b ELSE Tree[j][l]
         /\ Sz' = Sz
<1>1. TreeFacts /\ TreeFacts'
  BY TreeNow, TreeNext
<1>2. View(i)'.indirect = b /\ View(i)'.size = View(i).size /\ View(i)'.direct = View(i).direct
  BY DEF Node
<1>3. Kept(b) = b /\ Kept(Junk) = Zero /\ i \in Inums /\ b # Zero
  BY Sizes DEF Kept, Nil, Numbers, Blocks, Used
<1>4. ASSUME NEW j \in Inums
      PROVE  /\ \A l \in 0 .. Direct - 1 : Tree'[j][l] = Tree[j][l]
             /\ Tree'[j][Direct] = IF j = i THEN b ELSE Tree[j][Direct]
             /\ \A s \in Page : Tree'[j][Direct + 1 + s] = Tree[j][Direct + 1 + s]
  <2>1. CASE j = i
    <3>1. \A l \in 0 .. Direct - 1 : Tree'[j][l] = Tree[j][l]
      <4> SUFFICES ASSUME NEW l \in 0 .. Direct - 1 PROVE Tree'[i][l] = Tree[i][l]
        BY <2>1
      <4>1. Tree'[i][l] = Kept(View(i)'.direct[l]) /\ Tree[i][l] = Kept(View(i).direct[l])
        BY <1>1, <1>3 DEF TreeFacts
      <4> QED BY <1>2, <4>1
    <3>2. Tree'[j][Direct] = IF j = i THEN b ELSE Tree[j][Direct]
      <4>1. Tree'[i][Direct] = Kept(View(i)'.indirect)
        BY <1>1, <1>3 DEF TreeFacts
      <4> QED BY <1>2, <1>3, <2>1, <4>1
    <3>3. \A s \in Page : Tree'[j][Direct + 1 + s] = Tree[j][Direct + 1 + s]
      <4>1. \A s \in Page : Tree[i][Direct + 1 + s] = Zero
        BY <1>1, <1>3 DEF TreeFacts
      <4>2. \A s \in Page : Tree'[i][Direct + 1 + s] = Kept(data[b][s])
        BY <1>1, <1>2, <1>3 DEF TreeFacts
      <4> QED BY <1>3, <2>1, <4>1, <4>2
    <3> QED BY <3>1, <3>2, <3>3
  <2>2. CASE j # i
    <3>1. View(j)' = View(j) /\ (j \in Used' <=> j \in Used)
      BY <2>2
    <3> QED BY <1>1, <2>2, <3>1 DEF TreeFacts
  <2> QED BY <2>1, <2>2
<1>5. Sz' = Sz
  BY <1>2 DEF Sz
<1> QED BY <1>4, <1>5, KindIs

\* A pointer in the indirect block of a file is set.
LEMMA TreeBehind ==
  ASSUME NEW i \in Used, NEW x \in Page, NEW b \in Numbers, SameViews,
         View(i).indirect \in Numbers,
         \A s \in Page : data'[View(i).indirect][s] = IF s = x THEN b ELSE data[View(i).indirect][s],
         \A j \in Used, s \in Page : j # i /\ View(j).indirect # Zero =>
           Kept(data'[View(j).indirect][s]) = Kept(data[View(j).indirect][s])
  PROVE  /\ \A j \in Inums, l \in Kinds :
              Tree'[j][l] = IF j = i /\ l = Direct + 1 + x THEN b ELSE Tree[j][l]
         /\ Sz' = Sz
<1>1. TreeFacts /\ TreeFacts'
  BY TreeNow, TreeNext
<1>2. Used' = Used /\ (\A j \in Inums : View(j)' = View(j)) /\ i \in Inums /\ View(i).indirect # Zero
  BY Sizes DEF SameViews, Used
<1>3. Kept(b) = b
  BY Sizes DEF Kept, Nil, Numbers, Blocks
<1>4. ASSUME NEW j \in Inums
      PROVE  /\ \A l \in 0 .. Direct - 1 : Tree'[j][l] = Tree[j][l]
             /\ Tree'[j][Direct] = Tree[j][Direct]
             /\ \A s \in Page : Tree'[j][Direct + 1 + s] = IF j = i /\ s = x THEN b
                ELSE Tree[j][Direct + 1 + s]
  <2>1. /\ \A l \in 0 .. Direct - 1 : Tree'[j][l] = Tree[j][l]
        /\ Tree'[j][Direct] = Tree[j][Direct]
    BY <1>1, <1>2 DEF TreeFacts
  <2>2. CASE j = i
    BY <1>1, <1>2, <1>3, <2>1, <2>2 DEF TreeFacts
  <2>3. CASE j # i /\ j \in Used
    BY <1>1, <1>2, <2>1, <2>3 DEF TreeFacts
  <2>4. CASE j \notin Used
    BY <1>1, <1>2, <2>1, <2>4 DEF TreeFacts
  <2> QED BY <2>2, <2>3, <2>4
<1>5. Sz' = Sz
  BY <1>2 DEF Sz
<1>6. \A s \in Page : Direct + 1 + s = Direct + 1 + x => s = x
  BY Sizes DEF Page
<1> QED BY <1>4, <1>5, <1>6, KindIs
-----------------------------------------------------------------------------
(* How the parts of the invariant follow the pointers and the bitmap.        *)

\* Blocks start one after the other.
LEMMA Begins ==
  /\ \A a \in Nat : Start(a) \in Nat
  /\ \A a, b \in Nat : a <= b => Start(a) <= Start(b)
  /\ \A a, b \in Nat : a < b => Start(a) + Slots <= Start(b)
BY Times DEF Start

\* Where byte s of a file is.
LEMMA SlotOf ==
  ASSUME NEW s \in 0 .. MaxSize - 1
  PROVE  s \in Nat /\ s \div Slots \in Slots0 /\ s % Slots \in Page /\ s = Start(s \div Slots) + (s % Slots)
<1>1. s \in Nat /\ MaxSize <= Start(Direct + Slots) /\ Direct + Slots \in Nat /\ s < MaxSize
        /\ MaxSize \in Nat
  BY DiskFSAssumption, Sizes DEF Start
<1> DEFINE q == s \div Slots
           r == s % Slots
<1>2. q \in Nat /\ r \in Page /\ s = Start(q) + r
  BY <1>1, PlaceOf DEF Start
<1>3. Start(q) \in Nat /\ (Direct + Slots <= q => Start(Direct + Slots) <= Start(q))
        /\ Start(Direct + Slots) \in Nat
  BY <1>1, <1>2, Begins
<1> HIDE DEF q, r
<1>4. r \in Nat
  BY <1>2 DEF Page
<1>5. q < Direct + Slots
  BY <1>1, <1>2, <1>3, <1>4
<1>6. q \in Slots0
  BY <1>2, <1>5, Sizes DEF Slots0
<1> QED BY <1>1, <1>2, <1>6 DEF q, r

Puts(T, U, i, k, b) == \A j \in Inums, l \in Kinds : U[j][l] = IF j = i /\ l = k THEN b ELSE T[j][l]

\* A free block gets a pointer and a bit.
LEMMA SpaceSet ==
  ASSUME NEW T, NEW U, NEW bm, NEW pend, NEW gone, Space(T, bm, pend, gone),
         NEW i \in Inums, NEW k \in Kinds, NEW b \in Numbers, b \notin bm, T[i][k] = Zero,
           Puts(T, U, i, k, b)
  PROVE  Space(U, bm \cup {b}, pend, gone)
<1>0. \A j \in Inums, l \in Kinds : U[j][l] = IF j = i /\ l = k THEN b ELSE T[j][l]
  BY DEF Puts
<1>1. b # Zero /\ (\A j \in Inums, l \in Kinds : T[j][l] # b) /\ b \notin pend \cup gone
        /\ Zero \notin Numbers
  BY Sizes DEF Space
<1>2. ASSUME NEW j \in Inums, NEW j2 \in Inums, NEW l \in Kinds, NEW l2 \in Kinds,
             U[j][l] # Zero, U[j][l] = U[j2][l2]
      PROVE  j = j2 /\ l = l2
  BY <1>0, <1>1, <1>2 DEF Space
<1>3. Zero \in bm \cup {b} /\ pend \subseteq Numbers /\ gone \subseteq Numbers /\ pend \cap gone = {}
  BY DEF Space
<1>4. ASSUME NEW x \in Numbers
      PROVE  x \in bm \cup {b} <=> (\E j \in Inums, l \in Kinds : U[j][l] = x) \/ x \in pend \cup gone
  <2>1. CASE x = b
    BY <1>0, <2>1
  <2>2. CASE x # b
    <3>1. (\E j \in Inums, l \in Kinds : U[j][l] = x) <=> (\E j \in Inums, l \in Kinds : T[j][l] = x)
      <4>1. \A j \in Inums, l \in Kinds : T[j][l] = x <=> U[j][l] = x
        <5>1. x # Zero
          BY <1>1
        <5> QED BY <1>0, <2>2, <5>1
      <4> QED BY <4>1
    <3>2. x \in bm <=> (\E j \in Inums, l \in Kinds : T[j][l] = x) \/ x \in pend \cup gone
      BY DEF Space
    <3> QED BY <2>2, <3>1, <3>2
  <2> QED BY <2>1, <2>2
<1>5. \A j \in Inums, l \in Kinds : U[j][l] \notin pend \cup gone
  BY <1>0, <1>1 DEF Space
<1> QED BY <1>2, <1>3, <1>4, <1>5 DEF Space

\* A block on its way to a pointer gets there.
LEMMA SpaceFill ==
  ASSUME NEW T, NEW U, NEW bm, NEW pend, NEW gone, Space(T, bm, pend, gone),
         NEW i \in Inums, NEW k \in Kinds, NEW b \in pend, T[i][k] = Zero, Puts(T, U, i, k, b)
  PROVE  Space(U, bm, pend \ {b}, gone)
<1>0. \A j \in Inums, l \in Kinds : U[j][l] = IF j = i /\ l = k THEN b ELSE T[j][l]
  BY DEF Puts
<1>1. /\ b # Zero /\ (\A j \in Inums, l \in Kinds : T[j][l] # b) /\ b \notin gone /\ Zero \notin Numbers
      /\ b \in Numbers /\ b \in bm
  BY Sizes DEF Space
<1>2. ASSUME NEW j \in Inums, NEW j2 \in Inums, NEW l \in Kinds, NEW l2 \in Kinds,
             U[j][l] # Zero, U[j][l] = U[j2][l2]
      PROVE  j = j2 /\ l = l2
  BY <1>0, <1>1, <1>2 DEF Space
<1>3. Zero \in bm /\ pend \ {b} \subseteq Numbers /\ gone \subseteq Numbers /\ (pend \ {b}) \cap gone = {}
  BY DEF Space
<1>4. ASSUME NEW x \in Numbers
      PROVE  x \in bm <=> (\E j \in Inums, l \in Kinds : U[j][l] = x) \/ x \in (pend \ {b}) \cup gone
  <2>1. CASE x = b
    BY <1>0, <1>1, <2>1
  <2>2. CASE x # b
    <3>1. (\E j \in Inums, l \in Kinds : U[j][l] = x) <=> (\E j \in Inums, l \in Kinds : T[j][l] = x)
      <4>1. \A j \in Inums, l \in Kinds : T[j][l] = x <=> U[j][l] = x
        <5>1. x # Zero
          BY <1>1
        <5> QED BY <1>0, <2>2, <5>1
      <4> QED BY <4>1
    <3>2. x \in bm <=> (\E j \in Inums, l \in Kinds : T[j][l] = x) \/ x \in pend \cup gone
      BY DEF Space
    <3> QED BY <2>2, <3>1, <3>2
  <2> QED BY <2>1, <2>2
<1>5. \A j \in Inums, l \in Kinds : U[j][l] \notin (pend \ {b}) \cup gone
  BY <1>0, <1>1 DEF Space
<1> QED BY <1>2, <1>3, <1>4, <1>5 DEF Space

\* A free block is taken for a pointer behind the indirect block.
LEMMA SpaceAdd ==
  ASSUME NEW T, NEW bm, NEW pend, NEW gone, Space(T, bm, pend, gone), NEW b \in Numbers, b \notin bm
  PROVE  Space(T, bm \cup {b}, pend \cup {b}, gone)
BY DEF Space

\* The process that has taken it is killed.
LEMMA SpaceLose ==
  ASSUME NEW T, NEW bm, NEW pend, NEW gone, Space(T, bm, pend, gone), NEW b \in pend
  PROVE  Space(T, bm, pend \ {b}, gone \cup {b})
BY DEF Space

\* The block that gets a pointer is blank.
LEMMA BlankSet ==
  ASSUME NEW T, NEW U, NEW D, Blank(T, D), NEW i \in Inums, NEW k \in Kinds, NEW b \in Numbers,
         T[i][k] = Zero, \A j \in Inums, l \in Kinds : T[j][l] # b, Puts(T, U, i, k, b)
  PROVE  Blank(U, D)
<1>0. \A j \in Inums, l \in Kinds : U[j][l] = IF j = i /\ l = k THEN b ELSE T[j][l]
  BY DEF Puts
<1>1. \A s \in Page : D[b][s] = Junk
  BY DEF Blank
<1>2. ASSUME NEW x \in Numbers, \A j \in Inums, l \in Kinds : U[j][l] # x
      PROVE  \A s \in Page : D[x][s] = Junk
  <2>1. x # b
    BY <1>0, <1>2
  <2>2. ASSUME NEW j \in Inums, NEW l \in Kinds PROVE T[j][l] # x
    BY <1>0, <1>2, <2>1, Sizes
  <2> QED BY <2>2 DEF Blank
<1>3. ASSUME NEW j \in Inums, U[j][Direct] # Zero
      PROVE  (\A s \in Page : D[U[j][Direct]][s] = Junk) \/ \A s \in Page : D[U[j][Direct]][s] \in Blocks
  BY <1>0, <1>1, <1>3, KindIs DEF Blank
<1>4. (\A s \in Page : D[Zero][s] = Zero) \/ \A s \in Page : D[Zero][s] = Junk
  BY DEF Blank
<1> QED BY <1>2, <1>3, <1>4 DEF Blank

\* What the files hold, slot by slot.
LEMMA CellIs ==
  ASSUME NEW T, NEW D, NEW i \in Inums, NEW k \in Slots0, NEW s \in Page
  PROVE  CellsOf(T, D)[i][k][s] = IF T[i][Behind(k)] = Zero THEN Zero ELSE Kept(D[T[i][Behind(k)]][s])
BY DEF CellsOf

\* Files are equal if they are equal slot by slot.
LEMMA CellsEqual ==
  ASSUME NEW T, NEW D, NEW T2, NEW D2,
         \A i \in Inums, k \in Slots0, s \in Page : CellsOf(T2, D2)[i][k][s] = CellsOf(T, D)[i][k][s]
  PROVE  CellsOf(T2, D2) = CellsOf(T, D)
<1> DEFINE C(t, d, i, k, s) == IF t[i][Behind(k)] = Zero THEN Zero ELSE Kept(d[t[i][Behind(k)]][s])
<1>1. \A i \in Inums, k \in Slots0, s \in Page : C(T2, D2, i, k, s) = C(T, D, i, k, s)
  BY CellIs
<1>2. /\ CellsOf(T, D) = [i \in Inums |-> [k \in Slots0 |-> [s \in Page |-> C(T, D, i, k, s)]]]
      /\ CellsOf(T2, D2) = [i \in Inums |-> [k \in Slots0 |-> [s \in Page |-> C(T2, D2, i, k, s)]]]
  BY DEF CellsOf
<1> HIDE DEF C
<1> QED BY <1>1, <1>2

\* A pointer to a blank block adds nothing.
Fills(T, U, D, i, k, b) ==
  /\ i \in Inums /\ k \in Kinds /\ b # Zero /\ T[i][k] = Zero /\ Puts(T, U, i, k, b)
  /\ \A s \in Page : D[b][s] = Junk

\* A new pointer to a blank block changes no slot of a file.
LEMMA CellsSet ==
  ASSUME NEW T, NEW U, NEW D, NEW i, NEW k, NEW b, Fills(T, U, D, i, k, b)
  PROVE  CellsOf(U, D) = CellsOf(T, D)
<1>1. Kept(Junk) = Zero
  BY DEF Kept, Nil
<1>2. ASSUME NEW j \in Inums, NEW l \in Slots0, NEW s \in Page
      PROVE  CellsOf(U, D)[j][l][s] = CellsOf(T, D)[j][l][s]
  <2>1. U[j][Behind(l)] = IF j = i /\ Behind(l) = k THEN b ELSE T[j][Behind(l)]
    BY KindIs DEF Fills, Puts
  <2> QED BY <1>1, <2>1, CellIs DEF Fills
<1> QED BY <1>2, CellsEqual

\* A write to a block that is not one of a file.
Avoids(T, D, D2, n) ==
  /\ T \in [Inums -> [Kinds -> Blocks]]
  /\ \A b \in Blocks : b # n => D2[b] = D[b]
  /\ \A i \in Inums, k \in Slots0 : T[i][Behind(k)] # n

\* Nor does a write to a block that is no data block of a file.
LEMMA CellsAside ==
  ASSUME NEW T, NEW D, NEW D2, NEW n, Avoids(T, D, D2, n)
  PROVE  CellsOf(T, D2) = CellsOf(T, D)
<1>1. ASSUME NEW i \in Inums, NEW k \in Slots0, NEW s \in Page
      PROVE  CellsOf(T, D2)[i][k][s] = CellsOf(T, D)[i][k][s]
  <2>1. T[i][Behind(k)] \in Blocks
    BY KindIs DEF Avoids
  <2> QED BY <2>1, CellIs DEF Avoids
<1> QED BY <1>1, CellsEqual
-----------------------------------------------------------------------------
(* How the parts of the invariant follow what the files hold.                *)

Blankly(W, i) == \A k \in Slots0, s \in Page : W[i][k][s] = Zero

\* More inodes, a new empty directory, and fewer creates on their way.
LEMMA ItemsKept ==
  ASSUME NEW W, NEW U, NEW F, NEW fr, ItemsOK(W, U, F, fr), NEW U2, NEW F2, NEW fr2,
         U \subseteq U2, F \subseteq F2, F2 \cap U \subseteq F, fr2 \cap U \subseteq fr,
         \A i \in F2 \ F : Blankly(W, i)
  PROVE  ItemsOK(W, U2, F2, fr2)
<1> SUFFICES ASSUME NEW i \in F2, NEW k \in Slots0, NEW s \in Page, W[i][k][s] # Zero
             PROVE  /\ W[i][k][s] \in Item /\ W[i][k][s].inum \in U2 \ fr2
                    /\ W[i][k][s].isdir <=> W[i][k][s].inum \in F2
  BY DEF ItemsOK
<1>1. i \in F
  BY DEF Blankly
<1>2. /\ W[i][k][s] \in Item /\ W[i][k][s].inum \in U \ fr
      /\ W[i][k][s].isdir <=> W[i][k][s].inum \in F
  BY <1>1 DEF ItemsOK
<1> QED BY <1>2

\* The same for the names in the directories.
LEMMA NamesKept ==
  ASSUME NEW W, NEW F, NEW names, NamesOK(W, F, names), NEW F2, F \subseteq F2, F2 \subseteq Inums,
         \A i \in F2 \ F : Blankly(W, i)
  PROVE  NamesOK(W, F2, names)
<1>1. ASSUME NEW i \in F2, NEW j \in F2, NEW k \in Slots0, NEW l \in Slots0, NEW s \in Page, NEW t \in Page,
             W[i][k][s] # Zero, W[j][l][t] # Zero, ~(i = j /\ k = l /\ s = t)
      PROVE  /\ W[i][k][s].inum # W[j][l][t].inum
             /\ i = j => W[i][k][s].name # W[j][l][t].name
  <2>1. i \in F /\ j \in F
    BY <1>1 DEF Blankly
  <2> QED BY <1>1, <2>1 DEF NamesOK
<1>2. ASSUME NEW i \in F2, NEW x \in Names \cup {"."}, x \in names[i]
      PROVE  \E k \in Slots0, s \in Page : W[i][k][s] # Zero /\ W[i][k][s].name = x
  <2>1. i \in F
    BY <1>2 DEF NamesOK
  <2> QED BY <1>2, <2>1 DEF NamesOK
<1>3. \A i \in Inums \ F2 : names[i] = {}
  BY DEF NamesOK
<1> QED BY <1>1, <1>2, <1>3 DEF NamesOK

\* A file that grows, or a new one, keeps the bytes written.
LEMMA BytesKept ==
  ASSUME NEW W, NEW Z, NEW U, NEW F, NEW last, Bytes(W, Z, U, F, last), NEW Z2, NEW U2, NEW F2,
         U \subseteq U2, F2 \cap U \subseteq F, U \subseteq Inums,
         \A i \in U : Z[i] \in Nat /\ Z2[i] \in Nat /\ Z[i] <= Z2[i]
  PROVE  Bytes(W, Z2, U2, F2, last)
<1> SUFFICES ASSUME NEW i \in Inums, NEW s \in 0 .. MaxSize - 1, last[i][s] # None
             PROVE  i \in U2 \ F2 /\ s < Z2[i] /\ W[i][s \div Slots][s % Slots] = last[i][s]
  BY DEF Bytes
<1>1. i \in U \ F /\ s < Z[i] /\ W[i][s \div Slots][s % Slots] = last[i][s]
  BY DEF Bytes
<1>2. s \in Int /\ Z[i] \in Int /\ Z2[i] \in Int /\ Z[i] <= Z2[i]
  BY <1>1
<1>3. s < Z2[i]
  BY <1>1, <1>2
<1> QED BY <1>1, <1>3

\* The slots S of block k of file i become w.
Edits(W, W2, i, k, S, w) ==
  \A j \in Inums, l \in Slots0, s \in Page :
    W2[j][l][s] = IF j = i /\ l = k /\ s \in S THEN w ELSE W[j][l][s]

\* A write to a block of a file, where the page agrees with the block outside S.
LEMMA CellsWrite ==
  ASSUME NEW T \in [Inums -> [Kinds -> Blocks]], NEW D, NEW D2, NEW n, NEW i \in Inums, NEW k \in Slots0,
         NEW S \in SUBSET Page, NEW w,
         n = T[i][Behind(k)], n # Zero,
         \A j \in Inums, l \in Slots0 : T[j][Behind(l)] = n => j = i /\ l = k,
         \A b \in Blocks : b # n => D2[b] = D[b],
         \A s \in Page : Kept(D2[n][s]) = IF s \in S THEN w ELSE Kept(D[n][s])
  PROVE  Edits(CellsOf(T, D), CellsOf(T, D2), i, k, S, w)
<1> SUFFICES ASSUME NEW j \in Inums, NEW l \in Slots0, NEW s \in Page
             PROVE  CellsOf(T, D2)[j][l][s] = IF j = i /\ l = k /\ s \in S THEN w
                      ELSE CellsOf(T, D)[j][l][s]
  BY DEF Edits
<1>1. T[j][Behind(l)] \in Blocks
  BY KindIs
<1>2. CASE j = i /\ l = k
  BY <1>2, CellIs
<1>3. CASE ~(j = i /\ l = k)
  BY <1>1, <1>3, CellIs
<1> QED BY <1>2, <1>3

\* A file that is no directory changes.
LEMMA ItemsAside ==
  ASSUME NEW W, NEW W2, NEW U, NEW F, NEW fr, NEW names, NEW i, NEW k, NEW S, NEW w, F \subseteq Inums,
         ItemsOK(W, U, F, fr), NamesOK(W, F, names), Edits(W, W2, i, k, S, w), i \notin F
  PROVE  ItemsOK(W2, U, F, fr) /\ NamesOK(W2, F, names)
<1>1. \A j \in F, l \in Slots0, s \in Page : W2[j][l][s] = W[j][l][s]
  BY DEF Edits
<1>2. ItemsOK(W2, U, F, fr)
  BY <1>1 DEF ItemsOK
<1>3. NamesOK(W2, F, names)
  <2>1. ASSUME NEW j \in F, NEW m \in F, NEW h \in Slots0, NEW l \in Slots0, NEW s \in Page, NEW t \in Page,
               W2[j][h][s] # Zero, W2[m][l][t] # Zero, ~(j = m /\ h = l /\ s = t)
        PROVE  /\ W2[j][h][s].inum # W2[m][l][t].inum
               /\ j = m => W2[j][h][s].name # W2[m][l][t].name
    <3>1. W2[j][h][s] = W[j][h][s] /\ W2[m][l][t] = W[m][l][t]
      BY <1>1
    <3> QED BY <2>1, <3>1 DEF NamesOK
  <2>2. ASSUME NEW j \in F, NEW x \in Names \cup {"."}, x \in names[j]
        PROVE  \E h \in Slots0, s \in Page : W2[j][h][s] # Zero /\ W2[j][h][s].name = x
    BY <1>1, <2>2 DEF NamesOK
  <2> QED BY <2>1, <2>2 DEF NamesOK
<1> QED BY <1>2, <1>3

\* A directory changes: no byte of a file does.
LEMMA BytesAside ==
  ASSUME NEW W, NEW W2, NEW Z, NEW U, NEW F, NEW last, NEW i \in F, NEW k, NEW S, NEW w,
         \A j \in U : Z[j] \in Nat,
         Bytes(W, Z, U, F, last), Small(U, Z), Edits(W, W2, i, k, S, w)
  PROVE  Bytes(W2, Z, U, F, last)
<1> SUFFICES ASSUME NEW j \in Inums, NEW s \in 0 .. MaxSize - 1, last[j][s] # None
             PROVE  W2[j][s \div Slots][s % Slots] = W[j][s \div Slots][s % Slots]
  BY DEF Bytes
<1>1. j # i /\ s \in Nat
  BY Sizes DEF Bytes
<1>2. s \div Slots \in Slots0 /\ s % Slots \in Page
  BY SlotOf
<1> QED BY <1>1, <1>2 DEF Edits

\* A name is added in a slot that is blank.
Adds(W, W2, F, names, names2, i, k, s, w) ==
  /\ i \in F /\ k \in Slots0 /\ s \in Page /\ w \in Item
  /\ W[i][k][s] = Zero /\ Edits(W, W2, i, k, {s}, w)
  /\ \A l \in Slots0, t \in Page : W[i][l][t] # Zero => W[i][l][t].name # w.name
  /\ \A j \in Inums, x \in Names \cup {"."} : x \in names2[j] <=> x \in names[j] \/ (j = i /\ x = w.name)
  /\ \A j \in Inums \ F : names2[j] = {}

\* An item for the new inode of a create keeps the directories sound.
LEMMA NameAdded ==
  ASSUME NEW W, NEW W2, NEW U, NEW F \in SUBSET Inums, NEW fr, NEW fr2, NEW names, NEW names2,
         NEW i, NEW k, NEW s, NEW w, Adds(W, W2, F, names, names2, i, k, s, w),
         ItemsOK(W, U, F, fr), NamesOK(W, F, names),
         w.inum \in U, w.isdir <=> w.inum \in F, w.inum \in fr, fr2 \subseteq fr \ {w.inum}
  PROVE  ItemsOK(W2, U, F, fr2) /\ NamesOK(W2, F, names2)
<1> USE DEF Adds
<1> DEFINE Here(j, l, t) == j = i /\ l = k /\ t = s
<1>1. \A j \in F, l \in Slots0, t \in Page :
        /\ Here(j, l, t) => W2[j][l][t] = w
        /\ ~Here(j, l, t) => W2[j][l][t] = W[j][l][t]
  BY DEF Edits
<1>2. w # Zero
  BY WordAssumption
<1>3. \A j \in F, l \in Slots0, t \in Page : W[j][l][t] # Zero =>
        /\ ~Here(j, l, t) /\ W2[j][l][t] = W[j][l][t] /\ W[j][l][t].inum \in U \ fr
        /\ W[j][l][t] \in Item /\ (W[j][l][t].isdir <=> W[j][l][t].inum \in F)
  BY <1>1 DEF ItemsOK
<1>4. \A j \in F, l \in Slots0, t \in Page : W2[j][l][t] # Zero =>
        \/ Here(j, l, t) /\ W2[j][l][t] = w
        \/ ~Here(j, l, t) /\ W[j][l][t] # Zero /\ W2[j][l][t] = W[j][l][t]
  BY <1>1
<1>5. ItemsOK(W2, U, F, fr2)
  <2> SUFFICES ASSUME NEW j \in F, NEW l \in Slots0, NEW t \in Page, W2[j][l][t] # Zero
               PROVE  /\ W2[j][l][t] \in Item /\ W2[j][l][t].inum \in U \ fr2
                      /\ W2[j][l][t].isdir <=> W2[j][l][t].inum \in F
    BY DEF ItemsOK
  <2> HIDE DEF Here
  <2>1. CASE W2[j][l][t] = w
    BY <2>1
  <2>2. CASE W[j][l][t] # Zero /\ W2[j][l][t] = W[j][l][t]
    <3> DEFINE x == W[j][l][t]
    <3>1. x.inum \in U \ fr /\ x \in Item /\ (x.isdir <=> x.inum \in F)
      BY <1>3, <2>2
    <3>2. W2[j][l][t] = x
      BY <2>2
    <3> HIDE DEF x
    <3> QED BY <3>1, <3>2
  <2> QED BY <1>4, <2>1, <2>2
<1>6. ASSUME NEW j \in F, NEW m \in F, NEW l \in Slots0, NEW h \in Slots0, NEW t \in Page, NEW u \in Page,
             W2[j][l][t] # Zero, W2[m][h][u] # Zero, ~(j = m /\ l = h /\ t = u)
      PROVE  /\ W2[j][l][t].inum # W2[m][h][u].inum
             /\ j = m => W2[j][l][t].name # W2[m][h][u].name
  <2>1. CASE Here(j, l, t)
    <3>1. ~Here(m, h, u)
      BY <1>6, <2>1
    <3>2. W2[j][l][t] = w /\ W2[m][h][u] = W[m][h][u] /\ W[m][h][u] # Zero
      BY <1>1, <1>6, <2>1, <3>1
    <3>3. W[m][h][u].inum \in U \ fr
      BY <1>3, <3>2
    <3>4. j = m => W[m][h][u].name # w.name
      BY <2>1, <3>2
    <3> QED BY <3>2, <3>3, <3>4
  <2>2. CASE Here(m, h, u)
    <3>1. ~Here(j, l, t)
      BY <1>6, <2>2
    <3>2. W2[m][h][u] = w /\ W2[j][l][t] = W[j][l][t] /\ W[j][l][t] # Zero
      BY <1>1, <1>6, <2>2, <3>1
    <3>3. W[j][l][t].inum \in U \ fr
      BY <1>3, <3>2
    <3>4. j = m => W[j][l][t].name # w.name
      BY <2>2, <3>2
    <3> QED BY <3>2, <3>3, <3>4
  <2>3. CASE ~Here(j, l, t) /\ ~Here(m, h, u)
    <3>1. W2[m][h][u] = W[m][h][u] /\ W2[j][l][t] = W[j][l][t]
      BY <1>1, <2>3
    <3> QED BY <1>6, <3>1 DEF NamesOK
  <2> QED BY <2>1, <2>2, <2>3
<1>7. ASSUME NEW j \in F, NEW x \in Names \cup {"."}, x \in names2[j]
      PROVE  \E l \in Slots0, t \in Page : W2[j][l][t] # Zero /\ W2[j][l][t].name = x
  <2>1. CASE x \in names[j]
    <3>1. PICK l \in Slots0, t \in Page : W[j][l][t] # Zero /\ W[j][l][t].name = x
      BY <2>1 DEF NamesOK
    <3> QED BY <1>3, <3>1
  <2>2. CASE j = i /\ x = w.name
    <3>1. W2[i][k][s] = w
      BY <1>1
    <3> QED BY <1>2, <2>2, <3>1
  <2> QED BY <1>7, <2>1, <2>2
<1>8. NamesOK(W2, F, names2)
  BY <1>6, <1>7 DEF NamesOK
<1> QED BY <1>5, <1>8

\* A name is removed.
Drops(W, W2, F, names, names2, i, k, s) ==
  /\ i \in F /\ k \in Slots0 /\ s \in Page
  /\ W[i][k][s] # Zero /\ Edits(W, W2, i, k, {s}, Zero)
  /\ \A j \in Inums, x \in Names \cup {"."} :
       x \in names2[j] <=> x \in names[j] /\ ~(j = i /\ x = W[i][k][s].name)
  /\ \A j \in Inums \ F : names2[j] = {}

\* So does a blank in the place of an item.
LEMMA NameRemoved ==
  ASSUME NEW W, NEW W2, NEW U, NEW F \in SUBSET Inums, NEW fr, NEW names, NEW names2,
         NEW i, NEW k, NEW s, Drops(W, W2, F, names, names2, i, k, s),
         ItemsOK(W, U, F, fr), NamesOK(W, F, names)
  PROVE  ItemsOK(W2, U, F, fr) /\ NamesOK(W2, F, names2)
<1> USE DEF Drops
<1> DEFINE Here(j, l, t) == j = i /\ l = k /\ t = s
<1>1. \A j \in F, l \in Slots0, t \in Page :
        /\ Here(j, l, t) => W2[j][l][t] = Zero
        /\ ~Here(j, l, t) => W2[j][l][t] = W[j][l][t]
  BY DEF Edits
<1>2. \A j \in F, l \in Slots0, t \in Page : W2[j][l][t] # Zero =>
        ~Here(j, l, t) /\ W[j][l][t] # Zero /\ W2[j][l][t] = W[j][l][t]
  BY <1>1
<1>3. ItemsOK(W2, U, F, fr)
  <2> SUFFICES ASSUME NEW j \in F, NEW l \in Slots0, NEW t \in Page, W2[j][l][t] # Zero
               PROVE  /\ W2[j][l][t] \in Item /\ W2[j][l][t].inum \in U \ fr
                      /\ W2[j][l][t].isdir <=> W2[j][l][t].inum \in F
    BY DEF ItemsOK
  <2>1. W[j][l][t] # Zero /\ W2[j][l][t] = W[j][l][t]
    BY <1>2
  <2> QED BY <2>1 DEF ItemsOK
<1>4. ASSUME NEW j \in F, NEW m \in F, NEW l \in Slots0, NEW h \in Slots0, NEW t \in Page, NEW u \in Page,
             W2[j][l][t] # Zero, W2[m][h][u] # Zero, ~(j = m /\ l = h /\ t = u)
      PROVE  /\ W2[j][l][t].inum # W2[m][h][u].inum
             /\ j = m => W2[j][l][t].name # W2[m][h][u].name
  <2>1. /\ W[j][l][t] # Zero /\ W2[j][l][t] = W[j][l][t]
        /\ W[m][h][u] # Zero /\ W2[m][h][u] = W[m][h][u]
    BY <1>2, <1>4
  <2> QED BY <1>4, <2>1 DEF NamesOK
<1>5. ASSUME NEW j \in F, NEW x \in Names \cup {"."}, x \in names2[j]
      PROVE  \E l \in Slots0, t \in Page : W2[j][l][t] # Zero /\ W2[j][l][t].name = x
  <2>1. x \in names[j] /\ ~(j = i /\ x = W[i][k][s].name)
    BY <1>5
  <2>2. PICK l \in Slots0, t \in Page : W[j][l][t] # Zero /\ W[j][l][t].name = x
    BY <2>1 DEF NamesOK
  <2>3. ~Here(j, l, t)
    BY <2>1, <2>2
  <2> QED BY <1>1, <2>2, <2>3
<1>6. NamesOK(W2, F, names2)
  BY <1>4, <1>5 DEF NamesOK
<1> QED BY <1>3, <1>6

\* Bytes are written.
Fresher(W, W2, last, last2, i, k, lo, hi, v) ==
  /\ k \in Slots0 /\ lo \in Page /\ hi \in Page /\ Edits(W, W2, i, k, lo .. hi, v)
  /\ \A j \in Inums, s \in 0 .. MaxSize - 1 :
       last2[j][s] = IF j = i /\ s \in Start(k) + lo .. Start(k) + hi THEN v ELSE last[j][s]

\* A write of one byte to some slots is what a later read has to get.
LEMMA BytesWritten ==
  ASSUME NEW W, NEW W2, NEW Z, NEW U, NEW F, NEW last, NEW last2, Bytes(W, Z, U, F, last),
         NEW i, NEW k, NEW lo, NEW hi, NEW v, Fresher(W, W2, last, last2, i, k, lo, hi, v),
         i \in U \ F, i \in Inums, Z[i] \in Nat, Start(k) + hi < Z[i]
  PROVE  Bytes(W2, Z, U, F, last2)
<1> USE DEF Fresher
<1> SUFFICES ASSUME NEW j \in Inums, NEW s \in 0 .. MaxSize - 1, last2[j][s] # None
             PROVE  j \in U \ F /\ s < Z[j] /\ W2[j][s \div Slots][s % Slots] = last2[j][s]
  BY DEF Bytes
<1> DEFINE q == s \div Slots
           r == s % Slots
<1>1. s \in Nat /\ q \in Slots0 /\ r \in Page /\ s = Start(q) + r
  BY SlotOf
<1>2. W2[j][q][r] = IF j = i /\ q = k /\ r \in lo .. hi THEN v ELSE W[j][q][r]
  BY <1>1 DEF Edits
<1>3. last[j][s] # None => j \in U \ F /\ s < Z[j] /\ W[j][q][r] = last[j][s]
  BY DEF Bytes
<1> HIDE DEF q, r
<1>4. /\ Start(q) \in Nat /\ Start(k) \in Nat /\ k \in Nat /\ q \in Nat
      /\ r \in Nat /\ r < Slots /\ lo \in Nat /\ hi \in Nat /\ hi < Slots /\ Slots \in Nat
      /\ q < k => Start(q) + Slots <= Start(k)
      /\ k < q => Start(k) + Slots <= Start(q)
  <2>1. q \in Nat /\ k \in Nat
    BY <1>1 DEF Slots0
  <2>2. /\ Start(q) \in Nat /\ Start(k) \in Nat
        /\ q < k => Start(q) + Slots <= Start(k)
        /\ k < q => Start(k) + Slots <= Start(q)
    BY <2>1, Begins
  <2>3. r \in Nat /\ r < Slots /\ lo \in Nat /\ hi \in Nat /\ hi < Slots /\ Slots \in Nat
    BY <1>1, Sizes DEF Page
  <2> QED BY <2>1, <2>2, <2>3
<1>5. s \in Start(k) + lo .. Start(k) + hi <=> q = k /\ r \in lo .. hi
  <2>1. CASE q = k
    BY <1>1, <1>4, <2>1
  <2>2. CASE q # k
    <3>1. q < k \/ k < q
      BY <1>4, <2>2
    <3>2. ~(s \in Start(k) + lo .. Start(k) + hi)
      BY <1>1, <1>4, <3>1
    <3> QED BY <2>2, <3>2
  <2> QED BY <2>1, <2>2
<1>6. CASE j = i /\ q = k /\ r \in lo .. hi
  <2>1. s < Z[i]
    BY <1>1, <1>4, <1>6
  <2> QED BY <1>2, <1>5, <1>6, <2>1 DEF q, r
<1>7. CASE ~(j = i /\ q = k /\ r \in lo .. hi)
  <2>1. last2[j][s] = last[j][s]
    BY <1>5, <1>7
  <2> QED BY <1>2, <1>3, <1>7, <2>1 DEF q, r
<1> QED BY <1>6, <1>7
-----------------------------------------------------------------------------
(* Calls that others do not disturb.                                         *)

\* One call has its type.
TypeCall(c) ==
  /\ DOMAIN c = DOMAIN Idle
  /\ c.inum \in Inums /\ c.n \in Blocks \cup {Junk} /\ c.k \in 0 .. Direct + Slots
  /\ c.off \in Nat /\ c.len \in Nat /\ c.lo \in Page /\ c.hi \in Page
  /\ c.table \in [Inums -> Node] \cup {<<>>} /\ c.bits \in SUBSET Blocks

\* The type of a call, on its own.
LEMMA TypeCalls == TypeOK => \A p \in Procs : TypeCall(call[p])
BY DEF TypeOK, TypeCall

\* Files grow, inodes come into use, blank pointers are set.
Grows(U, F, Z, T, U2, F2, Z2, T2) ==
  /\ U \subseteq U2 /\ F \subseteq F2 /\ F2 \cap U \subseteq F
  /\ \A i \in U : Z[i] \in Nat /\ Z2[i] \in Nat /\ Z[i] <= Z2[i]
  /\ \A i \in Inums, k \in Kinds : T[i][k] # Zero => T2[i][k] = T[i][k]

\* What a call relies on besides: its entry, its new inode and its block.
Relies(c, E, N, D, E2, N2, D2) ==
  /\ Where(c) # "idle" => E2[c.d].inum = E[c.d].inum /\ E2[c.d].isdir = E[c.d].isdir
  /\ Fresh(c) => N2[c.inum] = N[c.inum] /\ \A d \in Dirents : E2[d] # None => E2[d].inum # c.inum
  /\ Clears(c) => \A s \in Page : D2[c.n][s] = D[c.n][s]

\* A file that grows does not take a block from under a call.
LEMMA ReachKept ==
  ASSUME NEW c, NEW e, NEW z, NEW e2, NEW z2, TypeCall(c), Reach(c, e, z),
         e2.isdir = e.isdir, z \in Nat, z2 \in Nat, z <= z2
  PROVE  Reach(c, e2, z2)
<1>1. /\ c.k \in Nat /\ c.off + c.len \in Int /\ Start(c.k) \in Int /\ c.hi \in Int
         /\ Start(c.k) + c.hi \in Int
      /\ c.k = 0 \/ Start(c.k - 1) \in Int
  <2>1. c.k \in Nat /\ c.off + c.len \in Int /\ c.hi \in Int
    BY Sizes DEF TypeCall, Page
  <2>2. Start(c.k) \in Int /\ (c.k = 0 \/ Start(c.k - 1) \in Int)
    BY <2>1, Begins
  <2> QED BY <2>1, <2>2
<1>2. \A x \in Int : (x < z => x < z2) /\ (x <= z => x <= z2)
  OBVIOUS
<1>3. c.op = "write" => ~e2.isdir /\ c.name \in Values /\ c.off + c.len <= z2 /\ c.off + c.len <= MaxSize
  BY <1>1, <1>2 DEF Reach
<1>4. HasBlock(c) \/ Where(c) = "grow" => c.k < Direct + Slots /\ Start(c.k) < z2
  BY <1>1, <1>2 DEF Reach
<1>5. Where(c) \in {"look", "claim", "init", "add"} => c.k = 0 \/ Start(c.k - 1) < z2
  BY <1>1, <1>2 DEF Reach
<1>6. HasBlock(c) /\ c.op = "write" => c.word = c.name /\ Start(c.k) + c.hi < z2
        /\ Start(c.k) + c.hi < MaxSize
  BY <1>1, <1>2 DEF Reach
<1>7. HasBlock(c) /\ c.op = "write" => c.off = Start(c.k) + c.hi + 1
  BY DEF Reach
<1> QED BY <1>3, <1>4, <1>5, <1>6, <1>7 DEF Reach

\* Nor do pointers that others set take the block a call has found.
LEMMA FoundKept ==
  ASSUME NEW c, NEW t, NEW t2, NEW D, NEW D2, TypeCall(c), Path(c), Found(c, t, D),
         HasBlock(c) => c.k < Direct + Slots,
         \A k \in Kinds : t[k] # Zero => t2[k] = t[k],
         Clears(c) => \A s \in Page : D2[c.n][s] = D[c.n][s]
  PROVE  Found(c, t2, D2)
<1>1. c.k \in Nat /\ Direct \in Kinds /\ (c.k < Direct => c.k \in Kinds)
      /\ (c.k < Direct + Slots => Behind(c.k) \in Kinds)
  <2>1. c.k \in Nat /\ (c.k < Direct + Slots => c.k \in Slots0)
    BY Sizes DEF TypeCall, Slots0
  <2>2. c.k < Direct => c.k \in Kinds
    BY <2>1, Sizes DEF Kinds
  <2> QED BY <2>1, <2>2, KindIs
<1>2. Where(c) = "save" /\ c.slot = "direct" => c.n = t2[c.k] /\ c.n # Zero
  BY <1>1 DEF Found, Path
<1>3. Clears(c) => c.n = t2[Direct] /\ c.n # Zero /\ \A s \in Page : D2[c.n][s] = Junk
  BY <1>1 DEF Found
<1>4. Where(c) = "pointers" \/ c.slot = "pointer" => c.k >= Direct /\ t2[Direct] # Zero
  BY <1>1 DEF Found
<1>5. c.at = "data" => c.n = t2[Behind(c.k)] /\ c.n # Zero
  BY <1>1 DEF Found, HasBlock, InWrite, Where
<1> QED BY <1>2, <1>3, <1>4, <1>5 DEF Found

\* What a call knows survives the steps of others, if they leave what it relies on.
LEMMA LocalKept ==
  ASSUME NEW c, NEW E, NEW N, NEW U, NEW F, NEW Z, NEW T, NEW D, TypeCall(c), Local(c, E, N, U, F, Z, T, D),
         NEW E2, NEW N2, NEW U2, NEW F2, NEW Z2, NEW T2, NEW D2,
         Grows(U, F, Z, T, U2, F2, Z2, T2), Relies(c, E, N, D, E2, N2, D2), U \subseteq Inums,
         Where(c) # "idle" => E[c.d].inum \in U
  PROVE  Local(c, E2, N2, U2, F2, Z2, T2, D2)
<1>1. Path(c) /\ Edit(c)
  BY DEF Local
<1>2. Aim(c, E2, N2, U2, F2)
  BY DEF Local, Aim, Grows, Relies
<1>3. ASSUME Where(c) # "idle"
      PROVE  Reach(c, E2[c.d], Z2[E2[c.d].inum]) /\ Found(c, T2[E2[c.d].inum], D2)
  <2> DEFINE i == E[c.d].inum
  <2>1. i \in U /\ i \in Inums /\ E2[c.d].inum = i /\ E2[c.d].isdir = E[c.d].isdir
    BY <1>3 DEF Relies
  <2>2. Reach(c, E[c.d], Z[i]) /\ Found(c, T[i], D)
    BY <1>3 DEF Local
  <2>3. Z[i] \in Nat /\ Z2[i] \in Nat /\ Z[i] <= Z2[i]
    BY <2>1 DEF Grows
  <2>4. Reach(c, E2[c.d], Z2[i])
    BY <2>1, <2>2, <2>3, ReachKept
  <2>5. \A k \in Kinds : T[i][k] # Zero => T2[i][k] = T[i][k]
    BY <2>1 DEF Grows
  <2>6. HasBlock(c) => c.k < Direct + Slots
    BY <2>2 DEF Reach
  <2>7. Clears(c) => \A s \in Page : D2[c.n][s] = D[c.n][s]
    BY DEF Relies
  <2>8. Found(c, T2[i], D2)
    <3> HIDE DEF i
    <3> QED BY <1>1, <2>2, <2>5, <2>6, <2>7, FoundKept
  <2> QED BY <2>1, <2>4, <2>8
<1> QED BY <1>1, <1>2, <1>3 DEF Local

\* A step that does not claim more than the call had.
NoMore(c, o) ==
  /\ Fresh(c) => Fresh(o) /\ c.inum = o.inum
  /\ Aims(c) => Aims(o) /\ c.inum = o.inum
  /\ c.at = "pointer" => o.at = "pointer" /\ c.n = o.n
  /\ Clears(c) => Clears(o) /\ c.n = o.n

\* A call that claims no more than before stays distinct from the others.
LEMMA DistinctKept ==
  ASSUME NEW c, NEW o, NEW q, NoMore(c, o), Distinct(o, q), Distinct(q, o)
  PROVE  Distinct(c, q) /\ Distinct(q, c)
BY DEF NoMore, Distinct

\* A step of p changes the call of p alone.
LEMMA CallOf ==
  ASSUME TypeOK, NEW p \in Procs, NEW c, Becomes(p, c)
  PROVE  /\ DOMAIN call' = Procs /\ call'[p] = c /\ \A q \in Procs \ {p} : call'[q] = call[q]
BY DEF TypeOK, Becomes

\* The blocks on their way to a pointer, and the inodes on their way to a name.
LEMMA PendingIs ==
  ASSUME TypeOK, NEW p \in Procs, NEW c, Becomes(p, c),
         \A q \in Procs \ {p} : Distinct(call[p], call[q])
  PROVE  /\ c.at # "pointer" /\ call[p].at # "pointer" => Pending' = Pending
         /\ c.at = "pointer" /\ call[p].at # "pointer" => Pending' = Pending \cup {c.n}
         /\ c.at # "pointer" /\ call[p].at = "pointer" => /\ Pending' = Pending \ {call[p].n}
                                                          /\ call[p].n \in Pending
<1> DEFINE P == {q \in Procs : call[q].at = "pointer"}
           P2 == {q \in Procs : call'[q].at = "pointer"}
<1>1. Pending = {call[q].n : q \in P} /\ Pending' = {call'[q].n : q \in P2}
  BY DEF Pending, At
<1>2. call'[p] = c /\ \A q \in Procs \ {p} : call'[q] = call[q]
  BY CallOf
<1>3. ASSUME c.at # "pointer", call[p].at # "pointer" PROVE Pending' = Pending
  BY <1>1, <1>2, <1>3
<1>4. ASSUME c.at = "pointer", call[p].at # "pointer" PROVE Pending' = Pending \cup {c.n}
  BY <1>1, <1>2, <1>4
<1>5. ASSUME c.at # "pointer", call[p].at = "pointer"
      PROVE  Pending' = Pending \ {call[p].n} /\ call[p].n \in Pending
  <2>1. \A q \in P \ {p} : call[q].n # call[p].n
    BY <1>5 DEF Distinct
  <2> QED BY <1>1, <1>2, <1>5, <2>1
<1> QED BY <1>3, <1>4, <1>5

\* The inodes on their way to a name after a step of p.
LEMMA FreshesAre ==
  ASSUME TypeOK, NEW p \in Procs, NEW c, Becomes(p, c)
  PROVE  /\ (Fresh(c) => Fresh(call[p]) /\ c.inum = call[p].inum) => Freshes' \subseteq Freshes
         /\ Freshes' \subseteq Freshes \cup {c.inum}
         /\ ~Fresh(c) /\ Fresh(call[p]) /\ (\A q \in Procs \ {p} : Distinct(call[p], call[q])) =>
              Freshes' \subseteq Freshes \ {call[p].inum} /\ call[p].inum \in Freshes
<1>1. call'[p] = c /\ \A q \in Procs \ {p} : call'[q] = call[q]
  BY CallOf
<1>2. /\ \A x : x \in Freshes <=> \E q \in Procs : Fresh(call[q]) /\ x = call[q].inum
      /\ \A x : x \in Freshes' <=> \E q \in Procs : Fresh(call'[q]) /\ x = call'[q].inum
  BY DEF Freshes, Fresh, Where, InWrite
<1>3. ASSUME Fresh(c) => Fresh(call[p]) /\ c.inum = call[p].inum PROVE Freshes' \subseteq Freshes
  BY <1>1, <1>2, <1>3
<1>4. Freshes' \subseteq Freshes \cup {c.inum}
  BY <1>1, <1>2
<1>5. ASSUME ~Fresh(c), Fresh(call[p]), \A q \in Procs \ {p} : Distinct(call[p], call[q])
      PROVE  Freshes' \subseteq Freshes \ {call[p].inum} /\ call[p].inum \in Freshes
  <2>1. \A q \in Procs \ {p} : Fresh(call[q]) => call[q].inum # call[p].inum
    BY <1>5 DEF Distinct, Aims
  <2> QED BY <1>1, <1>2, <1>5, <2>1
<1> QED BY <1>3, <1>4, <1>5
-----------------------------------------------------------------------------
(* The invariant after a step, from its parts.                               *)

\* The invariant of the next state, written out.
Good2 ==
  /\ Agree' /\ Small(Used', Sz') /\ Space(Tree', bitmap', Pending', lost') /\ Blank(Tree', data')
  /\ Within(Tree', Sz', folders')
  /\ ItemsOK(Cells', Used', folders', Freshes') /\ NamesOK(Cells', folders', created')
  /\ Bytes(Cells', Sz', Used', folders', written')
  /\ \A p \in Procs : Local(call'[p], dirents', inodes', Used', folders', Sz', Tree', data')
  /\ \A p, q \in Procs : p # q => Distinct(call'[p], call'[q])

\* Its parts in the next state make the invariant.
LEMMA GoodNext == Good2 => Good'
<1> SUFFICES ASSUME Good2 PROVE Good'
  OBVIOUS
<1>1. Agree' /\ Small(Used, Sz)' /\ Space(Tree, bitmap, Pending, lost)' /\ Blank(Tree, data)'
  BY DEF Good2
<1>2. Within(Tree, Sz, folders)'
  BY DEF Good2
<1>3. ItemsOK(Cells, Used, folders, Freshes)' /\ NamesOK(Cells, folders, created)'
  BY DEF Good2
<1>4. Bytes(Cells, Sz, Used, folders, written)'
  BY DEF Good2
<1>5. Locals'
  BY DEF Good2, Locals
<1> QED BY <1>1, <1>2, <1>3, <1>4, <1>5 DEF Good

\* And it is made of these.
LEMMA GoodParts ==
  Good => /\ Agree /\ Small(Used, Sz) /\ Space(Tree, bitmap, Pending, lost) /\ Blank(Tree, data)
          /\ Within(Tree, Sz, folders)
          /\ ItemsOK(Cells, Used, folders, Freshes) /\ NamesOK(Cells, folders, created)
          /\ Bytes(Cells, Sz, Used, folders, written)
          /\ \A p \in Procs : Local(call[p], dirents, inodes, Used, folders, Sz, Tree, data)
          /\ \A p, q \in Procs : p # q => Distinct(call[p], call[q])
BY DEF Good, Locals

\* A call relies on nothing that does not change.
LEMMA RelySame ==
  ASSUME NEW c, NEW E, NEW N, NEW U, NEW F, NEW Z, NEW T, NEW D, Local(c, E, N, U, F, Z, T, D)
  PROVE  Relies(c, E, N, D, E, N, D)
BY DEF Local, Aim, Relies

\* Nothing grown is a way to grow.
LEMMA GrowsSame ==
  ASSUME TypeOK, Agree
  PROVE  Grows(Used, folders, Sz, Tree, Used, folders, Sz, Tree) /\ Used \subseteq Inums
<1>1. Used \subseteq Inums
  BY DEF Used
<1> QED BY <1>1, ViewTyped DEF Grows

\* The calls after a step of p.
LEMMA LocalsNext ==
  ASSUME TypeOK, Lines, Good, NEW p \in Procs, NEW c, Becomes(p, c),
         Grows(Used, folders, Sz, Tree, Used', folders', Sz', Tree'),
         \A q \in Procs \ {p} : Relies(call[q], dirents, inodes, data, dirents', inodes', data'),
         Local(c, dirents', inodes', Used', folders', Sz', Tree', data'),
         \A q \in Procs \ {p} : Distinct(c, call[q]) /\ Distinct(call[q], c)
  PROVE  /\ \A q \in Procs : Local(call'[q], dirents', inodes', Used', folders', Sz', Tree', data')
         /\ \A q, r \in Procs : q # r => Distinct(call'[q], call'[r])
<1>1. call'[p] = c /\ \A q \in Procs \ {p} : call'[q] = call[q]
  BY CallOf
<1>2. ASSUME NEW q \in Procs \ {p}
      PROVE  Local(call[q], dirents', inodes', Used', folders', Sz', Tree', data')
  <2>1. TypeCall(call[q]) /\ Local(call[q], dirents, inodes, Used, folders, Sz, Tree, data)
    BY TypeCalls, GoodParts
  <2>2. Where(call[q]) # "idle" => dirents[call[q].d].inum \in Used
    BY GoodParts DEF Lines, Line, Agree, EntryOK
  <2>3. Used \subseteq Inums
    BY DEF Used
  <2> QED BY <2>1, <2>2, <2>3, LocalKept
<1>3. \A q \in Procs : Local(call'[q], dirents', inodes', Used', folders', Sz', Tree', data')
  BY <1>1, <1>2
<1>4. \A q, r \in Procs : q # r => Distinct(call'[q], call'[r])
  BY <1>1, GoodParts
<1> QED BY <1>3, <1>4

\* Nothing is read but the disk and the entries.
LEMMA StateSame ==
  ASSUME UNCHANGED <<disk, dirents>>
  PROVE  /\ Used' = Used /\ Sz' = Sz /\ Tree' = Tree /\ Cells' = Cells /\ Open' = Open
         /\ inodes' = inodes /\ bitmap' = bitmap /\ data' = data
         /\ (folders' = folders => Agree' = Agree)
<1>1. inodes' = inodes /\ bitmap' = bitmap /\ data' = data /\ dirents' = dirents
  BY DEF disk
<1>2. Used' = Used /\ Open' = Open
  BY <1>1 DEF Used, Open
<1>3. \A i : View(i)' = View(i)
  BY <1>1, <1>2 DEF View, Views, Copy
<1>4. Sz' = Sz
  BY <1>3 DEF Sz
<1>5. Tree' = Tree
  BY <1>1, <1>2, <1>3 DEF Tree, Pointer
<1>6. Cells' = Cells
  BY <1>1, <1>5 DEF Cells
<1>7. folders' = folders => Agree' = Agree
  BY <1>1, <1>2 DEF Agree, EntryOK, Copy
<1> QED BY <1>1, <1>2, <1>4, <1>5, <1>6, <1>7

\* A step of p that changes its call and no more.
LEMMA Quiet ==
  ASSUME TypeOK, Lines, Good, NEW p \in Procs, NEW c, Becomes(p, c), UNCHANGED <<disk, dirents, history>>,
         c.at # "pointer", call[p].at # "pointer",
         Fresh(c) => Fresh(call[p]) /\ c.inum = call[p].inum,
         Local(c, dirents, inodes, Used, folders, Sz, Tree, data),
         \A q \in Procs \ {p} : Distinct(c, call[q]) /\ Distinct(call[q], c)
  PROVE  Good'
<1>1. /\ Used' = Used /\ Sz' = Sz /\ Tree' = Tree /\ Cells' = Cells
      /\ inodes' = inodes /\ bitmap' = bitmap /\ data' = data /\ dirents' = dirents
      /\ folders' = folders /\ created' = created /\ written' = written /\ lost' = lost
      /\ Agree'
  BY StateSame, GoodParts DEF history
<1>2. Grows(Used, folders, Sz, Tree, Used', folders', Sz', Tree')
  BY <1>1, GrowsSame, GoodParts
<1>3. \A q \in Procs \ {p} : Relies(call[q], dirents, inodes, data, dirents', inodes', data')
  BY <1>1, RelySame, GoodParts
<1>4. /\ \A q \in Procs : Local(call'[q], dirents', inodes', Used', folders', Sz', Tree', data')
      /\ \A q, r \in Procs : q # r => Distinct(call'[q], call'[r])
  BY <1>1, <1>2, <1>3, LocalsNext
<1>5. Pending' = Pending /\ Freshes' \subseteq Freshes
  BY PendingIs, FreshesAre, GoodParts
<1>6. ItemsOK(Cells', Used', folders', Freshes')
  <2>1. ItemsOK(Cells, Used, folders, Freshes) /\ folders \subseteq Used
    BY GoodParts DEF Agree
  <2> QED BY <1>1, <1>5, <2>1, ItemsKept
<1> QED BY <1>1, <1>4, <1>5, <1>6, GoodParts, GoodNext DEF Good2
-----------------------------------------------------------------------------
(* Types and control after a step.                                           *)

\* The fields of a call, for the steps that keep all but some of them.
LEMMA Fields ==
  DOMAIN Idle = {"at", "goal", "after", "op", "d", "name", "isdir", "off", "len", "k", "lo", "hi", "word",
                 "page", "from", "table", "node", "bits", "n", "slot", "pointers", "inum", "victims"}
BY DEF Idle

\* A process without a call claims nothing.
LEMMA IdleOK ==
  /\ TypeCall(Idle) /\ Where(Idle) = "idle" /\ Idle.at = "idle" /\ Idle.op = "none" /\ Idle.slot = "none"
  /\ ~Fresh(Idle) /\ ~Aims(Idle) /\ ~Clears(Idle) /\ ~HasBlock(Idle)
  /\ \A open : Line(Idle, open)
  /\ \A E, N, U, F, Z, T, D : Local(Idle, E, N, U, F, Z, T, D)
  /\ \A o : NoMore(Idle, o)
<1>1. /\ Idle.at = "idle" /\ Idle.op = "none" /\ Idle.slot = "none" /\ Idle.isdir = FALSE
         /\ Idle.goal = "none"
      /\ Idle.inum = 0 /\ Idle.n = Zero /\ Idle.k = 0 /\ Idle.off = 0 /\ Idle.len = 0 /\ Idle.lo = 0
         /\ Idle.hi = 0
      /\ Idle.table = <<>> /\ Idle.bits = {} /\ Idle.after = "none"
  BY DEF Idle
<1>2. TypeCall(Idle)
  BY <1>1, Sizes DEF TypeCall
<1>3. Where(Idle) = "idle" /\ ~InWrite(Idle) /\ ~HasBlock(Idle) /\ ~Fresh(Idle) /\ ~Aims(Idle)
        /\ ~Clears(Idle)
  BY <1>1 DEF Where, InWrite, HasBlock, Fresh, Aims, Clears
<1>4. \A open : Line(Idle, open)
  BY <1>1, <1>3 DEF Line
<1>5. Path(Idle) /\ Edit(Idle)
  BY <1>1, <1>3 DEF Path, Edit
<1>6. \A E, N, U, F, Z, T, D : Local(Idle, E, N, U, F, Z, T, D)
  BY <1>3, <1>5 DEF Local, Aim
<1>7. \A o : NoMore(Idle, o)
  BY <1>1, <1>3 DEF NoMore
<1> QED BY <1>1, <1>2, <1>3, <1>4, <1>6, <1>7

\* The disk and the open entries have their types.
TypeDisk ==
  /\ inodes \in [Inums -> Node] /\ bitmap \in SUBSET Blocks
  /\ DOMAIN data = Blocks /\ \A b \in Blocks : DOMAIN data[b] = Page
  /\ dirents \in [Dirents -> Entry \cup {None}]
TypeHistory ==
  /\ written \in [Inums -> [0 .. MaxSize - 1 -> Values \cup {None}]]
  /\ created \in [Inums -> SUBSET (Names \cup {"."})]
  /\ folders \in SUBSET Inums /\ lost \in SUBSET Blocks

\* The type invariant: the disk, the history and the calls.
LEMMA TypeParts == TypeOK => TypeDisk /\ TypeHistory /\ calls \in 0 .. MaxCalls
BY DEF TypeOK, TypeDisk, TypeHistory

\* The type invariant after a step of p, from its parts.
LEMMA TypeNext ==
  ASSUME TypeOK, NEW p \in Procs, NEW c, Becomes(p, c), TypeCall(c), TypeDisk', TypeHistory',
         calls' \in 0 .. MaxCalls
  PROVE  TypeOK'
<1>1. DOMAIN call' = Procs /\ \A q \in Procs : TypeCall(call'[q])
  BY CallOf, TypeCalls
<1> QED BY <1>1 DEF TypeOK, TypeDisk, TypeHistory, TypeCall

\* The parts that a step leaves alone.
LEMMA TypeSame ==
  /\ UNCHANGED <<disk, dirents>> => TypeDisk' = TypeDisk
  /\ UNCHANGED history => TypeHistory' = TypeHistory
BY DEF disk, history, TypeDisk, TypeHistory

\* Nobody else uses the entry that p closes, or p the one somebody closes.
Apart(p, c) ==
  \A q \in Procs \ {p} : Where(call[q]) # "idle" /\ (c.op = "close" \/ call[q].op = "close") =>
    call[q].d # c.d

\* The control of all calls after a step of p, from that of p.
LEMMA LinesNext ==
  ASSUME TypeOK, Lines, NEW p \in Procs, NEW c, Becomes(p, c), Line(c, Open'),
         \A q \in Procs \ {p} : Where(call[q]) # "idle" => call[q].d \in Open',
         \/ c = Idle
         \/ c.d = call[p].d /\ (c.op = "close" <=> call[p].op = "close") /\ Where(call[p]) # "idle"
         \/ Apart(p, c)
  PROVE  Lines'
<1>1. call'[p] = c /\ \A q \in Procs \ {p} : call'[q] = call[q]
  BY CallOf
<1>2. \A q \in Procs : Line(call'[q], Open')
  BY <1>1 DEF Lines, Line
<1>3. \A q, r \in Procs : call'[q].op = "close" /\ q # r /\ Where(call'[r]) # "idle" =>
        call'[r].d # call'[q].d
  <2>1. \A q \in Procs : call[q].op = "close" => Where(call[q]) # "idle"
    BY DEF Lines, Line
  <2>2. CASE c = Idle
    BY <1>1, <2>2, IdleOK DEF Lines
  <2>3. CASE c.d = call[p].d /\ (c.op = "close" <=> call[p].op = "close") /\ Where(call[p]) # "idle"
    BY <1>1, <2>3 DEF Lines
  <2>4. CASE Apart(p, c)
    BY <1>1, <2>1, <2>4 DEF Lines, Apart
  <2> QED BY <2>2, <2>3, <2>4
<1> QED BY <1>2, <1>3 DEF Lines, Where

\* The control of c, the next state of the call of p.
Follow(p, c) ==
  /\ TypeCall(c) /\ Line(c, Open)
  /\ \/ c = Idle
     \/ c.d = call[p].d /\ (c.op = "close" <=> call[p].op = "close") /\ Where(call[p]) # "idle"
     \/ Apart(p, c)
\* It claims and takes nothing.
Mild(p, c) ==
  /\ c.at # "pointer" /\ call[p].at # "pointer"
  /\ Fresh(c) => Fresh(call[p]) /\ c.inum = call[p].inum
  /\ Local(c, dirents, inodes, Used, folders, Sz, Tree, data)
  /\ NoMore(c, call[p]) \/ \A q \in Procs \ {p} : Distinct(c, call[q]) /\ Distinct(call[q], c)

\* A step of p that changes its call and no more.
LEMMA QuietStep ==
  ASSUME IInv, Sound, NEW p \in Procs, NEW c, Becomes(p, c), UNCHANGED <<disk, dirents, history>>,
         calls' \in 0 .. MaxCalls, Follow(p, c), Sound' => Mild(p, c)
  PROVE  TypeOK' /\ Lines' /\ (Sound' => Good')
<1>1. TypeOK /\ Lines /\ Good
  BY DEF IInv
<1>2. /\ UNCHANGED <<disk, dirents>> /\ UNCHANGED history
  OBVIOUS
<1>3. TypeOK'
  BY <1>1, <1>2, TypeParts, TypeSame, TypeNext DEF Follow
<1>4. Open' = Open
  BY <1>2, StateSame
<1>5. Lines'
  <2>1. \A q \in Procs \ {p} : Where(call[q]) # "idle" => call[q].d \in Open
    BY <1>1 DEF Lines, Line
  <2> QED BY <1>1, <1>4, <2>1, LinesNext DEF Follow
<1>6. ASSUME Sound' PROVE Good'
  <2>0. Mild(p, c)
    BY <1>6
  <2>1. \A q \in Procs \ {p} : Distinct(c, call[q]) /\ Distinct(call[q], c)
    BY <1>1, <2>0, GoodParts, DistinctKept DEF Mild
  <2>2. UNCHANGED <<disk, dirents, history>>
    OBVIOUS
  <2> QED BY <1>1, <2>0, <2>1, <2>2, Quiet DEF Mild
<1> QED BY <1>3, <1>5, <1>6

\* A call ends.
LEMMA QuietReturn ==
  ASSUME IInv, Sound, NEW p \in Procs, Return(p), UNCHANGED <<disk, dirents, calls, history>>,
         call[p].at # "pointer"
  PROVE  TypeOK' /\ Lines' /\ (Sound' => Good')
<1>1. Becomes(p, Idle)
  BY DEF Return
<1>2. /\ Idle.at # "pointer" /\ ~Fresh(Idle) /\ Line(Idle, Open) /\ TypeCall(Idle)
      /\ Local(Idle, dirents, inodes, Used, folders, Sz, Tree, data) /\ NoMore(Idle, call[p])
  BY IdleOK
<1>3. UNCHANGED <<disk, dirents, history>> /\ calls' \in 0 .. MaxCalls
  BY TypeParts DEF IInv
<1>4. Follow(p, Idle) /\ Mild(p, Idle)
  <2>1. Follow(p, Idle)
    BY <1>2 DEF Follow
  <2>2. Mild(p, Idle)
    BY <1>2 DEF Mild
  <2> QED BY <2>1, <2>2
<1> QED BY <1>1, <1>3, <1>4, QuietStep
-----------------------------------------------------------------------------
(* The steps, one by one.                                                    *)

\* What is known of a call of p, the entry d it works on and its inode i.
Known(c, d, i) ==
  /\ TypeCall(c) /\ Line(c, Open) /\ Path(c) /\ Edit(c) /\ Aim(c, dirents, inodes, Used, folders)
  /\ d = c.d /\ i = dirents[d].inum /\ d \in Open /\ d \in Dirents /\ i \in Used /\ i \in Inums
  /\ View(i) = Copy(d) /\ Copy(d) \in Node /\ Copy(d).inuse /\ Sz[i] = Copy(d).size /\ Sz[i] \in Nat
  /\ dirents[d].isdir <=> i \in folders
  /\ Reach(c, dirents[d], Sz[i]) /\ Found(c, Tree[i], data)

\* All of it follows from the invariant.
LEMMA KnownIs ==
  ASSUME IInv, Sound, NEW p \in Procs, Where(call[p]) # "idle"
  PROVE  Known(call[p], call[p].d, dirents[call[p].d].inum)
<1> DEFINE c == call[p]
           d == c.d
           i == dirents[d].inum
<1>1. TypeOK /\ Lines /\ Good
  BY DEF IInv
<1>2. TypeCall(c) /\ Line(c, Open) /\ Local(c, dirents, inodes, Used, folders, Sz, Tree, data) /\ Agree
  BY <1>1, TypeCalls, GoodParts DEF Lines
<1>3. d \in Open
  BY <1>2 DEF Line
<1>4. d \in Dirents /\ i \in Inums /\ Copy(d) \in Node
  BY <1>1, <1>3, OpenTyped
<1>5. i \in Used /\ (dirents[d].isdir <=> i \in folders) /\ Copy(d).inuse
  BY <1>2, <1>3 DEF Agree, EntryOK
<1>6. View(i) = Copy(d)
  BY <1>2, <1>3, ViewIs
<1>7. Sz[i] = Copy(d).size /\ Sz[i] \in Nat
  BY <1>1, <1>2, <1>4, <1>6, ViewTyped
<1>8. Path(c) /\ Edit(c) /\ Aim(c, dirents, inodes, Used, folders)
      /\ Reach(c, dirents[d], Sz[i]) /\ Found(c, Tree[i], data)
  BY <1>2 DEF Local
<1> QED BY <1>2, <1>3, <1>4, <1>5, <1>6, <1>7, <1>8 DEF Known

\* The fields that say what the call is for.
SameTask(c, o) ==
  /\ DOMAIN c = DOMAIN Idle
  /\ c.op = o.op /\ c.d = o.d /\ c.name = o.name /\ c.isdir = o.isdir /\ c.off = o.off /\ c.len = o.len
  /\ c.inum = o.inum
\* And those of the page it changes.
SamePage(c, o) ==
  /\ c.k = o.k /\ c.lo = o.lo /\ c.hi = o.hi /\ c.word = o.word /\ c.page = o.page /\ c.from = o.from
  /\ c.after = o.after

\* In diskfs_inode_write the task and the page stay the same.
LEMMA WriteMoves ==
  ASSUME NEW o, NEW c, NEW E, NEW N, NEW U, NEW F, NEW e, NEW z,
         Path(o), Edit(o), Aim(o, E, N, U, F), Reach(o, e, z),
         SameTask(c, o), SamePage(c, o), InWrite(o), InWrite(c), Path(c)
  PROVE  /\ Edit(c) /\ Aim(c, E, N, U, F) /\ Reach(c, e, z)
         /\ Fresh(c) <=> Fresh(o)
         /\ Aims(c) <=> Aims(o)
<1>1. HasBlock(o) /\ HasBlock(c)
  BY DEF HasBlock
<1>2. Where(o) \notin {"idle", "look", "load", "echo", "empty", "add"}
      /\ Where(c) \notin {"idle", "look", "load", "echo", "empty", "add"}
  BY DEF Path, InWrite
<1>3. (Fresh(c) <=> Fresh(o)) /\ (Aims(c) <=> Aims(o))
  BY <1>2 DEF Fresh, Aims, SameTask
<1>4. Edit(c)
  BY <1>1, <1>2 DEF Edit, SameTask, SamePage
<1>5. Aim(c, E, N, U, F)
  BY <1>3 DEF Aim, SameTask
<1>6. Reach(c, e, z)
  <2>1. c.op = o.op /\ c.name = o.name /\ c.off = o.off /\ c.len = o.len /\ c.k = o.k /\ c.hi = o.hi
        /\ c.word = o.word
    BY DEF SameTask, SamePage
  <2>2. Where(c) # "idle" /\ Where(o) # "idle"
    BY <1>2
  <2>3. Where(c) \notin {"look", "claim", "init", "add"}
    BY DEF Path, InWrite
  <2>4. /\ o.op \in {"open", "create", "echo", "remove"} => e.isdir
        /\ o.op = "write" => ~e.isdir /\ o.name \in Values /\ o.off + o.len <= z /\ o.off + o.len <= MaxSize
        /\ o.k < Direct + Slots /\ Start(o.k) < z
        /\ o.op = "write" =>
             o.word = o.name /\ Start(o.k) + o.hi < z /\ Start(o.k) + o.hi < MaxSize
             /\ o.off = Start(o.k) + o.hi + 1
        /\ o.op = "create" => o.name \in Names
    BY <1>1, <2>2 DEF Reach
  <2> QED BY <2>1, <2>3, <2>4 DEF Reach
<1> QED BY <1>3, <1>4, <1>5, <1>6

\* A step that changes no more than where the call is, and its pages, keeps its type.
LEMMA TypeMoves ==
  ASSUME NEW o, NEW c, TypeCall(o), SameTask(c, o), SamePage(c, o), c.n \in Blocks \cup {Junk},
         c.table = o.table \/ c.table \in [Inums -> Node] \cup {<<>>},
         c.bits = o.bits \/ c.bits \in SUBSET Blocks
  PROVE  TypeCall(c)
BY DEF TypeCall, SameTask, SamePage

\* The pointers of the file of a call.
LEMMA TreeOf ==
  ASSUME IInv, Sound, NEW o, NEW d, NEW i, Known(o, d, i)
  PROVE  /\ Tree \in [Inums -> [Kinds -> Blocks]]
         /\ \A k \in 0 .. Direct - 1 : Tree[i][k] = Copy(d).direct[k] /\ Copy(d).direct[k] \in Blocks
         /\ Tree[i][Direct] = Copy(d).indirect /\ Copy(d).indirect \in Blocks
         /\ \A s \in Page : Tree[i][Direct + 1 + s] =
              IF Copy(d).indirect = Zero THEN Zero ELSE Kept(data[Copy(d).indirect][s])
<1>1. TypeOK /\ Agree /\ Blank(Tree, data)
  BY GoodParts DEF IInv
<1>2. i \in Used /\ View(i) = Copy(d) /\ Copy(d) \in Node
  BY DEF Known
<1>3. (\A k \in 0 .. Direct - 1 : Copy(d).direct[k] \in Blocks) /\ Copy(d).indirect \in Blocks
  BY <1>2 DEF Node
<1> QED BY <1>1, <1>2, <1>3, TreeIs

\* The four ways a write to a block goes on: with the block that is there, or to take one.
LEMMA PutCall ==
  ASSUME IInv, Sound, NEW o, NEW c, NEW d, NEW i, Known(o, d, i), Where(o) = "put", o.at = "put",
         SameTask(c, o), SamePage(c, o), c.table = o.table, c.bits = o.bits,
         \/ /\ o.k < Direct /\ c.at = "bits" /\ c.goal = "take" /\ c.slot = "direct" /\ c.n = o.n
         \/ /\ o.k < Direct /\ Copy(d).direct[o.k] # Zero
            /\ c.at = "data" /\ c.slot = o.slot /\ c.n = Copy(d).direct[o.k]
         \/ /\ o.k >= Direct
            /\ c.at = "bits" /\ c.goal = "take" /\ c.slot = "indirect" /\ c.n = o.n
         \/ /\ o.k >= Direct /\ Copy(d).indirect # Zero
            /\ c.at = "pointers" /\ c.slot = o.slot /\ c.n = o.n
  PROVE  /\ TypeCall(c) /\ Line(c, Open) /\ Path(c) /\ Found(c, Tree[i], data) /\ InWrite(c)
         /\ ~Clears(c) /\ c.at # "pointer" /\ InWrite(o) /\ c.op # "close" /\ o.op # "close"
<1>1. /\ Path(o) /\ TypeCall(o) /\ Line(o, Open) /\ Copy(d) \in Node /\ o.k \in Nat /\ i \in Used
      /\ View(i) = Copy(d) /\ Direct \in Nat /\ c.k = o.k
  BY Sizes DEF Known, TypeCall, SamePage
<1>2. o.slot = "none" /\ HasBlock(o) /\ InWrite(o) /\ o.op # "close" /\ c.op # "close"
  BY <1>1 DEF Path, HasBlock, InWrite, SameTask
<1>3. Where(c) \in {"take", "data", "pointers"} /\ InWrite(c) /\ HasBlock(c) /\ ~Clears(c)
        /\ c.at # "pointer"
  BY DEF Where, InWrite, HasBlock, Clears
<1>4. Path(c)
  BY <1>1, <1>2, <1>3 DEF Path, Where, SameTask, SamePage
<1>5. Line(c, Open)
  BY <1>1, <1>2, <1>3 DEF Line, Where, SameTask
<1>6. /\ o.k < Direct => /\ Tree[i][o.k] = Copy(d).direct[o.k] /\ Copy(d).direct[o.k] \in Blocks
                         /\ Behind(o.k) = o.k
      /\ Tree[i][Direct] = Copy(d).indirect
  BY <1>1, TreeOf DEF Behind
<1>7. TypeCall(c)
  <2>1. c.n \in Blocks \cup {Junk}
    BY <1>1, <1>6 DEF TypeCall
  <2> QED BY <1>1, <2>1, TypeMoves
<1>8. Found(c, Tree[i], data)
  BY <1>1, <1>2, <1>3, <1>6 DEF Found, Where
<1> QED BY <1>2, <1>3, <1>4, <1>5, <1>7, <1>8

\* A step without a write that stays in diskfs_inode_write.
LEMMA WriteStep ==
  ASSUME IInv, Sound, NEW p \in Procs, NEW c, Becomes(p, c), UNCHANGED <<disk, dirents, calls, history>>,
         NEW o, NEW d, NEW i, o = call[p], Known(o, d, i), SameTask(c, o), SamePage(c, o),
         TypeCall(c), Line(c, Open), InWrite(o), o.at # "pointer", c.op # "close", o.op # "close",
         Sound' => /\ Path(c) /\ Found(c, Tree[i], data) /\ InWrite(c) /\ c.at # "pointer"
                   /\ Clears(c) => Clears(o) /\ c.n = o.n
  PROVE  TypeOK' /\ Lines' /\ (Sound' => Good')
<1>1. Where(o) # "idle" /\ c.d = o.d
  BY DEF Known, Path, InWrite, SameTask
<1>2. Follow(p, c)
  BY <1>1 DEF Follow
<1>3. ASSUME Sound' PROVE Mild(p, c)
  <2>1. /\ Path(c) /\ Found(c, Tree[i], data) /\ InWrite(c) /\ c.at # "pointer"
        /\ Clears(c) => Clears(o) /\ c.n = o.n
    BY <1>3
  <2>2. /\ Path(o) /\ Edit(o) /\ Aim(o, dirents, inodes, Used, folders) /\ Reach(o, dirents[d], Sz[i])
        /\ d = o.d /\ i = dirents[d].inum
    BY DEF Known
  <2>3. /\ Edit(c) /\ Aim(c, dirents, inodes, Used, folders) /\ Reach(c, dirents[d], Sz[i])
        /\ (Fresh(c) <=> Fresh(o)) /\ (Aims(c) <=> Aims(o))
    BY <2>1, <2>2, WriteMoves
  <2>4. Local(c, dirents, inodes, Used, folders, Sz, Tree, data)
    BY <1>1, <2>1, <2>2, <2>3 DEF Local
  <2>5. NoMore(c, call[p])
    BY <2>1, <2>3 DEF NoMore, SameTask
  <2> QED BY <2>1, <2>3, <2>4, <2>5 DEF Mild, SameTask
<1>4. UNCHANGED <<disk, dirents, history>> /\ calls' \in 0 .. MaxCalls
  BY TypeParts DEF IInv
<1> QED BY <1>2, <1>3, <1>4, QuietStep

\* put keeps the invariant.
LEMMA PutStep ==
  ASSUME IInv, Sound, NEW p \in Procs, put(p)
  PROVE  TypeOK' /\ Lines' /\ (Sound' => Good')
<1> DEFINE o == call[p]
           d == o.d
           i == dirents[d].inum
           node == Copy(d)
<1>0. o.at = "put" /\ Where(o) = "put"
  BY DEF put, At, Where
<1>1. Known(o, d, i)
  BY <1>0, KnownIs
<1>2. DOMAIN o = DOMAIN Idle /\ o.k \in Int /\ Direct \in Int /\ UNCHANGED <<disk, dirents, calls, history>>
  BY <1>1, Sizes DEF Known, TypeCall, put
<1> DEFINE Fit(c) ==
         /\ Becomes(p, c) /\ SameTask(c, o) /\ SamePage(c, o) /\ c.table = o.table /\ c.bits = o.bits
         /\ \/ /\ o.k < Direct /\ c.at = "bits" /\ c.goal = "take" /\ c.slot = "direct" /\ c.n = o.n
            \/ /\ o.k < Direct /\ Copy(d).direct[o.k] # Zero
               /\ c.at = "data" /\ c.slot = o.slot /\ c.n = Copy(d).direct[o.k]
            \/ /\ o.k >= Direct
               /\ c.at = "bits" /\ c.goal = "take" /\ c.slot = "indirect" /\ c.n = o.n
            \/ /\ o.k >= Direct /\ Copy(d).indirect # Zero
               /\ c.at = "pointers" /\ c.slot = o.slot /\ c.n = o.n
<1> HIDE DEF Fit
<1>9. ASSUME NEW c, Fit(c) PROVE TypeOK' /\ Lines' /\ (Sound' => Good')
  <2>1. /\ Becomes(p, c) /\ SameTask(c, o) /\ SamePage(c, o)
        /\ TypeCall(c) /\ Line(c, Open) /\ Path(c) /\ Found(c, Tree[i], data) /\ InWrite(c)
        /\ ~Clears(c) /\ c.at # "pointer" /\ InWrite(o) /\ c.op # "close" /\ o.op # "close"
    BY <1>0, <1>1, <1>9, PutCall DEF Fit
  <2>2. o.at # "pointer" /\ o = call[p]
    BY <1>0
  <2> HIDE DEF o, d, i
  <2> QED BY <1>1, <1>2, <2>1, <2>2, WriteStep
<1>3. CASE o.k < Direct /\ node.direct[o.k] = Zero
  <2> DEFINE c == [ReadsBits(o, "take") EXCEPT !.slot = "direct"]
  <2>1. Becomes(p, c)
    BY <1>3 DEF put
  <2>2. Fit(c)
    BY <1>2, <1>3, <2>1, Fields DEF Fit, ReadsBits, SameTask, SamePage
  <2> HIDE DEF c
  <2> QED BY <2>2, <1>9
<1>4. CASE o.k < Direct /\ node.direct[o.k] # Zero
  <2> DEFINE c == [o EXCEPT !.at = "data", !.n = node.direct[o.k]]
  <2>1. Becomes(p, c)
    BY <1>4 DEF put
  <2>2. Fit(c)
    BY <1>2, <1>4, <2>1, Fields DEF Fit, SameTask, SamePage
  <2> HIDE DEF c
  <2> QED BY <2>2, <1>9
<1>5. CASE ~(o.k < Direct) /\ node.indirect = Zero
  <2> DEFINE c == [ReadsBits(o, "take") EXCEPT !.slot = "indirect"]
  <2>1. Becomes(p, c)
    BY <1>5 DEF put
  <2>2. Fit(c)
    BY <1>2, <1>5, <2>1, Fields DEF Fit, ReadsBits, SameTask, SamePage
  <2> HIDE DEF c
  <2> QED BY <2>2, <1>9
<1>6. CASE ~(o.k < Direct) /\ node.indirect # Zero
  <2> DEFINE c == Goes(o, "pointers")
  <2>1. Becomes(p, c)
    BY <1>6 DEF put
  <2>2. Fit(c)
    BY <1>2, <1>6, <2>1, Fields DEF Fit, Goes, SameTask, SamePage
  <2> HIDE DEF c
  <2> QED BY <2>2, <1>9
<1> QED BY <1>3, <1>4, <1>5, <1>6

\* Types and control when the entries stay as they are.
LEMMA ShapeStep ==
  ASSUME TypeOK, Lines, NEW p \in Procs, NEW c, Becomes(p, c), dirents' = dirents,
         TypeDisk', TypeHistory', calls' \in 0 .. MaxCalls, Follow(p, c)
  PROVE  TypeOK' /\ Lines'
<1>1. TypeOK'
  BY TypeNext DEF Follow
<1>2. Open' = Open
  BY DEF Open
<1>3. \A q \in Procs \ {p} : Where(call[q]) # "idle" => call[q].d \in Open
  BY DEF Lines, Line
<1> QED BY <1>1, <1>2, <1>3, LinesNext DEF Follow

\* The page of the table or the bitmap has been read.
LEMMA SameLocal ==
  ASSUME NEW o, NEW c, SameTask(c, o), SamePage(c, o), c.slot = o.slot, c.n = o.n, c.pointers = o.pointers,
         Where(c) = Where(o), c.at # "data", c.at # "pointer", o.at # "pointer"
  PROVE  /\ NoMore(c, o) /\ (Fresh(c) => Fresh(o) /\ c.inum = o.inum)
         /\ \A E, N, U, F, Z, T, D : Local(o, E, N, U, F, Z, T, D) => Local(c, E, N, U, F, Z, T, D)
<1>1. (InWrite(c) <=> InWrite(o)) /\ (HasBlock(c) <=> HasBlock(o))
  BY DEF InWrite, HasBlock
<1>2. (Fresh(c) <=> Fresh(o)) /\ (Aims(c) <=> Aims(o)) /\ (Clears(c) <=> Clears(o))
  BY <1>1 DEF Fresh, Aims, Clears, SameTask
<1>3. NoMore(c, o)
  BY <1>2 DEF NoMore, SameTask
<1>4. (Path(o) => Path(c)) /\ (Edit(o) => Edit(c))
  <2>1. Path(o) => Path(c)
    BY <1>1 DEF Path, SameTask, SamePage
  <2>2. Edit(o) => Edit(c)
    BY <1>1 DEF Edit, SameTask, SamePage
  <2> QED BY <2>1, <2>2
<1>5. \A E, N, U, F : Aim(o, E, N, U, F) => Aim(c, E, N, U, F)
  BY <1>2 DEF Aim, SameTask
<1>6. \A e, z : Reach(o, e, z) => Reach(c, e, z)
  BY <1>1 DEF Reach, SameTask, SamePage
<1>7. \A t, D : Found(o, t, D) => Found(c, t, D)
  BY <1>2 DEF Found, SamePage
<1>8. \A E, N, U, F, Z, T, D : Local(o, E, N, U, F, Z, T, D) => Local(c, E, N, U, F, Z, T, D)
  BY <1>4, <1>5, <1>6, <1>7 DEF Local, SameTask
<1> QED BY <1>2, <1>3, <1>8 DEF SameTask

\* A step that reads: on its own when the disk is sound, and in a removal.
LEMMA ReadStep ==
  ASSUME IInv, NEW p \in Procs, NEW c, NEW o, o = call[p], Becomes(p, c),
         UNCHANGED <<disk, dirents, calls, history, damage>>,
         SameTask(c, o), SamePage(c, o), c.slot = o.slot, c.n = o.n, c.pointers = o.pointers,
         Where(c) = Where(o), Where(o) # "idle", c.at # "data", c.at # "pointer", o.at # "pointer",
         TypeCall(c), Line(c, Open)
  PROVE  TypeOK' /\ Lines' /\ (Sound' => Good')
<1>1. TypeOK /\ Lines
  BY DEF IInv
<1>2. Follow(p, c)
  BY DEF Follow, SameTask
<1>3. TypeDisk' /\ TypeHistory' /\ calls' \in 0 .. MaxCalls /\ dirents' = dirents
  BY <1>1, TypeParts, TypeSame
<1>4. TypeOK' /\ Lines'
  BY <1>1, <1>2, <1>3, ShapeStep
<1>5. ASSUME Sound' PROVE Good'
  <2>1. Sound /\ Good
    BY <1>5 DEF Sound, IInv
  <2>2. Local(o, dirents, inodes, Used, folders, Sz, Tree, data)
    BY <2>1, GoodParts
  <2>3. Mild(p, c)
    BY <2>2, SameLocal DEF Mild
  <2>4. UNCHANGED <<disk, dirents, history>>
    OBVIOUS
  <2> QED BY <1>2, <1>3, <1>5, <2>1, <2>3, <2>4, QuietStep
<1> QED BY <1>4, <1>5

\* table keeps the invariant, after a removal too.
LEMMA TableStep ==
  ASSUME IInv, NEW p \in Procs, table(p)
  PROVE  TypeOK' /\ Lines' /\ (Sound' => Good')
<1> DEFINE o == call[p]
           c == [o EXCEPT !.at = o.goal, !.goal = "none", !.table = inodes]
<1>1. o.at = "table" /\ Becomes(p, c) /\ UNCHANGED <<disk, dirents, calls, history, damage>>
  BY DEF table, At
<1>2. TypeCall(o) /\ Line(o, Open) /\ inodes \in [Inums -> Node]
  BY TypeCalls DEF IInv, Lines, TypeOK
<1>3. DOMAIN o = DOMAIN Idle
  BY <1>2 DEF TypeCall
<1>4. /\ SameTask(c, o) /\ SamePage(c, o) /\ c.slot = o.slot /\ c.n = o.n /\ c.pointers = o.pointers
      /\ c.at = o.goal /\ c.table = inodes /\ c.bits = o.bits /\ c.node = o.node
  BY <1>3, Fields DEF SameTask, SamePage
<1> HIDE DEF c
<1>5. c.at \in {"save", "claim", "init", "echo", "bury", "unclaim"} /\ Where(c) = Where(o)
        /\ Where(o) = o.goal
  BY <1>1, <1>2, <1>4 DEF Line, Where
<1>6. TypeCall(c)
  <2>1. c.n \in Blocks \cup {Junk}
    BY <1>2, <1>4 DEF TypeCall
  <2> QED BY <1>2, <1>4, <2>1, TypeMoves
<1>7. Line(c, Open)
  BY <1>2, <1>4, <1>5 DEF Line, SameTask
<1>8. Where(o) # "idle" /\ c.at # "data" /\ c.at # "pointer" /\ o.at # "pointer"
  <2>1. o.at # "pointer"
    BY <1>1
  <2>2. c.at = Where(o)
    BY <1>4, <1>5
  <2>3. \A x \in {"save", "claim", "init", "echo", "bury", "unclaim"} : x # "idle" /\ x # "data"
          /\ x # "pointer"
    OBVIOUS
  <2> QED BY <1>5, <2>1, <2>2, <2>3
<1>9. o = call[p]
  OBVIOUS
<1> HIDE DEF o
<1> QED BY <1>1, <1>4, <1>5, <1>6, <1>7, <1>8, <1>9, ReadStep

\* bits keeps the invariant, after a removal too.
LEMMA BitsStep ==
  ASSUME IInv, NEW p \in Procs, bits(p)
  PROVE  TypeOK' /\ Lines' /\ (Sound' => Good')
<1> DEFINE o == call[p]
           c == [o EXCEPT !.at = o.goal, !.goal = "none", !.bits = bitmap]
<1>1. o.at = "bits" /\ Becomes(p, c) /\ UNCHANGED <<disk, dirents, calls, history, damage>>
  BY DEF bits, At
<1>2. TypeCall(o) /\ Line(o, Open) /\ bitmap \in SUBSET Blocks
  BY TypeCalls DEF IInv, Lines, TypeOK
<1>3. DOMAIN o = DOMAIN Idle
  BY <1>2 DEF TypeCall
<1>4. /\ SameTask(c, o) /\ SamePage(c, o) /\ c.slot = o.slot /\ c.n = o.n /\ c.pointers = o.pointers
      /\ c.at = o.goal /\ c.table = o.table /\ c.bits = bitmap /\ c.node = o.node
  BY <1>3, Fields DEF SameTask, SamePage
<1> HIDE DEF c
<1>5. c.at \in {"take", "free"} /\ Where(c) = Where(o) /\ Where(o) = o.goal
  BY <1>1, <1>2, <1>4 DEF Line, Where
<1>6. TypeCall(c)
  <2>1. c.n \in Blocks \cup {Junk}
    BY <1>2, <1>4 DEF TypeCall
  <2> QED BY <1>2, <1>4, <2>1, TypeMoves
<1>7. Line(c, Open)
  BY <1>2, <1>4, <1>5 DEF Line, SameTask
<1>8. Where(o) # "idle" /\ c.at # "data" /\ c.at # "pointer" /\ o.at # "pointer"
  <2>1. o.at # "pointer"
    BY <1>1
  <2>2. c.at = Where(o)
    BY <1>4, <1>5
  <2>3. \A x \in {"take", "free"} : x # "idle" /\ x # "data" /\ x # "pointer"
    OBVIOUS
  <2> QED BY <1>5, <2>1, <2>2, <2>3
<1>9. o = call[p]
  OBVIOUS
<1> HIDE DEF o
<1> QED BY <1>1, <1>4, <1>5, <1>6, <1>7, <1>8, <1>9, ReadStep

\* A damage that happens is seen.
LEMMA DamageIs == \A S : Damaged(S) /\ Sound' => S = {}
BY DEF Damaged, Sound

\* What did no damage did not happen.
LEMMA WhenIs == \A b, x : When(b, x) = {} => ~b
BY DEF When

\* The block of a place in a file.
LEMMA BlockWithin ==
  ASSUME IInv, Sound, NEW i \in Used, NEW k \in Nat, Start(k) < Sz[i]
  PROVE  k \in Slots0 /\ k < Direct + Slots
<1>1. i \in Inums /\ TypeOK /\ Agree /\ Small(Used, Sz)
  BY GoodParts DEF IInv, Used
<1>2. Sz[i] \in Nat /\ Sz[i] <= Start(Direct + Slots)
  BY <1>1, ViewTyped DEF Small
<1>3. Direct + Slots \in Nat /\ Start(k) \in Nat /\ Start(Direct + Slots) \in Nat
      /\ (Direct + Slots <= k => Start(Direct + Slots) <= Start(k))
  BY Sizes, Begins
<1>4. k < Direct + Slots
  BY <1>2, <1>3
<1> QED BY <1>3, <1>4, Sizes DEF Slots0

\* The page of a block is what the file holds there.
LEMMA PageFacts ==
  ASSUME IInv, Sound, NEW i \in Used, NEW k \in Slots0
  PROVE  /\ i \in Inums /\ Tree[i][Behind(k)] \in Blocks
         /\ \A s \in Page : Cells[i][k][s] = Kept(PageAt(View(i), k)[s])
         /\ Tree[i][Behind(k)] = Zero =>
              BlockAt(View(i), k) \in Nil /\ \A s \in Page : PageAt(View(i), k)[s] \in Nil
         /\ Tree[i][Behind(k)] # Zero => /\ BlockAt(View(i), k) = Tree[i][Behind(k)]
                                         /\ PageAt(View(i), k) = data[Tree[i][Behind(k)]]
<1>1. TypeOK /\ Agree /\ Blank(Tree, data) /\ i \in Inums
  BY GoodParts DEF IInv, Used
<1>2. Tree[i][Behind(k)] \in Blocks
  BY <1>1, TreeIs, KindIs
<1>3. /\ Tree[i][Behind(k)] = Zero =>
           BlockAt(View(i), k) \in Nil /\ \A s \in Page : PageAt(View(i), k)[s] \in Nil
      /\ Tree[i][Behind(k)] # Zero => /\ BlockAt(View(i), k) = Tree[i][Behind(k)]
                                      /\ PageAt(View(i), k) = data[Tree[i][Behind(k)]]
  BY <1>1, PageIs
<1>4. ASSUME NEW s \in Page PROVE Cells[i][k][s] = Kept(PageAt(View(i), k)[s])
  <2>1. Cells[i][k][s] = IF Tree[i][Behind(k)] = Zero THEN Zero ELSE Kept(data[Tree[i][Behind(k)]][s])
    BY <1>1, CellIs DEF Cells
  <2> QED BY <1>3, <2>1 DEF Kept
<1> QED BY <1>1, <1>2, <1>3, <1>4

\* pointers keeps the invariant: what is read is the pointer of the file.
LEMMA PointersStep ==
  ASSUME IInv, Sound, NEW p \in Procs, pointers(p)
  PROVE  TypeOK' /\ Lines' /\ (Sound' => Good')
<1> DEFINE o == call[p]
           d == o.d
           i == dirents[d].inum
           page == data[Copy(d).indirect]
           n == page[o.k - Direct]
<1>0. o.at = "pointers" /\ Where(o) = "pointers" /\ o = call[p]
      /\ UNCHANGED <<disk, dirents, calls, history>> /\ Damaged(When(n = Junk, "raced"))
  BY DEF pointers, At, Where
<1>1. Known(o, d, i)
  BY <1>0, KnownIs
<1> HIDE DEF o, d, i, page, n
<1>2. DOMAIN o = DOMAIN Idle /\ TypeCall(o) /\ Path(o) /\ InWrite(o) /\ HasBlock(o) /\ Line(o, Open)
        /\ o.op # "close"
      /\ o.at # "pointer" /\ i \in Inums
  BY <1>0, <1>1 DEF Known, TypeCall, InWrite, HasBlock, Path
<1>3. /\ o.k \in Nat /\ o.k >= Direct /\ o.k < Direct + Slots /\ Tree[i][Direct] # Zero /\ Direct \in Nat
      /\ o.slot \in {"none", "indirect"}
  <2>1. Reach(o, dirents[d], Sz[i]) /\ Found(o, Tree[i], data)
    BY <1>1 DEF Known
  <2>2. o.k \in Nat /\ o.k < Direct + Slots /\ Direct \in Nat
    <3> QED BY <1>2, <2>1, Sizes DEF TypeCall, Reach
  <2>3. o.k >= Direct /\ Tree[i][Direct] # Zero /\ o.slot \in {"none", "indirect"}
    BY <1>0, <1>2, <2>1, <2>2 DEF Found, Path
  <2> QED BY <2>2, <2>3
<1>4. o.k - Direct \in Page /\ Behind(o.k) = Direct + 1 + (o.k - Direct) /\ o.k \in Slots0
  BY <1>3, Sizes DEF Page, Behind, Slots0
<1>5. /\ Copy(d).indirect = Tree[i][Direct] /\ Copy(d).indirect \in Blocks
      /\ Tree[i][Behind(o.k)] = Kept(n)
  BY <1>1, <1>3, <1>4, TreeOf DEF n, page
<1>6. DOMAIN page = Page /\ ((\A s \in Page : page[s] = Junk) \/ \A s \in Page : page[s] \in Blocks)
  <2> DEFINE b == Copy(d).indirect
  <2>1. DOMAIN data[b] = Page
    BY <1>5, TypeParts DEF IInv, TypeDisk
  <2>2. Blank(Tree, data) /\ b = Tree[i][Direct]
    BY <1>5, GoodParts DEF IInv
  <2>3. (\A s \in Page : data[b][s] = Junk) \/ \A s \in Page : data[b][s] \in Blocks
    <3> HIDE DEF b
    <3> QED BY <1>2, <1>3, <2>2 DEF Blank
  <2> QED BY <2>1, <2>3 DEF page
<1>7. n = Junk \/ n \in Blocks
  BY <1>4, <1>6 DEF n
<1>8. Sound' => n # Junk
  BY <1>0, DamageIs, WhenIs
<1>9. CASE n # Zero
  <2> DEFINE c == [o EXCEPT !.at = "data", !.n = n, !.slot = "none"]
  <2>1. Becomes(p, c)
    BY <1>9 DEF pointers, o, d, i, page, n
  <2>2. /\ SameTask(c, o) /\ SamePage(c, o) /\ c.table = o.table /\ c.bits = o.bits
        /\ c.at = "data" /\ c.n = n /\ c.slot = "none"
    BY <1>2, Fields DEF SameTask, SamePage
  <2> HIDE DEF c
  <2>3. Where(c) = "data" /\ InWrite(c) /\ HasBlock(c) /\ ~Clears(c) /\ c.at # "pointer" /\ c.op # "close"
    BY <1>2, <2>2 DEF Where, InWrite, HasBlock, Clears, SameTask
  <2>4. Path(c)
    BY <1>0, <1>2, <2>2, <2>3 DEF Path, SameTask, SamePage
  <2>5. TypeCall(c) /\ Line(c, Open)
    <3>1. TypeCall(c)
      BY <1>2, <1>7, <2>2, TypeMoves
    <3>2. Line(c, Open)
      BY <1>0, <1>2, <2>2, <2>3 DEF Line, SameTask
    <3> QED BY <3>1, <3>2
  <2>6. Sound' => Found(c, Tree[i], data)
    <3>1. Sound' => c.n = Tree[i][Behind(c.k)] /\ c.n # Zero
      BY <1>5, <1>8, <1>9, <2>2 DEF Kept, Nil, SamePage
    <3> QED BY <2>2, <2>3, <3>1 DEF Found
  <2> QED BY <1>0, <1>1, <1>2, <2>1, <2>2, <2>3, <2>4, <2>5, <2>6, WriteStep
<1>10. CASE n = Zero
  <2> DEFINE c == [ReadsBits(o, "take") EXCEPT !.pointers = page, !.slot = "pointer"]
  <2>1. Becomes(p, c)
    BY <1>10 DEF pointers, o, d, i, page, n
  <2>2. /\ SameTask(c, o) /\ SamePage(c, o) /\ c.table = o.table /\ c.bits = o.bits
        /\ c.at = "bits" /\ c.goal = "take" /\ c.n = o.n /\ c.slot = "pointer" /\ c.pointers = page
    BY <1>2, Fields DEF SameTask, SamePage, ReadsBits
  <2> HIDE DEF c
  <2>3. Where(c) = "take" /\ InWrite(c) /\ HasBlock(c) /\ ~Clears(c) /\ c.at # "pointer" /\ c.op # "close"
    BY <1>2, <2>2 DEF Where, InWrite, HasBlock, Clears, SameTask
  <2>4. Path(c)
    BY <1>0, <1>2, <1>3, <2>2, <2>3 DEF Path, SameTask, SamePage
  <2>5. TypeCall(c) /\ Line(c, Open)
    <3>1. TypeCall(c)
      <4>1. c.n \in Blocks \cup {Junk}
        BY <1>2, <2>2 DEF TypeCall
      <4> QED BY <1>2, <2>2, <4>1, TypeMoves
    <3>2. Line(c, Open)
      BY <1>0, <1>2, <2>2, <2>3 DEF Line, SameTask
    <3> QED BY <3>1, <3>2
  <2>6. Found(c, Tree[i], data)
    <3>1. \A s \in Page : page[s] \in Blocks
      BY <1>4, <1>6, <1>10, Sizes DEF n
    <3>2. c.k = o.k /\ c.pointers[c.k - Direct] = Zero
      BY <1>10, <2>2 DEF SamePage, n
    <3> QED BY <1>3, <1>6, <2>2, <2>3, <3>1, <3>2 DEF Found
  <2> QED BY <1>0, <1>1, <1>2, <2>1, <2>2, <2>3, <2>4, <2>5, <2>6, WriteStep
<1> QED BY <1>9, <1>10

\* The least of two numbers.
LEMMA MinOfTwo ==
  ASSUME NEW a \in Int, NEW b \in Int
  PROVE  Min({a, b}) \in {a, b} /\ Min({a, b}) <= a /\ Min({a, b}) <= b
<1>1. IsFiniteSet({a, b})
  <2>1. IsFiniteSet({}) /\ IsFiniteSet({} \cup {a})
    BY FS_EmptySet, FS_AddElement
  <2>2. IsFiniteSet(({} \cup {a}) \cup {b}) /\ ({} \cup {a}) \cup {b} = {a, b}
    BY <2>1, FS_AddElement
  <2> QED BY <2>2
<1>2. {a, b} \in SUBSET Int /\ {a, b} # {}
  OBVIOUS
<1> DEFINE S == {a, b}
<1>3. a \in S /\ b \in S
  OBVIOUS
<1> HIDE DEF S
<1>4. Min(S) \in S /\ \A i \in S : Min(S) <= i
  BY <1>1, <1>2, MinExists DEF S
<1> QED BY <1>3, <1>4 DEF S

\* The next piece of a write lies in one block, and in the file.
LEMMA PieceIs ==
  ASSUME NEW off \in Nat, NEW len \in Nat \ {0}, off + len <= MaxSize
  PROVE  LET s == off % Slots
             m == Min({Slots - s, len})
             k == off \div Slots
         IN  /\ m \in 1 .. Slots /\ m <= len /\ s \in Page /\ s + m - 1 \in Page
             /\ k \in Slots0 /\ k < Direct + Slots /\ k \in Nat
             /\ Start(k) <= off /\ Start(k) + (s + m - 1) = off + m - 1
<1> DEFINE s == off % Slots
           m == Min({Slots - s, len})
           k == off \div Slots
<1>1. off \in 0 .. MaxSize - 1 /\ Slots \in Nat \ {0} /\ Direct \in Nat
  BY Sizes
<1>2. k \in Slots0 /\ s \in Page /\ off = Start(k) + s
  BY <1>1, SlotOf
<1>3. k \in Nat /\ k < Direct + Slots /\ Start(k) \in Nat /\ s \in Nat /\ s < Slots
  <2>1. k \in Nat /\ k < Direct + Slots
    BY <1>2, Sizes DEF Slots0
  <2>2. s \in Nat /\ s < Slots
    BY <1>2, Sizes DEF Page
  <2> QED BY <2>1, <2>2, Begins
<1> HIDE DEF s, k
<1>4. m \in {Slots - s, len} /\ m <= Slots - s /\ m <= len
  <2>1. Slots - s \in Int /\ len \in Int
    BY <1>1, <1>3
  <2> QED BY <2>1, MinOfTwo
<1> HIDE DEF m
<1>5. m \in 1 .. Slots
  BY <1>1, <1>3, <1>4
<1>6. s + m - 1 \in Page
  BY <1>1, <1>3, <1>4, <1>5 DEF Page
<1>7. Start(k) <= off /\ Start(k) + (s + m - 1) = off + m - 1
  BY <1>2, <1>3, <1>5
<1> QED BY <1>2, <1>3, <1>4, <1>5, <1>6, <1>7 DEF s, m, k

\* The piece of a write that comes next is inside one block and inside the file.
LEMMA PieceOK ==
  ASSUME NEW o, NEW e, NEW z \in Nat, TypeCall(o), o.op = "write", o.slot = "none", o.name \in Values,
         o.len # 0, o.off + o.len <= z, o.off + o.len <= MaxSize, ~e.isdir
  PROVE  LET c == piece(o)
         IN  /\ TypeCall(c) /\ Path(c) /\ Edit(c) /\ Reach(c, e, z) /\ (\A t, D : Found(c, t, D))
             /\ ~Fresh(c) /\ ~Aims(c) /\ ~Clears(c) /\ c.at \in {"put", "fill"}
             /\ c.op = "write" /\ c.d = o.d /\ c.isdir = o.isdir
<1> DEFINE s == o.off % Slots
           m == Min({Slots - s, o.len})
           k == o.off \div Slots
           c == piece(o)
<1>1. o.off \in Nat /\ o.len \in Nat \ {0} /\ DOMAIN o = DOMAIN Idle
  BY DEF TypeCall
<1>2. /\ m \in 1 .. Slots /\ m <= o.len /\ s \in Page /\ s + m - 1 \in Page
      /\ k \in Slots0 /\ k < Direct + Slots /\ k \in Nat
      /\ Start(k) <= o.off /\ Start(k) + (s + m - 1) = o.off + m - 1
  BY <1>1, PieceIs
<1> HIDE DEF s, m, k
<1>3. /\ c.k = k /\ c.lo = s /\ c.hi = s + m - 1 /\ c.word = o.name /\ c.from = None /\ c.page = Full(Zero)
      /\ c.off = o.off + m /\ c.len = o.len - m /\ c.at \in {"put", "fill"} /\ c.after = "next"
      /\ c.op = o.op /\ c.d = o.d /\ c.name = o.name /\ c.isdir = o.isdir /\ c.inum = o.inum /\ c.n = o.n
      /\ c.slot = o.slot /\ c.table = o.table /\ c.bits = o.bits /\ DOMAIN c = DOMAIN Idle
  BY <1>1, Fields DEF piece, s, m, k
<1> HIDE DEF c
<1>4. Slots \in Nat /\ m \in Nat /\ m <= Slots /\ Direct \in Nat /\ Start(k) \in Nat
  BY <1>2, Sizes, Begins
<1>5. TypeCall(c)
  <2>1. c.off \in Nat /\ c.len \in Nat /\ c.k \in 0 .. Direct + Slots
    BY <1>1, <1>2, <1>3, <1>4
  <2>2. c.lo \in Page /\ c.hi \in Page
    BY <1>2, <1>3
  <2> QED BY <1>3, <2>1, <2>2 DEF TypeCall
<1>6. Where(c) = c.at /\ c.at \in {"put", "fill"} /\ HasBlock(c)
  BY <1>3 DEF Where, HasBlock, InWrite
<1>7. Path(c)
  BY <1>3, <1>6 DEF Path
<1>8. Edit(c)
  <2>1. \A t \in Page : c.page[t] \in Nil
    BY <1>3 DEF Full, Nil
  <2> QED BY <1>3, <2>1 DEF Edit
<1>9. Reach(c, e, z)
  <2>1. c.off + c.len = o.off + o.len
    BY <1>1, <1>3, <1>4
  <2>2. Start(c.k) + c.hi = o.off + m - 1
    BY <1>2, <1>3
  <2>3. c.k < Direct + Slots /\ Start(c.k) < z /\ Start(c.k) + c.hi < z /\ Start(c.k) + c.hi < MaxSize
    BY <1>1, <1>2, <1>3, <1>4, <2>2, Sizes
  <2>4. c.off = Start(c.k) + c.hi + 1
    <3>1. c.off = o.off + m /\ o.off \in Nat
      BY <1>1, <1>2, <1>3
    <3> QED BY <1>4, <2>2, <3>1
  <2> QED BY <1>3, <1>6, <2>1, <2>3, <2>4 DEF Reach
<1>10. ~Fresh(c) /\ ~Aims(c) /\ ~Clears(c) /\ \A t, D : Found(c, t, D)
  BY <1>3, <1>6 DEF Fresh, Aims, Clears, Found
<1> QED BY <1>3, <1>5, <1>7, <1>8, <1>9, <1>10 DEF c

\* next keeps the invariant.
LEMMA NextStep ==
  ASSUME IInv, Sound, NEW p \in Procs, next(p)
  PROVE  TypeOK' /\ Lines' /\ (Sound' => Good')
<1> DEFINE o == call[p]
           d == o.d
           i == dirents[d].inum
           c == piece(o)
<1>0. o.at = "next" /\ Where(o) = "next" /\ UNCHANGED <<disk, dirents, calls, history>>
  BY DEF next, At, Where
<1>1. Known(o, d, i)
  BY <1>0, KnownIs
<1>2. CASE o.len = 0
  BY <1>0, <1>2, QuietReturn DEF next
<1>3. CASE o.len # 0
  <2>1. Becomes(p, c)
    BY <1>3 DEF next
  <2>2. /\ o.op = "write" /\ o.slot = "none" /\ o.name \in Values /\ o.off + o.len <= Sz[i]
        /\ o.off + o.len <= MaxSize /\ ~dirents[d].isdir /\ Sz[i] \in Nat /\ TypeCall(o) /\ d \in Open
           /\ d = o.d
    BY <1>0, <1>1 DEF Known, Path, Reach
  <2>3. /\ TypeCall(c) /\ Path(c) /\ Edit(c) /\ Reach(c, dirents[d], Sz[i]) /\ Found(c, Tree[i], data)
        /\ ~Fresh(c) /\ ~Aims(c) /\ ~Clears(c) /\ c.at \in {"put", "fill"}
        /\ c.op = "write" /\ c.d = o.d /\ c.isdir = o.isdir
    BY <1>3, <2>2, PieceOK
  <2> HIDE DEF c
  <2>4. Line(c, Open) /\ Where(c) # "idle"
    BY <1>1, <2>2, <2>3 DEF Line, Where, Known
  <2>5. Local(c, dirents, inodes, Used, folders, Sz, Tree, data)
    BY <2>2, <2>3 DEF Local, Aim
  <2>6. NoMore(c, o) /\ c.at # "pointer"
    BY <2>3 DEF NoMore
  <2>7. Follow(p, c) /\ Mild(p, c)
    <3>1. Follow(p, c)
      BY <1>0, <2>2, <2>3, <2>4 DEF Follow
    <3>2. Mild(p, c)
      BY <1>0, <2>3, <2>5, <2>6 DEF Mild
    <3> QED BY <3>1, <3>2
  <2>8. calls' \in 0 .. MaxCalls /\ UNCHANGED <<disk, dirents, history>>
    BY <1>0, TypeParts DEF IInv
  <2> QED BY <2>1, <2>7, <2>8, QuietStep
<1> QED BY <1>2, <1>3

\* A call that is at no block claims nothing more by getting to one.
LEMMA FillStep ==
  ASSUME IInv, Sound, NEW p \in Procs, fill(p)
  PROVE  TypeOK' /\ Lines' /\ (Sound' => Good')
<1> DEFINE o == call[p]
           d == o.d
           i == dirents[d].inum
           node == Copy(d)
           c == [o EXCEPT !.at = "put", !.page = PageAt(node, o.k), !.from = BlockAt(node, o.k)]
<1>0. o.at = "fill" /\ Where(o) = "fill" /\ UNCHANGED <<disk, dirents, calls, history>>
      /\ (Becomes(p, c) \/ Return(p))
  BY DEF fill, At, Where
<1>1. Known(o, d, i)
  BY <1>0, KnownIs
<1>2. CASE Return(p)
  BY <1>0, <1>2, QuietReturn
<1>3. CASE Becomes(p, c)
  <2>1. DOMAIN o = DOMAIN Idle /\ TypeCall(o) /\ Path(o) /\ HasBlock(o) /\ o.op = "write"
          /\ o.after = "next"
        /\ o.slot = "none" /\ o.k \in Nat /\ i \in Used /\ d = o.d
    BY <1>0, <1>1 DEF Known, TypeCall, Path, HasBlock
  <2>2. /\ SameTask(c, o) /\ c.k = o.k /\ c.lo = o.lo /\ c.hi = o.hi /\ c.word = o.word /\ c.after = o.after
        /\ c.slot = o.slot /\ c.n = o.n /\ c.table = o.table /\ c.bits = o.bits
        /\ c.at = "put" /\ c.page = PageAt(node, o.k) /\ c.from = BlockAt(node, o.k)
    BY <2>1, Fields DEF SameTask
  <2> HIDE DEF c
  <2>3. Where(c) = "put" /\ HasBlock(c) /\ ~Fresh(c) /\ ~Aims(c) /\ ~Clears(c)
    BY <2>1, <2>2 DEF Where, HasBlock, InWrite, Fresh, Aims, Clears, SameTask
  <2>4. Path(c)
    BY <2>1, <2>2, <2>3 DEF Path, SameTask
  <2>5. Edit(c)
    <3>1. o.k \in Slots0 /\ View(i) = node
      BY <1>1, <2>1, BlockWithin DEF Known, Reach
    <3>2. c.from \in Nil \cup {None} => \A s \in Page : c.page[s] \in Nil
      <4>1. Tree[i][Behind(o.k)] # Zero => Tree[i][Behind(o.k)] \notin Nil \cup {None}
        BY <2>1, <3>1, PageFacts, WordAssumption, Sizes DEF Nil, Numbers
      <4> QED BY <2>1, <2>2, <3>1, <4>1, PageFacts
    <3> QED BY <2>1, <2>2, <3>2 DEF Edit, SameTask
  <2>6. Reach(c, dirents[d], Sz[i])
    <3>1. Reach(o, dirents[d], Sz[i]) /\ Where(o) # "idle"
      BY <1>0, <1>1 DEF Known
    <3> HIDE DEF o, d, i
    <3> QED BY <2>1, <2>2, <2>3, <3>1 DEF Reach, SameTask
  <2>7. Found(c, Tree[i], data) /\ Aim(c, dirents, inodes, Used, folders)
    BY <2>1, <2>2, <2>3 DEF Found, Aim
  <2>8. Local(c, dirents, inodes, Used, folders, Sz, Tree, data)
    BY <2>1, <2>2, <2>4, <2>5, <2>6, <2>7 DEF Local, SameTask
  <2>9. TypeCall(c) /\ Line(c, Open) /\ NoMore(c, o)
    <3>1. TypeCall(c)
      BY <2>1, <2>2 DEF TypeCall, SameTask
    <3>2. Line(c, Open)
      BY <1>1, <2>1, <2>2, <2>3 DEF Line, Known, SameTask
    <3>3. NoMore(c, o)
      BY <2>2, <2>3 DEF NoMore
    <3> QED BY <3>1, <3>2, <3>3
  <2>10. Follow(p, c)
    BY <1>0, <2>1, <2>2, <2>9 DEF Follow, SameTask
  <2>11. Mild(p, c)
    BY <1>0, <2>2, <2>3, <2>8, <2>9 DEF Mild
  <2>12. calls' \in 0 .. MaxCalls /\ UNCHANGED <<disk, dirents, history>>
    BY <1>0, TypeParts DEF IInv
  <2> QED BY <1>3, <2>10, <2>11, <2>12, QuietStep
<1> QED BY <1>0, <1>2, <1>3

\* empty keeps the invariant.
LEMMA EmptyStep ==
  ASSUME IInv, Sound, NEW p \in Procs, empty(p)
  PROVE  TypeOK' /\ Lines' /\ (Sound' => Good')
<1> DEFINE o == call[p]
           d == o.d
           i == dirents[d].inum
           c == Goes(o, "put")
<1>0. o.at = "empty" /\ Where(o) = "empty" /\ UNCHANGED <<disk, dirents, calls, history>>
      /\ (Becomes(p, c) \/ Return(p))
  BY DEF empty, At, Where
<1>1. Known(o, d, i)
  BY <1>0, KnownIs
<1>2. CASE Return(p)
  BY <1>0, <1>2, QuietReturn
<1>3. CASE Becomes(p, c)
  <2>1. DOMAIN o = DOMAIN Idle /\ TypeCall(o) /\ Path(o) /\ HasBlock(o) /\ o.op = "remove"
          /\ o.after = "delete"
        /\ o.slot = "none" /\ i \in Used /\ d = o.d
    BY <1>0, <1>1 DEF Known, TypeCall, Path, HasBlock
  <2>2. /\ SameTask(c, o) /\ SamePage(c, o)
        /\ c.slot = o.slot /\ c.n = o.n /\ c.table = o.table /\ c.bits = o.bits /\ c.at = "put"
    BY <2>1, Fields DEF SameTask, SamePage, Goes
  <2> HIDE DEF c
  <2>3. Where(c) = "put" /\ HasBlock(c) /\ ~Fresh(c) /\ ~Aims(c) /\ ~Clears(c)
    BY <2>1, <2>2 DEF Where, HasBlock, InWrite, Fresh, Aims, Clears, SameTask
  <2>4. Path(c)
    BY <2>1, <2>2, <2>3 DEF Path, SameTask, SamePage
  <2>5. Edit(c)
    BY <1>0, <1>1, <2>1, <2>2, <2>3 DEF Edit, SameTask, SamePage, Known
  <2>6. Reach(c, dirents[d], Sz[i])
    <3>1. Reach(o, dirents[d], Sz[i]) /\ Where(o) # "idle"
      BY <1>0, <1>1 DEF Known
    <3> HIDE DEF o, d, i
    <3> QED BY <2>1, <2>2, <2>3, <3>1 DEF Reach, SameTask, SamePage
  <2>7. Found(c, Tree[i], data) /\ Aim(c, dirents, inodes, Used, folders)
    BY <2>1, <2>2, <2>3 DEF Found, Aim
  <2>8. Local(c, dirents, inodes, Used, folders, Sz, Tree, data)
    BY <2>1, <2>2, <2>4, <2>5, <2>6, <2>7 DEF Local, SameTask
  <2>9. TypeCall(c) /\ Line(c, Open) /\ NoMore(c, o)
    <3>1. TypeCall(c)
      <4>1. c.n \in Blocks \cup {Junk}
        BY <2>1, <2>2 DEF TypeCall
      <4> QED BY <2>1, <2>2, <4>1, TypeMoves
    <3>2. Line(c, Open)
      BY <1>1, <2>1, <2>2, <2>3 DEF Line, Known, SameTask
    <3>3. NoMore(c, o)
      BY <2>2, <2>3 DEF NoMore
    <3> QED BY <3>1, <3>2, <3>3
  <2>10. Follow(p, c)
    BY <1>0, <2>1, <2>2, <2>9 DEF Follow, SameTask
  <2>11. Mild(p, c)
    BY <1>0, <2>2, <2>3, <2>8, <2>9 DEF Mild
  <2>12. calls' \in 0 .. MaxCalls /\ UNCHANGED <<disk, dirents, history>>
    BY <1>0, TypeParts DEF IInv
  <2> QED BY <1>3, <2>10, <2>11, <2>12, QuietStep
<1> QED BY <1>0, <1>2, <1>3

\* A step that leaves the entry of the call and its inode to it, and claims nothing.
LEMMA PlainStep ==
  ASSUME IInv, Sound, NEW p \in Procs, NEW c, NEW o, NEW d, NEW i, o = call[p], Known(o, d, i),
         Becomes(p, c), UNCHANGED <<disk, dirents, calls, history>>,
         c.d = o.d, c.op # "close", o.op # "close", c.at # "pointer", o.at # "pointer",
         TypeCall(c), Line(c, Open), Where(c) # "idle", Where(o) # "idle",
         Path(c), Edit(c), Aim(c, dirents, inodes, Used, folders),
         Reach(c, dirents[d], Sz[i]), Found(c, Tree[i], data),
         Fresh(c) => Fresh(o) /\ c.inum = o.inum, ~Clears(c),
         (Aims(c) => Aims(o) /\ c.inum = o.inum) \/ (Aims(c) => c.inum \notin Freshes)
  PROVE  TypeOK' /\ Lines' /\ (Sound' => Good')
<1>1. Local(c, dirents, inodes, Used, folders, Sz, Tree, data)
  BY DEF Local, Known
<1>2. Follow(p, c)
  BY DEF Follow
<1>3. NoMore(c, call[p]) \/ \A q \in Procs \ {p} : Distinct(c, call[q]) /\ Distinct(call[q], c)
  <2>1. CASE Aims(c) => Aims(o) /\ c.inum = o.inum
    BY <2>1 DEF NoMore
  <2>2. CASE Aims(c) => c.inum \notin Freshes
    <3>1. \A q \in Procs : Fresh(call[q]) => call[q].inum \in Freshes
      BY DEF Freshes
    <3>2. ASSUME NEW q \in Procs \ {p} PROVE Distinct(c, call[q]) /\ Distinct(call[q], c)
      <4>1. Distinct(o, call[q])
        BY GoodParts DEF IInv
      <4>2. Distinct(c, call[q])
        BY <4>1 DEF Distinct
      <4>3. Distinct(call[q], c)
        BY <2>2, <3>1 DEF Distinct
      <4> QED BY <4>2, <4>3
    <3> QED BY <3>2
  <2> QED BY <2>1, <2>2
<1>4. Mild(p, c)
  BY <1>1, <1>3 DEF Mild
<1>5. calls' \in 0 .. MaxCalls /\ UNCHANGED <<disk, dirents, history>>
  BY TypeParts DEF IInv
<1> QED BY <1>2, <1>4, <1>5, QuietStep

\* An item of a page of a directory is one of an inode in use that nobody is making.
LEMMA ItemFacts ==
  ASSUME IInv, Sound, NEW i \in folders, NEW k \in Slots0, NEW s \in Page, IsItem(PageAt(View(i), k)[s])
  PROVE  /\ PageAt(View(i), k)[s] \in Item
         /\ PageAt(View(i), k)[s].inum \in Used \ Freshes /\ PageAt(View(i), k)[s].inum \in Inums
         /\ PageAt(View(i), k)[s].isdir \in BOOLEAN
         /\ PageAt(View(i), k)[s].isdir <=> PageAt(View(i), k)[s].inum \in folders
<1> DEFINE x == PageAt(View(i), k)[s]
<1>1. i \in Used /\ i \in Inums /\ ItemsOK(Cells, Used, folders, Freshes)
  BY GoodParts DEF IInv, Agree, Used
<1>2. x \notin Nil
  BY DEF IsItem, Nil
<1>3. Cells[i][k][s] = x /\ x # Zero
  BY <1>1, <1>2, PageFacts DEF Kept, Nil
<1> HIDE DEF x
<1>4. x \in Item /\ x.inum \in Used \ Freshes /\ (x.isdir <=> x.inum \in folders)
  BY <1>1, <1>3 DEF ItemsOK
<1>5. x.inum \in Inums /\ x.isdir \in BOOLEAN
  BY <1>4 DEF Item
<1> QED BY <1>4, <1>5 DEF x

\* look keeps the invariant: what is found is an item of the directory.
LEMMA LookStep ==
  ASSUME IInv, Sound, NEW p \in Procs, look(p)
  PROVE  TypeOK' /\ Lines' /\ (Sound' => Good')
<1> DEFINE o == call[p]
           d == o.d
           i == dirents[d].inum
           node == Copy(d)
           page == PageAt(node, o.k)
           hits == {s \in Page : IsItem(page[s]) /\ page[s].name = o.name}
           item == page[Min(hits)]
<1>0. o.at = "look" /\ Where(o) = "look" /\ o = call[p] /\ UNCHANGED <<disk, dirents, calls, history>>
  BY Zenon DEF look, At, Where
<1>1. Known(o, d, i)
  BY <1>0, KnownIs
<1>2. /\ DOMAIN o = DOMAIN Idle /\ TypeCall(o) /\ Path(o) /\ Line(o, Open)
         /\ o.op \in {"open", "create", "remove"}
      /\ o.slot = "none" /\ o.k \in Nat /\ i \in Used /\ View(i) = node /\ d = o.d /\ Sz[i] = node.size
      /\ o.n \in Blocks \cup {Junk} /\ o.isdir \in BOOLEAN
  BY <1>0, <1>1 DEF Known, TypeCall, Path, Line
<1>3. /\ Reach(o, dirents[d], Sz[i]) /\ dirents[d].isdir /\ i \in folders /\ Sz[i] \in Nat
      /\ o.k = 0 \/ Start(o.k - 1) < Sz[i]
      /\ o.op = "create" => o.name \in Names
  BY <1>0, <1>1, <1>2 DEF Known, Reach
<1>4. ~(o.k >= BlocksOf(node)) => Start(o.k) < Sz[i] /\ o.k \in Slots0 /\ o.k < Direct + Slots
  BY <1>2, <1>3, BlocksIff, BlockWithin DEF Start
<1> HIDE DEF o, d, i, node, page, hits, item
<1>5. CASE Return(p)
  BY <1>0, <1>5, QuietReturn
<1>6. CASE o.k >= BlocksOf(node) /\ o.op = "create"
  <2> DEFINE c == [ReadsTable(o, "claim") EXCEPT !.k = 0]
  <2>1. Becomes(p, c)
    BY Zenon, <1>6 DEF look, o, d, i, node, page, hits, item
  <2>2. /\ SameTask(c, o) /\ c.lo = o.lo /\ c.hi = o.hi /\ c.slot = o.slot /\ c.n = o.n
        /\ c.table = o.table /\ c.bits = o.bits /\ c.at = "table" /\ c.goal = "claim" /\ c.k = 0
    BY <1>2, Fields DEF SameTask, ReadsTable
  <2> HIDE DEF c
  <2>3. Where(c) = "claim" /\ ~HasBlock(c) /\ ~InWrite(c) /\ ~Fresh(c) /\ ~Aims(c) /\ ~Clears(c)
          /\ c.op = "create"
    BY <1>2, <1>6, <2>2 DEF Where, HasBlock, InWrite, Fresh, Aims, Clears, SameTask
  <2>4. Path(c) /\ Edit(c) /\ Found(c, Tree[i], data) /\ Aim(c, dirents, inodes, Used, folders)
    <3>1. Path(c)
      BY <1>2, <2>2, <2>3 DEF Path
    <3>2. Edit(c)
      BY <2>3 DEF Edit
    <3>3. Found(c, Tree[i], data) /\ Aim(c, dirents, inodes, Used, folders)
      BY <1>2, <2>2, <2>3 DEF Found, Aim
    <3> QED BY <3>1, <3>2, <3>3
  <2>5. Reach(c, dirents[d], Sz[i])
    BY <1>3, <1>6, <2>2, <2>3 DEF Reach, SameTask
  <2>6. TypeCall(c) /\ Line(c, Open)
    <3>1. TypeCall(c)
      BY <1>2, <2>2, Sizes DEF TypeCall, SameTask
    <3>2. Line(c, Open)
      BY <1>0, <1>2, <2>2, <2>3 DEF Line, SameTask
    <3> QED BY <3>1, <3>2
  <2>7. c.d = o.d /\ c.op # "close" /\ o.op # "close" /\ c.at # "pointer" /\ o.at # "pointer"
        /\ Where(c) # "idle" /\ Where(o) # "idle"
    BY <1>0, <1>2, <2>2, <2>3 DEF SameTask
  <2> QED BY <1>0, <1>1, <2>1, <2>3, <2>4, <2>5, <2>6, <2>7, PlainStep
<1>7. CASE ~(o.k >= BlocksOf(node)) /\ hits = {}
  <2> DEFINE c == [o EXCEPT !.k = @ + 1]
  <2>1. Becomes(p, c)
    BY Zenon, <1>7 DEF look, o, d, i, node, page, hits, item
  <2>2. /\ SameTask(c, o) /\ c.lo = o.lo /\ c.hi = o.hi /\ c.slot = o.slot /\ c.n = o.n
        /\ c.table = o.table /\ c.bits = o.bits /\ c.at = "look" /\ c.k = o.k + 1
    BY <1>0, <1>2, Fields DEF SameTask
  <2> HIDE DEF c
  <2>3. Where(c) = "look" /\ ~HasBlock(c) /\ ~InWrite(c) /\ ~Fresh(c) /\ ~Aims(c) /\ ~Clears(c)
    BY <1>2, <2>2 DEF Where, HasBlock, InWrite, Fresh, Aims, Clears, SameTask
  <2>4. Path(c) /\ Edit(c) /\ Found(c, Tree[i], data) /\ Aim(c, dirents, inodes, Used, folders)
    <3>1. Path(c)
      BY <1>2, <2>2, <2>3 DEF Path, SameTask
    <3>2. Edit(c)
      BY <2>3 DEF Edit
    <3>3. Found(c, Tree[i], data) /\ Aim(c, dirents, inodes, Used, folders)
      BY <1>2, <2>2, <2>3 DEF Found, Aim
    <3> QED BY <3>1, <3>2, <3>3
  <2>5. Reach(c, dirents[d], Sz[i])
    <3>1. c.k - 1 = o.k
      BY <1>2, <2>2
    <3>2. c.op = o.op /\ c.name = o.name
      BY <2>2 DEF SameTask
    <3> QED BY <1>2, <1>3, <1>4, <1>7, <2>3, <3>1, <3>2 DEF Reach
  <2>6. TypeCall(c) /\ Line(c, Open)
    <3>1. c.k \in 0 .. Direct + Slots
      BY <1>2, <1>4, <1>7, <2>2, Sizes
    <3>2. TypeCall(c)
      BY <1>2, <2>2, <3>1 DEF TypeCall, SameTask
    <3>3. Line(c, Open)
      BY <1>0, <1>2, <2>2, <2>3 DEF Line, SameTask
    <3> QED BY <3>2, <3>3
  <2>7. c.d = o.d /\ c.op # "close" /\ o.op # "close" /\ c.at # "pointer" /\ o.at # "pointer"
        /\ Where(c) # "idle" /\ Where(o) # "idle"
    BY <1>0, <1>2, <2>2, <2>3 DEF SameTask
  <2> QED BY <1>0, <1>1, <2>1, <2>3, <2>4, <2>5, <2>6, <2>7, PlainStep
<1>8. CASE ~(o.k >= BlocksOf(node)) /\ hits # {}
  <2>0. /\ Min(hits) \in Page /\ IsItem(item) /\ item.name = o.name
    <3>1. hits \in SUBSET Int /\ IsFiniteSet(hits)
      <4>1. Page \subseteq Int /\ IsFiniteSet(Page)
        BY Sizes, FS_Interval DEF Page
      <4>2. hits \subseteq Page
        BY DEF hits
      <4> QED BY <4>1, <4>2, FS_Subset
    <3>2. Min(hits) \in hits
      BY <1>8, <3>1, MinExists
    <3> QED BY <3>2 DEF hits, item
  <2>1. /\ item.inum \in Used \ Freshes /\ item.inum \in Inums /\ item.isdir \in BOOLEAN
        /\ item.isdir <=> item.inum \in folders
    BY <1>2, <1>3, <1>4, <1>8, <2>0, ItemFacts DEF page, item
  <2>2. PICK x : x = item
    OBVIOUS
  <2>3. x.inum \in Used \ Freshes /\ x.inum \in Inums /\ x.isdir \in BOOLEAN
          /\ (x.isdir <=> x.inum \in folders)
    BY <2>1, <2>2
  <2>4. CASE o.op = "open"
    <3> DEFINE c == [o EXCEPT !.at = "load", !.inum = x.inum, !.isdir = x.isdir]
    <3>1. Becomes(p, c)
      BY Zenon, <1>8, <2>2, <2>4 DEF look, o, d, i, node, page, hits, item
    <3>2. /\ c.op = "open" /\ c.d = o.d /\ c.name = o.name /\ c.inum = x.inum /\ c.isdir = x.isdir
          /\ SamePage(c, o) /\ c.off = o.off /\ c.len = o.len /\ c.slot = o.slot /\ c.n = o.n
          /\ c.table = o.table /\ c.bits = o.bits /\ c.at = "load" /\ DOMAIN c = DOMAIN Idle
      BY <1>2, <2>4, Fields DEF SamePage
    <3> HIDE DEF c
    <3>3. Where(c) = "load" /\ ~HasBlock(c) /\ ~InWrite(c) /\ ~Fresh(c) /\ ~Clears(c)
      BY <1>2, <3>2 DEF Where, HasBlock, InWrite, Fresh, Clears
    <3>4. Path(c) /\ Edit(c) /\ Found(c, Tree[i], data) /\ Aim(c, dirents, inodes, Used, folders)
      <4>1. Path(c)
        BY <1>2, <3>2, <3>3 DEF Path
      <4>2. Edit(c)
        BY <3>3 DEF Edit
      <4>3. Found(c, Tree[i], data)
        BY <1>2, <3>2, <3>3 DEF Found
      <4>4. Aim(c, dirents, inodes, Used, folders)
        BY <2>3, <3>2, <3>3 DEF Aim
      <4> QED BY <4>1, <4>2, <4>3, <4>4
    <3>5. Reach(c, dirents[d], Sz[i])
      BY <1>3, <3>2, <3>3 DEF Reach
    <3>6. TypeCall(c) /\ Line(c, Open)
      <4>1. TypeCall(c)
        BY <1>2, <2>3, <3>2 DEF TypeCall, SamePage
      <4>2. Line(c, Open)
        BY <1>0, <1>2, <2>3, <3>2, <3>3 DEF Line
      <4> QED BY <4>1, <4>2
    <3>7. c.d = o.d /\ c.op # "close" /\ o.op # "close" /\ c.at # "pointer" /\ o.at # "pointer"
          /\ Where(c) # "idle" /\ Where(o) # "idle" /\ c.inum \notin Freshes
      BY <1>0, <2>3, <2>4, <3>2, <3>3
    <3> QED BY <1>0, <1>1, <3>1, <3>3, <3>4, <3>5, <3>6, <3>7, PlainStep
  <2>5. CASE o.op = "create"
    <3> DEFINE c == [o EXCEPT !.at = "load", !.inum = x.inum, !.op = "echo"]
    <3>1. Becomes(p, c)
      BY Zenon, <1>8, <2>2, <2>5 DEF look, o, d, i, node, page, hits, item
    <3>2. /\ c.op = "echo" /\ c.d = o.d /\ c.name = o.name /\ c.inum = x.inum /\ c.isdir = o.isdir
          /\ SamePage(c, o) /\ c.off = o.off /\ c.len = o.len /\ c.slot = o.slot /\ c.n = o.n
          /\ c.table = o.table /\ c.bits = o.bits /\ c.at = "load" /\ DOMAIN c = DOMAIN Idle
      BY <1>2, <2>5, Fields DEF SamePage
    <3> HIDE DEF c
    <3>3. Where(c) = "load" /\ ~HasBlock(c) /\ ~InWrite(c) /\ ~Fresh(c) /\ ~Clears(c)
      BY <1>2, <3>2 DEF Where, HasBlock, InWrite, Fresh, Clears
    <3>4. Path(c) /\ Edit(c) /\ Found(c, Tree[i], data) /\ Aim(c, dirents, inodes, Used, folders)
      <4>1. Path(c)
        BY <1>2, <3>2, <3>3 DEF Path
      <4>2. Edit(c)
        BY <3>3 DEF Edit
      <4>3. Found(c, Tree[i], data)
        BY <1>2, <3>2, <3>3 DEF Found
      <4>4. Aim(c, dirents, inodes, Used, folders)
        BY <2>3, <3>2, <3>3 DEF Aim
      <4> QED BY <4>1, <4>2, <4>3, <4>4
    <3>5. Reach(c, dirents[d], Sz[i])
      BY <1>3, <3>2, <3>3 DEF Reach
    <3>6. TypeCall(c) /\ Line(c, Open)
      <4>1. TypeCall(c)
        BY <1>2, <2>3, <3>2 DEF TypeCall, SamePage
      <4>2. Line(c, Open)
        BY <1>0, <1>2, <2>3, <3>2, <3>3 DEF Line
      <4> QED BY <4>1, <4>2
    <3>7. c.d = o.d /\ c.op # "close" /\ o.op # "close" /\ c.at # "pointer" /\ o.at # "pointer"
          /\ Where(c) # "idle" /\ Where(o) # "idle" /\ c.inum \notin Freshes
      BY <1>0, <2>3, <2>5, <3>2, <3>3
    <3> QED BY <1>0, <1>1, <3>1, <3>3, <3>4, <3>5, <3>6, <3>7, PlainStep
  <2>6. CASE o.op = "remove"
    <3> DEFINE c == [o EXCEPT !.at = IF x.isdir THEN "empty" ELSE "put", !.after = "delete",
                              !.inum = x.inum, !.page = page, !.from = BlockAt(node, o.k),
                              !.lo = Min(hits), !.hi = Min(hits), !.word = Zero]
    <3>1. Becomes(p, c)
      BY Zenon, <1>8, <2>2, <2>6 DEF look, o, d, i, node, page, hits, item
    <3>2. /\ c.op = "remove" /\ c.d = o.d /\ c.name = o.name /\ c.inum = x.inum /\ c.isdir = o.isdir
          /\ c.off = o.off /\ c.len = o.len /\ c.slot = o.slot /\ c.n = o.n /\ c.k = o.k
          /\ c.after = "delete" /\ c.page = page /\ c.from = BlockAt(node, o.k)
          /\ c.lo = Min(hits) /\ c.hi = Min(hits) /\ c.word = Zero
          /\ c.table = o.table /\ c.bits = o.bits /\ c.at \in {"empty", "put"} /\ DOMAIN c = DOMAIN Idle
      BY <1>2, <2>6, Fields
    <3> HIDE DEF c
    <3>3. Where(c) = c.at /\ Where(c) \in {"empty", "put"} /\ HasBlock(c) /\ ~Fresh(c) /\ ~Aims(c)
            /\ ~Clears(c)
      BY <1>2, <3>2 DEF Where, HasBlock, InWrite, Fresh, Aims, Clears
    <3>4. Path(c) /\ Edit(c) /\ Found(c, Tree[i], data) /\ Aim(c, dirents, inodes, Used, folders)
      <4>1. Path(c)
        BY <1>2, <3>2, <3>3 DEF Path
      <4>2. Edit(c)
        <5>1. page[Min(hits)] \notin Nil /\ page[Min(hits)].name = o.name
          BY <2>0 DEF IsItem, Nil, item
        <5>2. /\ Tree[i][Behind(o.k)] \in Blocks
              /\ Tree[i][Behind(o.k)] = Zero => \A s \in Page : page[s] \in Nil
              /\ Tree[i][Behind(o.k)] # Zero => BlockAt(node, o.k) = Tree[i][Behind(o.k)]
          BY <1>2, <1>4, <1>8, PageFacts DEF page
        <5>3. BlockAt(node, o.k) \in Numbers
          BY <2>0, <5>1, <5>2, Sizes
        <5>4. c.from \notin Nil \cup {None}
          BY <3>2, <5>3, WordAssumption, Sizes DEF Nil, Numbers
        <5> QED BY <3>2, <3>3, <5>1, <5>4 DEF Edit
      <4>3. Found(c, Tree[i], data)
        BY <1>2, <3>2, <3>3 DEF Found
      <4>4. Aim(c, dirents, inodes, Used, folders)
        BY <3>3 DEF Aim
      <4> QED BY <4>1, <4>2, <4>3, <4>4
    <3>5. Reach(c, dirents[d], Sz[i])
      BY <1>3, <1>4, <1>8, <3>2, <3>3 DEF Reach
    <3>6. TypeCall(c) /\ Line(c, Open)
      <4>1. TypeCall(c)
        BY <1>2, <2>0, <2>3, <3>2 DEF TypeCall
      <4>2. Line(c, Open)
        BY <1>0, <1>2, <2>3, <3>2, <3>3 DEF Line
      <4> QED BY <4>1, <4>2
    <3>7. c.d = o.d /\ c.op # "close" /\ o.op # "close" /\ c.at # "pointer" /\ o.at # "pointer"
          /\ Where(c) # "idle" /\ Where(o) # "idle"
      <4>1. Where(c) # "idle" /\ c.at # "pointer"
        BY <3>3
      <4>2. o.at # "pointer" /\ Where(o) # "idle"
        BY <1>0
      <4> QED BY <2>6, <3>2, <4>1, <4>2
    <3> QED BY <1>0, <1>1, <3>1, <3>3, <3>4, <3>5, <3>6, <3>7, PlainStep
  <2> QED BY <1>2, <2>4, <2>5, <2>6
<1>9. o.k >= BlocksOf(node) /\ o.op # "create" => Return(p)
  BY DEF look, o, d, i, node, page, hits, item
<1> QED BY <1>5, <1>6, <1>7, <1>8, <1>9

\* A copy of an inode changes: the entry stays open, and the others are as they were.
LEMMA ChangedIs ==
  ASSUME TypeOK, NEW d \in Open, NEW node \in Node, Changed(d, node)
  PROVE  /\ dirents' \in [Dirents -> Entry \cup {None}] /\ Open' = Open /\ Lasting
         /\ Copy(d)' = node /\ \A e \in Open \ {d} : dirents'[e] = dirents[e]
<1>1. /\ d \in Dirents /\ dirents[d] \in Entry /\ dirents \in [Dirents -> Entry \cup {None}]
      /\ dirents' = [dirents EXCEPT ![d] = [dirents[d] EXCEPT !.disk = node]]
  BY OpenTyped DEF TypeOK, Changed
<1>2. PICK new : new = [dirents[d] EXCEPT !.disk = node]
  OBVIOUS
<1>3. new \in Entry /\ new.inum = dirents[d].inum /\ new.isdir = dirents[d].isdir /\ new.disk = node
  BY <1>1, <1>2 DEF Entry
<1>4. dirents' = [dirents EXCEPT ![d] = new] /\ new # None
  BY <1>1, <1>2, <1>3, WordAssumption
<1>5. Open' = Open /\ Copy(d)' = node /\ \A e \in Open \ {d} : dirents'[e] = dirents[e]
  BY <1>1, <1>3, <1>4 DEF Open, Copy
<1>6. Lasting
  BY <1>1, <1>3, <1>4, <1>5 DEF Lasting
<1> QED BY <1>1, <1>3, <1>4, <1>5, <1>6

\* Types and control when the same entries are open.
LEMMA OpenStep ==
  ASSUME TypeOK, Lines, NEW p \in Procs, NEW c, Becomes(p, c), Open' = Open,
         TypeDisk', TypeHistory', calls' \in 0 .. MaxCalls, Follow(p, c)
  PROVE  TypeOK' /\ Lines'
<1>1. TypeOK'
  BY TypeNext DEF Follow
<1>2. \A q \in Procs \ {p} : Where(call[q]) # "idle" => call[q].d \in Open
  BY DEF Lines, Line
<1> QED BY <1>1, <1>2, LinesNext DEF Follow

\* What the call of q relies on stays.
LEMMA RelyLast ==
  ASSUME TypeOK, Lines, Good, NEW q \in Procs,
         Where(call[q]) # "idle" => /\ dirents'[call[q].d].inum = dirents[call[q].d].inum
                                    /\ dirents'[call[q].d].isdir = dirents[call[q].d].isdir,
         \A e \in Open' \cap Open : dirents'[e].inum = dirents[e].inum,
         \A e \in Open' \ Open : dirents'[e].inum \notin Freshes,
         Fresh(call[q]) => inodes'[call[q].inum] = inodes[call[q].inum],
         Clears(call[q]) => \A s \in Page : data'[call[q].n][s] = data[call[q].n][s]
  PROVE  Relies(call[q], dirents, inodes, data, dirents', inodes', data')
<1>1. Local(call[q], dirents, inodes, Used, folders, Sz, Tree, data)
  BY GoodParts
<1>2. Fresh(call[q]) => call[q].inum \in Freshes
  BY DEF Freshes
<1>3. ASSUME Fresh(call[q]), NEW e \in Dirents, dirents'[e] # None PROVE dirents'[e].inum # call[q].inum
  <2>1. e \in Open'
    BY <1>3 DEF Open
  <2>2. CASE e \in Open
    BY <1>1, <1>3, <2>1, <2>2 DEF Local, Aim, Open
  <2>3. CASE e \notin Open
    BY <1>2, <1>3, <2>1, <2>3
  <2> QED BY <2>2, <2>3
<1> QED BY <1>3 DEF Relies

\* What a call of p that has taken no block has to be after a step.
Settled(p, c, e, z, t) ==
  /\ Path(c) /\ Edit(c) /\ Aim(c, dirents, inodes, Used, folders) /\ Reach(c, e, z) /\ Found(c, t, data)
  /\ c.at # "pointer" /\ call[p].at # "pointer"
  /\ Fresh(c) => Fresh(call[p]) /\ c.inum = call[p].inum
  /\ NoMore(c, call[p]) \/ \A q \in Procs \ {p} : Distinct(c, call[q]) /\ Distinct(call[q], c)

\* A file gets longer, in the only copy of its inode.
LEMMA SizeStep ==
  ASSUME IInv, Sound, NEW p \in Procs, NEW c, Becomes(p, c), NEW d \in Open, c.d = d,
         NEW m \in Nat, Changed(d, [Copy(d) EXCEPT !.size = m]), UNCHANGED <<disk, history>>,
         calls' \in 0 .. MaxCalls, Follow(p, c),
         Sound' => /\ Others(d) = {} /\ Copy(d).size <= m /\ m <= Start(Direct + Slots)
                   /\ Settled(p, c, dirents[d], m, Tree[dirents[d].inum])
  PROVE  TypeOK' /\ Lines' /\ (Sound' => Good')
<1> DEFINE node == [Copy(d) EXCEPT !.size = m]
<1>1. TypeOK /\ Lines /\ Good /\ Agree
  BY GoodParts DEF IInv
<1>0. PICK i : i = dirents[d].inum
  OBVIOUS
<1>2. /\ d \in Dirents /\ i \in Inums /\ Copy(d) \in Node /\ node \in Node /\ node.inuse = Copy(d).inuse
      /\ node.size = m /\ node.direct = Copy(d).direct /\ node.indirect = Copy(d).indirect
      /\ i \in Used /\ Copy(d).inuse /\ View(i) = Copy(d) /\ Sz[i] = Copy(d).size
  <2>1. d \in Dirents /\ i \in Inums /\ Copy(d) \in Node
    BY <1>0, <1>1, OpenTyped
  <2>2. /\ node \in Node /\ node.inuse = Copy(d).inuse
        /\ node.size = m /\ node.direct = Copy(d).direct /\ node.indirect = Copy(d).indirect
    BY <2>1 DEF Node
  <2>3. i \in Used /\ Copy(d).inuse /\ View(i) = Copy(d)
    BY <1>0, <1>1, ViewIs DEF Agree, EntryOK
  <2>4. Sz[i] = Copy(d).size
    BY <1>1, <2>1, <2>3, ViewTyped
  <2> QED BY <2>1, <2>2, <2>3, <2>4
<1>3. UNCHANGED disk /\ UNCHANGED history /\ inodes' = inodes /\ data' = data /\ bitmap' = bitmap
      /\ folders' = folders /\ created' = created /\ written' = written /\ lost' = lost
  BY DEF disk, history
<1> HIDE DEF node
<1>4. /\ dirents' \in [Dirents -> Entry \cup {None}] /\ Open' = Open /\ Lasting
      /\ \A e \in Open \ {d} : dirents'[e] = dirents[e]
  BY <1>1, <1>2, ChangedIs DEF node
<1>5. TypeOK' /\ Lines'
  <2>1. TypeDisk' /\ TypeHistory'
    BY <1>1, <1>3, <1>4, TypeParts, TypeSame DEF TypeDisk
  <2> QED BY <1>1, <1>4, <2>1, OpenStep
<1>6. ASSUME Sound' PROVE Good'
  <2>0. /\ Others(d) = {} /\ Copy(d).size <= m /\ m <= Start(Direct + Slots)
        /\ Settled(p, c, dirents[d], m, Tree[i])
    BY <1>0, <1>6
  <2>1. /\ Agree' /\ Used' = Used /\ Open' = Open /\ View(i)' = node
        /\ \A j \in Inums : j # i => View(j)' = View(j)
    <3>1. /\ Agree' /\ Used' = Used /\ Open' = Open /\ Lasting /\ View(dirents[d].inum)' = node
          /\ \A j \in Inums : j # dirents[d].inum => View(j)' = View(j)
      BY <1>1, <1>2, <1>3, <2>0, ChangeViews DEF node
    <3>2. dirents'[d].inum = i
      BY <1>0, <3>1 DEF Lasting
    <3> QED BY <1>0, <3>1, <3>2
  <2>2. Tree' = Tree
    <3>1. \A j \in Used : View(j)'.direct = View(j).direct /\ View(j)'.indirect = View(j).indirect
      BY <1>2, <2>1 DEF Used
    <3> QED BY <1>3, <2>1, <3>1, TreeKept DEF Used
  <2>3. Sz'[i] = m /\ \A j \in Inums : j # i => Sz'[j] = Sz[j]
    BY <1>2, <2>1 DEF Sz
  <2>4. Cells' = Cells
    BY <1>3, <2>2 DEF Cells
  <2>5. \A j \in Used : j \in Inums /\ Sz[j] \in Nat /\ Sz'[j] \in Nat /\ Sz[j] <= Sz'[j]
    BY <1>1, <1>2, <2>0, <2>3, ViewTyped DEF Used
  <2>6. Grows(Used, folders, Sz, Tree, Used', folders', Sz', Tree')
    BY <1>3, <2>1, <2>2, <2>5 DEF Grows
  <2>7. \A q \in Procs : Where(call[q]) # "idle" => call[q].d \in Open
    BY <1>1 DEF Lines, Line
  <2>8. ASSUME NEW q \in Procs \ {p}
        PROVE  Relies(call[q], dirents, inodes, data, dirents', inodes', data')
    BY <1>1, <1>3, <1>4, <2>7, RelyLast DEF Lasting
  <2>9. Local(c, dirents', inodes', Used', folders', Sz', Tree', data')
    <3>1. dirents'[d].inum = i /\ dirents'[d].isdir = dirents[d].isdir
      BY <1>0, <1>4 DEF Lasting
    <3>2. Aim(c, dirents', inodes', Used', folders')
      <4>1. Aim(c, dirents, inodes, Used, folders)
        BY <2>0 DEF Settled
      <4>2. \A e \in Dirents : dirents'[e] # None => dirents[e] # None /\ dirents'[e].inum = dirents[e].inum
        BY <1>4 DEF Lasting, Open
      <4> QED BY <1>3, <2>1, <4>1, <4>2 DEF Aim
    <3>3. Reach(c, dirents'[d], Sz'[i])
      BY <2>0, <2>3, <3>1 DEF Settled, Reach
    <3> QED BY <1>3, <2>0, <2>2, <3>1, <3>2, <3>3 DEF Local, Settled
  <2>10. \A q \in Procs \ {p} : Distinct(c, call[q]) /\ Distinct(call[q], c)
    BY <1>1, <2>0, GoodParts, DistinctKept DEF Settled
  <2>11. /\ \A q \in Procs : Local(call'[q], dirents', inodes', Used', folders', Sz', Tree', data')
         /\ \A q, r \in Procs : q # r => Distinct(call'[q], call'[r])
    BY <1>1, <2>6, <2>8, <2>9, <2>10, LocalsNext
  <2>12. Pending' = Pending /\ Freshes' \subseteq Freshes
    BY <1>1, <2>0, PendingIs, FreshesAre, GoodParts DEF Settled
  <2>13. Small(Used', Sz')
    BY <1>1, <2>0, <2>1, <2>3, <2>5, GoodParts DEF Small
  <2>14. Within(Tree', Sz', folders')
    <3>1. Within(Tree, Sz, folders) /\ folders \subseteq Used
      BY <1>1, GoodParts DEF Agree
    <3>2. \A k \in Slots0 : Start(k) \in Nat
      BY Begins, Sizes DEF Slots0
    <3> QED BY <1>3, <2>2, <2>5, <3>1, <3>2 DEF Within
  <2>15. ItemsOK(Cells', Used', folders', Freshes')
    <3>1. ItemsOK(Cells, Used, folders, Freshes) /\ folders \subseteq Used
      BY <1>1, GoodParts DEF Agree
    <3> QED BY <1>3, <2>1, <2>4, <2>12, <3>1, ItemsKept
  <2>16. Bytes(Cells', Sz', Used', folders', written')
    <3>1. Bytes(Cells, Sz, Used, folders, written) /\ Used \subseteq Inums
      BY <1>1, GoodParts DEF Used
    <3> QED BY <1>3, <2>1, <2>4, <2>5, <3>1, BytesKept
  <2>17. Space(Tree', bitmap', Pending', lost') /\ Blank(Tree', data')
           /\ NamesOK(Cells', folders', created')
    BY <1>1, <1>3, <2>2, <2>4, <2>12, GoodParts
  <2> QED BY <2>1, <2>11, <2>13, <2>14, <2>15, <2>16, <2>17, GoodNext DEF Good2
<1> QED BY <1>5, <1>6

\* A new name on its way to a slot of a page: the call goes to write the page.
LEMMA AddCall ==
  ASSUME NEW o, NEW c, NEW e, NEW z, NEW E, NEW N, NEW U, NEW F, NEW D, NEW t, NEW e2, NEW z2,
         TypeCall(o), Path(o), Where(o) = "add", Aim(o, E, N, U, F), Reach(o, e, z),
         SameTask(c, o), c.k = o.k, c.slot = o.slot, c.n = o.n, c.table = o.table, c.bits = o.bits,
         c.at = "put", c.lo \in Page, c.hi = c.lo,
         c.word = [name |-> c.name, inum |-> c.inum, isdir |-> c.isdir],
         c.from \in Nil \cup {None} => \A s \in Page : c.page[s] \in Nil,
         (c.after = "grow" /\ c.page[c.lo] = Zero) \/ (c.after = "save" /\ c.from = None),
         e2.isdir = e.isdir, c.k < Direct + Slots, Start(c.k) < z2
  PROVE  /\ TypeCall(c) /\ Path(c) /\ Edit(c) /\ Aim(c, E, N, U, F) /\ Reach(c, e2, z2) /\ Found(c, t, D)
         /\ \A open : Line(o, open) => Line(c, open)
         /\ NoMore(c, o) /\ Fresh(o) /\ Fresh(c) /\ ~Clears(c) /\ Where(c) = "put"
<1>1. o.op = "create" /\ o.slot = "none" /\ o.d = c.d /\ c.op = "create" /\ c.slot = "none"
      /\ c.inum = o.inum /\ c.isdir = o.isdir /\ c.name = o.name
  BY DEF Path, SameTask
<1>2. Where(c) = "put" /\ InWrite(c) /\ HasBlock(c) /\ Fresh(c) /\ Aims(c) /\ ~Clears(c) /\ Fresh(o)
        /\ Aims(o)
  BY <1>1 DEF Where, InWrite, HasBlock, Fresh, Aims, Clears
<1>3. TypeCall(c)
  BY DEF TypeCall, SameTask
<1>4. Path(c)
  BY <1>1, <1>2 DEF Path
<1>5. Edit(c)
  BY <1>1, <1>2 DEF Edit
<1>6. Aim(c, E, N, U, F)
  BY <1>1, <1>2 DEF Aim
<1>7. Reach(c, e2, z2)
  BY <1>1, <1>2 DEF Reach
<1>8. Found(c, t, D)
  BY <1>1, <1>2 DEF Found
<1>9. \A open : Line(o, open) => Line(c, open)
  BY <1>1, <1>2 DEF Line
<1>10. NoMore(c, o)
  BY <1>1, <1>2 DEF NoMore
<1> QED BY <1>2, <1>3, <1>4, <1>5, <1>6, <1>7, <1>8, <1>9, <1>10

\* The end of a directory is the start of the block that the scan has not found.
LEMMA EndOf ==
  ASSUME NEW node, NEW k \in Nat, node.size \in Nat, k >= BlocksOf(node), k = 0 \/ Start(k - 1) < node.size,
         node.size % Slots = 0
  PROVE  node.size = Start(k)
<1> DEFINE n == node.size
           q == n \div Slots
<1>1. q \in Nat /\ n = Start(q) /\ Slots \in Nat \ {0}
  <2>1. n \in Nat /\ n % Slots = 0
    OBVIOUS
  <2>2. q \in Nat /\ n = q * Slots + (n % Slots)
    BY <2>1, PlaceOf
  <2>3. q * Slots \in Nat
    BY <2>2, Times
  <2> HIDE DEF n, q
  <2>4. n = q * Slots
    BY <2>1, <2>2, <2>3
  <2> QED BY <2>2, <2>4, Sizes DEF Start
<1>2. n <= Start(k) /\ Start(k) \in Nat
  BY BlocksIff, Begins DEF Start
<1>3. k <= q
  <2>1. CASE k = 0
    BY <1>1, <2>1
  <2>2. CASE k # 0
    <3>1. k - 1 \in Nat /\ Start(k - 1) < Start(q)
      BY <1>1, <2>2
    <3>2. q <= k - 1 => Start(q) <= Start(k - 1)
      BY <1>1, <3>1, Begins
    <3>3. Start(q) \in Nat /\ Start(k - 1) \in Nat
      BY <1>1, <3>1, Begins
    <3> HIDE DEF q
    <3> QED BY <1>1, <3>1, <3>2, <3>3
  <2> QED BY <2>1, <2>2
<1>4. Start(k) <= Start(q) /\ Start(q) \in Nat
  BY <1>1, <1>3, Begins
<1> HIDE DEF n, q
<1>5. n = Start(k)
  BY <1>1, <1>2, <1>4
<1> QED BY <1>5 DEF n

\* add keeps the invariant: there is a blank in the block, or the directory grows by a block
\* that has no pointer yet.
LEMMA AddStep ==
  ASSUME IInv, Sound, NEW p \in Procs, add(p)
  PROVE  TypeOK' /\ Lines' /\ (Sound' => Good')
<1> DEFINE o == call[p]
           d == o.d
           i == dirents[d].inum
           node == Copy(d)
           page == PageAt(node, o.k)
           blanks == {s \in Page : page[s] = Zero}
           item == [name |-> o.name, inum |-> o.inum, isdir |-> o.isdir]
<1>0. o.at = "add" /\ Where(o) = "add" /\ o = call[p] /\ UNCHANGED <<disk, calls, history>>
  BY DEF add, At, Where
<1>1. Known(o, d, i)
  BY <1>0, KnownIs
<1>2. /\ DOMAIN o = DOMAIN Idle /\ TypeCall(o) /\ Path(o) /\ Line(o, Open) /\ o.op = "create"
      /\ o.slot = "none" /\ o.k \in Nat /\ i \in Used /\ View(i) = node /\ d = o.d /\ Sz[i] = node.size
      /\ Aim(o, dirents, inodes, Used, folders) /\ Reach(o, dirents[d], Sz[i])
      /\ Sz[i] \in Nat /\ d \in Open /\ node \in Node /\ i \in Inums
  BY <1>0, <1>1 DEF Known, TypeCall, Path
<1>3. o.k = 0 \/ Start(o.k - 1) < Sz[i]
  BY <1>0, <1>2 DEF Reach
<1>4. ~(o.k >= BlocksOf(node)) => Start(o.k) < Sz[i] /\ o.k \in Slots0 /\ o.k < Direct + Slots
  BY <1>2, BlocksIff, BlockWithin DEF Start
<1>5. CASE ~(o.k >= BlocksOf(node)) /\ blanks = {}
  <2> DEFINE c == [o EXCEPT !.k = @ + 1]
  <2>1. Becomes(p, c) /\ dirents' = dirents
    BY <1>5 DEF add
  <2>2. /\ SameTask(c, o) /\ c.lo = o.lo /\ c.hi = o.hi /\ c.slot = o.slot /\ c.n = o.n
        /\ c.table = o.table /\ c.bits = o.bits /\ c.at = "add" /\ c.k = o.k + 1
    BY <1>0, <1>2, Fields DEF SameTask
  <2> HIDE DEF c
  <2>3. Where(c) = "add" /\ ~HasBlock(c) /\ ~InWrite(c) /\ Fresh(c) /\ Aims(c) /\ ~Clears(c) /\ Fresh(o)
          /\ Aims(o)
    BY <1>0, <1>2, <2>2 DEF Where, HasBlock, InWrite, Fresh, Aims, Clears, SameTask
  <2>4. Path(c) /\ Edit(c) /\ Found(c, Tree[i], data) /\ Aim(c, dirents, inodes, Used, folders)
    <3>1. Path(c)
      BY <1>2, <2>2, <2>3 DEF Path, SameTask
    <3>2. Edit(c)
      BY <2>3 DEF Edit
    <3>3. Found(c, Tree[i], data)
      BY <1>2, <2>2, <2>3 DEF Found
    <3>4. Aim(c, dirents, inodes, Used, folders)
      BY <1>2, <2>2, <2>3 DEF Aim, SameTask
    <3> QED BY <3>1, <3>2, <3>3, <3>4
  <2>5. Reach(c, dirents[d], Sz[i])
    <3>1. c.k - 1 = o.k /\ c.op = "create" /\ o.op = "create" /\ c.name = o.name
      BY <1>2, <2>2 DEF SameTask
    <3> QED BY <1>0, <1>2, <1>4, <1>5, <2>3, <3>1 DEF Reach
  <2>6. TypeCall(c) /\ Line(c, Open)
    <3>1. c.k \in 0 .. Direct + Slots
      BY <1>2, <1>4, <1>5, <2>2, Sizes
    <3>2. TypeCall(c)
      BY <1>2, <2>2, <3>1 DEF TypeCall, SameTask
    <3>3. Line(c, Open)
      BY <1>0, <1>2, <2>2, <2>3 DEF Line, SameTask
    <3> QED BY <3>2, <3>3
  <2>7. c.d = o.d /\ c.inum = o.inum /\ c.op # "close" /\ o.op # "close" /\ c.at # "pointer"
          /\ o.at # "pointer"
        /\ Where(c) # "idle" /\ Where(o) # "idle" /\ UNCHANGED <<disk, dirents, calls, history>>
    BY <1>0, <1>2, <2>1, <2>2, <2>3 DEF SameTask
  <2> HIDE DEF o, d, i
  <2> QED BY <1>0, <1>1, <2>1, <2>3, <2>4, <2>5, <2>6, <2>7, PlainStep
<1>6. CASE ~(o.k >= BlocksOf(node)) /\ blanks # {}
  <2> DEFINE c == [o EXCEPT !.at = "put", !.after = "grow", !.page = page, !.from = BlockAt(node, o.k),
                            !.lo = Min(blanks), !.hi = Min(blanks), !.word = item]
  <2>0. Min(blanks) \in Page /\ page[Min(blanks)] = Zero
    <3>1. blanks \in SUBSET Int /\ IsFiniteSet(blanks)
      <4>1. Page \subseteq Int /\ IsFiniteSet(Page)
        BY Sizes, FS_Interval DEF Page
      <4>2. blanks \subseteq Page
        OBVIOUS
      <4> QED BY <4>1, <4>2, FS_Subset
    <3>2. Min(blanks) \in blanks
      BY <1>6, <3>1, MinExists
    <3> QED BY <3>2
  <2>1. Becomes(p, c) /\ dirents' = dirents
    BY <1>6 DEF add
  <2>2. /\ SameTask(c, o) /\ c.k = o.k /\ c.slot = o.slot /\ c.n = o.n /\ c.table = o.table
           /\ c.bits = o.bits
        /\ c.at = "put" /\ c.after = "grow" /\ c.page = page /\ c.from = BlockAt(node, o.k)
        /\ c.lo = Min(blanks) /\ c.hi = Min(blanks)
           /\ c.word = [name |-> c.name, inum |-> c.inum, isdir |-> c.isdir]
    BY <1>2, Fields DEF SameTask
  <2> HIDE DEF c
  <2>3. c.from \in Nil \cup {None} => \A s \in Page : c.page[s] \in Nil
    <3>1. /\ Tree[i][Behind(o.k)] \in Blocks
          /\ Tree[i][Behind(o.k)] = Zero => \A s \in Page : page[s] \in Nil
          /\ Tree[i][Behind(o.k)] # Zero => BlockAt(node, o.k) = Tree[i][Behind(o.k)]
      BY <1>2, <1>4, <1>6, PageFacts
    <3>2. Tree[i][Behind(o.k)] # Zero => c.from \notin Nil \cup {None}
      BY <2>2, <3>1, WordAssumption, Sizes DEF Nil, Numbers
    <3> QED BY <2>2, <3>1, <3>2
  <2>4. /\ TypeCall(c) /\ Path(c) /\ Edit(c) /\ Aim(c, dirents, inodes, Used, folders)
        /\ Reach(c, dirents[d], Sz[i]) /\ Found(c, Tree[i], data) /\ Line(c, Open)
        /\ NoMore(c, o) /\ Fresh(o) /\ Fresh(c) /\ ~Clears(c) /\ Where(c) = "put"
    <3>1. c.lo \in Page /\ c.hi = c.lo /\ c.page[c.lo] = Zero /\ c.k < Direct + Slots /\ Start(c.k) < Sz[i]
      BY <1>4, <1>6, <2>0, <2>2
    <3> HIDE DEF o, d, i
    <3> QED BY <1>0, <1>2, <2>2, <2>3, <3>1, AddCall
  <2>5. c.d = o.d /\ c.inum = o.inum /\ c.op # "close" /\ o.op # "close" /\ c.at # "pointer"
          /\ o.at # "pointer"
        /\ Where(c) # "idle" /\ Where(o) # "idle" /\ UNCHANGED <<disk, dirents, calls, history>>
    BY <1>0, <1>2, <2>1, <2>2, <2>4 DEF SameTask
  <2>6. (Aims(c) => Aims(o) /\ c.inum = o.inum) /\ (Fresh(c) => Fresh(o) /\ c.inum = o.inum)
    BY <2>4 DEF NoMore
  <2> HIDE DEF o, d, i
  <2> QED BY <1>0, <1>1, <2>1, <2>4, <2>5, <2>6, PlainStep
<1>7. CASE o.k >= BlocksOf(node)
  <2> DEFINE c == [o EXCEPT !.at = "put", !.after = "save", !.page = Full(Zero), !.from = None,
                            !.lo = 0, !.hi = 0, !.word = item]
             m == node.size + 1
  <2>1. /\ Becomes(p, c) /\ Changed(d, [node EXCEPT !.size = m])
        /\ Damaged(Doubled(d) \cup When(node.size % Slots # 0, "raced") \cup When(o.k >= Direct + Slots,
           "overrun"))
    <3>1. [node EXCEPT !.size = @ + 1] = [node EXCEPT !.size = m]
      OBVIOUS
    <3> QED BY <1>7, <3>1 DEF add
  <2>2. /\ SameTask(c, o) /\ c.k = o.k /\ c.slot = o.slot /\ c.n = o.n /\ c.table = o.table
           /\ c.bits = o.bits
        /\ c.at = "put" /\ c.after = "save" /\ c.page = Full(Zero) /\ c.from = None
        /\ c.lo = 0 /\ c.hi = 0 /\ c.word = [name |-> c.name, inum |-> c.inum, isdir |-> c.isdir]
    BY <1>2, Fields DEF SameTask
  <2> HIDE DEF c
  <2>3. \A s \in Page : c.page[s] \in Nil
    BY <2>2 DEF Full, Nil
  <2>4. Where(c) = "put" /\ TypeCall(c) /\ Line(c, Open) /\ c.d = o.d /\ c.op = "create" /\ c.at # "pointer"
    <3>1. TypeCall(c)
      BY <1>2, <2>2, Sizes DEF TypeCall, SameTask
    <3>2. Where(c) = "put" /\ c.d = o.d /\ c.op = "create"
      BY <1>2, <2>2 DEF Where, SameTask
    <3>3. Line(c, Open)
      BY <1>0, <1>2, <2>2, <3>2 DEF Line, SameTask
    <3> QED BY <2>2, <3>1, <3>2, <3>3
  <2>5. Follow(p, c)
    BY <1>0, <1>2, <2>4 DEF Follow
  <2>6. m \in Nat /\ node.size <= m
    BY <1>2
  <2>7. ASSUME Sound'
        PROVE  /\ Others(d) = {} /\ m <= Start(Direct + Slots)
               /\ Settled(p, c, dirents[d], m, Tree[i])
    <3>1. node.size % Slots = 0 /\ ~(o.k >= Direct + Slots) /\ Others(d) = {}
      <4>1. Doubled(d) = {} /\ When(node.size % Slots # 0, "raced") = {}
            /\ When(o.k >= Direct + Slots, "overrun") = {}
        BY <2>1, <2>7, DamageIs
      <4> QED BY <4>1, WhenIs DEF Doubled
    <3>2. node.size = Start(o.k)
      BY <1>2, <1>3, <1>7, <3>1, EndOf
    <3>3. o.k < Direct + Slots /\ Start(c.k) < m /\ Start(o.k) + Slots <= Start(Direct + Slots)
          /\ m <= Start(Direct + Slots)
      <4>1. o.k < Direct + Slots /\ Direct + Slots \in Nat
        BY <1>2, <3>1, Sizes
      <4>2. Start(o.k) + Slots <= Start(Direct + Slots) /\ Start(o.k) \in Nat
              /\ Start(Direct + Slots) \in Nat
        BY <1>2, <4>1, Begins
      <4> QED BY <2>2, <3>2, <4>1, <4>2, Sizes
    <3>4. /\ TypeCall(c) /\ Path(c) /\ Edit(c) /\ Aim(c, dirents, inodes, Used, folders)
          /\ Reach(c, dirents[d], m) /\ Found(c, Tree[i], data) /\ NoMore(c, o) /\ Fresh(o) /\ Fresh(c)
      <4>1. c.lo \in Page /\ c.hi = c.lo /\ c.k < Direct + Slots
        BY <2>2, <3>3, Sizes
      <4> HIDE DEF o, d, i, m
      <4> QED BY <1>0, <1>2, <2>2, <2>3, <3>3, <4>1, AddCall
    <3>5. Settled(p, c, dirents[d], m, Tree[i])
      BY <1>0, <2>2, <2>4, <3>4 DEF Settled, SameTask
    <3> QED BY <3>1, <3>3, <3>5
  <2>8. UNCHANGED <<disk, history>> /\ calls' \in 0 .. MaxCalls
    BY <1>0, TypeParts DEF IInv
  <2>9. c.d = d /\ d \in Open
    BY <1>2, <2>4
  <2> HIDE DEF m, o, d, i
  <2>10. Sound' => /\ Others(d) = {} /\ Copy(d).size <= m /\ m <= Start(Direct + Slots)
                   /\ Settled(p, c, dirents[d], m, Tree[dirents[d].inum])
    BY <2>6, <2>7 DEF i
  <2> QED BY <2>1, <2>5, <2>6, <2>8, <2>9, <2>10, SizeStep
<1> QED BY <1>5, <1>6, <1>7

\* grow keeps the invariant.
LEMMA GrowStep ==
  ASSUME IInv, Sound, NEW p \in Procs, grow(p)
  PROVE  TypeOK' /\ Lines' /\ (Sound' => Good')
<1> DEFINE o == call[p]
           d == o.d
           i == dirents[d].inum
           node == Copy(d)
           m == o.k * Slots + o.lo + 1
<1>0. o.at = "grow" /\ Where(o) = "grow" /\ o = call[p] /\ UNCHANGED <<disk, calls, history>>
  BY DEF grow, At, Where
<1>1. Known(o, d, i)
  BY <1>0, KnownIs
<1>2. /\ DOMAIN o = DOMAIN Idle /\ TypeCall(o) /\ Path(o) /\ Line(o, Open) /\ o.op = "create"
      /\ o.slot = "none" /\ o.k \in Nat /\ o.lo \in Page /\ i \in Used /\ d = o.d /\ Sz[i] = node.size
      /\ Aim(o, dirents, inodes, Used, folders) /\ Reach(o, dirents[d], Sz[i])
      /\ Sz[i] \in Nat /\ d \in Open /\ o.n \in Blocks \cup {Junk} /\ Aims(o) /\ ~Fresh(o)
  BY <1>0, <1>1 DEF Known, TypeCall, Path, Aims, Fresh, InWrite
<1>3. o.k < Direct + Slots /\ dirents[d].isdir /\ o.name \in Names
  BY <1>0, <1>2 DEF Reach
<1>4. m \in Nat /\ m <= Start(Direct + Slots)
  <2>1. Direct + Slots \in Nat /\ Slots \in Nat \ {0} /\ o.lo \in Nat /\ o.lo < Slots
    BY <1>2, Sizes DEF Page
  <2>2. Start(o.k) \in Nat /\ Start(o.k) + Slots <= Start(Direct + Slots) /\ Start(Direct + Slots) \in Nat
    BY <1>2, <1>3, <2>1, Begins
  <2>3. m = Start(o.k) + o.lo + 1
    BY DEF Start
  <2> HIDE DEF m
  <2> QED BY <2>1, <2>2, <2>3
<1>5. CASE m > node.size
  <2> DEFINE c == ReadsTable(o, "save")
  <2>1. Becomes(p, c) /\ Changed(d, [node EXCEPT !.size = m]) /\ Damaged(Doubled(d))
    BY <1>5 DEF grow
  <2>2. /\ SameTask(c, o) /\ SamePage(c, o) /\ c.slot = o.slot /\ c.n = o.n /\ c.table = o.table
           /\ c.bits = o.bits
        /\ c.at = "table" /\ c.goal = "save"
    BY <1>2, Fields DEF SameTask, SamePage, ReadsTable
  <2> HIDE DEF c
  <2>3. Where(c) = "save" /\ ~InWrite(c) /\ ~HasBlock(c) /\ Aims(c) /\ ~Fresh(c) /\ ~Clears(c)
        /\ c.op = "create" /\ c.inum = o.inum /\ c.d = o.d /\ c.slot = "none"
    BY <1>2, <2>2 DEF Where, InWrite, HasBlock, Aims, Fresh, Clears, SameTask
  <2>4. TypeCall(c) /\ Line(c, Open)
    <3>1. TypeCall(c)
      BY <1>2, <2>2, TypeMoves
    <3>2. Line(c, Open)
      BY <1>0, <1>2, <2>2, <2>3 DEF Line, SameTask
    <3> QED BY <3>1, <3>2
  <2>5. Path(c) /\ Edit(c) /\ Aim(c, dirents, inodes, Used, folders) /\ Found(c, Tree[i], data)
    <3>1. Path(c)
      BY <2>3 DEF Path
    <3>2. Edit(c)
      BY <2>3 DEF Edit
    <3>3. Aim(c, dirents, inodes, Used, folders)
      BY <1>2, <2>2, <2>3 DEF Aim, SameTask
    <3>4. Found(c, Tree[i], data)
      BY <2>2, <2>3 DEF Found
    <3> QED BY <3>1, <3>2, <3>3, <3>4
  <2>6. Reach(c, dirents[d], m)
    BY <1>3, <2>2, <2>3 DEF Reach, SameTask
  <2>7. Settled(p, c, dirents[d], m, Tree[i])
    <3>1. NoMore(c, o)
      BY <1>2, <2>2, <2>3 DEF NoMore
    <3> QED BY <1>0, <2>2, <2>3, <2>5, <2>6, <3>1 DEF Settled
  <2>8. Sound' => Others(d) = {}
    BY <2>1, DamageIs, WhenIs DEF Doubled
  <2>9. Follow(p, c) /\ node.size <= m
    BY <1>0, <1>2, <1>4, <1>5, <2>3, <2>4 DEF Follow
  <2>10. UNCHANGED <<disk, history>> /\ calls' \in 0 .. MaxCalls
    BY <1>0, TypeParts DEF IInv
  <2>11. c.d = d /\ d \in Open
    BY <1>2, <2>3
  <2> HIDE DEF m, o, d
  <2> QED BY <1>4, <2>1, <2>7, <2>8, <2>9, <2>10, <2>11, SizeStep
<1>6. CASE ~(m > node.size)
  <2> DEFINE c == Goes(o, "load")
  <2>1. Becomes(p, c) /\ dirents' = dirents
    BY <1>6 DEF grow
  <2>2. /\ SameTask(c, o) /\ SamePage(c, o) /\ c.slot = o.slot /\ c.n = o.n /\ c.table = o.table
           /\ c.bits = o.bits
        /\ c.at = "load"
    BY <1>2, Fields DEF SameTask, SamePage, Goes
  <2> HIDE DEF c
  <2>3. Where(c) = "load" /\ ~InWrite(c) /\ ~HasBlock(c) /\ Aims(c) /\ ~Fresh(c) /\ ~Clears(c)
        /\ c.op = "create" /\ c.inum = o.inum /\ c.d = o.d /\ c.slot = "none"
    BY <1>2, <2>2 DEF Where, InWrite, HasBlock, Aims, Fresh, Clears, SameTask
  <2>4. TypeCall(c) /\ Line(c, Open)
    <3>1. TypeCall(c)
      BY <1>2, <2>2, TypeMoves
    <3>2. Line(c, Open)
      BY <1>0, <1>2, <2>2, <2>3 DEF Line, SameTask
    <3> QED BY <3>1, <3>2
  <2>5. Path(c) /\ Edit(c) /\ Aim(c, dirents, inodes, Used, folders) /\ Found(c, Tree[i], data)
    <3>1. Path(c)
      BY <2>3 DEF Path
    <3>2. Edit(c)
      BY <2>3 DEF Edit
    <3>3. Aim(c, dirents, inodes, Used, folders)
      BY <1>2, <2>2, <2>3 DEF Aim, SameTask
    <3>4. Found(c, Tree[i], data)
      BY <2>2, <2>3 DEF Found
    <3> QED BY <3>1, <3>2, <3>3, <3>4
  <2>6. Reach(c, dirents[d], Sz[i])
    BY <1>3, <2>2, <2>3 DEF Reach, SameTask
  <2>7. c.op # "close" /\ o.op # "close" /\ c.at # "pointer" /\ o.at # "pointer"
        /\ Where(c) # "idle" /\ Where(o) # "idle" /\ UNCHANGED <<disk, dirents, calls, history>>
    BY <1>0, <1>2, <2>1, <2>2, <2>3
  <2> HIDE DEF o, d, i
  <2> QED BY <1>0, <1>1, <1>2, <2>1, <2>3, <2>4, <2>5, <2>6, <2>7, PlainStep
<1> QED BY <1>5, <1>6

\* What is known of an open entry.
LEMMA EntryIs ==
  ASSUME IInv, Sound, NEW d \in Open
  PROVE  /\ d \in Dirents /\ dirents[d].inum \in Used /\ dirents[d].inum \in Inums
         /\ Copy(d) \in Node /\ Copy(d).size \in Nat /\ Sz[dirents[d].inum] = Copy(d).size
<1>1. TypeOK /\ Agree
  BY GoodParts DEF IInv
<1>2. d \in Dirents /\ dirents[d].inum \in Inums /\ Copy(d) \in Node
  BY <1>1, OpenTyped
<1>3. dirents[d].inum \in Used /\ View(dirents[d].inum) = Copy(d)
  BY <1>1, ViewIs DEF Agree, EntryOK
<1> QED BY <1>1, <1>2, <1>3, ViewTyped DEF Node

\* A call starts on an entry that nobody is closing, or closes one that nobody uses.
LEMMA StartStep ==
  ASSUME IInv, Sound, NEW p \in Procs, NEW c, NEW d \in Open, Starts(p), c.d = d, Becomes(p, c),
         UNCHANGED <<disk, dirents, history>>, TypeCall(c), Line(c, Open), c.at # "pointer",
         ~Fresh(c), ~Aims(c), ~Clears(c),
         \/ c.op # "close" /\ d \in Usable
         \/ \A q \in Procs : call[q].d # d,
         Path(c), Edit(c), Reach(c, dirents[d], Sz[dirents[d].inum]), Found(c, Tree[dirents[d].inum], data)
  PROVE  TypeOK' /\ Lines' /\ (Sound' => Good')
<1>1. Apart(p, c)
  BY DEF Apart, Usable
<1>2. Follow(p, c)
  BY <1>1 DEF Follow
<1>3. Local(c, dirents, inodes, Used, folders, Sz, Tree, data)
  BY DEF Local, Aim
<1>4. call[p].at # "pointer" /\ NoMore(c, call[p])
  BY IdleOK DEF Starts, NoMore
<1>5. Mild(p, c)
  BY <1>3, <1>4 DEF Mild
<1>6. calls' \in 0 .. MaxCalls
  <2>1. calls \in 0 .. MaxCalls /\ MaxCalls \in Nat
    BY TypeParts, DiskFSAssumption DEF IInv
  <2> QED BY <2>1 DEF Starts
<1> QED BY <1>2, <1>5, <1>6, QuietStep

\* The start of an open, a create or a remove keeps the invariant.
LEMMA LookupStep ==
  ASSUME IInv, Sound, NEW p \in Procs, diskfs_dirent_lookup(p)
  PROVE  TypeOK' /\ Lines' /\ (Sound' => Good')
<1>1. PICK d \in Usable, op \in {"open", "create", "remove"}, x \in Names, t \in BOOLEAN :
        /\ dirents[d].isdir /\ (t => op = "create")
        /\ Becomes(p, [Idle EXCEPT !.at = "look", !.op = op, !.d = d, !.name = x, !.isdir = t])
  BY Zenon DEF diskfs_dirent_lookup
<1> DEFINE c == [Idle EXCEPT !.at = "look", !.op = op, !.d = d, !.name = x, !.isdir = t]
<1>2. /\ c.at = "look" /\ c.op = op /\ c.d = d /\ c.name = x /\ c.isdir = t /\ DOMAIN c = DOMAIN Idle
      /\ c.slot = "none" /\ c.k = 0 /\ c.inum = 0 /\ c.n = Zero /\ c.off = 0 /\ c.len = 0 /\ c.lo = 0
         /\ c.hi = 0
      /\ c.table = <<>> /\ c.bits = {}
  BY DEF Idle
<1>3. Becomes(p, c) /\ Starts(p) /\ UNCHANGED <<disk, dirents, history>> /\ d \in Open
  BY <1>1 DEF diskfs_dirent_lookup, Usable
<1> HIDE DEF c
<1>4. Where(c) = "look" /\ ~InWrite(c) /\ ~HasBlock(c) /\ ~Fresh(c) /\ ~Aims(c) /\ ~Clears(c)
        /\ c.op # "close"
  BY <1>2 DEF Where, InWrite, HasBlock, Fresh, Aims, Clears
<1>5. TypeCall(c)
  BY <1>2, Sizes DEF TypeCall
<1>6. Line(c, Open)
  BY <1>2, <1>3, <1>4 DEF Line
<1>7. Path(c)
  BY <1>2, <1>4 DEF Path
<1>8. Edit(c)
  BY <1>4 DEF Edit
<1>9. Reach(c, dirents[d], Sz[dirents[d].inum])
  BY <1>1, <1>2, <1>4 DEF Reach
<1>10. Found(c, Tree[dirents[d].inum], data)
  BY <1>2, <1>4 DEF Found
<1> QED BY <1>2, <1>3, <1>4, <1>5, <1>6, <1>7, <1>8, <1>9, <1>10, StartStep

\* The start of a close keeps the invariant.
LEMMA CloseStep ==
  ASSUME IInv, Sound, NEW p \in Procs, fs_dirent_close(p)
  PROVE  TypeOK' /\ Lines' /\ (Sound' => Good')
<1>1. PICK d \in Open \ {Root} :
        /\ \A q \in Procs : call[q].d # d
        /\ Becomes(p, [Idle EXCEPT !.at = "table", !.goal = "save", !.op = "close", !.d = d])
  BY DEF fs_dirent_close
<1> DEFINE c == [Idle EXCEPT !.at = "table", !.goal = "save", !.op = "close", !.d = d]
<1>2. /\ c.at = "table" /\ c.goal = "save" /\ c.op = "close" /\ c.d = d /\ c.isdir = FALSE
         /\ DOMAIN c = DOMAIN Idle
      /\ c.slot = "none" /\ c.k = 0 /\ c.inum = 0 /\ c.n = Zero /\ c.off = 0 /\ c.len = 0 /\ c.lo = 0
         /\ c.hi = 0
      /\ c.table = <<>> /\ c.bits = {}
  BY DEF Idle
<1>3. Becomes(p, c) /\ Starts(p) /\ UNCHANGED <<disk, dirents, history>> /\ d \in Open
  BY <1>1 DEF fs_dirent_close
<1> HIDE DEF c
<1>4. Where(c) = "save" /\ ~InWrite(c) /\ ~HasBlock(c) /\ ~Fresh(c) /\ ~Aims(c) /\ ~Clears(c)
  BY <1>2 DEF Where, InWrite, HasBlock, Fresh, Aims, Clears
<1>5. TypeCall(c)
  BY <1>2, Sizes DEF TypeCall
<1>6. Line(c, Open)
  BY <1>2, <1>3, <1>4 DEF Line
<1>7. Path(c)
  BY <1>2, <1>4 DEF Path
<1>8. Edit(c)
  BY <1>4 DEF Edit
<1>9. Reach(c, dirents[d], Sz[dirents[d].inum])
  BY <1>1, <1>2, <1>4 DEF Reach
<1>10. Found(c, Tree[dirents[d].inum], data)
  BY <1>2, <1>4 DEF Found
<1> QED BY <1>1, <1>2, <1>3, <1>4, <1>5, <1>6, <1>7, <1>8, <1>9, <1>10, StartStep

\* The start of a write keeps the invariant, whether it extends the file or not.
LEMMA WriteStartStep ==
  ASSUME IInv, Sound, NEW p \in Procs, fs_dirent_write(p)
  PROVE  TypeOK' /\ Lines' /\ (Sound' => Good')
<1>1. PICK d \in Usable, off \in 0 .. MaxSize - 1, v \in Values :
      \E len \in 1 .. Min({Slots + 1, MaxSize - off}) :
        /\ ~dirents[d].isdir
        /\ Becomes(p, piece([Idle EXCEPT !.op = "write", !.d = d, !.name = v, !.off = off, !.len = len]))
        /\ IF off + len > Copy(d).size
           THEN Changed(d, [Copy(d) EXCEPT !.size = off + len]) /\ Damaged(Doubled(d))
           ELSE UNCHANGED <<dirents, damage>>
  BY DEF fs_dirent_write
<1>2. PICK len \in 1 .. Min({Slots + 1, MaxSize - off}) :
        /\ ~dirents[d].isdir
        /\ Becomes(p, piece([Idle EXCEPT !.op = "write", !.d = d, !.name = v, !.off = off, !.len = len]))
        /\ IF off + len > Copy(d).size
           THEN Changed(d, [Copy(d) EXCEPT !.size = off + len]) /\ Damaged(Doubled(d))
           ELSE UNCHANGED <<dirents, damage>>
  BY <1>1
<1> DEFINE o == [Idle EXCEPT !.op = "write", !.d = d, !.name = v, !.off = off, !.len = len]
           c == piece(o)
           i == dirents[d].inum
           m == off + len
           z == IF m > Copy(d).size THEN m ELSE Copy(d).size
<1>3. Starts(p) /\ UNCHANGED <<disk, history>> /\ d \in Open /\ d \in Usable
  BY <1>1 DEF fs_dirent_write, Usable
<1>4. off \in Nat /\ len \in Nat \ {0} /\ m \in Nat /\ m <= MaxSize /\ m <= Start(Direct + Slots)
  <2>1. MaxSize \in Nat /\ MaxSize <= Start(Direct + Slots) /\ Start(Direct + Slots) \in Nat
    <3>1. MaxSize \in 0 .. (Direct + Slots) * Slots
      BY DiskFSAssumption
    <3>2. Direct + Slots \in Nat
      BY Sizes
    <3>3. Start(Direct + Slots) \in Nat
      BY <3>2, Begins
    <3> QED BY <3>1, <3>3 DEF Start
  <2>2. off \in Int /\ Slots + 1 \in Int /\ MaxSize - off \in Int
    BY <2>1, Sizes
  <2>3. Min({Slots + 1, MaxSize - off}) <= MaxSize - off /\ Min({Slots + 1, MaxSize - off}) \in Int
    BY <2>2, MinOfTwo
  <2> QED BY <2>1, <2>2, <2>3
<1>5. Copy(d).size \in Nat /\ Sz[i] = Copy(d).size
  BY <1>3, EntryIs
<1>6. z \in Nat /\ m <= z
  BY <1>4, <1>5
<1>7. /\ o.op = "write" /\ o.d = d /\ o.name = v /\ o.off = off /\ o.len = len /\ DOMAIN o = DOMAIN Idle
      /\ o.slot = "none" /\ o.k = 0 /\ o.inum = 0 /\ o.n = Zero /\ o.lo = 0 /\ o.hi = 0 /\ o.isdir = FALSE
      /\ o.table = <<>> /\ o.bits = {}
  BY DEF Idle
<1> HIDE DEF o
<1>8. TypeCall(o)
  BY <1>4, <1>7, Sizes DEF TypeCall
<1>9. /\ TypeCall(c) /\ Path(c) /\ Edit(c) /\ Reach(c, dirents[d], z) /\ Found(c, Tree[i], data)
      /\ ~Fresh(c) /\ ~Aims(c) /\ ~Clears(c) /\ c.at \in {"put", "fill"}
      /\ c.op = "write" /\ c.d = d /\ c.isdir = FALSE
  <2>1. o.len # 0 /\ o.off + o.len <= z /\ o.off + o.len <= MaxSize /\ o.name \in Values
    BY <1>4, <1>6, <1>7
  <2> HIDE DEF z, m
  <2> QED BY <1>2, <1>6, <1>7, <1>8, <2>1, PieceOK
<1>10. Becomes(p, c)
  BY <1>2 DEF o
<1> HIDE DEF c
<1>11. Line(c, Open)
  BY <1>3, <1>9 DEF Line, Where
<1>12. CASE ~(m > Copy(d).size)
  <2>1. UNCHANGED <<disk, dirents, history>> /\ z = Sz[i]
    BY <1>2, <1>3, <1>5, <1>12
  <2> HIDE DEF z, m
  <2> QED BY <1>3, <1>9, <1>10, <1>11, <2>1, StartStep
<1>13. CASE m > Copy(d).size
  <2>1. Changed(d, [Copy(d) EXCEPT !.size = m]) /\ Damaged(Doubled(d)) /\ z = m
    BY <1>2, <1>13
  <2>2. Follow(p, c)
    <3>1. Apart(p, c)
      BY <1>3, <1>9 DEF Apart, Usable
    <3> QED BY <1>9, <1>11, <3>1 DEF Follow
  <2>3. Settled(p, c, dirents[d], m, Tree[i])
    <3>1. call[p].at # "pointer" /\ NoMore(c, call[p]) /\ c.at # "pointer"
      BY <1>3, <1>9, IdleOK DEF Starts, NoMore
    <3>2. Aim(c, dirents, inodes, Used, folders)
      BY <1>9 DEF Aim
    <3> QED BY <1>9, <2>1, <3>1, <3>2 DEF Settled
  <2>4. Sound' => Others(d) = {}
    BY <2>1, DamageIs, WhenIs DEF Doubled
  <2>5. UNCHANGED <<disk, history>> /\ calls' \in 0 .. MaxCalls /\ Copy(d).size <= m
    <3>1. calls \in 0 .. MaxCalls /\ MaxCalls \in Nat
      BY TypeParts, DiskFSAssumption DEF IInv
    <3> QED BY <1>3, <1>4, <1>5, <1>13, <3>1 DEF Starts
  <2> HIDE DEF m, z
  <2> QED BY <1>3, <1>4, <1>9, <1>10, <2>1, <2>2, <2>3, <2>4, <2>5, SizeStep
<1> QED BY <1>12, <1>13

\* A step after which everybody sees the same inodes, and no block has changed.
LEMMA ViewStep ==
  ASSUME IInv, Sound, NEW p \in Procs, NEW c, Becomes(p, c),
         Agree', SameViews, data' = data, bitmap' = bitmap, UNCHANGED history,
         c.at # "pointer", call[p].at # "pointer",
         Fresh(c) => Fresh(call[p]) /\ c.inum = call[p].inum,
         Local(c, dirents', inodes', Used, folders, Sz, Tree, data),
         \A q \in Procs \ {p} : Relies(call[q], dirents, inodes, data, dirents', inodes', data'),
         NoMore(c, call[p]) \/ \A q \in Procs \ {p} : Distinct(c, call[q]) /\ Distinct(call[q], c)
  PROVE  Good'
<1>1. TypeOK /\ Lines /\ Good /\ Agree
  BY GoodParts DEF IInv
<1>2. Used' = Used /\ Tree' = Tree /\ Sz' = Sz
  BY TreeViews DEF SameViews
<1>3. folders' = folders /\ created' = created /\ written' = written /\ lost' = lost
  BY DEF history
<1>4. Cells' = Cells
  BY <1>2 DEF Cells
<1>5. Grows(Used, folders, Sz, Tree, Used', folders', Sz', Tree')
  BY <1>1, <1>2, <1>3, GrowsSame
<1>6. \A q \in Procs \ {p} : Distinct(c, call[q]) /\ Distinct(call[q], c)
  BY <1>1, GoodParts, DistinctKept
<1>7. /\ \A q \in Procs : Local(call'[q], dirents', inodes', Used', folders', Sz', Tree', data')
      /\ \A q, r \in Procs : q # r => Distinct(call'[q], call'[r])
  BY <1>1, <1>2, <1>3, <1>5, <1>6, LocalsNext
<1>8. Pending' = Pending /\ Freshes' \subseteq Freshes
  BY <1>1, PendingIs, FreshesAre, GoodParts
<1>9. ItemsOK(Cells', Used', folders', Freshes')
  <2>1. ItemsOK(Cells, Used, folders, Freshes) /\ folders \subseteq Used
    BY <1>1, GoodParts DEF Agree
  <2> QED BY <1>2, <1>3, <1>4, <1>8, <2>1, ItemsKept
<1> QED BY <1>1, <1>2, <1>3, <1>4, <1>7, <1>8, <1>9, GoodParts, GoodNext DEF Good2

\* The inode table after a write, when it was read before.
LEMMA TableTyped ==
  ASSUME TypeOK, NEW t \in [Inums -> Node], NEW i \in Inums, NEW node \in Node,
         inodes' = [t EXCEPT ![i] = node],
         bitmap' = bitmap, data' = data, dirents' \in [Dirents -> Entry \cup {None}], UNCHANGED history
  PROVE  TypeDisk' /\ TypeHistory'
<1>1. inodes' \in [Inums -> Node]
  OBVIOUS
<1> QED BY <1>1, TypeParts, TypeSame DEF TypeDisk

\* The inode of a call that writes a pointer, or makes a directory longer, is saved.
LEMMA SaveCall ==
  ASSUME NEW o, NEW c, NEW E, NEW N, NEW U, NEW F, NEW e, NEW z, NEW t, NEW D,
         Where(o) = "save", o.op # "close", TypeCall(o), Path(o), Edit(o), Aim(o, E, N, U, F),
           Reach(o, e, z),
         Found(o, t, D), SameTask(c, o), SamePage(c, o), c.slot = o.slot, c.n = o.n, c.table = <<>>,
           c.bits = {},
         \/ o.slot = "direct" /\ c.at = "data"
         \/ o.slot = "indirect" /\ c.at = "zero"
         \/ o.slot = "none" /\ c.at = "load"
  PROVE  /\ TypeCall(c) /\ Path(c) /\ Edit(c) /\ Aim(c, E, N, U, F) /\ Reach(c, e, z) /\ Found(c, t, D)
         /\ \A open : Line(o, open) => Line(c, open)
         /\ NoMore(c, o) /\ Where(c) = c.at
<1>1. Where(c) = c.at /\ Where(c) \in {"data", "zero", "load"} /\ o.op = c.op /\ o.inum = c.inum
      /\ o.d = c.d /\ c.isdir = o.isdir
  BY DEF Where, SameTask
<1>2. TypeCall(c)
  <2>1. c.n \in Blocks \cup {Junk} /\ c.table \in [Inums -> Node] \cup {<<>>} /\ c.bits \in SUBSET Blocks
    BY DEF TypeCall
  <2> QED BY <2>1, TypeMoves
<1>3. \A open : Line(o, open) => Line(c, open)
  BY <1>1 DEF Line
<1>4. CASE o.slot = "none"
  <2>1. c.at = "load" /\ o.op = "create" /\ ~InWrite(c) /\ ~HasBlock(c) /\ ~Fresh(c) /\ ~Clears(c)
          /\ Aims(c)
        /\ Aims(o) /\ ~InWrite(o) /\ ~Fresh(o)
    BY <1>1, <1>4 DEF Path, InWrite, HasBlock, Fresh, Aims, Clears
  <2>2. Path(c)
    BY <1>1, <1>4, <2>1 DEF Path
  <2>3. Edit(c)
    BY <1>1, <2>1 DEF Edit
  <2>4. Aim(c, E, N, U, F)
    BY <1>1, <2>1 DEF Aim
  <2>5. Reach(c, e, z)
    BY <1>1, <2>1 DEF Reach, SameTask
  <2>6. Found(c, t, D)
    BY <1>1, <1>4, <2>1 DEF Found
  <2>7. NoMore(c, o)
    BY <1>1, <2>1 DEF NoMore
  <2> QED BY <1>1, <1>2, <1>3, <2>2, <2>3, <2>4, <2>5, <2>6, <2>7
<1>5. CASE o.slot \in {"direct", "indirect"}
  <2>1. InWrite(c) /\ InWrite(o) /\ HasBlock(c) /\ HasBlock(o)
    BY <1>1, <1>5 DEF InWrite, HasBlock
  <2>2. Path(c)
    BY <1>1, <1>5, <2>1 DEF Path, SamePage
  <2>3. Edit(c) /\ Aim(c, E, N, U, F) /\ Reach(c, e, z) /\ (Fresh(c) <=> Fresh(o)) /\ (Aims(c) <=> Aims(o))
    BY <2>1, <2>2, WriteMoves
  <2>4. Clears(c) => Clears(o)
    BY <1>1, <1>5 DEF Clears
  <2>5. Found(c, t, D)
    <3>1. CASE o.slot = "direct"
      <4>1. c.n = t[c.k] /\ c.n # Zero /\ c.k < Direct /\ c.at = "data"
        BY <3>1 DEF Found, Path, SamePage
      <4> QED BY <1>1, <3>1, <4>1 DEF Found, Behind, Clears
    <3>2. CASE o.slot = "indirect"
      <4>1. Clears(o) /\ c.at = "zero"
        BY <3>2 DEF Clears
      <4> QED BY <1>1, <3>2, <4>1 DEF Found
    <3> QED BY <1>5, <3>1, <3>2
  <2>6. NoMore(c, o)
    BY <1>1, <1>5, <2>3, <2>4 DEF NoMore
  <2> QED BY <1>1, <1>2, <1>3, <2>2, <2>3, <2>5, <2>6
<1> QED BY <1>4, <1>5

\* save keeps the invariant: the table written is the one on the disk but for this inode.
LEMMA SaveStep ==
  ASSUME IInv, Sound, NEW p \in Procs, save(p)
  PROVE  TypeOK' /\ Lines' /\ (Sound' => Good')
<1> DEFINE o == call[p]
           d == o.d
           i == dirents[d].inum
           then == CASE o.slot = "direct" -> "data" [] o.slot = "indirect" -> "zero" [] OTHER -> "load"
<1>0. o.at = "save" /\ Where(o) = "save" /\ o = call[p] /\ UNCHANGED history
      /\ write_table(p, i, Copy(d))
  BY DEF save, At, Where
<1>1. Known(o, d, i)
  BY <1>0, KnownIs
<1> HIDE DEF o, d, i, then
<1>2. /\ DOMAIN o = DOMAIN Idle /\ TypeCall(o) /\ Path(o) /\ Line(o, Open) /\ Edit(o) /\ d = o.d
      /\ Aim(o, dirents, inodes, Used, folders) /\ Reach(o, dirents[d], Sz[i]) /\ Found(o, Tree[i], data)
      /\ i \in Used /\ i \in Inums /\ d \in Open /\ d \in Dirents /\ Copy(d) \in Node
         /\ o.table \in [Inums -> Node]
  BY <1>0, <1>1 DEF Known, TypeCall, Line
<1>3. /\ inodes' = [o.table EXCEPT ![i] = Copy(d)] /\ bitmap' = bitmap /\ data' = data /\ calls' = calls
      /\ Damaged(When(o.table # inodes, "raced"))
  BY <1>0 DEF write_table
<1>4. Sound' => inodes' = [inodes EXCEPT ![i] = Copy(d)]
  BY <1>3, DamageIs, WhenIs
<1>5. TypeOK /\ Lines /\ Good /\ Agree /\ calls' \in 0 .. MaxCalls /\ folders' = folders
  BY <1>0, <1>3, GoodParts, TypeParts DEF IInv, history
<1>6. \A q \in Procs : Where(call[q]) # "idle" => call[q].d \in Open
  BY <1>5 DEF Lines, Line
<1>7. CASE o.op = "close"
  <2>1. dirents' = [dirents EXCEPT ![d] = None] /\ Becomes(p, Idle)
    BY <1>7 DEF save, o, d, i, then
  <2>2. \A q \in Procs \ {p} : Where(call[q]) # "idle" => call[q].d \in Open \ {d}
    BY <1>0, <1>2, <1>5, <1>6, <1>7 DEF Lines
  <2>3. dirents' \in [Dirents -> Entry \cup {None}] /\ Open' = Open \ {d}
        /\ \A e \in Open \ {d} : dirents'[e] = dirents[e]
    BY <1>2, <1>5, <2>1 DEF TypeOK, Open
  <2>4. TypeDisk' /\ TypeHistory'
    BY <1>0, <1>2, <1>3, <1>5, <2>3, TableTyped
  <2>5. TypeOK' /\ Lines'
    <3>1. TypeOK'
      BY <1>5, <2>1, <2>4, TypeNext, IdleOK
    <3>2. Lines'
      BY <1>5, <2>1, <2>2, <2>3, LinesNext, IdleOK
    <3> QED BY <3>1, <3>2
  <2>6. ASSUME Sound' PROVE Good'
    <3>1. /\ Agree' /\ SameViews
          /\ \A j \in Inums : (\A e \in Open : dirents[e].inum # j) => inodes'[j] = inodes[j]
      BY <1>2, <1>4, <1>5, <2>1, <2>6, SaveViews DEF i
    <3>2. ASSUME NEW q \in Procs \ {p}
          PROVE  Relies(call[q], dirents, inodes, data, dirents', inodes', data')
      <4>1. Fresh(call[q]) => inodes'[call[q].inum] = inodes[call[q].inum]
        <5>1. ASSUME Fresh(call[q])
              PROVE  call[q].inum \in Inums /\ \A e \in Open : dirents[e].inum # call[q].inum
          <6>1. Aim(call[q], dirents, inodes, Used, folders) /\ TypeCall(call[q])
            BY <1>5, GoodParts, TypeCalls DEF Local
          <6> QED BY <5>1, <6>1 DEF Aim, TypeCall, Open
        <5> QED BY <3>1, <5>1
      <4>2. /\ Where(call[q]) # "idle" => dirents'[call[q].d] = dirents[call[q].d]
            /\ \A e \in Open' \cap Open : dirents'[e].inum = dirents[e].inum
            /\ Open' \ Open = {}
        BY <2>2, <2>3
      <4> QED BY <1>3, <1>5, <4>1, <4>2, RelyLast
    <3>3. Local(Idle, dirents', inodes', Used, folders, Sz, Tree, data) /\ NoMore(Idle, call[p])
          /\ Idle.at # "pointer" /\ ~Fresh(Idle)
      BY IdleOK
    <3> QED BY <1>0, <1>3, <2>1, <3>1, <3>2, <3>3, ViewStep
  <2> QED BY <2>5, <2>6
<1>8. CASE o.op # "close"
  <2> DEFINE c == Goes(Done(o), then)
  <2>1. dirents' = dirents /\ Becomes(p, c)
    BY <1>8 DEF save, o, d, i, then
  <2>2. /\ SameTask(c, o) /\ SamePage(c, o) /\ c.slot = o.slot /\ c.n = o.n /\ c.table = <<>> /\ c.bits = {}
        /\ \/ o.slot = "direct" /\ c.at = "data"
           \/ o.slot = "indirect" /\ c.at = "zero"
           \/ o.slot = "none" /\ c.at = "load"
    <3>1. o.slot \in {"none", "direct", "indirect"}
      BY <1>0, <1>2 DEF Path
    <3>2. c.at = then
      BY <1>2, Fields DEF Goes, Done
    <3>3. SameTask(c, o) /\ SamePage(c, o) /\ c.slot = o.slot /\ c.n = o.n /\ c.table = <<>> /\ c.bits = {}
      BY <1>2, Fields DEF SameTask, SamePage, Goes, Done
    <3> QED BY <3>1, <3>2, <3>3 DEF then
  <2> HIDE DEF c
  <2>3. /\ TypeCall(c) /\ Path(c) /\ Edit(c) /\ Aim(c, dirents, inodes, Used, folders)
        /\ Reach(c, dirents[d], Sz[i]) /\ Found(c, Tree[i], data) /\ Line(c, Open) /\ NoMore(c, o)
           /\ Where(c) = c.at
    <3>1. PICK e : e = dirents[d]
      OBVIOUS
    <3>2. PICK z : z = Sz[i]
      OBVIOUS
    <3>3. PICK t : t = Tree[i]
      OBVIOUS
    <3>4. Reach(o, e, z) /\ Found(o, t, data)
      BY <1>2, <3>1, <3>2, <3>3
    <3>5. /\ TypeCall(c) /\ Path(c) /\ Edit(c) /\ Aim(c, dirents, inodes, Used, folders)
          /\ Reach(c, e, z) /\ Found(c, t, data) /\ Line(c, Open) /\ NoMore(c, o) /\ Where(c) = c.at
      BY Zenon, <1>0, <1>2, <1>8, <2>2, <3>4, SaveCall
    <3> QED BY <3>1, <3>2, <3>3, <3>5
  <2>4. c.at # "pointer" /\ o.at # "pointer" /\ c.d = d /\ c.op = o.op
    BY <1>0, <1>2, <2>2 DEF SameTask
  <2>5. TypeOK' /\ Lines' /\ Open' = Open
    <3>1. dirents' \in [Dirents -> Entry \cup {None}] /\ Open' = Open
      BY <1>5, <2>1 DEF TypeOK, Open
    <3>2. TypeDisk' /\ TypeHistory'
      BY <1>0, <1>2, <1>3, <1>5, <3>1, TableTyped
    <3>3. Follow(p, c)
      BY <1>0, <1>2, <2>3, <2>4 DEF Follow
    <3> QED BY <1>5, <2>1, <3>1, <3>2, <3>3, OpenStep
  <2>6. ASSUME Sound' PROVE Good'
    <3>1. /\ Agree' /\ SameViews
          /\ \A j \in Inums : (\A e \in Open : dirents[e].inum # j) => inodes'[j] = inodes[j]
      BY <1>2, <1>4, <1>5, <2>1, <2>6, SaveViews DEF i
    <3>2. ASSUME NEW q, TypeCall(q), Aim(q, dirents, inodes, Used, folders)
          PROVE  Fresh(q) => inodes'[q.inum] = inodes[q.inum]
      <4>1. ASSUME Fresh(q) PROVE q.inum \in Inums /\ \A e \in Open : dirents[e].inum # q.inum
        BY <3>2, <4>1 DEF Aim, TypeCall, Open
      <4> QED BY <3>1, <4>1
    <3>3. ASSUME NEW q \in Procs \ {p}
          PROVE  Relies(call[q], dirents, inodes, data, dirents', inodes', data')
      <4>1. Aim(call[q], dirents, inodes, Used, folders) /\ TypeCall(call[q])
        BY <1>5, GoodParts, TypeCalls DEF Local
      <4>2. Fresh(call[q]) => inodes'[call[q].inum] = inodes[call[q].inum]
        BY <3>2, <4>1
      <4> QED BY <1>3, <1>5, <2>1, <2>5, <4>2, RelyLast
    <3>4. Local(c, dirents', inodes', Used, folders, Sz, Tree, data)
      <4>1. Fresh(c) => inodes'[c.inum] = inodes[c.inum]
        BY <2>3, <3>2
      <4>2. Aim(c, dirents', inodes', Used, folders)
        BY <2>1, <2>3, <4>1 DEF Aim
      <4> QED BY <2>1, <2>3, <2>4, <4>2 DEF Local, i
    <3>5. Fresh(c) => Fresh(o) /\ c.inum = o.inum
      BY <2>3 DEF NoMore
    <3> QED BY <1>0, <1>3, <2>1, <2>3, <2>4, <3>1, <3>3, <3>4, <3>5, ViewStep
  <2> QED BY <2>5, <2>6
<1> QED BY <1>7, <1>8

\* echo keeps the invariant.
LEMMA EchoStep ==
  ASSUME IInv, Sound, NEW p \in Procs, echo(p)
  PROVE  TypeOK' /\ Lines' /\ (Sound' => Good')
<1> DEFINE o == call[p]
<1>0. /\ o.at = "echo" /\ Where(o) = "echo" /\ Return(p) /\ inodes' = [o.table EXCEPT ![o.inum] = o.node]
      /\ Damaged(When(inodes' # inodes, "raced")) /\ UNCHANGED <<bitmap, data, dirents, calls, history>>
  BY DEF echo, At, Where
<1>1. TypeOK /\ Lines /\ calls' \in 0 .. MaxCalls
  BY <1>0, TypeParts DEF IInv
<1>2. TypeCall(o) /\ Line(o, Open) /\ o.inum \in Inums
  BY <1>1, TypeCalls DEF Lines, TypeCall
<1>3. o.table \in [Inums -> Node] /\ o.node \in Node
  BY <1>0, <1>2 DEF Line
<1>4. TypeOK' /\ Lines'
  <2>1. dirents' \in [Dirents -> Entry \cup {None}] /\ Open' = Open /\ UNCHANGED history
    BY <1>0, <1>1 DEF TypeOK, Open
  <2>2. TypeDisk' /\ TypeHistory'
    <3> HIDE DEF o
    <3> QED BY <1>0, <1>1, <1>2, <1>3, <2>1, TableTyped
  <2>3. Follow(p, Idle) /\ Becomes(p, Idle)
    BY <1>0, IdleOK DEF Follow, Return
  <2> QED BY <1>1, <2>1, <2>2, <2>3, OpenStep
<1>5. ASSUME Sound' PROVE Good'
  <2>1. UNCHANGED <<disk, dirents, calls, history>> /\ o.at # "pointer"
    BY <1>0, <1>5, DamageIs, WhenIs DEF disk
  <2> QED BY <1>0, <1>5, <2>1, QuietReturn
<1> QED BY <1>4, <1>5

\* init keeps the invariant: the inode it writes is the one claimed.
LEMMA InitStep ==
  ASSUME IInv, Sound, NEW p \in Procs, init(p)
  PROVE  TypeOK' /\ Lines' /\ (Sound' => Good')
<1> DEFINE o == call[p]
           d == o.d
           i == dirents[d].inum
           c == Goes(Done(o), "add")
<1>0. /\ o.at = "init" /\ Where(o) = "init" /\ o = call[p] /\ Becomes(p, c)
         /\ inodes' = [o.table EXCEPT ![o.inum] = Inode(TRUE)]
      /\ Damaged(When(o.table # inodes, "raced")) /\ UNCHANGED <<bitmap, data, dirents, calls, history>>
  BY DEF init, At, Where, write_table
<1>1. Known(o, d, i)
  BY <1>0, KnownIs
<1>2. /\ DOMAIN o = DOMAIN Idle /\ TypeCall(o) /\ Path(o) /\ Line(o, Open) /\ d = o.d
      /\ Aim(o, dirents, inodes, Used, folders) /\ Reach(o, dirents[d], Sz[i])
      /\ d \in Open /\ o.table \in [Inums -> Node] /\ o.inum \in Inums /\ o.op = "create" /\ o.slot = "none"
      /\ Fresh(o) /\ Aims(o)
  BY <1>0, <1>1 DEF Known, TypeCall, Line, Path, Fresh, Aims
<1>3. /\ SameTask(c, o) /\ SamePage(c, o) /\ c.slot = o.slot /\ c.n = o.n /\ c.table = <<>> /\ c.bits = {}
      /\ c.at = "add"
  BY <1>2, Fields DEF SameTask, SamePage, Goes, Done
<1> HIDE DEF c
<1>4. /\ Where(c) = "add" /\ c.op = "create" /\ c.d = o.d /\ c.inum = o.inum /\ ~InWrite(c) /\ ~HasBlock(c)
      /\ Fresh(c) /\ Aims(c) /\ ~Clears(c)
  BY <1>2, <1>3 DEF Where, InWrite, HasBlock, Fresh, Aims, Clears, SameTask
<1>5. TypeCall(c) /\ Line(c, Open)
  <2>1. TypeCall(c)
    <3>1. c.n \in Blocks \cup {Junk} /\ c.table \in [Inums -> Node] \cup {<<>>} /\ c.bits \in SUBSET Blocks
      BY <1>2, <1>3 DEF TypeCall
    <3> QED BY <1>2, <1>3, <3>1, TypeMoves
  <2>2. Line(c, Open)
    BY <1>0, <1>2, <1>3, <1>4 DEF Line, SameTask
  <2> QED BY <2>1, <2>2
<1>6. TypeOK /\ Lines /\ Good /\ calls' \in 0 .. MaxCalls
  BY <1>0, TypeParts DEF IInv
<1>7. TypeOK' /\ Lines'
  <2>1. dirents' \in [Dirents -> Entry \cup {None}] /\ Open' = Open /\ UNCHANGED history
    BY <1>0, <1>6 DEF TypeOK, Open
  <2>2. Inode(TRUE) \in Node
    BY Sizes DEF Inode, Node
  <2>3. TypeDisk' /\ TypeHistory'
    <3> HIDE DEF o
    <3> QED BY <1>0, <1>2, <1>6, <2>1, <2>2, TableTyped
  <2>4. Follow(p, c)
    BY <1>0, <1>2, <1>4, <1>5 DEF Follow
  <2> QED BY <1>0, <1>6, <2>1, <2>3, <2>4, OpenStep
<1>8. ASSUME Sound' PROVE Good'
  <2>1. o.table = inodes
    BY <1>0, <1>8, DamageIs, WhenIs
  <2>2. inodes[o.inum] = Inode(TRUE)
    BY <1>2 DEF Aim
  <2>3. inodes' = inodes
    BY <1>0, <1>2, <2>1, <2>2
  <2>4. UNCHANGED <<disk, dirents, calls, history>>
    BY <1>0, <2>3 DEF disk
  <2>5. Path(c) /\ Edit(c) /\ Aim(c, dirents, inodes, Used, folders) /\ Found(c, Tree[i], data)
    <3>1. Path(c)
      BY <1>2, <1>3, <1>4 DEF Path
    <3>2. Edit(c)
      BY <1>4 DEF Edit
    <3>3. Aim(c, dirents, inodes, Used, folders)
      BY <1>2, <1>3, <1>4 DEF Aim, SameTask
    <3>4. Found(c, Tree[i], data)
      BY <1>2, <1>3, <1>4 DEF Found
    <3> QED BY <3>1, <3>2, <3>3, <3>4
  <2>6. Reach(c, dirents[d], Sz[i])
    BY <1>0, <1>2, <1>3, <1>4 DEF Reach, SameTask, SamePage
  <2>7. c.op # "close" /\ o.op # "close" /\ c.at # "pointer" /\ o.at # "pointer"
        /\ Where(c) # "idle" /\ Where(o) # "idle"
    BY <1>0, <1>2, <1>3, <1>4
  <2> HIDE DEF o, d, i
  <2> QED BY <1>0, <1>1, <1>2, <1>4, <1>5, <1>8, <2>4, <2>5, <2>6, <2>7, PlainStep
<1> QED BY <1>7, <1>8

\* load keeps the invariant: the new entry agrees with all others of its inode.
LEMMA LoadStep ==
  ASSUME IInv, Sound, NEW p \in Procs, load(p)
  PROVE  TypeOK' /\ Lines' /\ (Sound' => Good')
<1> DEFINE o == call[p]
           d == o.d
           i == dirents[d].inum
<1>0. /\ o.at = "load" /\ Where(o) = "load" /\ o = call[p] /\ UNCHANGED <<disk, calls, history>>
  BY DEF load, At, Where
<1>1. Known(o, d, i)
  BY <1>0, KnownIs
<1>2. /\ DOMAIN o = DOMAIN Idle /\ TypeCall(o) /\ Path(o) /\ Line(o, Open) /\ d = o.d
      /\ Aim(o, dirents, inodes, Used, folders) /\ Reach(o, dirents[d], Sz[i])
      /\ d \in Open /\ o.inum \in Inums /\ o.slot = "none" /\ o.isdir \in BOOLEAN
      /\ ~Fresh(o) /\ Aims(o) /\ o.n \in Blocks \cup {Junk}
  BY <1>0, <1>1 DEF Known, TypeCall, Line, Path, Fresh, Aims, InWrite
<1>3. o.inum \in Used /\ (o.op # "echo" => (o.isdir <=> o.inum \in folders))
  BY <1>2 DEF Aim
<1>4. TypeOK /\ Lines /\ Good /\ Agree /\ calls' \in 0 .. MaxCalls
  BY <1>0, GoodParts, TypeParts DEF IInv
<1>5. CASE o.op = "echo"
  <2> DEFINE c == [ReadsTable(o, "echo") EXCEPT !.node = inodes[o.inum]]
  <2>1. Becomes(p, c) /\ dirents' = dirents
    BY <1>5 DEF load
  <2>2. /\ SameTask(c, o) /\ SamePage(c, o) /\ c.slot = o.slot /\ c.n = o.n /\ c.table = o.table
           /\ c.bits = o.bits
        /\ c.at = "table" /\ c.goal = "echo" /\ c.node = inodes[o.inum]
    BY <1>2, Fields DEF SameTask, SamePage, ReadsTable
  <2> HIDE DEF c
  <2>3. /\ Where(c) = "echo" /\ c.op = "echo" /\ c.d = o.d /\ c.inum = o.inum /\ ~InWrite(c) /\ ~HasBlock(c)
        /\ ~Fresh(c) /\ Aims(c) /\ ~Clears(c)
    BY <1>2, <1>5, <2>2 DEF Where, InWrite, HasBlock, Fresh, Aims, Clears, SameTask
  <2>4. TypeCall(c) /\ Line(c, Open)
    <3>1. TypeCall(c)
      BY <1>2, <2>2, TypeMoves
    <3>2. inodes[o.inum] \in Node
      BY <1>2, <1>4 DEF TypeOK
    <3>3. Line(c, Open)
      BY <1>0, <1>2, <2>2, <2>3, <3>2 DEF Line, SameTask
    <3> QED BY <3>1, <3>3
  <2>5. Path(c) /\ Edit(c) /\ Aim(c, dirents, inodes, Used, folders) /\ Found(c, Tree[i], data)
    <3>1. Path(c)
      BY <1>2, <2>2, <2>3 DEF Path
    <3>2. Edit(c)
      BY <2>3 DEF Edit
    <3>3. Aim(c, dirents, inodes, Used, folders)
      BY <1>3, <2>3 DEF Aim
    <3>4. Found(c, Tree[i], data)
      BY <1>2, <2>2, <2>3 DEF Found
    <3> QED BY <3>1, <3>2, <3>3, <3>4
  <2>6. Reach(c, dirents[d], Sz[i])
    BY <1>0, <1>2, <1>5, <2>2, <2>3 DEF Reach, SameTask, SamePage
  <2>7. c.op # "close" /\ o.op # "close" /\ c.at # "pointer" /\ o.at # "pointer"
        /\ Where(c) # "idle" /\ Where(o) # "idle" /\ UNCHANGED <<disk, dirents, calls, history>>
    BY <1>0, <1>5, <2>1, <2>2, <2>3
  <2> HIDE DEF o, d, i
  <2> QED BY <1>0, <1>1, <1>2, <2>1, <2>3, <2>4, <2>5, <2>6, <2>7, PlainStep
<1>6. CASE o.op # "echo"
  <2>1. PICK e \in Dirents \ Open :
          /\ dirents' = [dirents EXCEPT ![e] = [inum |-> o.inum, disk |-> inodes[o.inum],
             isdir |-> o.isdir]]
          /\ Damaged(When(\E x \in Open : dirents[x].inum = o.inum /\ Copy(x) # inodes[o.inum], "doubled"))
          /\ Return(p)
    BY <1>6 DEF load
  <2> DEFINE new == [inum |-> o.inum, disk |-> inodes[o.inum], isdir |-> o.isdir]
  <2>2. new \in Entry /\ new.inum = o.inum /\ new # None
    <3>1. inodes[o.inum] \in Node
      BY <1>2, <1>4 DEF TypeOK
    <3>2. new \in Entry /\ new.inum = o.inum
      BY <1>2, <3>1 DEF Entry
    <3> QED BY <3>2, WordAssumption
  <2>3. dirents' = [dirents EXCEPT ![e] = new]
    BY <2>1
  <2> HIDE DEF new
  <2>4. /\ dirents' \in [Dirents -> Entry \cup {None}] /\ Open' = Open \cup {e} /\ dirents'[e].inum = o.inum
        /\ \A x \in Open : dirents'[x] = dirents[x]
    BY <1>4, <2>2, <2>3 DEF TypeOK, Open
  <2>5. inodes' = inodes /\ bitmap' = bitmap /\ data' = data /\ folders' = folders /\ UNCHANGED history
    BY <1>0 DEF disk, history
  <2>6. \A q \in Procs : Where(call[q]) # "idle" => call[q].d \in Open
    BY <1>4 DEF Lines, Line
  <2>7. TypeOK' /\ Lines'
    <3>1. TypeDisk' /\ TypeHistory'
      BY <1>4, <2>4, <2>5, TypeParts, TypeSame DEF TypeDisk
    <3>2. Becomes(p, Idle)
      BY <2>1 DEF Return
    <3>3. TypeOK'
      BY <1>4, <3>1, <3>2, TypeNext, IdleOK
    <3>4. Lines'
      BY <1>4, <2>4, <2>6, <3>2, LinesNext, IdleOK
    <3> QED BY <3>3, <3>4
  <2>8. ASSUME Sound' PROVE Good'
    <3>1. \A x \in Open : dirents[x].inum = o.inum => Copy(x) = inodes[o.inum]
      BY <2>1, <2>8, DamageIs, WhenIs
    <3>2. Agree' /\ SameViews
      <4>1. o.isdir <=> o.inum \in folders
        BY <1>3, <1>6
      <4>2. o.inum \in Used /\ o.isdir \in BOOLEAN
        BY <1>2, <1>3
      <4> HIDE DEF o
      <4> QED BY <1>4, <2>1, <2>5, <3>1, <4>1, <4>2, LoadViews
    <3>3. o.inum \notin Freshes
      <4>1. ASSUME NEW q \in Procs, Fresh(call[q]) PROVE call[q].inum # o.inum
        <5>1. q # p
          BY <1>2, <4>1
        <5>2. Distinct(call[q], o)
          BY <1>4, <5>1, GoodParts
        <5> QED BY <1>2, <4>1, <5>2 DEF Distinct
      <4> QED BY <4>1 DEF Freshes
    <3>4. ASSUME NEW q \in Procs \ {p}
          PROVE  Relies(call[q], dirents, inodes, data, dirents', inodes', data')
      BY <1>4, <2>4, <2>5, <2>6, <3>3, RelyLast
    <3>5. Becomes(p, Idle) /\ Local(Idle, dirents', inodes', Used, folders, Sz, Tree, data)
            /\ NoMore(Idle, call[p])
          /\ Idle.at # "pointer" /\ ~Fresh(Idle) /\ o.at # "pointer"
      BY <1>0, <2>1, IdleOK DEF Return
    <3> QED BY <2>5, <3>2, <3>4, <3>5, ViewStep
  <2> QED BY <2>7, <2>8
<1> QED BY <1>5, <1>6

\* An inode is claimed.
LEMMA ClaimStep ==
  ASSUME IInv, Sound, NEW p \in Procs, claim(p)
  PROVE  TypeOK' /\ Lines' /\ (Sound' => Good')
<1> DEFINE o == call[p]
           d == o.d
           unused == {x \in Inums : ~o.table[x].inuse}
<1>0. o.at = "claim" /\ Where(o) = "claim" /\ o = call[p] /\ UNCHANGED <<dirents, written, created, lost>>
  BY DEF claim, At, Where
<1>00. PICK i : i = dirents[d].inum
  OBVIOUS
<1>1. Known(o, d, i)
  BY <1>0, <1>00, KnownIs
<1>2. /\ DOMAIN o = DOMAIN Idle /\ TypeCall(o) /\ Path(o) /\ Line(o, Open) /\ d = o.d /\ d \in Dirents
      /\ Aim(o, dirents, inodes, Used, folders) /\ Reach(o, dirents[d], Sz[i]) /\ i \in Used
      /\ d \in Open /\ o.table \in [Inums -> Node] /\ o.op = "create" /\ o.slot = "none"
         /\ o.isdir \in BOOLEAN
  BY <1>0, <1>1 DEF Known, TypeCall, Line, Path
<1>3. TypeOK /\ Lines /\ Good /\ Agree
  BY GoodParts DEF IInv
<1>4. CASE unused = {}
  <2>1. Return(p) /\ UNCHANGED <<disk, dirents, calls, history>> /\ o.at # "pointer"
    BY <1>0, <1>4 DEF claim, history
  <2> QED BY <2>1, QuietReturn
<1>5. CASE unused # {}
  <2> DEFINE c == [ReadsTable(Done(o), "init") EXCEPT !.inum = Min(unused)]
  <2>1. Min(unused) \in unused
    <3>1. unused \subseteq Inums
      OBVIOUS
    <3>2. Inums \in SUBSET Int /\ IsFiniteSet(Inums)
      BY Sizes, FS_Interval DEF Inums
    <3>3. IsFiniteSet(unused) /\ unused \in SUBSET Int
      BY <3>1, <3>2, FS_Subset
    <3> HIDE DEF unused
    <3> QED BY <1>5, <3>3, MinExists
  <2>2. PICK u : u = Min(unused)
    OBVIOUS
  <2>3. u \in Inums /\ ~o.table[u].inuse
    BY <2>1, <2>2
  <2>4. /\ inodes' = [o.table EXCEPT ![u] = [o.table[u] EXCEPT !.inuse = TRUE]]
        /\ Damaged(When(o.table # inodes, "raced")) /\ UNCHANGED <<bitmap, data, calls>>
        /\ Becomes(p, c) /\ folders' = folders \cup When(o.isdir, u)
    BY <1>5, <2>2 DEF claim, write_table
  <2>5. /\ c.op = o.op /\ c.d = o.d /\ c.name = o.name /\ c.isdir = o.isdir /\ c.off = o.off
           /\ c.len = o.len
        /\ c.inum = u /\ SamePage(c, o) /\ c.slot = o.slot /\ c.n = o.n /\ c.table = <<>> /\ c.bits = {}
        /\ c.at = "table" /\ c.goal = "init" /\ DOMAIN c = DOMAIN Idle
    BY <1>2, <2>2, Fields DEF SamePage, ReadsTable, Done
  <2> HIDE DEF c, unused
  <2>6. /\ Where(c) = "init" /\ c.op = "create" /\ ~InWrite(c) /\ ~HasBlock(c) /\ Fresh(c) /\ Aims(c)
           /\ ~Clears(c)
    BY <1>2, <2>5 DEF Where, InWrite, HasBlock, Fresh, Aims, Clears
  <2>7. TypeCall(c) /\ Line(c, Open)
    <3>1. TypeCall(c)
      BY <1>2, <2>3, <2>5 DEF TypeCall, SamePage
    <3>2. Line(c, Open)
      BY <1>0, <1>2, <2>5, <2>6 DEF Line
    <3> QED BY <3>1, <3>2
  <2>8. TypeOK' /\ Lines'
    <3>1. dirents' \in [Dirents -> Entry \cup {None}] /\ Open' = Open
      BY <1>0, <1>3 DEF TypeOK, Open
    <3>2. inodes' \in [Inums -> Node] /\ folders' \in SUBSET Inums
      <4>1. [o.table[u] EXCEPT !.inuse = TRUE] \in Node
        BY <1>2, <2>3 DEF Node
      <4>2. folders \in SUBSET Inums
        BY <1>3 DEF TypeOK
      <4> HIDE DEF o
      <4> QED BY <1>2, <2>3, <2>4, <4>1, <4>2 DEF When
    <3>3. TypeDisk' /\ TypeHistory' /\ calls' \in 0 .. MaxCalls
      BY <1>0, <1>3, <2>4, <3>1, <3>2, TypeParts DEF TypeDisk, TypeHistory
    <3>4. Follow(p, c)
      BY <1>0, <1>2, <2>5, <2>6, <2>7 DEF Follow
    <3> QED BY <1>3, <2>4, <3>1, <3>3, <3>4, OpenStep
  <2>9. ASSUME Sound' PROVE Good'
    <3>1. o.table = inodes
      BY <2>4, <2>9, DamageIs, WhenIs
    <3>2. u \in Inums \ Used /\ inodes[u] = Inode(FALSE)
      BY <1>3, <2>3, <3>1 DEF Used, Agree
    <3>3. inodes' = [inodes EXCEPT ![u] = Inode(TRUE)]
      <4>1. [Inode(FALSE) EXCEPT !.inuse = TRUE] = Inode(TRUE)
        <5>1. PICK r : r = Inode(FALSE)
          OBVIOUS
        <5>2. PICK t : t = Inode(TRUE)
          OBVIOUS
        <5>3. /\ r \in Node /\ t \in Node /\ r.inuse = FALSE /\ t.inuse = TRUE
              /\ r.size = t.size /\ r.direct = t.direct /\ r.indirect = t.indirect
          BY <5>1, <5>2, Sizes DEF Inode, Node
        <5>4. [r EXCEPT !.inuse = TRUE] = t
          BY <5>3 DEF Node
        <5> QED BY <5>1, <5>2, <5>4
      <4>2. inodes' = [inodes EXCEPT ![u] = [inodes[u] EXCEPT !.inuse = TRUE]]
        BY <2>4, <3>1
      <4> HIDE DEF o
      <4> QED BY <3>2, <4>1, <4>2
    <3>4. folders' = folders \/ folders' = folders \cup {u}
      BY <2>4 DEF When
    <3>5. (u \in folders' <=> o.isdir) /\ folders \subseteq folders' /\ folders' \cap Used \subseteq folders
          /\ folders' \subseteq Inums /\ folders' \ folders \subseteq {u} /\ u \notin folders
             /\ folders \subseteq Used
      BY <1>3, <2>4, <3>2 DEF When, Agree, Used
    <3>6. /\ Agree' /\ Used' = Used \cup {u} /\ Open' = Open
          /\ \A x \in Open : dirents[x].inum # u
          /\ View(u)' = Inode(TRUE)
          /\ \A j \in Inums : j # u => View(j)' = View(j)
      <4> HIDE DEF o, d
      <4> QED BY <1>0, <1>3, <3>2, <3>3, <3>4, ClaimViews
    <3>7. Tree' = Tree
      <4>1. \A j \in Used : j \in Inums /\ j # u
        BY <3>2 DEF Used
      <4>2. Used \subseteq Used' /\ Used' \subseteq Inums /\ Used' \ Used \subseteq {u} /\ data' = data
        BY <2>4, <3>2, <3>6 DEF Used
      <4> QED BY <3>6, <4>1, <4>2, TreeKept
    <3>8. Cells' = Cells
      BY <2>4, <3>7 DEF Cells
    <3>9. Sz'[u] = 0 /\ \A j \in Inums : j # u => Sz'[j] = Sz[j]
      <4>1. View(u)'.size = 0
        BY <3>6, NewInode
      <4> QED BY <3>2, <3>6, <4>1 DEF Sz
    <3>10. \A j \in Used : j \in Inums /\ j # u /\ Sz[j] \in Nat /\ Sz'[j] = Sz[j]
      BY <1>3, <3>2, <3>9, ViewTyped DEF Used
    <3>11. \A k \in Kinds : Tree[u][k] = Zero
      BY <3>2 DEF Tree
    <3>12. Blankly(Cells, u)
      <4>1. \A k \in Slots0, s \in Page : Cells[u][k][s] = Zero
        BY <3>2, <3>11, CellIs, KindIs DEF Cells
      <4> QED BY <4>1 DEF Blankly
    <3>13. Grows(Used, folders, Sz, Tree, Used', folders', Sz', Tree')
      BY <3>5, <3>6, <3>7, <3>10 DEF Grows
    <3>14. ASSUME NEW q \in Procs \ {p}
           PROVE  /\ Relies(call[q], dirents, inodes, data, dirents', inodes', data')
                  /\ Aims(call[q]) => call[q].inum # u
      <4>1. Aim(call[q], dirents, inodes, Used, folders) /\ TypeCall(call[q])
        BY <1>3, GoodParts, TypeCalls DEF Local
      <4>2. Aims(call[q]) => call[q].inum # u
        BY <3>2, <4>1 DEF Aim
      <4>3. Fresh(call[q]) => inodes'[call[q].inum] = inodes[call[q].inum]
        BY <1>3, <3>3, <4>1, <4>2 DEF Aims, TypeCall, TypeOK
      <4> QED BY <1>0, <1>3, <2>4, <3>6, <4>2, <4>3, RelyLast
    <3>15. \A q \in Procs \ {p} : Distinct(c, call[q]) /\ Distinct(call[q], c)
      <4>1. ASSUME NEW q \in Procs \ {p} PROVE Distinct(c, call[q]) /\ Distinct(call[q], c)
        <5>1. (Aims(call[q]) => call[q].inum # u) /\ (Fresh(call[q]) => Aims(call[q]))
          BY <3>14 DEF Aims
        <5>2. c.at # "pointer" /\ c.inum = u
          BY <2>5
        <5> HIDE DEF o
        <5> QED BY <2>6, <5>1, <5>2 DEF Distinct
      <4> QED BY <4>1
    <3>16. Local(c, dirents', inodes', Used', folders', Sz', Tree', data')
      <4>1. Path(c)
        BY <1>2, <2>5, <2>6 DEF Path
      <4>2. Edit(c)
        BY <2>6 DEF Edit
      <4>3. Aim(c, dirents', inodes', Used', folders')
        <5>1. c.inum = u /\ u \in Used' /\ c.isdir = o.isdir /\ inodes'[u] = Inode(TRUE)
          BY <1>3, <2>5, <3>2, <3>3, <3>6 DEF TypeOK
        <5>2. \A x \in Dirents : dirents'[x] # None => dirents'[x].inum # u
          BY <1>0, <3>6 DEF Open
        <5> HIDE DEF o
        <5> QED BY <3>5, <5>1, <5>2 DEF Aim
      <4>4. Reach(c, dirents'[d], Sz'[i])
        BY <1>0, <1>2, <2>5, <2>6, <3>10 DEF Reach, SamePage
      <4>5. Found(c, Tree'[i], data')
        BY <1>2, <2>5, <2>6 DEF Found
      <4>6. c.d = d /\ dirents'[d].inum = i
        BY <1>0, <1>00, <2>5
      <4> HIDE DEF o, d
      <4> QED BY <4>1, <4>2, <4>3, <4>4, <4>5, <4>6 DEF Local
    <3>17. /\ \A q \in Procs : Local(call'[q], dirents', inodes', Used', folders', Sz', Tree', data')
           /\ \A q, r \in Procs : q # r => Distinct(call'[q], call'[r])
      <4> HIDE DEF o
      <4> QED BY <1>3, <2>4, <3>13, <3>14, <3>15, <3>16, LocalsNext
    <3>18. Pending' = Pending /\ Freshes' \subseteq Freshes \cup {u}
      <4>1. c.at # "pointer" /\ call[p].at # "pointer" /\ c.inum = u
        BY <1>0, <2>5
      <4> QED BY <1>3, <2>4, <4>1, PendingIs, FreshesAre, GoodParts
    <3>19. Small(Used', Sz')
      <4>1. Start(Direct + Slots) \in Nat
        BY Sizes, Begins
      <4> QED BY <1>3, <3>6, <3>9, <3>10, <4>1, GoodParts DEF Small
    <3>20. Within(Tree', Sz', folders')
      <4>1. Within(Tree, Sz, folders) /\ \A k \in Slots0 : Behind(k) \in Kinds
        BY <1>3, GoodParts, KindIs
      <4> QED BY <3>5, <3>7, <3>10, <3>11, <4>1 DEF Within
    <3>21. ItemsOK(Cells', Used', folders', Freshes')
      <4>1. ItemsOK(Cells, Used, folders, Freshes)
        BY <1>3, GoodParts
      <4>2. Freshes' \cap Used \subseteq Freshes /\ Used \subseteq Used'
              /\ \A j \in folders' \ folders : Blankly(Cells, j)
        BY <3>2, <3>5, <3>6, <3>12, <3>18
      <4> QED BY <3>5, <3>8, <4>1, <4>2, ItemsKept
    <3>22. NamesOK(Cells', folders', created')
      <4>1. NamesOK(Cells, folders, created) /\ \A j \in folders' \ folders : Blankly(Cells, j)
        BY <1>3, <3>5, <3>12, GoodParts
      <4> QED BY <1>0, <3>5, <3>8, <4>1, NamesKept
    <3>23. Bytes(Cells', Sz', Used', folders', written')
      <4>1. Bytes(Cells, Sz, Used, folders, written) /\ Used \subseteq Inums /\ Used \subseteq Used'
        BY <1>3, <3>6, GoodParts DEF Used
      <4>2. \A j \in Used : Sz[j] \in Nat /\ Sz'[j] \in Nat /\ Sz[j] <= Sz'[j]
        BY <3>10
      <4> QED BY <1>0, <3>5, <3>8, <4>1, <4>2, BytesKept
    <3>24. Space(Tree', bitmap', Pending', lost') /\ Blank(Tree', data')
      BY <1>0, <1>3, <2>4, <3>7, <3>18, GoodParts
    <3> QED BY <3>6, <3>17, <3>19, <3>20, <3>21, <3>22, <3>23, <3>24, GoodNext DEF Good2
  <2> QED BY <2>8, <2>9
<1> QED BY <1>4, <1>5

\* After damage only types and control are left to show.
LEMMA DamageStep ==
  ASSUME IInv, NEW p \in Procs, NEW c, Becomes(p, c), dirents' = dirents, ~Sound',
         inodes' \in [Inums -> Node], bitmap' \in SUBSET Blocks, data' = data, UNCHANGED history,
           calls' = calls,
         Follow(p, c)
  PROVE  TypeOK' /\ Lines' /\ (Sound' => Good')
<1>1. TypeOK /\ Lines
  BY DEF IInv
<1>2. TypeDisk' /\ TypeHistory' /\ calls' \in 0 .. MaxCalls
  BY <1>1, TypeParts, TypeSame DEF TypeDisk
<1> QED BY <1>1, <1>2, ShapeStep

\* Damage is for good.
LEMMA HurtIs == \A S : Damaged(S) /\ (S # {} \/ ~Sound) => ~Sound'
BY DEF Damaged, Sound

\* A call goes on with what its pages are not needed for.
LEMMA OnCall ==
  ASSUME NEW o, NEW c, TypeCall(o), Line(o, Open), Where(o) # "idle", o.op # "close",
         DOMAIN c = DOMAIN Idle, c.op = o.op, c.d = o.d, c.isdir = o.isdir, c.inum = o.inum, c.k = o.k,
         c.off = o.off, c.len = o.len, c.lo = o.lo, c.hi = o.hi, c.n = o.n,
         c.table = o.table, c.bits = o.bits,
         \/ c.at = "table" /\ c.goal \in {"save", "bury", "unclaim"}
         \/ c.at = "bits" /\ c.goal = "free"
         \/ c.at \in {"grow", "delete", "rest"}
  PROVE  TypeCall(c) /\ Line(c, Open)
<1>1. TypeCall(c)
  BY DEF TypeCall
<1>2. Where(c) \in {"save", "bury", "unclaim", "free", "grow", "delete", "rest"}
  BY DEF Where
<1>3. Line(c, Open)
  BY <1>2 DEF Line
<1> QED BY <1>1, <1>3

\* no_block keeps the invariant.
LEMMA NoBlockStep ==
  ASSUME IInv, Sound, NEW p \in Procs, no_block(p)
  PROVE  TypeOK' /\ Lines' /\ (Sound' => Good')
<1> DEFINE o == call[p]
           d == o.d
           i == dirents[d].inum
           c == Follows(o)
<1>0. /\ o.at \in {"take", "data"} /\ Where(o) \in {"take", "data"} /\ o = call[p]
      /\ UNCHANGED <<disk, dirents, calls, history>>
  BY DEF no_block, At, Where
<1>1. Known(o, d, i)
  BY <1>0, KnownIs
<1>2. /\ DOMAIN o = DOMAIN Idle /\ TypeCall(o) /\ Path(o) /\ Line(o, Open) /\ HasBlock(o)
  BY <1>0, <1>1 DEF Known, TypeCall, HasBlock, InWrite
<1>3. CASE o.op = "write"
  BY <1>0, <1>3, QuietReturn DEF no_block
<1>4. CASE o.op # "write"
  <2>1. Becomes(p, c) /\ Damaged({"nospace"})
    BY <1>4 DEF no_block
  <2>2. o.after \in {"save", "grow", "delete"} /\ o.op # "close"
    BY <1>2, <1>4 DEF Path
  <2>3. /\ SameTask(c, o) /\ SamePage(c, o) /\ c.n = o.n /\ c.table = o.table /\ c.bits = o.bits
        /\ (c.at = "table" /\ c.goal = "save") \/ c.at \in {"grow", "delete"}
    BY <1>2, <2>2, Fields DEF SameTask, SamePage, Follows, ReadsTable, Goes
  <2> HIDE DEF c
  <2>4. TypeCall(c) /\ Line(c, Open)
    <3> HIDE DEF o
    <3> QED BY <1>0, <1>2, <2>2, <2>3, OnCall DEF SameTask, SamePage
  <2>5. Follow(p, c)
    BY <1>0, <2>3, <2>4 DEF Follow, SameTask
  <2>6. ~Sound'
    BY <2>1, HurtIs
  <2>7. inodes' \in [Inums -> Node] /\ bitmap' \in SUBSET Blocks /\ data' = data /\ UNCHANGED history
    BY <1>0, TypeParts DEF IInv, TypeDisk, disk
  <2> QED BY <1>0, <2>1, <2>5, <2>6, <2>7, DamageStep
<1> QED BY <1>3, <1>4

\* delete keeps the invariant, and promises nothing from then on.
LEMMA DeleteStep ==
  ASSUME IInv, Sound, NEW p \in Procs, delete(p)
  PROVE  TypeOK' /\ Lines' /\ (Sound' => Good')
<1> DEFINE o == call[p]
           d == o.d
           i == dirents[d].inum
           node == Copy(d)
           first == [k \in 1 .. Min({Direct, Max({1, BlocksOf(node)})}) |-> node.direct[k - 1]]
           then == IF BlocksOf(node) > Direct THEN "rest" ELSE "none"
           c == [ReadsBits(o, "free") EXCEPT !.victims = first, !.after = then]
<1>0. /\ o.at = "delete" /\ Where(o) = "delete" /\ o = call[p]
         /\ UNCHANGED <<disk, dirents, calls, history>>
      /\ Becomes(p, c) /\ Damaged({"removed"})
  BY DEF delete, At, Where
<1>1. Known(o, d, i)
  BY <1>0, KnownIs
<1>2. /\ DOMAIN o = DOMAIN Idle /\ TypeCall(o) /\ Path(o) /\ Line(o, Open) /\ o.op # "close"
  BY <1>0, <1>1 DEF Known, TypeCall, Path
<1> HIDE DEF first, then
<1>3. /\ SameTask(c, o) /\ c.k = o.k /\ c.lo = o.lo /\ c.hi = o.hi /\ c.n = o.n /\ c.table = o.table
      /\ c.bits = o.bits /\ c.at = "bits" /\ c.goal = "free"
  BY <1>2, Fields DEF SameTask, ReadsBits
<1> HIDE DEF c
<1>4. TypeCall(c) /\ Line(c, Open)
  <2> HIDE DEF o
  <2> QED BY <1>0, <1>2, <1>3, OnCall DEF SameTask
<1>5. Follow(p, c)
  BY <1>0, <1>3, <1>4 DEF Follow, SameTask
<1>6. ~Sound'
  BY <1>0, HurtIs
<1>7. inodes' \in [Inums -> Node] /\ bitmap' \in SUBSET Blocks /\ data' = data /\ UNCHANGED history
  BY <1>0, TypeParts DEF IInv, TypeDisk, disk
<1> QED BY <1>0, <1>5, <1>6, <1>7, DamageStep

\* A removal comes to its end after the damage it has done.
LEMMA Removing ==
  ASSUME IInv, NEW p \in Procs, Where(call[p]) \in {"rest", "free", "bury", "unclaim"}
  PROVE  /\ ~Sound /\ TypeCall(call[p]) /\ Line(call[p], Open) /\ call[p].op # "close"
         /\ call[p].d \in Open /\ Copy(call[p].d) \in Node
<1> DEFINE o == call[p]
<1>1. TypeOK /\ Lines /\ TypeCall(o) /\ Line(o, Open)
  BY TypeCalls DEF IInv, Lines
<1>2. o.d \in Open /\ o.op # "close"
  BY <1>1 DEF Line
<1>3. ASSUME Sound PROVE FALSE
  <2>1. Known(o, o.d, dirents[o.d].inum)
    BY <1>3, KnownIs
  <2> QED BY <2>1 DEF Known, Path
<1> QED BY <1>1, <1>2, <1>3, OpenTyped

\* delete_rest keeps the types and the control.
LEMMA RestStep ==
  ASSUME IInv, NEW p \in Procs, delete_rest(p)
  PROVE  TypeOK' /\ Lines' /\ (Sound' => Good')
<1> DEFINE o == call[p]
           node == Copy(o.d)
           more == [k \in 1 .. Min({Slots, BlocksOf(node) - Direct}) |-> data[node.indirect][k - 1]]
           c == [ReadsBits(o, "free") EXCEPT !.victims = more, !.after = "none"]
<1>0. /\ o.at = "rest" /\ Where(o) = "rest" /\ o = call[p]
         /\ UNCHANGED <<disk, dirents, calls, history, damage>>
      /\ Becomes(p, c)
  BY DEF delete_rest, At, Where
<1>1. ~Sound /\ TypeCall(o) /\ Line(o, Open) /\ o.op # "close" /\ DOMAIN o = DOMAIN Idle
  BY <1>0, Removing DEF TypeCall
<1> HIDE DEF more
<1>3. /\ SameTask(c, o) /\ c.k = o.k /\ c.lo = o.lo /\ c.hi = o.hi /\ c.n = o.n /\ c.table = o.table
      /\ c.bits = o.bits /\ c.at = "bits" /\ c.goal = "free"
  BY <1>1, Fields DEF SameTask, ReadsBits
<1> HIDE DEF c
<1>4. TypeCall(c) /\ Line(c, Open)
  <2> HIDE DEF o
  <2> QED BY <1>0, <1>1, <1>3, OnCall DEF SameTask
<1>5. Follow(p, c)
  BY <1>0, <1>3, <1>4 DEF Follow, SameTask
<1>6. ~Sound'
  BY <1>0, <1>1 DEF Sound
<1>7. inodes' \in [Inums -> Node] /\ bitmap' \in SUBSET Blocks /\ data' = data /\ UNCHANGED history
  BY <1>0, TypeParts DEF IInv, TypeDisk, disk
<1> QED BY <1>0, <1>5, <1>6, <1>7, DamageStep

\* free keeps the types and the control.
LEMMA FreeStep ==
  ASSUME IInv, NEW p \in Procs, free(p)
  PROVE  TypeOK' /\ Lines' /\ (Sound' => Good')
<1> DEFINE o == call[p]
           left == [o EXCEPT !.victims = Tail(@)]
           c == IF left.victims # <<>> THEN ReadsBits(left, "free")
                ELSE IF o.after = "rest" THEN Goes(left, "rest") ELSE ReadsTable(left, "bury")
<1>0. /\ o.at = "free" /\ Where(o) = "free" /\ o = call[p]
         /\ UNCHANGED <<inodes, data, dirents, calls, history, damage>>
      /\ Becomes(p, c) /\ bitmap' = o.bits \ {Head(o.victims)}
  BY DEF free, At, Where
<1>1. ~Sound /\ TypeCall(o) /\ Line(o, Open) /\ o.op # "close" /\ DOMAIN o = DOMAIN Idle
  BY <1>0, Removing DEF TypeCall
<1>2. PICK t : t = Tail(o.victims)
  OBVIOUS
<1>3. /\ SameTask(c, o) /\ c.k = o.k /\ c.lo = o.lo /\ c.hi = o.hi /\ c.n = o.n /\ c.table = o.table
      /\ c.bits = o.bits
      /\ \/ c.at = "bits" /\ c.goal = "free"
         \/ c.at = "rest"
         \/ c.at = "table" /\ c.goal = "bury"
  <2>1. left = [o EXCEPT !.victims = t]
    BY <1>2
  <2> HIDE DEF left, o
  <2>2. /\ SameTask(left, o) /\ left.k = o.k /\ left.lo = o.lo /\ left.hi = o.hi /\ left.n = o.n
        /\ left.table = o.table /\ left.bits = o.bits
    BY <1>1, <2>1, Fields DEF SameTask
  <2>3. c = ReadsBits(left, "free") \/ c = Goes(left, "rest") \/ c = ReadsTable(left, "bury")
    OBVIOUS
  <2> HIDE DEF c
  <2>4. CASE c = ReadsBits(left, "free")
    BY <2>2, <2>4, Fields DEF SameTask, ReadsBits
  <2>5. CASE c = Goes(left, "rest")
    BY <2>2, <2>5, Fields DEF SameTask, Goes
  <2>6. CASE c = ReadsTable(left, "bury")
    BY <2>2, <2>6, Fields DEF SameTask, ReadsTable
  <2> QED BY <2>3, <2>4, <2>5, <2>6
<1> HIDE DEF c
<1>4. TypeCall(c) /\ Line(c, Open)
  <2> HIDE DEF o
  <2> QED BY <1>0, <1>1, <1>3, OnCall DEF SameTask
<1>5. Follow(p, c)
  BY <1>0, <1>3, <1>4 DEF Follow, SameTask
<1>6. ~Sound'
  BY <1>0, <1>1 DEF Sound
<1>7. inodes' \in [Inums -> Node] /\ bitmap' \in SUBSET Blocks
  BY <1>0, <1>1, TypeParts DEF IInv, TypeDisk, TypeCall
<1> QED BY <1>0, <1>5, <1>6, <1>7, DamageStep

\* bury keeps the types and the control.
LEMMA BuryStep ==
  ASSUME IInv, NEW p \in Procs, bury(p)
  PROVE  TypeOK' /\ Lines' /\ (Sound' => Good')
<1> DEFINE o == call[p]
           c == ReadsTable(o, "unclaim")
<1>0. /\ o.at = "bury" /\ Where(o) = "bury" /\ o = call[p]
         /\ UNCHANGED <<bitmap, data, dirents, calls, history>>
      /\ Becomes(p, c) /\ inodes' = [o.table EXCEPT ![o.inum] = Copy(o.d)]
      /\ Damaged(When(o.table # inodes, "raced"))
  BY DEF bury, At, Where, write_table
<1>1. /\ ~Sound /\ TypeCall(o) /\ Line(o, Open) /\ o.op # "close" /\ DOMAIN o = DOMAIN Idle
      /\ Copy(o.d) \in Node
  BY <1>0, Removing DEF TypeCall
<1>3. /\ SameTask(c, o) /\ c.k = o.k /\ c.lo = o.lo /\ c.hi = o.hi /\ c.n = o.n /\ c.table = o.table
      /\ c.bits = o.bits /\ c.at = "table" /\ c.goal = "unclaim"
  BY <1>1, Fields DEF SameTask, ReadsTable
<1> HIDE DEF c
<1>4. TypeCall(c) /\ Line(c, Open)
  <2> HIDE DEF o
  <2> QED BY <1>0, <1>1, <1>3, OnCall DEF SameTask
<1>5. Follow(p, c)
  BY <1>0, <1>3, <1>4 DEF Follow, SameTask
<1>6. ~Sound'
  BY <1>0, <1>1, HurtIs
<1>7. inodes' \in [Inums -> Node] /\ bitmap' \in SUBSET Blocks
  <2>1. o.table \in [Inums -> Node] /\ o.inum \in Inums
    BY <1>0, <1>1 DEF Line, TypeCall
  <2>2. bitmap \in SUBSET Blocks
    BY TypeParts DEF IInv, TypeDisk
  <2> HIDE DEF o
  <2> QED BY <1>0, <1>1, <2>1, <2>2
<1> QED BY <1>0, <1>5, <1>6, <1>7, DamageStep

\* unclaim keeps the types and the control.
LEMMA UnclaimStep ==
  ASSUME IInv, NEW p \in Procs, unclaim(p)
  PROVE  TypeOK' /\ Lines' /\ (Sound' => Good')
<1> DEFINE o == call[p]
<1>0. /\ o.at = "unclaim" /\ Where(o) = "unclaim" /\ o = call[p]
         /\ UNCHANGED <<bitmap, data, dirents, calls, history>>
      /\ Return(p) /\ inodes' = [o.table EXCEPT ![o.inum] = [o.table[o.inum] EXCEPT !.inuse = FALSE]]
      /\ Damaged(When(o.table # inodes, "raced"))
  BY DEF unclaim, At, Where, write_table
<1>1. /\ ~Sound /\ TypeCall(o) /\ Line(o, Open)
  BY <1>0, Removing
<1>2. ~Sound'
  BY <1>0, <1>1, HurtIs
<1>3. inodes' \in [Inums -> Node] /\ bitmap' \in SUBSET Blocks
  <2>1. o.table \in [Inums -> Node] /\ o.inum \in Inums
    BY <1>0, <1>1 DEF Line, TypeCall
  <2>2. bitmap \in SUBSET Blocks
    BY TypeParts DEF IInv, TypeDisk
  <2>3. [o.table[o.inum] EXCEPT !.inuse = FALSE] \in Node
    BY <2>1 DEF Node
  <2> HIDE DEF o
  <2> QED BY <1>0, <1>1, <2>1, <2>2, <2>3
<1>4. Follow(p, Idle) /\ Becomes(p, Idle)
  BY <1>0, IdleOK DEF Follow, Return
<1> QED BY <1>0, <1>2, <1>3, <1>4, DamageStep

\* A block the bitmap does not mark is blank, has no pointer to it and waits for none.
LEMMA FreeBlock ==
  ASSUME IInv, Sound, NEW n \in Numbers, n \notin bitmap
  PROVE  /\ \A j \in Inums, l \in Kinds : Tree[j][l] # n
         /\ \A s \in Page : data[n][s] = Junk
         /\ n \notin Pending
<1>1. Space(Tree, bitmap, Pending, lost) /\ Blank(Tree, data)
  BY GoodParts DEF IInv
<1>2. (\A j \in Inums, l \in Kinds : Tree[j][l] # n) /\ n \notin Pending
  BY <1>1 DEF Space
<1>3. \A s \in Page : data[n][s] = Junk
  BY <1>1, <1>2 DEF Blank
<1> QED BY <1>2, <1>3

\* A block is taken and gets a pointer in an inode.
LEMMA PutGood ==
  ASSUME IInv, Sound, NEW p \in Procs, NEW c, Becomes(p, c), NEW i \in Inums, NEW k \in Kinds,
         NEW n \in Numbers, n \notin bitmap, bitmap' = bitmap \cup {n}, inodes' = inodes, data' = data,
         UNCHANGED history, Agree', Used' = Used, Open' = Open, Lasting, Sz' = Sz,
         Tree[i][k] = Zero, Puts(Tree, Tree', i, k, n),
         \A l \in Slots0 : Behind(l) = k => Start(l) < Sz[i],
         c.at # "pointer", call[p].at # "pointer",
         Fresh(c) => Fresh(call[p]) /\ c.inum = call[p].inum,
         Local(c, dirents', inodes, Used, folders, Sz, Tree', data),
         \A q \in Procs \ {p} : Distinct(c, call[q]) /\ Distinct(call[q], c)
  PROVE  Good'
<1>1. TypeOK /\ Lines /\ Good /\ Agree
  BY GoodParts DEF IInv
<1>2. folders' = folders /\ created' = created /\ written' = written /\ lost' = lost
  BY DEF history
<1>3. (\A j \in Inums, l \in Kinds : Tree[j][l] # n) /\ \A s \in Page : data[n][s] = Junk
  BY FreeBlock
<1>4. n # Zero
  BY Sizes
<1>5. Cells' = Cells
  <2>1. PICK T : T = Tree
    OBVIOUS
  <2>2. PICK U : U = Tree'
    OBVIOUS
  <2>3. PICK D : D = data
    OBVIOUS
  <2>4. Fills(T, U, D, i, k, n)
    BY <1>3, <1>4, <2>1, <2>2, <2>3 DEF Fills
  <2>5. CellsOf(U, D) = CellsOf(T, D)
    BY <2>4, CellsSet
  <2> QED BY <2>1, <2>2, <2>3, <2>5 DEF Cells
<1>6. Grows(Used, folders, Sz, Tree, Used', folders', Sz', Tree')
  <2>1. Grows(Used, folders, Sz, Tree, Used, folders, Sz, Tree)
    BY <1>1, GrowsSame
  <2>2. \A j \in Inums, l \in Kinds : Tree[j][l] # Zero => Tree'[j][l] = Tree[j][l]
    BY DEF Puts
  <2> QED BY <1>2, <2>1, <2>2 DEF Grows
<1>7. \A q \in Procs : Where(call[q]) # "idle" => call[q].d \in Open
  BY <1>1 DEF Lines, Line
<1>8. ASSUME NEW q \in Procs \ {p}
      PROVE  Relies(call[q], dirents, inodes, data, dirents', inodes', data')
  BY <1>1, <1>7, RelyLast DEF Lasting
<1>9. /\ \A q \in Procs : Local(call'[q], dirents', inodes', Used', folders', Sz', Tree', data')
      /\ \A q, r \in Procs : q # r => Distinct(call'[q], call'[r])
  BY <1>1, <1>2, <1>6, <1>8, LocalsNext
<1>10. Pending' = Pending /\ Freshes' \subseteq Freshes
  BY <1>1, PendingIs, FreshesAre, GoodParts
<1>11. Space(Tree', bitmap', Pending', lost')
  <2>1. Space(Tree, bitmap, Pending, lost)
    BY <1>1, GoodParts
  <2> QED BY <1>2, <1>10, <2>1, SpaceSet
<1>12. Blank(Tree', data')
  <2>1. Blank(Tree, data)
    BY <1>1, GoodParts
  <2> QED BY <1>3, <2>1, BlankSet
<1>13. Within(Tree', Sz', folders')
  <2>1. Within(Tree, Sz, folders) /\ folders \subseteq Inums
    BY <1>1, GoodParts DEF TypeOK
  <2>2. \A l \in Slots0 : Behind(l) \in Kinds
    BY KindIs
  <2> QED BY <1>2, <2>1, <2>2 DEF Within, Puts
<1>14. ItemsOK(Cells', Used', folders', Freshes')
  <2>1. ItemsOK(Cells, Used, folders, Freshes) /\ folders \subseteq Used
    BY <1>1, GoodParts DEF Agree
  <2> QED BY <1>2, <1>5, <1>10, <2>1, ItemsKept
<1> QED BY <1>1, <1>2, <1>5, <1>9, <1>11, <1>12, <1>13, <1>14, GoodParts, GoodNext DEF Good2

\* The claims of a call that writes stay when only copies of inodes change.
LEMMA AimLast ==
  ASSUME NEW c, Aim(c, dirents, inodes, Used, folders), Lasting, Open' = Open
  PROVE  Aim(c, dirents', inodes, Used, folders)
<1>1. \A e \in Dirents : dirents'[e] # None => dirents[e] # None /\ dirents'[e].inum = dirents[e].inum
  BY DEF Lasting, Open
<1> QED BY <1>1 DEF Aim

\* The block that has been taken.
LEMMA TakenIs ==
  ASSUME NEW o, TypeCall(o), free_blocks(o) # {}
  PROVE  Min(free_blocks(o)) \in Numbers \ o.bits
<1> DEFINE S == free_blocks(o)
<1>1. S \subseteq Numbers
  BY DEF free_blocks, Numbers
<1>2. Numbers \in SUBSET Int /\ IsFiniteSet(Numbers)
  BY Sizes, FS_Interval DEF Numbers
<1>3. IsFiniteSet(S) /\ S \in SUBSET Int
  BY <1>1, <1>2, FS_Subset
<1>4. Min(S) \in S
  <2> HIDE DEF S
  <2> QED BY <1>3, MinExists DEF S
<1> QED BY <1>4 DEF free_blocks, Numbers

\* The call that has taken a block, whatever it is for.
LEMMA TakeCall ==
  ASSUME NEW o, NEW c, NEW n \in Numbers, TypeCall(o), Path(o), Where(o) = "take",
         DOMAIN c = DOMAIN Idle, SameTask(c, o), SamePage(c, o), c.slot = o.slot, c.n = n,
         c.table = <<>>, c.bits = {}, c.pointers = o.pointers,
         \/ o.slot \in {"direct", "indirect"} /\ c.at = "table" /\ c.goal = "save"
         \/ o.slot = "pointer" /\ c.at = "pointer"
  PROVE  /\ TypeCall(c) /\ Path(c) /\ InWrite(o) /\ InWrite(c) /\ HasBlock(o)
         /\ o.op # "close" /\ c.op # "close"
         /\ \A open : Line(o, open) => Line(c, open)
         /\ Clears(c) <=> o.slot = "indirect"
         /\ Where(c) = (IF o.slot = "pointer" THEN "pointer" ELSE "save")
<1>1. Where(c) = (IF o.slot = "pointer" THEN "pointer" ELSE "save")
  BY DEF Where
<1>2. InWrite(o) /\ InWrite(c) /\ HasBlock(o) /\ HasBlock(c)
  BY <1>1 DEF InWrite, HasBlock
<1>3. TypeCall(c)
  <2>1. c.n \in Blocks \cup {Junk} /\ c.table \in [Inums -> Node] \cup {<<>>} /\ c.bits \in SUBSET Blocks
    BY Sizes
  <2> QED BY <2>1, TypeMoves
<1>4. o.op # "close" /\ c.op # "close"
  BY <1>2 DEF Path, SameTask
<1>5. Path(c)
  BY <1>1, <1>2, <1>4 DEF Path, SameTask, SamePage
<1>6. \A open : Line(o, open) => Line(c, open)
  BY <1>1, <1>4 DEF Line, SameTask
<1>7. Clears(c) <=> o.slot = "indirect"
  BY <1>1 DEF Clears
<1> QED BY <1>1, <1>2, <1>3, <1>4, <1>5, <1>6, <1>7

\* The block that has been taken is no one else's.
LEMMA TakeApart ==
  ASSUME IInv, Sound, NEW p \in Procs, NEW o, NEW c, o = call[p], NEW n \in Numbers, n \notin bitmap,
         c.n = n,
         Fresh(c) <=> Fresh(o), Aims(c) <=> Aims(o), c.inum = o.inum
  PROVE  \A q \in Procs \ {p} : Distinct(c, call[q]) /\ Distinct(call[q], c)
<1> SUFFICES ASSUME NEW q \in Procs \ {p} PROVE Distinct(c, call[q]) /\ Distinct(call[q], c)
  OBVIOUS
<1>1. TypeOK /\ Lines /\ Good /\ n \notin Pending /\ \A j \in Inums, l \in Kinds : Tree[j][l] # n
  BY FreeBlock DEF IInv
<1>2. Distinct(o, call[q]) /\ Distinct(call[q], o)
  BY <1>1, GoodParts
<1>3. call[q].at = "pointer" => call[q].n # n
  BY <1>1 DEF Pending, At
<1>4. Clears(call[q]) => call[q].n # n
  <2>1. SUFFICES ASSUME Clears(call[q]) PROVE call[q].n # n
    OBVIOUS
  <2>2. Where(call[q]) # "idle"
    BY <2>1 DEF Clears
  <2>3. Known(call[q], call[q].d, dirents[call[q].d].inum)
    BY <2>2, KnownIs
  <2>4. PICK j : j = dirents[call[q].d].inum
    OBVIOUS
  <2>5. j \in Inums /\ Found(call[q], Tree[j], data)
    BY <2>3, <2>4 DEF Known
  <2> QED BY <1>1, <2>1, <2>5, KindIs DEF Found
<1> QED BY <1>2, <1>3, <1>4 DEF Distinct

\* A block is taken for a pointer that has no block of its own yet.
LEMMA HeldGood ==
  ASSUME IInv, Sound, NEW p \in Procs, NEW c, Becomes(p, c), NEW n \in Numbers, n \notin bitmap, c.n = n,
         bitmap' = bitmap \cup {n}, inodes' = inodes, data' = data, dirents' = dirents, UNCHANGED history,
         c.at = "pointer", call[p].at # "pointer",
         Fresh(c) => Fresh(call[p]) /\ c.inum = call[p].inum,
         Local(c, dirents, inodes, Used, folders, Sz, Tree, data),
         \A q \in Procs \ {p} : Distinct(c, call[q]) /\ Distinct(call[q], c)
  PROVE  Good'
<1>1. TypeOK /\ Lines /\ Good /\ Agree
  BY GoodParts DEF IInv
<1>2. folders' = folders /\ created' = created /\ written' = written /\ lost' = lost
  BY DEF history
<1>3. Used' = Used /\ Open' = Open
  BY DEF Used, Open
<1>4. SameViews
  BY <1>3 DEF SameViews, View, Views, Copy
<1>5. Tree' = Tree /\ Sz' = Sz
  BY <1>4, TreeViews
<1>6. Cells' = Cells /\ Agree'
  <2>1. Cells' = Cells
    BY <1>5 DEF Cells
  <2>2. Agree'
    BY <1>1, <1>2, <1>3 DEF Agree, EntryOK, Copy
  <2> QED BY <2>1, <2>2
<1>7. Grows(Used, folders, Sz, Tree, Used', folders', Sz', Tree')
  BY <1>1, <1>2, <1>3, <1>5, GrowsSame
<1>8. \A q \in Procs \ {p} : Relies(call[q], dirents, inodes, data, dirents', inodes', data')
  BY <1>1, RelySame, GoodParts
<1>9. /\ \A q \in Procs : Local(call'[q], dirents', inodes', Used', folders', Sz', Tree', data')
      /\ \A q, r \in Procs : q # r => Distinct(call'[q], call'[r])
  BY <1>1, <1>2, <1>3, <1>5, <1>7, <1>8, LocalsNext
<1>10. Pending' = Pending \cup {n} /\ Freshes' \subseteq Freshes
  BY <1>1, PendingIs, FreshesAre, GoodParts
<1>11. Space(Tree', bitmap', Pending', lost')
  <2>1. Space(Tree, bitmap, Pending, lost)
    BY <1>1, GoodParts
  <2> QED BY <1>2, <1>5, <1>10, <2>1, SpaceAdd
<1>12. ItemsOK(Cells', Used', folders', Freshes')
  <2>1. ItemsOK(Cells, Used, folders, Freshes) /\ folders \subseteq Used
    BY <1>1, GoodParts DEF Agree
  <2> QED BY <1>2, <1>3, <1>6, <1>10, <2>1, ItemsKept
<1> QED BY <1>1, <1>2, <1>3, <1>5, <1>6, <1>9, <1>11, <1>12, GoodParts, GoodNext DEF Good2

\* An inode with one more pointer.
LEMMA NodeTakes ==
  ASSUME NEW v \in Node, NEW n \in Numbers
  PROVE  /\ [v EXCEPT !.indirect = n] \in Node /\ [v EXCEPT !.indirect = n].inuse = v.inuse
         /\ \A k \in 0 .. Direct - 1 : [v EXCEPT !.direct[k] = n] \in Node
                                       /\ [v EXCEPT !.direct[k] = n].inuse = v.inuse
<1>1. n \in Blocks
  BY Sizes
<1> QED BY <1>1 DEF Node

\* The record c the call o becomes when it has taken block n.
TakesTo(o, c, n) ==
  c = IF o.slot = "pointer" THEN [Goes(Done(o), "pointer") EXCEPT !.n = n]
      ELSE [ReadsTable(Done(o), "save") EXCEPT !.n = n]

\* Its fields.
LEMMA TakeFields ==
  ASSUME NEW o, NEW n, NEW c, TypeCall(o), TakesTo(o, c, n)
  PROVE  /\ DOMAIN c = DOMAIN Idle /\ SameTask(c, o) /\ SamePage(c, o) /\ c.slot = o.slot /\ c.n = n
         /\ c.table = <<>> /\ c.bits = {} /\ c.pointers = o.pointers
         /\ o.slot # "pointer" => c.at = "table" /\ c.goal = "save"
         /\ o.slot = "pointer" => c.at = "pointer"
<1>1. DOMAIN o = DOMAIN Idle
  BY DEF TypeCall
<1>2. CASE o.slot = "pointer"
  BY <1>1, <1>2, Fields DEF SameTask, SamePage, Goes, Done, TakesTo
<1>3. CASE o.slot # "pointer"
  BY <1>1, <1>3, Fields DEF SameTask, SamePage, Done, ReadsTable, TakesTo
<1> QED BY <1>2, <1>3

\* The call that has taken a block does what it did before for the inode it works on.
LEMMA TakeLocal ==
  ASSUME IInv, Sound, NEW o, NEW c, NEW d, NEW i, Known(o, d, i), SameTask(c, o), SamePage(c, o),
         InWrite(o), InWrite(c), Path(c), HasBlock(o), Lasting, Open' = Open,
         NEW t, Found(c, t, data)
  PROVE  /\ Edit(c) /\ Aim(c, dirents', inodes, Used, folders)
         /\ Reach(c, dirents'[d], Sz[i]) /\ Found(c, t, data)
         /\ (Fresh(c) <=> Fresh(o)) /\ (Aims(c) <=> Aims(o)) /\ c.inum = o.inum /\ c.d = d
         /\ dirents'[d].inum = i
<1>1. /\ Path(o) /\ Edit(o) /\ Aim(o, dirents, inodes, Used, folders) /\ Reach(o, dirents[d], Sz[i])
      /\ TypeCall(o) /\ Sz[i] \in Nat /\ d = o.d /\ d \in Open /\ i = dirents[d].inum
  BY DEF Known
<1>2. /\ Edit(c) /\ Aim(c, dirents, inodes, Used, folders) /\ Reach(c, dirents[d], Sz[i])
      /\ (Fresh(c) <=> Fresh(o)) /\ (Aims(c) <=> Aims(o))
  BY <1>1, WriteMoves
<1>3. Aim(c, dirents', inodes, Used, folders)
  BY <1>2, AimLast
<1>4. dirents'[d].isdir = dirents[d].isdir /\ dirents'[d].inum = dirents[d].inum
  BY <1>1 DEF Lasting
<1>5. Reach(c, dirents'[d], Sz[i])
  BY <1>2, <1>4 DEF Reach
<1> QED BY <1>1, <1>2, <1>3, <1>4, <1>5 DEF SameTask

\* take keeps the invariant: the block was free, and has a pointer or is on its way to one.
LEMMA TakeStep ==
  ASSUME IInv, Sound, NEW p \in Procs, take(p)
  PROVE  TypeOK' /\ Lines' /\ (Sound' => Good')
<1> DEFINE o == call[p]
<1>000. PICK d : d = o.d
  OBVIOUS
<1> DEFINE node == Copy(d)
<1>00. PICK i : i = dirents[d].inum
  OBVIOUS
<1>01. PICK n : n = Min(free_blocks(o))
  OBVIOUS
<1>02. PICK c : TakesTo(o, c, n)
  BY DEF TakesTo
<1>0. /\ o.at = "take" /\ Where(o) = "take" /\ o = call[p] /\ free_blocks(o) # {}
      /\ inodes' = inodes /\ data' = data /\ calls' = calls /\ UNCHANGED history
      /\ bitmap' = o.bits \cup {n} /\ Becomes(p, c)
  BY <1>01, <1>02 DEF take, At, Where, TakesTo
<1>1. Known(o, d, i)
  BY <1>0, <1>000, <1>00, KnownIs
<1>2. /\ TypeCall(o) /\ Path(o) /\ Line(o, Open) /\ Aim(o, dirents, inodes, Used, folders) /\ d = o.d
      /\ Found(o, Tree[i], data) /\ Reach(o, dirents[d], Sz[i])
      /\ d \in Open /\ node \in Node /\ node.inuse /\ i \in Used /\ i \in Inums /\ View(i) = node
      /\ o.slot \in {"direct", "indirect", "pointer"} /\ o.bits \in SUBSET Blocks /\ o.k \in Nat
      /\ o.slot = "direct" => o.k \in 0 .. Direct - 1
      /\ o.slot = "indirect" => o.k >= Direct
  <2>1. o.k \in Nat /\ Direct \in Nat
    BY <1>0, <1>1, Sizes DEF Known, TypeCall
  <2> QED BY <1>0, <1>1, <2>1 DEF Known, TypeCall, Path
<1>3. n \in Numbers \ o.bits
  BY <1>0, <1>01, <1>2, TakenIs
<1>4. /\ DOMAIN c = DOMAIN Idle /\ SameTask(c, o) /\ SamePage(c, o) /\ c.slot = o.slot /\ c.n = n
      /\ c.table = <<>> /\ c.bits = {} /\ c.pointers = o.pointers
      /\ o.slot # "pointer" => c.at = "table" /\ c.goal = "save"
      /\ o.slot = "pointer" => c.at = "pointer"
  <2> HIDE DEF o
  <2> QED BY <1>02, <1>2, TakeFields
<1>5. /\ TypeCall(c) /\ Path(c) /\ InWrite(o) /\ InWrite(c) /\ HasBlock(o)
      /\ o.op # "close" /\ c.op # "close" /\ Line(c, Open)
      /\ Clears(c) <=> o.slot = "indirect"
      /\ Where(c) = (IF o.slot = "pointer" THEN "pointer" ELSE "save")
  <2> HIDE DEF o
  <2> QED BY <1>0, <1>2, <1>3, <1>4, TakeCall
<1>6. TypeOK /\ Lines /\ Good /\ Agree
  BY GoodParts DEF IInv
<1>7. PICK v : v = IF o.slot = "direct" THEN [node EXCEPT !.direct[o.k] = n]
        ELSE [node EXCEPT !.indirect = n]
  OBVIOUS
<1>8. v \in Node /\ v.inuse
  <2> HIDE DEF o, node
  <2> QED BY <1>2, <1>3, <1>7, NodeTakes
<1>9. (o.slot = "pointer" => dirents' = dirents) /\ (o.slot # "pointer" => Changed(d, v))
  BY <1>01, <1>2, <1>7 DEF take
<1>10. dirents' \in [Dirents -> Entry \cup {None}] /\ Open' = Open /\ Lasting
  <2>1. CASE o.slot = "pointer"
    BY <1>6, <1>9, <2>1 DEF TypeOK, Open, Lasting
  <2>2. CASE o.slot # "pointer"
    <3> HIDE DEF o
    <3> QED BY <1>2, <1>6, <1>8, <1>9, <2>2, ChangedIs
  <2> QED BY <2>1, <2>2
<1>11. TypeOK' /\ Lines'
  <2>1. bitmap' \in SUBSET Blocks
    BY <1>0, <1>2, <1>3, Sizes
  <2>2. TypeDisk' /\ TypeHistory' /\ calls' \in 0 .. MaxCalls
    BY <1>0, <1>6, <1>10, <2>1, TypeParts, TypeSame DEF TypeDisk
  <2>3. Follow(p, c)
    BY <1>0, <1>4, <1>5 DEF Follow, SameTask
  <2> QED BY <1>0, <1>6, <1>10, <2>2, <2>3, OpenStep
<1>12. ASSUME Sound' PROVE Good'
  <2>1. /\ o.bits = bitmap
        /\ o.slot = "direct" => node.direct[o.k] = Zero
        /\ o.slot = "indirect" => node.indirect = Zero
        /\ o.slot # "pointer" => Others(d) = {}
    <3>1. PICK old : old = IF o.slot = "direct" THEN node.direct[o.k] ELSE node.indirect
      OBVIOUS
    <3>2. Damaged(When(o.bits # bitmap \/ (o.slot # "pointer" /\ old # Zero), "raced")
                  \cup (IF o.slot = "pointer" THEN {} ELSE Doubled(d)))
      BY <1>000, <3>1 DEF take
    <3>3. When(o.bits # bitmap \/ (o.slot # "pointer" /\ old # Zero), "raced") = {}
          /\ (o.slot # "pointer" => Doubled(d) = {})
      BY <1>12, <3>2, DamageIs
    <3>4. ~(o.bits # bitmap \/ (o.slot # "pointer" /\ old # Zero)) /\ (o.slot # "pointer" => Others(d) = {})
      BY <3>3, WhenIs DEF Doubled
    <3> QED BY <3>1, <3>4
  <2>2. n \notin bitmap /\ bitmap' = bitmap \cup {n} /\ n \in Numbers /\ n # Zero
    BY <1>0, <1>3, <2>1, Sizes
  <2>3. (\A j \in Inums, l \in Kinds : Tree[j][l] # n) /\ \A s \in Page : data[n][s] = Junk
    BY <2>2, FreeBlock
  <2>4. c.at # "idle" /\ Where(c) # "idle" /\ o.at # "pointer" /\ call[p].at # "pointer"
    BY <1>0, <1>2, <1>4, <1>5
  <2>5. ASSUME NEW t, Found(c, t, data)
        PROVE  /\ Edit(c) /\ Aim(c, dirents', inodes, Used, folders)
               /\ Reach(c, dirents'[d], Sz[i]) /\ Found(c, t, data)
               /\ (Fresh(c) <=> Fresh(o)) /\ (Aims(c) <=> Aims(o)) /\ c.inum = o.inum /\ c.d = d
               /\ dirents'[d].inum = i
    <3> HIDE DEF o
    <3> QED BY <1>1, <1>4, <1>5, <1>10, <2>5, TakeLocal
  <2>6. ASSUME NEW t, Found(c, t, data)
        PROVE  \A q \in Procs \ {p} : Distinct(c, call[q]) /\ Distinct(call[q], c)
    BY <1>4, <2>2, <2>5, <2>6, TakeApart
  <2>7. CASE o.slot = "pointer"
    <3>1. Found(c, Tree[i], data)
      BY <1>0, <1>2, <1>4, <1>5, <2>7 DEF Found, SamePage
    <3>2. dirents' = dirents
      BY <1>9, <2>7
    <3>3. Local(c, dirents, inodes, Used, folders, Sz, Tree, data)
      BY <1>00, <1>5, <2>5, <3>1, <3>2 DEF Local
    <3>4. (Fresh(c) => Fresh(call[p]) /\ c.inum = call[p].inum) /\ c.at = "pointer"
      BY <1>4, <2>5, <2>7, <3>1
    <3>5. \A q \in Procs \ {p} : Distinct(c, call[q]) /\ Distinct(call[q], c)
      BY <2>6, <3>1
    <3> HIDE DEF o
    <3> QED BY <1>0, <1>4, <2>2, <2>4, <3>2, <3>3, <3>4, <3>5, HeldGood
  <2>8. ASSUME o.slot # "pointer", NEW k \in Kinds, Tree[i][k] = Zero, Puts(Tree, Tree', i, k, n), Sz' = Sz,
               Agree', Used' = Used, \A l \in Slots0 : Behind(l) = k => Start(l) < Sz[i],
               Found(c, Tree'[i], data)
        PROVE  Good'
    <3>1. Local(c, dirents', inodes, Used, folders, Sz, Tree', data)
      BY <1>5, <2>5, <2>8 DEF Local
    <3>2. (Fresh(c) => Fresh(call[p]) /\ c.inum = call[p].inum) /\ c.at # "pointer"
      BY <1>4, <2>5, <2>8
    <3>3. \A q \in Procs \ {p} : Distinct(c, call[q]) /\ Distinct(call[q], c)
      BY <2>6, <2>8
    <3> HIDE DEF o
    <3> QED BY <1>0, <1>2, <1>10, <2>2, <2>4, <2>8, <3>1, <3>2, <3>3, PutGood
  <2>9. ASSUME o.slot # "pointer"
        PROVE  /\ Agree' /\ Used' = Used /\ View(i)' = v
               /\ \A j \in Inums : j # i => View(j)' = View(j)
    <3>1. Others(d) = {} /\ Changed(d, v) /\ inodes' = inodes /\ folders' = folders
      BY <1>0, <1>9, <2>1, <2>9 DEF history
    <3>2. /\ Agree' /\ Used' = Used /\ View(dirents[d].inum)' = v
          /\ \A j \in Inums : j # dirents[d].inum => View(j)' = View(j)
      BY <1>2, <1>6, <1>8, <3>1, ChangeViews
    <3>3. dirents'[d].inum = i
      BY <1>00, <1>2, <1>10 DEF Lasting
    <3> QED BY <1>00, <3>2, <3>3
  <2>10. CASE o.slot = "direct"
    <3>1. /\ o.k \in Kinds /\ Sz' = Sz
          /\ \A j \in Inums, l \in Kinds : Tree'[j][l] = IF j = i /\ l = o.k THEN n ELSE Tree[j][l]
      <4>1. View(i)' = [View(i) EXCEPT !.direct[o.k] = n] /\ o.k \in 0 .. Direct - 1 /\ View(i) \in Node
        BY <1>2, <1>7, <2>9, <2>10
      <4> HIDE DEF o, node
      <4> QED BY <1>0, <1>2, <2>2, <2>9, <2>10, <4>1, TreeDirect
    <3>2. Puts(Tree, Tree', i, o.k, n)
      BY <3>1 DEF Puts
    <3>3. Tree[i][o.k] = Zero
      BY <1>1, <1>2, <2>1, <2>10, TreeOf
    <3>4. \A l \in Slots0 : Behind(l) = o.k => Start(l) < Sz[i]
      <4>1. o.k < Direct + Slots /\ Start(o.k) < Sz[i]
        BY <1>2, <1>5 DEF Reach
      <4>2. o.k \in Slots0 /\ Behind(o.k) = o.k
        BY <1>2, <2>10, <4>1, Sizes DEF Slots0, Behind
      <4> QED BY <4>1, <4>2, KindIs
    <3>5. Found(c, Tree'[i], data)
      <4>1. c.n = Tree'[i][c.k] /\ c.n # Zero /\ c.slot = "direct" /\ Where(c) = "save" /\ ~Clears(c)
              /\ c.at = "table"
        BY <1>2, <1>4, <1>5, <2>2, <2>10, <3>1 DEF SamePage
      <4> QED BY <4>1 DEF Found
    <3> HIDE DEF o
    <3> QED BY <2>8, <2>9, <2>10, <3>1, <3>2, <3>3, <3>4, <3>5
  <2>11. CASE o.slot = "indirect"
    <3>1. /\ Sz' = Sz
          /\ \A j \in Inums, l \in Kinds : Tree'[j][l] = IF j = i /\ l = Direct THEN n ELSE Tree[j][l]
      <4>1. View(i)' = [View(i) EXCEPT !.indirect = n] /\ View(i).indirect = Zero /\ View(i) \in Node
        BY <1>2, <1>7, <2>1, <2>9, <2>11
      <4> HIDE DEF o, node
      <4> QED BY <1>0, <1>2, <2>2, <2>3, <2>9, <2>11, <4>1, TreeIndirect
    <3>2. Puts(Tree, Tree', i, Direct, n) /\ Direct \in Kinds
      BY <3>1, KindIs DEF Puts
    <3>3. Tree[i][Direct] = Zero
      BY <1>1, <2>1, <2>11, TreeOf
    <3>4. \A l \in Slots0 : Behind(l) = Direct => Start(l) < Sz[i]
      BY KindIs
    <3>5. Found(c, Tree'[i], data)
      <4>1. c.n = Tree'[i][Direct] /\ c.n # Zero /\ c.slot = "indirect" /\ Where(c) = "save"
              /\ c.at = "table"
            /\ c.n = n
        BY <1>2, <1>4, <1>5, <2>2, <2>11, <3>1, <3>2
      <4> QED BY <2>3, <4>1 DEF Found
    <3> QED BY <2>8, <2>9, <2>11, <3>1, <3>2, <3>3, <3>4, <3>5
  <2> QED BY <1>2, <2>7, <2>10, <2>11
<1> QED BY <1>11, <1>12

\* Nothing changes for the copies.
LEMMA AgreeSame ==
  ASSUME Agree, inodes' = inodes, dirents' = dirents, folders' = folders
  PROVE  Agree'
<1>1. Used' = Used /\ Open' = Open
  BY DEF Used, Open
<1> QED BY <1>1 DEF Agree, EntryOK, Copy

\* A block is written and no file holds anything else.
More(T, U) == \A i \in Inums, k \in Kinds : T[i][k] # Zero => U[i][k] = T[i][k]
Fillings(c, D, D2) == Clears(c) => \A s \in Page : D2[c.n][s] = D[c.n][s]
Writes(p, c) ==
  /\ Becomes(p, c) /\ UNCHANGED <<inodes, bitmap, dirents, history>>
  /\ Used' = Used /\ Sz' = Sz /\ Cells' = Cells
  /\ Space(Tree', bitmap, Pending', lost) /\ Blank(Tree', data') /\ Within(Tree', Sz, folders)
  /\ More(Tree, Tree')
  /\ Fresh(c) => Fresh(call[p]) /\ c.inum = call[p].inum
  /\ NoMore(c, call[p])
  /\ Local(c, dirents, inodes, Used, folders, Sz, Tree', data')
  /\ \A q \in Procs \ {p} : Fillings(call[q], data, data')

\* A step that writes one block and fits the pointers keeps the invariant.
LEMMA BlockGood ==
  ASSUME IInv, Sound, NEW p \in Procs, NEW c, Writes(p, c)
  PROVE  Good'
<1>0. /\ Becomes(p, c) /\ UNCHANGED <<inodes, bitmap, dirents, history>>
      /\ Used' = Used /\ Sz' = Sz /\ Cells' = Cells
      /\ Space(Tree', bitmap, Pending', lost) /\ Blank(Tree', data') /\ Within(Tree', Sz, folders)
      /\ More(Tree, Tree')
      /\ Fresh(c) => Fresh(call[p]) /\ c.inum = call[p].inum
      /\ NoMore(c, call[p])
      /\ Local(c, dirents, inodes, Used, folders, Sz, Tree', data')
      /\ \A q \in Procs \ {p} : Fillings(call[q], data, data')
  BY DEF Writes
<1>1. TypeOK /\ Lines /\ Good /\ Agree
  BY GoodParts DEF IInv
<1>2. /\ folders' = folders /\ created' = created /\ written' = written /\ lost' = lost
      /\ inodes' = inodes /\ bitmap' = bitmap /\ dirents' = dirents /\ Open' = Open
  BY <1>0 DEF history, Open
<1>3. Grows(Used, folders, Sz, Tree, Used', folders', Sz', Tree')
  <2>1. Grows(Used, folders, Sz, Tree, Used, folders, Sz, Tree)
    BY <1>1, GrowsSame
  <2> QED BY <1>0, <1>2, <2>1 DEF Grows, More
<1>4. \A q \in Procs : Where(call[q]) # "idle" => call[q].d \in Open
  BY <1>1 DEF Lines, Line
<1>5. ASSUME NEW q \in Procs \ {p}
      PROVE  Relies(call[q], dirents, inodes, data, dirents', inodes', data')
  <2>1. \A e \in Open' \ Open : dirents'[e].inum \notin Freshes
    BY <1>2
  <2> QED BY <1>0, <1>1, <1>2, <1>4, <2>1, RelyLast DEF Fillings
<1>6. \A q \in Procs \ {p} : Distinct(c, call[q]) /\ Distinct(call[q], c)
  BY <1>0, <1>1, GoodParts, DistinctKept
<1>7. /\ \A q \in Procs : Local(call'[q], dirents', inodes', Used', folders', Sz', Tree', data')
      /\ \A q, r \in Procs : q # r => Distinct(call'[q], call'[r])
  BY <1>0, <1>1, <1>2, <1>3, <1>5, <1>6, LocalsNext
<1>8. Freshes' \subseteq Freshes
  BY <1>0, <1>1, FreshesAre
<1>9. Agree'
  BY <1>1, <1>2, AgreeSame
<1>10. ItemsOK(Cells', Used', folders', Freshes')
  <2>1. ItemsOK(Cells, Used, folders, Freshes) /\ folders \subseteq Used
    BY <1>1, GoodParts DEF Agree
  <2> QED BY <1>0, <1>2, <1>8, <2>1, ItemsKept
<1> QED BY <1>0, <1>1, <1>2, <1>7, <1>9, <1>10, GoodParts, GoodNext DEF Good2

\* The next step of a write that only goes on.
LEMMA GoesWrite ==
  ASSUME NEW o, NEW c, NEW l, TypeCall(o), c = Goes(o, l)
  PROVE  /\ SameTask(c, o) /\ SamePage(c, o) /\ c.slot = o.slot /\ c.n = o.n /\ c.table = o.table
         /\ c.bits = o.bits /\ c.pointers = o.pointers /\ c.at = l
<1>1. DOMAIN o = DOMAIN Idle
  BY DEF TypeCall
<1> QED BY <1>1, Fields DEF SameTask, SamePage, Goes

\* The shape of the state after a write of block b.
LEMMA BlockTyped ==
  ASSUME TypeOK, NEW b \in Blocks, NEW page, DOMAIN page = Page, data' = [data EXCEPT ![b] = page],
         UNCHANGED <<inodes, bitmap, dirents>>
  PROVE  TypeDisk' /\ Open' = Open /\ data'[b] = page /\ \A x \in Blocks : x # b => data'[x] = data[x]
<1>1. DOMAIN data = Blocks /\ \A x \in Blocks : DOMAIN data[x] = Page
  BY DEF TypeOK
<1>2. DOMAIN data' = Blocks /\ data'[b] = page /\ \A x \in Blocks : x # b => data'[x] = data[x]
  BY <1>1
<1>3. \A x \in Blocks : DOMAIN data'[x] = Page
  BY <1>1, <1>2
<1> QED BY <1>2, <1>3, TypeParts DEF TypeDisk, Open

\* The indirect block of a file holds nothing of a file.
LEMMA IndirectAside ==
  ASSUME NEW T, NEW bm, NEW pend, NEW gone, Space(T, bm, pend, gone), NEW i \in Inums, T[i][Direct] # Zero
  PROVE  /\ \A j \in Inums, l \in Slots0 : T[j][Behind(l)] # T[i][Direct]
         /\ \A j \in Inums : T[j][Direct] = T[i][Direct] => j = i
<1>1. Direct \in Kinds /\ \A l \in Slots0 : Behind(l) \in Kinds /\ Behind(l) # Direct
  BY KindIs
<1> QED BY <1>1 DEF Space

\* zero keeps the invariant: the block cleared is an indirect one that has no pointer yet.
LEMMA ZeroStep ==
  ASSUME IInv, Sound, NEW p \in Procs, zero(p)
  PROVE  TypeOK' /\ Lines' /\ (Sound' => Good')
<1> DEFINE o == call[p]
<1>00. PICK d : d = o.d
  OBVIOUS
<1>01. PICK i : i = dirents[d].inum
  OBVIOUS
<1>02. PICK c : c = Goes(o, "pointers")
  OBVIOUS
<1>03. PICK b : b = Copy(d).indirect
  OBVIOUS
<1>0. /\ o.at = "zero" /\ Where(o) = "zero" /\ o = call[p] /\ Becomes(p, c)
         /\ UNCHANGED <<inodes, bitmap, dirents, history>>
      /\ data' = [data EXCEPT ![b] = Full(Zero)] /\ calls' = calls
  BY <1>00, <1>02, <1>03 DEF zero, At, Where
<1>1. Known(o, d, i)
  BY <1>0, <1>00, <1>01, KnownIs
<1>2. /\ TypeCall(o) /\ Path(o) /\ Line(o, Open) /\ Edit(o) /\ Aim(o, dirents, inodes, Used, folders)
         /\ d = o.d
      /\ Found(o, Tree[i], data) /\ Reach(o, dirents[d], Sz[i]) /\ d \in Open /\ i \in Used /\ i \in Inums
      /\ o.slot = "indirect" /\ o.k >= Direct
  BY <1>0, <1>1 DEF Known, Path
<1>3. TypeOK /\ Lines /\ Good /\ Agree /\ Space(Tree, bitmap, Pending, lost) /\ Blank(Tree, data)
  BY GoodParts DEF IInv
<1>4. /\ Tree \in [Inums -> [Kinds -> Blocks]] /\ b = Tree[i][Direct] /\ b # Zero /\ b \in Blocks /\ o.n = b
      /\ \A s \in Page : data[b][s] = Junk
  <2>1. Clears(o)
    BY <1>0, <1>2 DEF Clears
  <2>2. Tree \in [Inums -> [Kinds -> Blocks]] /\ b = Tree[i][Direct] /\ b \in Blocks
    BY <1>1, <1>03, TreeOf
  <2> QED BY <1>2, <2>1, <2>2 DEF Found
<1>5. /\ SameTask(c, o) /\ SamePage(c, o) /\ c.slot = o.slot /\ c.n = o.n /\ c.table = o.table
      /\ c.bits = o.bits /\ c.pointers = o.pointers /\ c.at = "pointers"
  <2> HIDE DEF o
  <2> QED BY <1>02, <1>2, GoesWrite
<1>6. Where(c) = "pointers" /\ InWrite(o) /\ InWrite(c) /\ HasBlock(o) /\ HasBlock(c) /\ ~Clears(c)
      /\ o.op # "close" /\ c.op = o.op
  BY <1>0, <1>2, <1>5 DEF Where, InWrite, HasBlock, Clears, Path, SameTask
<1>7. TypeCall(c) /\ Path(c) /\ Line(c, Open)
  <2>1. TypeCall(c)
    <3>1. o.n \in Blocks \cup {Junk}
      BY <1>2 DEF TypeCall
    <3> QED BY <1>2, <1>5, <3>1, TypeMoves
  <2>2. Path(c)
    BY <1>0, <1>2, <1>5, <1>6 DEF Path, SamePage
  <2>3. Line(c, Open)
    BY <1>0, <1>2, <1>5, <1>6 DEF Line, SameTask
  <2> QED BY <2>1, <2>2, <2>3
<1>8. TypeDisk' /\ Open' = Open /\ data'[b] = Full(Zero) /\ \A x \in Blocks : x # b => data'[x] = data[x]
  <2>1. DOMAIN Full(Zero) = Page
    BY DEF Full
  <2> QED BY <1>0, <1>3, <1>4, <2>1, BlockTyped
<1>9. TypeOK' /\ Lines'
  <2>1. TypeHistory' /\ calls' \in 0 .. MaxCalls
    BY <1>0, <1>3, TypeParts, TypeSame
  <2>2. Follow(p, c)
    BY <1>0, <1>5, <1>6, <1>7 DEF Follow, SameTask
  <2> QED BY <1>0, <1>3, <1>8, <2>1, <2>2, OpenStep
<1>10. \A s \in Page : data'[b][s] = Zero
  BY <1>8 DEF Full
<1>11. Used' = Used /\ SameViews
  <2>1. Used' = Used /\ inodes' = inodes /\ dirents' = dirents
    BY <1>0 DEF Used
  <2> QED BY <1>8, <2>1 DEF SameViews, View, Views, Copy
<1>12. Tree' = Tree /\ Sz' = Sz
  <2>1. \A j \in Used : j \in Inums
    BY DEF Used
  <2>2. ASSUME NEW j \in Used, NEW s \in Page, View(j).indirect # Zero
        PROVE  Kept(data'[View(j).indirect][s]) = Kept(data[View(j).indirect][s])
    <3>1. View(j).indirect \in Blocks
      BY <1>3, <2>1, ViewTyped DEF Node
    <3> QED BY <1>4, <1>8, <1>10, <3>1 DEF Kept, Nil
  <2>3. Tree' = Tree
    BY <1>11, <2>1, <2>2, TreeKept DEF SameViews
  <2>4. Sz' = Sz
    BY <1>11 DEF SameViews, Sz
  <2> QED BY <2>3, <2>4
<1>13. \A j \in Inums, l \in Slots0 : Tree[j][Behind(l)] # b
  BY <1>2, <1>3, <1>4, IndirectAside
<1>14. Cells' = Cells
  <2>1. CellsOf(Tree, data') = CellsOf(Tree, data)
    BY <1>4, <1>8, <1>13, CellsAside DEF Avoids
  <2> QED BY <1>12, <2>1 DEF Cells
<1>15. Blank(Tree, data')
  <2>1. Zero \in Blocks /\ \A x \in Numbers : x \in Blocks
    BY Sizes
  <2>2. Direct \in Kinds
    BY KindIs
  <2>3. \A s \in Page : data'[b][s] \in Blocks
    BY <1>10, <2>1
  <2>4. \A j \in Inums : Tree[j][Direct] \in Blocks
    BY <1>4, <2>2
  <2> QED BY <1>2, <1>3, <1>4, <1>8, <2>1, <2>2, <2>3, <2>4 DEF Blank
<1>16. Edit(c) /\ Aim(c, dirents, inodes, Used, folders) /\ Reach(c, dirents[d], Sz[i])
       /\ (Fresh(c) <=> Fresh(o)) /\ (Aims(c) <=> Aims(o))
  BY <1>2, <1>5, <1>6, <1>7, WriteMoves
<1>17. Found(c, Tree[i], data')
  BY <1>2, <1>4, <1>5, <1>6 DEF Found, SamePage
<1>18. Local(c, dirents, inodes, Used, folders, Sz, Tree, data')
  <2>1. c.d = d
    BY <1>2, <1>5 DEF SameTask
  <2> QED BY <1>01, <1>7, <1>16, <1>17, <2>1 DEF Local
<1>19. NoMore(c, o) /\ c.inum = o.inum /\ o.at # "pointer" /\ c.at # "pointer"
  BY <1>0, <1>5, <1>6, <1>16 DEF NoMore, SameTask
<1>20. Pending' = Pending
  BY <1>0, <1>3, <1>19, PendingIs, GoodParts
<1>21. ASSUME NEW q \in Procs \ {p}, Clears(call[q])
         PROVE \A s \in Page : data'[call[q].n][s] = data[call[q].n][s]
  <2>1. Distinct(o, call[q]) /\ Clears(o)
    BY <1>0, <1>2, <1>3, GoodParts DEF Clears
  <2>2. call[q].n # b
    BY <1>4, <1>21, <2>1 DEF Distinct
  <2>3. PICK j : j = dirents[call[q].d].inum
    OBVIOUS
  <2>4. Known(call[q], call[q].d, j)
    BY <1>21, <2>3, KnownIs DEF Clears
  <2>5. call[q].n \in Blocks
    BY <1>4, <1>21, <2>4, KindIs DEF Known, Found
  <2> QED BY <1>8, <2>2, <2>5
<1> HIDE DEF o
<1>22. Good'
  <2>1. Within(Tree, Sz, folders) /\ More(Tree, Tree')
    BY <1>3, <1>12, GoodParts DEF More
  <2>2. Writes(p, c)
    BY <1>0, <1>3, <1>11, <1>12, <1>14, <1>15, <1>16, <1>18, <1>19, <1>20, <1>21, <2>1
         DEF Writes, Fillings, history
  <2> QED BY <2>2, BlockGood
<1> QED BY <1>9, <1>22

\* A block without anything gets a pointer, and what the block of pointers holds is not
\* part of a file.
LEMMA CellsFill ==
  ASSUME NEW T, NEW U, NEW D, NEW D2, NEW i, NEW k, NEW n, NEW b, Fills(T, U, D, i, k, n),
         Avoids(T, D, D2, b),
         U \in [Inums -> [Kinds -> Blocks]], n # b
  PROVE  CellsOf(U, D2) = CellsOf(T, D)
<1>1. CellsOf(U, D) = CellsOf(T, D)
  BY CellsSet
<1>2. \A j \in Inums, l \in Slots0 : U[j][Behind(l)] # b
  <2>1. \A l \in Slots0 : Behind(l) \in Kinds
    BY KindIs
  <2> QED BY <2>1 DEF Fills, Avoids, Puts
<1>3. Avoids(U, D, D2, b)
  BY <1>2 DEF Avoids
<1>4. CellsOf(U, D2) = CellsOf(U, D)
  BY <1>3, CellsAside
<1> QED BY <1>1, <1>4

\* A taken block gets a pointer in the indirect block: x is the slot it goes to.
LEMMA PointerTree ==
  ASSUME TypeOK, Agree, Space(Tree, bitmap, Pending, lost), Blank(Tree, data),
         NEW i \in Used, i \in Inums, NEW x \in Page, NEW b, b = Tree[i][Direct], b # Zero, b \in Blocks,
         NEW n \in Pending, SameViews, View(i).indirect = b, Tree \in [Inums -> [Kinds -> Blocks]],
         data[b][x] = Zero, \A s \in Page : data[b][s] \in Blocks,
         \A s \in Page : data'[b][s] = IF s = x THEN n ELSE data[b][s],
         \A y \in Blocks : y # b => data'[y] = data[y]
  PROVE  /\ Puts(Tree, Tree', i, Direct + 1 + x, n) /\ Sz' = Sz /\ Direct + 1 + x \in Kinds
         /\ Tree[i][Direct + 1 + x] = Zero /\ Tree' \in [Inums -> [Kinds -> Blocks]]
         /\ n \in Numbers /\ \A j \in Inums, l \in Kinds : Tree[j][l] # n
         /\ Blank(Tree', data') /\ CellsOf(Tree', data') = CellsOf(Tree, data)
<1>1. n \in Numbers /\ n \in Blocks /\ n # Zero /\ b \in Numbers
        /\ \A j \in Inums, l \in Kinds : Tree[j][l] # n
  BY Sizes DEF Space
<1>2. Direct \in Kinds /\ Direct + 1 + x \in Kinds /\ Direct + 1 + x # Direct
  BY KindIs
<1>3. n # b
  BY <1>1, <1>2
<1>4. \A j \in Inums : Tree[j][Direct] = b => j = i
  BY IndirectAside
<1>5. ASSUME NEW j \in Used, NEW s \in Page, j # i, View(j).indirect # Zero
      PROVE  Kept(data'[View(j).indirect][s]) = Kept(data[View(j).indirect][s])
  <2>1. j \in Inums /\ View(j).indirect \in Blocks
    BY ViewTyped DEF Used, Node
  <2>2. Tree[j][Direct] = View(j).indirect
    BY <1>5, TreeIs
  <2>3. View(j).indirect # b
    BY <1>4, <1>5, <2>1, <2>2
  <2> QED BY <2>1, <2>3
<1>6. /\ \A j \in Inums, l \in Kinds : Tree'[j][l] = IF j = i /\ l = Direct + 1 + x THEN n ELSE Tree[j][l]
      /\ Sz' = Sz
  BY <1>1, <1>5, TreeBehind
<1>7. Puts(Tree, Tree', i, Direct + 1 + x, n)
  BY <1>6 DEF Puts
<1>8. Tree[i][Direct + 1 + x] = Zero
  <2>1. Tree[i][Direct + 1 + x] = Kept(data[b][x])
    BY TreeIs
  <2> QED BY <2>1 DEF Kept, Nil
<1>9. Tree' \in [Inums -> [Kinds -> Blocks]]
  <2>1. \A j \in Inums, l \in Kinds : Tree'[j][l] \in Blocks
    BY <1>1, <1>6
  <2>2. Tree' = [j \in Inums |-> [l \in Kinds |-> Tree'[j][l]]]
    BY DEF Tree
  <2> QED BY <2>1, <2>2
<1>10. \A s \in Page : data[n][s] = Junk
  BY <1>1 DEF Blank
<1>11. Blank(Tree', data')
  <2>1. \A j \in Inums : Tree'[j][Direct] = Tree[j][Direct]
    BY <1>2, <1>6
  <2>2. \A s \in Page : data'[b][s] \in Blocks
    BY <1>1
  <2>3. data'[Zero] = data[Zero]
    BY Sizes
  <2>4. ASSUME NEW y \in Numbers, \A j \in Inums, l \in Kinds : Tree'[j][l] # y
        PROVE  \A s \in Page : data'[y][s] = Junk
    <3>1. y # n /\ y # b /\ y \in Blocks
      <4>1. Tree'[i][Direct + 1 + x] = n /\ Tree'[i][Direct] = b
        BY <1>2, <1>6, <2>1
      <4>2. y # n /\ y # b
        BY <1>2, <2>4, <4>1
      <4> QED BY <4>2, Sizes
    <3>2. \A j \in Inums, l \in Kinds : Tree[j][l] # y
      BY <1>6, <1>8, <2>4, <3>1, Sizes
    <3> QED BY <3>1, <3>2 DEF Blank
  <2>5. ASSUME NEW j \in Inums, Tree'[j][Direct] # Zero
        PROVE  (\A s \in Page : data'[Tree'[j][Direct]][s] = Junk)
               \/ \A s \in Page : data'[Tree'[j][Direct]][s] \in Blocks
    <3>1. CASE Tree[j][Direct] = b
      BY <2>1, <2>2, <3>1
    <3>2. CASE Tree[j][Direct] # b
      <4>1. Tree[j][Direct] \in Blocks
        BY <1>2
      <4>2. data'[Tree[j][Direct]] = data[Tree[j][Direct]]
        BY <3>2, <4>1
      <4> QED BY <2>1, <2>5, <4>2 DEF Blank
    <3> QED BY <3>1, <3>2
  <2> QED BY <2>3, <2>4, <2>5 DEF Blank
<1>12. CellsOf(Tree', data') = CellsOf(Tree, data)
  <2>1. PICK T : T = Tree
    OBVIOUS
  <2>2. PICK U : U = Tree'
    OBVIOUS
  <2>3. PICK D : D = data
    OBVIOUS
  <2>4. PICK D2 : D2 = data'
    OBVIOUS
  <2>5. PICK k : k = Direct + 1 + x
    OBVIOUS
  <2>6. Fills(T, U, D, i, k, n) /\ U \in [Inums -> [Kinds -> Blocks]]
    BY <1>1, <1>2, <1>7, <1>8, <1>9, <1>10, <2>1, <2>2, <2>3, <2>5 DEF Fills
  <2>7. \A j \in Inums, l \in Slots0 : Tree[j][Behind(l)] # b
    BY IndirectAside
  <2>8. Avoids(T, D, D2, b)
    BY <2>1, <2>3, <2>4, <2>7 DEF Avoids
  <2>9. CellsOf(U, D2) = CellsOf(T, D)
    BY <1>3, <2>6, <2>8, CellsFill
  <2> QED BY <2>1, <2>2, <2>3, <2>4, <2>9
<1> QED BY <1>1, <1>2, <1>6, <1>7, <1>8, <1>9, <1>11, <1>12

\* The page with the pointer in it.
LEMMA PointerPage ==
  ASSUME NEW page, DOMAIN page = Page, NEW x \in Page, NEW n
  PROVE  DOMAIN [page EXCEPT ![x] = n] = Page
           /\ \A s \in Page : [page EXCEPT ![x] = n][s] = IF s = x THEN n ELSE page[s]
OBVIOUS

\* pointer keeps the invariant: the page written is the indirect block but for one pointer.
LEMMA PointerStep ==
  ASSUME IInv, Sound, NEW p \in Procs, pointer(p)
  PROVE  TypeOK' /\ Lines' /\ (Sound' => Good')
<1> DEFINE o == call[p]
<1>00. PICK d : d = o.d
  OBVIOUS
<1>01. PICK i : i = dirents[d].inum
  OBVIOUS
<1>02. PICK c : c = Goes(o, "data")
  OBVIOUS
<1>03. PICK b : b = Copy(d).indirect
  OBVIOUS
<1>04. PICK x : x = o.k - Direct
  OBVIOUS
<1>05. PICK n : n = o.n
  OBVIOUS
<1>06. PICK page : page = [o.pointers EXCEPT ![x] = n]
  OBVIOUS
<1>0. /\ o.at = "pointer" /\ Where(o) = "pointer" /\ o = call[p] /\ Becomes(p, c)
      /\ UNCHANGED <<inodes, bitmap, dirents, history>>
      /\ data' = [data EXCEPT ![b] = page] /\ calls' = calls
      /\ Damaged(When(data[b] # o.pointers, "raced"))
  BY <1>00, <1>02, <1>03, <1>04, <1>05, <1>06 DEF pointer, At, Where
<1>1. Known(o, d, i)
  BY <1>0, <1>00, <1>01, KnownIs
<1>2. /\ TypeCall(o) /\ Path(o) /\ Line(o, Open) /\ Edit(o) /\ Aim(o, dirents, inodes, Used, folders)
         /\ d = o.d
      /\ Found(o, Tree[i], data) /\ Reach(o, dirents[d], Sz[i]) /\ d \in Open /\ i \in Used /\ i \in Inums
      /\ o.slot = "pointer" /\ o.k >= Direct /\ View(i) = Copy(d)
  BY <1>0, <1>1 DEF Known, Path
<1>3. TypeOK /\ Lines /\ Good /\ Agree /\ Space(Tree, bitmap, Pending, lost) /\ Blank(Tree, data)
  BY GoodParts DEF IInv
<1>4. /\ Tree \in [Inums -> [Kinds -> Blocks]] /\ b = Tree[i][Direct] /\ b # Zero /\ b \in Blocks
      /\ DOMAIN o.pointers = Page /\ o.pointers[x] = Zero /\ \A s \in Page : o.pointers[s] \in Blocks
  <2>1. Tree \in [Inums -> [Kinds -> Blocks]] /\ b = Tree[i][Direct] /\ b \in Blocks
    BY <1>1, <1>03, TreeOf
  <2> QED BY <1>0, <1>04, <1>2, <2>1 DEF Found
<1>5. /\ SameTask(c, o) /\ SamePage(c, o) /\ c.slot = o.slot /\ c.n = o.n /\ c.table = o.table
      /\ c.bits = o.bits /\ c.pointers = o.pointers /\ c.at = "data"
  <2> HIDE DEF o
  <2> QED BY <1>02, <1>2, GoesWrite
<1>6. Where(c) = "data" /\ InWrite(o) /\ InWrite(c) /\ HasBlock(o) /\ HasBlock(c) /\ ~Clears(c)
      /\ o.op # "close" /\ c.op = o.op
  BY <1>0, <1>2, <1>5 DEF Where, InWrite, HasBlock, Clears, Path, SameTask
<1>7. TypeCall(c) /\ Path(c) /\ Line(c, Open)
  <2>1. TypeCall(c)
    <3>1. o.n \in Blocks \cup {Junk}
      BY <1>2 DEF TypeCall
    <3> QED BY <1>2, <1>5, <3>1, TypeMoves
  <2>2. Path(c)
    BY <1>0, <1>2, <1>5, <1>6 DEF Path, SamePage
  <2>3. Line(c, Open)
    BY <1>0, <1>2, <1>5, <1>6 DEF Line, SameTask
  <2> QED BY <2>1, <2>2, <2>3
<1>8. /\ o.k < Direct + Slots /\ Start(o.k) < Sz[i] /\ o.k \in Slots0 /\ x \in Page
      /\ Behind(o.k) = Direct + 1 + x
  <2>1. o.k < Direct + Slots /\ Start(o.k) < Sz[i]
    BY <1>2, <1>6 DEF Reach
  <2>2. o.k \in Nat
    BY <1>2 DEF TypeCall
  <2>3. o.k \in Slots0 /\ ~(o.k < Direct)
    BY <1>2, <2>1, <2>2, Sizes DEF Slots0
  <2> QED BY <1>04, <2>1, <2>3, KindIs
<1>9. DOMAIN page = Page /\ \A s \in Page : page[s] = IF s = x THEN n ELSE o.pointers[s]
  <2> HIDE DEF o
  <2> QED BY <1>06, <1>4, <1>8, PointerPage
<1>10. TypeDisk' /\ Open' = Open /\ data'[b] = page /\ \A y \in Blocks : y # b => data'[y] = data[y]
  BY <1>0, <1>3, <1>4, <1>9, BlockTyped
<1>11. TypeOK' /\ Lines'
  <2>1. TypeHistory' /\ calls' \in 0 .. MaxCalls
    BY <1>0, <1>3, TypeParts, TypeSame
  <2>2. Follow(p, c)
    BY <1>0, <1>5, <1>6, <1>7 DEF Follow, SameTask
  <2> QED BY <1>0, <1>3, <1>10, <2>1, <2>2, OpenStep
<1>12. ASSUME Sound' PROVE Good'
  <2>1. data[b] = o.pointers
    BY <1>0, <1>12, DamageIs, WhenIs
  <2>2. Used' = Used /\ SameViews
    <3>1. Used' = Used /\ inodes' = inodes /\ dirents' = dirents
      BY <1>0 DEF Used
    <3> QED BY <1>10, <3>1 DEF SameViews, View, Views, Copy
  <2>3. n \in Pending
    BY <1>0, <1>05 DEF Pending, At
  <2>4. /\ Puts(Tree, Tree', i, Direct + 1 + x, n) /\ Sz' = Sz /\ Direct + 1 + x \in Kinds
        /\ Tree[i][Direct + 1 + x] = Zero /\ Tree' \in [Inums -> [Kinds -> Blocks]]
        /\ n \in Numbers /\ \A j \in Inums, l \in Kinds : Tree[j][l] # n
        /\ Blank(Tree', data') /\ CellsOf(Tree', data') = CellsOf(Tree, data)
    <3>1. data[b][x] = Zero /\ \A s \in Page : data[b][s] \in Blocks
      BY <1>4, <2>1
    <3>2. \A s \in Page : data'[b][s] = IF s = x THEN n ELSE data[b][s]
      BY <1>9, <1>10, <2>1
    <3>3. View(i).indirect = b
      BY <1>03, <1>2
    <3> HIDE DEF o
    <3> QED BY <1>2, <1>3, <1>4, <1>8, <1>10, <2>2, <2>3, <3>1, <3>2, <3>3, PointerTree
  <2>5. Cells' = Cells
    BY <2>4 DEF Cells
  <2>6. n # Zero
    BY <2>4, Sizes
  <2>7. More(Tree, Tree')
    BY <2>4 DEF Puts, More
  <2>8. Tree'[i][Direct] = b /\ Tree'[i][Behind(o.k)] = n
    <3>1. Direct \in Kinds
      BY KindIs
    <3> QED BY <1>2, <1>4, <1>8, <2>4, <2>7, <3>1 DEF Puts, More
  <2>9. Within(Tree', Sz, folders)
    <3>1. Within(Tree, Sz, folders) /\ folders \subseteq Inums
      BY <1>3, GoodParts DEF TypeOK
    <3>2. \A l \in Slots0 : Behind(l) \in Kinds
      BY KindIs
    <3>3. \A l \in Slots0 : Behind(l) = Direct + 1 + x => l = o.k
      BY <1>8, KindIs
    <3> QED BY <1>8, <2>4, <3>1, <3>2, <3>3 DEF Within, Puts
  <2>10. Edit(c) /\ Aim(c, dirents, inodes, Used, folders) /\ Reach(c, dirents[d], Sz[i])
         /\ (Fresh(c) <=> Fresh(o)) /\ (Aims(c) <=> Aims(o))
    BY <1>2, <1>5, <1>6, <1>7, WriteMoves
  <2>11. Found(c, Tree'[i], data')
    BY <1>05, <1>2, <1>4, <1>5, <1>6, <2>6, <2>8 DEF Found, SamePage
  <2>12. Local(c, dirents, inodes, Used, folders, Sz, Tree', data')
    <3>1. c.d = d
      BY <1>2, <1>5 DEF SameTask
    <3> QED BY <1>01, <1>7, <2>10, <2>11, <3>1 DEF Local
  <2>13. NoMore(c, o) /\ c.inum = o.inum /\ c.at # "pointer"
    BY <1>0, <1>5, <1>6, <2>10 DEF NoMore, SameTask
  <2>14. Pending' = Pending \ {n}
    BY <1>0, <1>05, <1>3, <2>13, PendingIs, GoodParts
  <2>15. Space(Tree', bitmap, Pending', lost)
    BY <1>2, <1>3, <2>3, <2>4, <2>14, SpaceFill
  <2>16. ASSUME NEW q \in Procs \ {p}, Clears(call[q])
           PROVE \A s \in Page : data'[call[q].n][s] = data[call[q].n][s]
    <3>1. PICK j : j = dirents[call[q].d].inum
      OBVIOUS
    <3>2. Known(call[q], call[q].d, j)
      BY <2>16, <3>1, KnownIs DEF Clears
    <3>3. call[q].n \in Blocks /\ \A s \in Page : data[call[q].n][s] = Junk
      BY <1>4, <2>16, <3>2, KindIs DEF Known, Found
    <3>4. call[q].n # b
      BY <1>4, <1>8, <2>1, <3>3, Sizes
    <3> QED BY <1>10, <3>3, <3>4
  <2>17. (Fresh(c) => Fresh(call[p]) /\ c.inum = call[p].inum) /\ NoMore(c, call[p])
    BY <2>10, <2>13
  <2>18. Becomes(p, c) /\ UNCHANGED <<inodes, bitmap, dirents, history>>
    BY <1>0
  <2>19. Used' = Used /\ Sz' = Sz /\ Blank(Tree', data')
    BY <2>2, <2>4
  <2> HIDE DEF o
  <2>20. Writes(p, c)
    BY <2>5, <2>7, <2>9, <2>12, <2>16, <2>17, <2>18, <2>15, <2>19 DEF Writes, Fillings
  <2> QED BY <2>20, BlockGood
<1> QED BY <1>11, <1>12

\* What a call becomes when it has written its block.
WritesTo(o, c) ==
  c = [Follows(o) EXCEPT !.n = Zero, !.slot = "none", !.after = "none",
                         !.page = <<>>, !.from = None, !.pointers = <<>>]

\* Its fields.
LEMMA WroteFields ==
  ASSUME NEW o, NEW c, TypeCall(o), WritesTo(o, c)
  PROVE  /\ SameTask(c, o) /\ c.k = o.k /\ c.lo = o.lo /\ c.hi = o.hi /\ c.table = o.table
            /\ c.bits = o.bits
         /\ c.n = Zero /\ c.slot = "none"
         /\ (o.after = "save" => c.at = "table" /\ c.goal = "save") /\ (o.after # "save" => c.at = o.after)
<1>1. DOMAIN o = DOMAIN Idle
  BY DEF TypeCall
<1>2. CASE o.after = "save"
  BY <1>1, <1>2, Fields DEF SameTask, Goes, ReadsTable, Follows, WritesTo
<1>3. CASE o.after # "save"
  BY <1>1, <1>3, Fields DEF SameTask, Goes, ReadsTable, Follows, WritesTo
<1> QED BY <1>2, <1>3

\* What is known of a call that has written its block.
LEMMA WroteCall ==
  ASSUME NEW o, NEW c, NEW E, NEW N, NEW U, NEW F, NEW e, NEW z, NEW t, NEW D,
         TypeCall(o), Path(o), Aim(o, E, N, U, F), Reach(o, e, z), o.at = "data", WritesTo(o, c)
  PROVE  /\ TypeCall(c) /\ Path(c) /\ Edit(c) /\ Aim(c, E, N, U, F) /\ Reach(c, e, z) /\ Found(c, t, D)
         /\ \A open : Line(o, open) => Line(c, open)
         /\ ~Fresh(c) /\ NoMore(c, o) /\ Where(c) # "idle" /\ c.at # "pointer"
         /\ c.d = o.d /\ c.op = o.op /\ o.op # "close" /\ Where(o) = "data" /\ InWrite(o) /\ HasBlock(o)
         /\ o.op = "create" => Fresh(o) /\ Aims(o)
<1>1. /\ SameTask(c, o) /\ c.k = o.k /\ c.lo = o.lo /\ c.hi = o.hi /\ c.table = o.table /\ c.bits = o.bits
      /\ c.n = Zero /\ c.slot = "none"
      /\ (o.after = "save" => c.at = "table" /\ c.goal = "save") /\ (o.after # "save" => c.at = o.after)
  BY WroteFields
<1>2. Where(o) = "data" /\ InWrite(o) /\ HasBlock(o) /\ o.op # "close"
      /\ \/ o.op = "write" /\ o.after = "next"
         \/ o.op = "create" /\ o.after \in {"save", "grow"}
         \/ o.op = "remove" /\ o.after = "delete"
  <2>1. Where(o) = "data" /\ InWrite(o) /\ HasBlock(o)
    BY DEF Where, InWrite, HasBlock
  <2> QED BY <2>1 DEF Path
<1>3. /\ c.op = o.op /\ c.d = o.d /\ c.inum = o.inum /\ c.isdir = o.isdir /\ c.name = o.name
      /\ c.off = o.off /\ c.len = o.len /\ DOMAIN c = DOMAIN Idle
  BY <1>1 DEF SameTask
<1>4. Where(c) = o.after /\ Where(c) \in {"next", "save", "grow", "delete"}
        /\ c.at \in {"table", "next", "grow", "delete"}
  BY <1>1, <1>2 DEF Where
<1>5. ~InWrite(c) /\ ~HasBlock(c) /\ ~Fresh(c) /\ ~Clears(c) /\ (Aims(c) => c.op = "create")
  BY <1>1, <1>4 DEF InWrite, HasBlock, Fresh, Clears, Aims
<1>6. o.op = "create" => Fresh(o) /\ Aims(o)
  BY <1>2 DEF Fresh, Aims
<1>7. TypeCall(c)
  BY <1>1, <1>3, Sizes DEF TypeCall
<1>8. Path(c)
  BY <1>1, <1>2, <1>3, <1>4, <1>5 DEF Path
<1>9. Edit(c)
  BY <1>4, <1>5 DEF Edit
<1>10. Aim(c, E, N, U, F)
  BY <1>3, <1>5, <1>6 DEF Aim
<1>11. Reach(c, e, z)
  BY <1>1, <1>2, <1>3, <1>4, <1>5 DEF Reach
<1>12. Found(c, t, D)
  BY <1>1, <1>4, <1>5 DEF Found
<1>13. \A open : Line(o, open) => Line(c, open)
  BY <1>1, <1>2, <1>3, <1>4 DEF Line
<1>14. NoMore(c, o)
  BY <1>3, <1>4, <1>5, <1>6 DEF NoMore
<1> QED BY <1>2, <1>3, <1>4, <1>5, <1>6, <1>7, <1>8, <1>9, <1>10, <1>11, <1>12, <1>13, <1>14

\* A block of a file is not an indirect block of one: a write of it changes no pointer.
LEMMA WriteTree ==
  ASSUME TypeOK, Agree, Space(Tree, bitmap, Pending, lost), Blank(Tree, data),
         NEW i \in Inums, NEW k \in Slots0, NEW n, n = Tree[i][Behind(k)], n # Zero,
         inodes' = inodes, dirents' = dirents, \A y \in Blocks : y # n => data'[y] = data[y]
  PROVE  /\ Used' = Used /\ Open' = Open /\ Sz' = Sz /\ Tree' = Tree /\ Blank(Tree, data') /\ n \in Blocks
         /\ \A j \in Inums, l \in Slots0 : Tree[j][Behind(l)] = n => j = i /\ l = k
         /\ \A j \in Inums : Tree[j][Direct] # n
<1>1. Tree \in [Inums -> [Kinds -> Blocks]] /\ Behind(k) \in Kinds /\ Behind(k) # Direct /\ Direct \in Kinds
      /\ n \in Blocks /\ n \in Numbers
  <2>1. Tree \in [Inums -> [Kinds -> Blocks]] /\ Behind(k) \in Kinds /\ Behind(k) # Direct
          /\ Direct \in Kinds
    BY TreeIs, KindIs
  <2> QED BY <2>1, Sizes
<1>2. \A j \in Inums, l \in Slots0 : Tree[j][Behind(l)] = n => j = i /\ l = k
  <2>1. \A l \in Slots0 : Behind(l) \in Kinds /\ (Behind(l) = Behind(k) => l = k)
    BY KindIs
  <2> QED BY <1>1, <2>1 DEF Space
<1>3. \A j \in Inums : Tree[j][Direct] # n
  BY <1>1 DEF Space
<1>4. Used' = Used /\ Open' = Open
  BY DEF Used, Open
<1>5. SameViews
  BY <1>4 DEF SameViews, View, Views, Copy
<1>6. ASSUME NEW j \in Used, NEW s \in Page, View(j).indirect # Zero
      PROVE  Kept(data'[View(j).indirect][s]) = Kept(data[View(j).indirect][s])
  <2>1. j \in Inums /\ View(j).indirect \in Blocks
    BY ViewTyped DEF Used, Node
  <2>2. Tree[j][Direct] = View(j).indirect
    BY TreeIs
  <2> QED BY <1>3, <2>1, <2>2
<1>7. Tree' = Tree /\ Sz' = Sz
  <2>1. \A j \in Used : j \in Inums
    BY DEF Used
  <2>2. Tree' = Tree
    BY <1>4, <1>5, <1>6, <2>1, TreeKept DEF SameViews
  <2> QED BY <1>5, <2>2 DEF SameViews, Sz
<1>8. Blank(Tree, data')
  <2>1. \A y \in Numbers : y \in Blocks
    BY Sizes
  <2>2. data'[Zero] = data[Zero]
    BY Sizes
  <2>3. \A j \in Inums : Tree[j][Direct] \in Blocks
    BY <1>1
  <2>4. \A y \in Numbers : (\A j \in Inums, l \in Kinds : Tree[j][l] # y) => data'[y] = data[y]
    BY <1>1, <2>1
  <2>5. \A j \in Inums : data'[Tree[j][Direct]] = data[Tree[j][Direct]]
    BY <1>3, <2>3
  <2> QED BY <2>2, <2>4, <2>5 DEF Blank
<1> QED BY <1>1, <1>2, <1>3, <1>4, <1>7, <1>8

\* What a call that writes block n writes: what there was, or nothing, but for its slots.
Writing(o, D, D2) ==
  /\ \A s \in Page : Kept(D2[o.n][s]) = IF s \in o.lo .. o.hi THEN Kept(o.word) ELSE Kept(D[o.n][s])
  /\ o.op = "create" => Kept(D[o.n][o.lo]) = Zero
  /\ o.op = "remove" => Kept(D[o.n][o.lo]) # Zero /\ Kept(D[o.n][o.lo]).name = o.name

\* A write whose page was not out of date changes only the slots it is about.
LEMMA PageWritten ==
  ASSUME NEW o, NEW D, NEW D2, Edit(o), InWrite(o), HasBlock(o), TypeCall(o), Path(o), o.n \in Blocks,
         o.n # None,
         D2[o.n] = [s \in Page |-> IF s \in o.lo .. o.hi THEN o.word ELSE o.page[s]],
         ~((IF o.slot = "none" THEN o.from # o.n \/ D[o.n] # o.page
            ELSE o.from \notin {None, Zero, Junk} \/ D[o.n] # Full(Junk))
           /\ ~(o.op = "write" /\ o.lo = 0 /\ o.hi = Slots - 1))
  PROVE  Writing(o, D, D2)
<1>1. o.lo \in Page /\ o.hi \in Page /\ Slots \in Nat \ {0}
  BY Sizes DEF TypeCall
<1>2. CASE o.op = "write" /\ o.lo = 0 /\ o.hi = Slots - 1
  <2>1. \A s \in Page : s \in o.lo .. o.hi
    BY <1>1, <1>2 DEF Page
  <2> QED BY <1>2, <2>1 DEF Writing
<1>3. CASE ~(o.op = "write" /\ o.lo = 0 /\ o.hi = Slots - 1)
  <2>1. CASE o.slot = "none"
    <3>1. o.from = o.n /\ D[o.n] = o.page
      BY <1>3, <2>1
    <3>2. \A s \in Page : Kept(D2[o.n][s]) = IF s \in o.lo .. o.hi THEN Kept(o.word) ELSE Kept(D[o.n][s])
      BY <3>1
    <3>3. o.op = "create" => Kept(D[o.n][o.lo]) = Zero
      BY <3>1 DEF Edit, Kept
    <3>4. o.op = "remove" => Kept(D[o.n][o.lo]) # Zero /\ Kept(D[o.n][o.lo]).name = o.name
      BY <3>1 DEF Edit, Kept, Nil
    <3> QED BY <3>2, <3>3, <3>4 DEF Writing
  <2>2. CASE o.slot # "none"
    <3>1. o.from \in {None, Zero, Junk} /\ D[o.n] = Full(Junk)
      BY <1>3, <2>2
    <3>2. \A s \in Page : o.page[s] \in Nil /\ Kept(o.page[s]) = Zero
      BY <3>1 DEF Edit, Kept, Nil
    <3>3. \A s \in Page : Kept(D[o.n][s]) = Zero
      BY <3>1 DEF Full, Kept, Nil
    <3>4. \A s \in Page : Kept(D2[o.n][s]) = IF s \in o.lo .. o.hi THEN Kept(o.word) ELSE Kept(D[o.n][s])
      BY <3>2, <3>3
    <3>5. o.op # "remove"
      BY <1>1, <3>2 DEF Edit
    <3> QED BY <1>1, <3>3, <3>4, <3>5 DEF Writing
  <2> QED BY <2>1, <2>2
<1> QED BY <1>2, <1>3

\* The names in a directory are those of its items.
LEMMA CellListed ==
  ASSUME IInv, Sound, NEW i \in Used, i \in folders, NEW k \in Slots0, NEW s \in Page, Cells[i][k][s] # Zero
  PROVE  Cells[i][k][s].name \in Listed(View(i))
<1>1. TypeOK /\ Agree /\ Within(Tree, Sz, folders) /\ i \in Inums
  BY GoodParts DEF IInv, Used
<1>2. /\ Cells[i][k][s] = Kept(PageAt(View(i), k)[s])
      /\ Tree[i][Behind(k)] = Zero => PageAt(View(i), k)[s] \in Nil
  BY PageFacts
<1>3. PageAt(View(i), k)[s] \notin Nil /\ Cells[i][k][s] = PageAt(View(i), k)[s]
  BY <1>2 DEF Kept
<1>4. Tree[i][Behind(k)] # Zero
  BY <1>2, <1>3
<1>5. Start(k) < Sz[i] /\ Sz[i] = View(i).size /\ Sz[i] \in Nat /\ k \in Nat
  BY <1>1, <1>4, ViewTyped, Sizes DEF Within, Slots0
<1>6. k < BlocksOf(View(i)) /\ BlocksOf(View(i)) \in Nat
  <2>1. PICK v : v = View(i)
    OBVIOUS
  <2>2. v.size \in Nat /\ k * Slots < v.size
    BY <1>5, <2>1 DEF Start
  <2>3. k < BlocksOf(v) /\ BlocksOf(v) \in Nat
    BY <1>5, <2>2, BlocksIff
  <2> QED BY <2>1, <2>3
<1>7. k \in 0 .. BlocksOf(View(i)) - 1
  BY <1>5, <1>6
<1>8. IsItem(PageAt(View(i), k)[s])
  BY <1>3 DEF IsItem, Nil
<1> QED BY <1>3, <1>7, <1>8 DEF Listed

\* What the files hold after a write: Contents speaks of the state after it.
Contents ==
  /\ ItemsOK(Cells', Used, folders, Freshes') /\ NamesOK(Cells', folders, created')
  /\ Bytes(Cells', Sz, Used, folders, written')
\* The call o writes what Writing says to block o.k of the inode i.
Writer(o, d, i) ==
  /\ Known(o, d, i) /\ InWrite(o) /\ HasBlock(o) /\ o.k \in Slots0
  /\ Edits(Cells, Cells', i, o.k, o.lo .. o.hi, Kept(o.word)) /\ Writing(o, data, data')
  /\ o.n = Tree[i][Behind(o.k)] /\ o.n # Zero

\* A piece of a file.
LEMMA WriteHolds ==
  ASSUME IInv, Sound, NEW o, NEW d, NEW i, Writer(o, d, i), o.op = "write", Freshes' \subseteq Freshes,
         created' = created,
         written' = [written EXCEPT ![i] =
                       [s \in DOMAIN @ |-> IF s \in o.off - (o.hi - o.lo + 1) .. o.off - 1
                                           THEN o.name ELSE @[s]]]
  PROVE  Contents
<1>1. /\ TypeOK /\ Agree /\ folders \subseteq Inums /\ folders \subseteq Used /\ Used \subseteq Inums
      /\ ItemsOK(Cells, Used, folders, Freshes) /\ NamesOK(Cells, folders, created)
      /\ Bytes(Cells, Sz, Used, folders, written)
  BY GoodParts DEF IInv, Agree, Used
<1>2. /\ TypeCall(o) /\ Reach(o, dirents[d], Sz[i]) /\ i \in Used /\ i \in Inums /\ Sz[i] \in Nat
      /\ dirents[d].isdir <=> i \in folders
  BY DEF Writer, Known
<1>3. /\ i \notin folders /\ o.name \in Values /\ o.word = o.name /\ Start(o.k) + o.hi < Sz[i]
      /\ o.lo \in Page /\ o.hi \in Page /\ o.k \in Slots0 /\ o.off = Start(o.k) + o.hi + 1
  <2>1. HasBlock(o) /\ o.k \in Slots0
    BY DEF Writer
  <2> QED BY <1>2, <2>1 DEF Reach, TypeCall
<1>4. Kept(o.word) = o.name
  BY <1>3, WordAssumption DEF Kept, Nil
<1>5. Edits(Cells, Cells', i, o.k, o.lo .. o.hi, o.name)
  BY <1>4 DEF Writer
<1>6. ItemsOK(Cells', Used, folders, Freshes) /\ NamesOK(Cells', folders, created)
  BY <1>1, <1>3, <1>5, ItemsAside
<1>7. ItemsOK(Cells', Used, folders, Freshes')
  BY <1>1, <1>6, ItemsKept
<1>8. \A j \in Inums, s \in 0 .. MaxSize - 1 :
        written'[j][s] = IF j = i /\ s \in Start(o.k) + o.lo .. Start(o.k) + o.hi THEN o.name
          ELSE written[j][s]
  <2>1. written \in [Inums -> [0 .. MaxSize - 1 -> Values \cup {None}]]
    BY <1>1 DEF TypeOK
  <2>2. o.off - (o.hi - o.lo + 1) = Start(o.k) + o.lo /\ o.off - 1 = Start(o.k) + o.hi
    <3>1. o.k \in Nat /\ o.lo \in Int /\ o.hi \in Int
      BY <1>2, <1>3, Sizes DEF TypeCall, Page
    <3>2. Start(o.k) \in Int
      BY <3>1, Begins
    <3> QED BY <1>3, <3>1, <3>2
  <2>3. PICK R : R = Start(o.k) + o.lo .. Start(o.k) + o.hi
    OBVIOUS
  <2>4. written' = [written EXCEPT ![i] = [s \in DOMAIN @ |-> IF s \in R THEN o.name ELSE @[s]]]
    BY <2>2, <2>3
  <2>5. \A j \in Inums, s \in 0 .. MaxSize - 1 :
          written'[j][s] = IF j = i /\ s \in R THEN o.name ELSE written[j][s]
    <3>1. PICK D : D = 0 .. MaxSize - 1
      OBVIOUS
    <3>2. written \in [Inums -> [D -> Values \cup {None}]] /\ i \in Inums
      BY <1>2, <2>1, <3>1
    <3>3. DOMAIN written = Inums /\ DOMAIN written[i] = D
      BY <3>2
    <3>4. \A j \in Inums : j # i => written'[j] = written[j]
      BY <2>4, <3>3
    <3>5. written'[i] = [s \in D |-> IF s \in R THEN o.name ELSE written[i][s]]
      BY <2>4, <3>2, <3>3
    <3>6. \A s \in D : written'[i][s] = IF s \in R THEN o.name ELSE written[i][s]
      BY <3>5
    <3>7. ASSUME NEW j \in Inums, NEW s \in D
          PROVE  written'[j][s] = IF j = i /\ s \in R THEN o.name ELSE written[j][s]
      <4>1. CASE j = i
        BY <3>6, <4>1
      <4>2. CASE j # i
        BY <3>4, <4>2
      <4> QED BY <4>1, <4>2
    <3> QED BY <3>1, <3>7
  <2> QED BY <2>3, <2>5
<1>9. Bytes(Cells', Sz, Used, folders, written')
  <2>1. Fresher(Cells, Cells', written, written', i, o.k, o.lo, o.hi, o.name)
    BY <1>3, <1>5, <1>8 DEF Fresher
  <2> QED BY <1>1, <1>2, <1>3, <2>1, BytesWritten
<1> QED BY <1>6, <1>7, <1>9 DEF Contents

\* A new name: no name of the directory is the same.
LEMMA CreateHolds ==
  ASSUME IInv, Sound, NEW o, NEW d, NEW i, Writer(o, d, i), o.op = "create",
         o.inum \in Freshes, Freshes' \subseteq Freshes \ {o.inum}, o.name \notin Listed(Copy(d)),
         written' = written, created' = [created EXCEPT ![i] = @ \cup {o.name}]
  PROVE  Contents
<1>1. /\ TypeOK /\ Agree /\ folders \subseteq Inums /\ folders \subseteq Used /\ Used \subseteq Inums
      /\ ItemsOK(Cells, Used, folders, Freshes) /\ NamesOK(Cells, folders, created)
      /\ Bytes(Cells, Sz, Used, folders, written) /\ Small(Used, Sz)
  BY GoodParts DEF IInv, Agree, Used
<1>2. /\ TypeCall(o) /\ Line(o, Open) /\ Edit(o) /\ Aim(o, dirents, inodes, Used, folders)
      /\ Reach(o, dirents[d], Sz[i]) /\ i \in Used /\ i \in Inums /\ View(i) = Copy(d)
      /\ dirents[d].isdir <=> i \in folders
  BY DEF Writer, Known
<1>3. InWrite(o) /\ HasBlock(o) /\ o.k \in Slots0 /\ Where(o) # "idle" /\ Fresh(o) /\ Aims(o)
  BY DEF Writer, InWrite, HasBlock, Fresh, Aims, Known, Path
<1>4. /\ i \in folders /\ o.name \in Names /\ o.lo = o.hi /\ o.lo \in Page /\ o.inum \in Used
         /\ o.inum \in Inums
      /\ o.isdir <=> o.inum \in folders
      /\ o.word = [name |-> o.name, inum |-> o.inum, isdir |-> o.isdir] /\ o.isdir \in BOOLEAN
  <2>1. i \in folders /\ o.name \in Names
    BY <1>2, <1>3 DEF Reach
  <2>2. o.lo = o.hi /\ o.word = [name |-> o.name, inum |-> o.inum, isdir |-> o.isdir]
    <3>1. o.word = [name |-> o.name, inum |-> o.inum, isdir |-> o.isdir]
      BY <1>2, <1>3 DEF Edit
    <3>2. o.lo = o.hi
      BY <1>2, <1>3 DEF Edit
    <3> QED BY <3>1, <3>2
  <2>3. o.inum \in Used /\ (o.isdir <=> o.inum \in folders)
    BY <1>2, <1>3 DEF Aim
  <2> QED BY <1>2, <2>1, <2>2, <2>3 DEF TypeCall, Line
<1>5. PICK w : w = o.word
  OBVIOUS
<1>6. w \in Item /\ w.name = o.name /\ w.inum = o.inum /\ w.isdir = o.isdir /\ Kept(o.word) = w
  <2>1. w \in Item /\ w.name = o.name /\ w.inum = o.inum /\ w.isdir = o.isdir
    BY <1>4, <1>5 DEF Item
  <2> QED BY <1>5, <2>1, WordAssumption DEF Kept, Nil
<1>7. Edits(Cells, Cells', i, o.k, {o.lo}, w)
  <2>1. o.lo .. o.hi = {o.lo}
    BY <1>4 DEF Page
  <2> QED BY <1>6, <2>1 DEF Writer
<1>8. Cells[i][o.k][o.lo] = Zero
  <2>1. Kept(data[o.n][o.lo]) = Zero /\ o.n = Tree[i][Behind(o.k)]
    BY DEF Writer, Writing
  <2>2. Cells[i][o.k][o.lo] = IF Tree[i][Behind(o.k)] = Zero THEN Zero
          ELSE Kept(data[Tree[i][Behind(o.k)]][o.lo])
    BY <1>2, <1>3, <1>4, CellIs DEF Cells
  <2> QED BY <2>1, <2>2
<1>9. \A l \in Slots0, t \in Page : Cells[i][l][t] # Zero => Cells[i][l][t].name # w.name
  BY <1>2, <1>4, <1>6, CellListed
<1>10. /\ \A j \in Inums, x \in Names \cup {"."} : x \in created'[j] <=> x \in created[j]
          \/ (j = i /\ x = w.name)
       /\ \A j \in Inums \ folders : created'[j] = {}
  <2>1. created \in [Inums -> SUBSET (Names \cup {"."})]
    BY <1>1 DEF TypeOK
  <2>2. \A j \in Inums \ folders : created[j] = {}
    BY <1>1 DEF NamesOK
  <2> QED BY <1>2, <1>4, <1>6, <2>1, <2>2
<1>11. ItemsOK(Cells', Used, folders, Freshes') /\ NamesOK(Cells', folders, created')
  <2>1. w.inum \in Used /\ (w.isdir <=> w.inum \in folders) /\ w.inum \in Freshes
          /\ Freshes' \subseteq Freshes \ {w.inum}
    BY <1>4, <1>6
  <2>2. Adds(Cells, Cells', folders, created, created', i, o.k, o.lo, w)
    BY <1>3, <1>4, <1>6, <1>7, <1>8, <1>9, <1>10 DEF Adds
  <2>3. ItemsOK(Cells, Used, folders, Freshes) /\ NamesOK(Cells, folders, created)
          /\ folders \in SUBSET Inums
    BY <1>1
  <2> QED BY <2>1, <2>2, <2>3, NameAdded
<1>12. Bytes(Cells', Sz, Used, folders, written')
  <2>1. \A j \in Used : Sz[j] \in Nat
    BY <1>1, ViewTyped
  <2>2. Bytes(Cells', Sz, Used, folders, written)
    BY <1>1, <1>4, <1>7, <2>1, BytesAside
  <2> QED BY <2>2
<1> QED BY <1>11, <1>12 DEF Contents

\* A name that goes.
LEMMA RemoveHolds ==
  ASSUME IInv, Sound, NEW o, NEW d, NEW i, Writer(o, d, i), o.op = "remove", Freshes' \subseteq Freshes,
         written' = written, created' = [created EXCEPT ![i] = @ \ {o.name}]
  PROVE  Contents
<1>1. /\ TypeOK /\ Agree /\ folders \subseteq Inums /\ folders \subseteq Used /\ Used \subseteq Inums
      /\ ItemsOK(Cells, Used, folders, Freshes) /\ NamesOK(Cells, folders, created)
      /\ Bytes(Cells, Sz, Used, folders, written) /\ Small(Used, Sz)
  BY GoodParts DEF IInv, Agree, Used
<1>2. /\ TypeCall(o) /\ Edit(o) /\ Reach(o, dirents[d], Sz[i]) /\ i \in Used /\ i \in Inums
      /\ dirents[d].isdir <=> i \in folders
  BY DEF Writer, Known
<1>3. InWrite(o) /\ HasBlock(o) /\ o.k \in Slots0 /\ Where(o) # "idle"
  BY DEF Writer, Known, Path
<1>4. i \in folders /\ o.lo = o.hi /\ o.lo \in Page /\ o.word = Zero /\ Kept(o.word) = Zero
  <2>1. i \in folders
    BY <1>2, <1>3 DEF Reach
  <2>2. o.lo = o.hi
    BY <1>2, <1>3 DEF Edit
  <2>3. o.word = Zero
    BY <1>2, <1>3 DEF Edit
  <2> QED BY <1>2, <2>1, <2>2, <2>3 DEF TypeCall, Kept, Nil
<1>5. Edits(Cells, Cells', i, o.k, {o.lo}, Zero)
  <2>1. o.lo .. o.hi = {o.lo}
    BY <1>4 DEF Page
  <2> QED BY <1>4, <2>1 DEF Writer
<1>6. Cells[i][o.k][o.lo] # Zero /\ Cells[i][o.k][o.lo].name = o.name
  <2>1. Kept(data[o.n][o.lo]) # Zero /\ Kept(data[o.n][o.lo]).name = o.name /\ o.n = Tree[i][Behind(o.k)]
          /\ o.n # Zero
    BY DEF Writer, Writing
  <2>2. Cells[i][o.k][o.lo] = IF Tree[i][Behind(o.k)] = Zero THEN Zero
          ELSE Kept(data[Tree[i][Behind(o.k)]][o.lo])
    BY <1>2, <1>3, <1>4, CellIs DEF Cells
  <2> QED BY <2>1, <2>2
<1>7. /\ \A j \in Inums, x \in Names \cup {"."} :
           x \in created'[j] <=> x \in created[j] /\ ~(j = i /\ x = Cells[i][o.k][o.lo].name)
      /\ \A j \in Inums \ folders : created'[j] = {}
  <2>1. created \in [Inums -> SUBSET (Names \cup {"."})]
    BY <1>1 DEF TypeOK
  <2>2. \A j \in Inums \ folders : created[j] = {}
    BY <1>1 DEF NamesOK
  <2> QED BY <1>2, <1>4, <1>6, <2>1, <2>2
<1>8. ItemsOK(Cells', Used, folders, Freshes) /\ NamesOK(Cells', folders, created')
  <2>1. Drops(Cells, Cells', folders, created, created', i, o.k, o.lo)
    BY <1>3, <1>4, <1>5, <1>6, <1>7 DEF Drops
  <2>2. ItemsOK(Cells, Used, folders, Freshes) /\ NamesOK(Cells, folders, created)
          /\ folders \in SUBSET Inums
    BY <1>1
  <2> QED BY <2>1, <2>2, NameRemoved
<1>9. ItemsOK(Cells', Used, folders, Freshes')
  BY <1>1, <1>8, ItemsKept
<1>10. Bytes(Cells', Sz, Used, folders, written')
  <2>1. \A j \in Used : Sz[j] \in Nat
    BY <1>1, ViewTyped
  <2>2. Bytes(Cells', Sz, Used, folders, written)
    BY <1>1, <1>4, <1>5, <2>1, BytesAside
  <2> QED BY <2>2
<1> QED BY <1>8, <1>9, <1>10 DEF Contents

\* What data_write does to the histories keeps them well typed.
LEMMA WroteTyped ==
  ASSUME TypeHistory, NEW i \in Inums, NEW op, NEW name, NEW R,
         op = "write" => name \in Values, op = "create" => name \in Names,
         written' = (IF op # "write" THEN written
                     ELSE [written EXCEPT ![i] = [s \in DOMAIN @ |-> IF s \in R THEN name ELSE @[s]]]),
         created' = (CASE op = "create" -> [created EXCEPT ![i] = @ \cup {name}]
                       [] op = "remove" -> [created EXCEPT ![i] = @ \ {name}]
                       [] OTHER -> created),
         folders' = folders, lost' = lost
  PROVE  TypeHistory'
<1>1. /\ written \in [Inums -> [0 .. MaxSize - 1 -> Values \cup {None}]]
      /\ created \in [Inums -> SUBSET (Names \cup {"."})]
      /\ folders \in SUBSET Inums /\ lost \in SUBSET Blocks
  BY DEF TypeHistory
<1>2. written' \in [Inums -> [0 .. MaxSize - 1 -> Values \cup {None}]]
  <2>1. CASE op # "write"
    BY <1>1, <2>1
  <2>2. CASE op = "write"
    <3>1. PICK f : f = [s \in DOMAIN written[i] |-> IF s \in R THEN name ELSE written[i][s]]
      OBVIOUS
    <3>2. f \in [0 .. MaxSize - 1 -> Values \cup {None}]
      <4>1. written[i] \in [0 .. MaxSize - 1 -> Values \cup {None}] /\ name \in Values
        BY <1>1, <2>2
      <4> QED BY <3>1, <4>1
    <3>3. written' = [written EXCEPT ![i] = f]
      BY <2>2, <3>1
    <3> QED BY <1>1, <3>2, <3>3
  <2> QED BY <2>1, <2>2
<1>3. created' \in [Inums -> SUBSET (Names \cup {"."})]
  <2>1. CASE op = "create"
    BY <1>1, <2>1
  <2>2. CASE op = "remove"
    BY <1>1, <2>2
  <2>3. CASE op \notin {"create", "remove"}
    BY <1>1, <2>3
  <2> QED BY <2>1, <2>2, <2>3
<1> QED BY <1>1, <1>2, <1>3 DEF TypeHistory

\* data_write keeps the invariant: one case for each of write, create and remove.
LEMMA DataStep ==
  ASSUME IInv, Sound, NEW p \in Procs, data_write(p)
  PROVE  TypeOK' /\ Lines' /\ (Sound' => Good')
<1>06. PICK o : o = call[p]
  OBVIOUS
<1>00. PICK d : d = o.d
  OBVIOUS
<1>01. PICK i : i = dirents[d].inum
  OBVIOUS
<1>02. PICK c : WritesTo(o, c)
  BY DEF WritesTo
<1>03. PICK n : n = o.n
  OBVIOUS
<1>04. PICK page : page = [s \in Page |-> IF s \in o.lo .. o.hi THEN o.word ELSE o.page[s]]
  OBVIOUS
<1>05. PICK R : R = o.off - (o.hi - o.lo + 1) .. o.off - 1
  OBVIOUS
<1>0. /\ o.at = "data" /\ Where(o) = "data" /\ o = call[p] /\ Becomes(p, c) /\ n \in Blocks
      /\ UNCHANGED <<inodes, bitmap, dirents>> /\ data' = [data EXCEPT ![n] = page] /\ calls' = calls
      /\ folders' = folders /\ lost' = lost
      /\ written' = IF o.op # "write" THEN written
                    ELSE [written EXCEPT ![i] = [s \in DOMAIN @ |-> IF s \in R THEN o.name ELSE @[s]]]
      /\ created' = CASE o.op = "create" -> [created EXCEPT ![i] = @ \cup {o.name}]
                      [] o.op = "remove" -> [created EXCEPT ![i] = @ \ {o.name}]
                      [] OTHER -> created
  BY Zenon, <1>00, <1>01, <1>02, <1>03, <1>04, <1>05, <1>06 DEF data_write, At, Where, WritesTo
<1>1. Known(o, d, i)
  BY <1>0, <1>00, <1>01, KnownIs
<1>2. /\ TypeCall(o) /\ Path(o) /\ Line(o, Open) /\ Edit(o) /\ Aim(o, dirents, inodes, Used, folders)
         /\ d = o.d
      /\ Found(o, Tree[i], data) /\ Reach(o, dirents[d], Sz[i]) /\ d \in Open /\ i \in Used /\ i \in Inums
      /\ View(i) = Copy(d)
  BY <1>1 DEF Known
<1>3. TypeOK /\ Lines /\ Good /\ Agree /\ Space(Tree, bitmap, Pending, lost) /\ Blank(Tree, data)
  BY GoodParts DEF IInv
<1>4. /\ TypeCall(c) /\ Path(c) /\ Edit(c) /\ Aim(c, dirents, inodes, Used, folders)
         /\ Reach(c, dirents[d], Sz[i])
      /\ (\A D : Found(c, Tree[i], D)) /\ Line(c, Open)
      /\ ~Fresh(c) /\ NoMore(c, o) /\ Where(c) # "idle" /\ c.at # "pointer"
      /\ c.d = o.d /\ c.op = o.op /\ o.op # "close" /\ InWrite(o) /\ HasBlock(o)
      /\ o.op = "create" => Fresh(o) /\ Aims(o)
  <2> QED BY <1>0, <1>02, <1>2, WroteCall
<1>5. /\ o.k \in Slots0 /\ n = Tree[i][Behind(o.k)] /\ n # Zero
  <2>1. o.k < Direct + Slots
    BY <1>2, <1>4 DEF Reach
  <2>2. o.k \in Nat
    BY <1>2 DEF TypeCall
  <2> QED BY <1>0, <1>03, <1>2, <2>1, <2>2, Sizes DEF Slots0, Found
<1>6. TypeDisk' /\ Open' = Open /\ data'[n] = page /\ \A y \in Blocks : y # n => data'[y] = data[y]
  <2>1. DOMAIN page = Page
    BY <1>04
  <2> QED BY <1>0, <1>3, <2>1, BlockTyped
<1>7. TypeOK' /\ Lines'
  <2>1. calls' \in 0 .. MaxCalls /\ TypeHistory
    BY <1>0, <1>3, TypeParts
  <2>2. (o.op = "write" => o.name \in Values) /\ (o.op = "create" => o.name \in Names)
    BY <1>2 DEF Reach
  <2>3. TypeHistory'
    <3> QED BY <1>0, <1>2, <2>1, <2>2, WroteTyped
  <2>4. Follow(p, c)
    BY <1>0, <1>4 DEF Follow
  <2> QED BY <1>0, <1>3, <1>6, <2>1, <2>3, <2>4, OpenStep
<1>8. ASSUME Sound' PROVE Good'
  <2>1. /\ ~((IF o.slot = "none" THEN o.from # o.n \/ data[o.n] # o.page
              ELSE o.from \notin {None, Zero, Junk} \/ data[o.n] # Full(Junk))
             /\ ~(o.op = "write" /\ o.lo = 0 /\ o.hi = Slots - 1))
        /\ o.op = "create" => o.name \notin Listed(Copy(d))
    <3>1. When((IF o.slot = "none" THEN o.from # o.n \/ data[o.n] # o.page
                ELSE o.from \notin {None, Zero, Junk} \/ data[o.n] # Full(Junk))
               /\ ~(o.op = "write" /\ o.lo = 0 /\ o.hi = Slots - 1), "raced") = {}
          /\ When(o.op = "create" /\ o.name \in Listed(Copy(d)), "raced") = {}
      BY Zenon, <1>00, <1>06, <1>8, DamageIs DEF data_write
    <3> QED BY <3>1, WhenIs
  <2>2. Writing(o, data, data')
    <3>1. o.n # None
      BY <1>0, <1>03, <1>5, WordAssumption, Sizes DEF Numbers
    <3>2. o.n \in Blocks /\ data'[o.n] = [s \in Page |-> IF s \in o.lo .. o.hi THEN o.word ELSE o.page[s]]
      BY <1>0, <1>03, <1>04, <1>6
    <3> QED BY <1>2, <1>4, <2>1, <3>1, <3>2, PageWritten
  <2>3. /\ Used' = Used /\ Open' = Open /\ Sz' = Sz /\ Tree' = Tree /\ Blank(Tree, data') /\ n \in Blocks
        /\ \A j \in Inums, l \in Slots0 : Tree[j][Behind(l)] = n => j = i /\ l = o.k
        /\ \A j \in Inums : Tree[j][Direct] # n
    <3>1. PICK k : k = o.k
      OBVIOUS
    <3>2. k \in Slots0 /\ n = Tree[i][Behind(k)] /\ n # Zero
      BY <1>5, <3>1
    <3>3. inodes' = inodes /\ dirents' = dirents /\ Open' = Open
      BY <1>0, <1>6
    <3>4. /\ Used' = Used /\ Sz' = Sz /\ Tree' = Tree /\ Blank(Tree, data') /\ n \in Blocks
          /\ \A j \in Inums, l \in Slots0 : Tree[j][Behind(l)] = n => j = i /\ l = k
          /\ \A j \in Inums : Tree[j][Direct] # n
      BY <1>2, <1>3, <1>6, <3>2, <3>3, WriteTree
    <3> QED BY <3>1, <3>3, <3>4
  <2>4. Edits(Cells, Cells', i, o.k, o.lo .. o.hi, Kept(o.word))
    <3>1. Tree \in [Inums -> [Kinds -> Blocks]]
      BY <1>1, TreeOf
    <3>2. \A s \in Page : Kept(data'[n][s]) = IF s \in o.lo .. o.hi THEN Kept(o.word) ELSE Kept(data[n][s])
      BY <1>03, <2>2 DEF Writing
    <3>3. o.lo .. o.hi \in SUBSET Page
      BY <1>2, Sizes DEF TypeCall, Page
    <3>4. PICK D2 : D2 = data'
      OBVIOUS
    <3>5. PICK S : S = o.lo .. o.hi
      OBVIOUS
    <3>6. PICK k : k = o.k
      OBVIOUS
    <3>7. PICK w : w = Kept(o.word)
      OBVIOUS
    <3>8. Edits(CellsOf(Tree, data), CellsOf(Tree, D2), i, k, S, w)
      <4>1. /\ S \in SUBSET Page /\ k \in Slots0 /\ n = Tree[i][Behind(k)]
            /\ \A j \in Inums, l \in Slots0 : Tree[j][Behind(l)] = n => j = i /\ l = k
            /\ \A b \in Blocks : b # n => D2[b] = data[b]
            /\ \A s \in Page : Kept(D2[n][s]) = IF s \in S THEN w ELSE Kept(data[n][s])
        BY <1>5, <1>6, <2>3, <3>2, <3>3, <3>4, <3>5, <3>6, <3>7
      <4> QED BY <1>2, <1>5, <3>1, <4>1, CellsWrite
    <3>9. Cells' = CellsOf(Tree, D2)
      BY <2>3, <3>4 DEF Cells
    <3> QED BY <3>5, <3>6, <3>7, <3>8, <3>9 DEF Cells
  <2>5. Writer(o, d, i)
    BY <1>03, <1>1, <1>4, <1>5, <2>2, <2>4 DEF Writer
  <2>6. /\ Freshes' \subseteq Freshes
        /\ o.op = "create" => Freshes' \subseteq Freshes \ {o.inum} /\ o.inum \in Freshes
    <3>1. \A q \in Procs \ {p} : Distinct(call[p], call[q])
      BY <1>3, GoodParts
    <3> QED BY <1>0, <1>3, <1>4, <3>1, FreshesAre
  <2>7. Contents
    <3>1. CASE o.op = "write"
      BY <1>0, <1>05, <2>5, <2>6, <3>1, WriteHolds
    <3>2. CASE o.op = "create"
      BY <1>0, <2>1, <2>5, <2>6, <3>2, CreateHolds
    <3>3. CASE o.op = "remove"
      BY <1>0, <2>5, <2>6, <3>3, RemoveHolds
    <3>4. o.op \in {"write", "create", "remove"}
      BY <1>2, <1>4 DEF Path
    <3> QED BY <3>1, <3>2, <3>3, <3>4
  <2>8. Pending' = Pending
    <3>1. \A q \in Procs \ {p} : Distinct(call[p], call[q])
      BY <1>3, GoodParts
    <3> QED BY <1>0, <1>3, <1>4, <3>1, PendingIs
  <2>9. Local(c, dirents', inodes', Used', folders', Sz', Tree', data')
    <3>1. /\ dirents' = dirents /\ inodes' = inodes /\ folders' = folders /\ Used' = Used /\ Sz' = Sz
          /\ Tree' = Tree
      BY <1>0, <2>3
    <3>2. c.d = d
      BY <1>2, <1>4
    <3>3. Local(c, dirents, inodes, Used, folders, Sz, Tree, data')
      BY <1>01, <1>4, <3>2 DEF Local
    <3> QED BY <3>1, <3>3
  <2>10. ASSUME NEW q \in Procs \ {p}
         PROVE  Relies(call[q], dirents, inodes, data, dirents', inodes', data')
    <3>1. ASSUME Clears(call[q]) PROVE \A s \in Page : data'[call[q].n][s] = data[call[q].n][s]
      <4>1. PICK j : j = dirents[call[q].d].inum
        OBVIOUS
      <4>2. Known(call[q], call[q].d, j)
        BY <3>1, <4>1, KnownIs DEF Clears
      <4>3. call[q].n = Tree[j][Direct] /\ j \in Inums /\ call[q].n \in Blocks \cup {Junk}
              /\ TypeCall(call[q])
        BY <3>1, <4>2 DEF Known, Found, TypeCall
      <4>4. Tree[j][Direct] \in Blocks
        <5>1. Tree \in [Inums -> [Kinds -> Blocks]] /\ Direct \in Kinds
          BY <1>1, TreeOf, KindIs
        <5> QED BY <4>3, <5>1
      <4>5. call[q].n # n
        BY <2>3, <4>3
      <4> QED BY <1>6, <4>3, <4>4, <4>5
    <3>2. Where(call[q]) # "idle" => call[q].d \in Open
      BY <1>3 DEF Lines, Line
    <3>3. /\ dirents' = dirents /\ inodes' = inodes /\ Open' = Open
      BY <1>0, <1>6
    <3>4. \A e \in Open' \ Open : dirents'[e].inum \notin Freshes
      BY <3>3
    <3> QED BY <1>3, <3>1, <3>2, <3>3, <3>4, RelyLast
  <2>11. \A q \in Procs \ {p} : Distinct(c, call[q]) /\ Distinct(call[q], c)
    BY <1>0, <1>3, <1>4, GoodParts, DistinctKept
  <2>12. Grows(Used, folders, Sz, Tree, Used', folders', Sz', Tree')
    <3>1. Grows(Used, folders, Sz, Tree, Used, folders, Sz, Tree)
      BY <1>3, GrowsSame
    <3> QED BY <1>0, <2>3, <3>1
  <2>13. /\ \A q \in Procs : Local(call'[q], dirents', inodes', Used', folders', Sz', Tree', data')
         /\ \A q, r \in Procs : q # r => Distinct(call'[q], call'[r])
    BY <1>0, <1>3, <2>9, <2>10, <2>11, <2>12, LocalsNext
  <2>14. Agree'
    BY <1>0, <1>3, AgreeSame
  <2>15. /\ Small(Used', Sz') /\ Space(Tree', bitmap', Pending', lost') /\ Blank(Tree', data')
         /\ Within(Tree', Sz', folders')
    <3>1. bitmap' = bitmap /\ lost' = lost /\ folders' = folders
      BY <1>0
    <3> QED BY <1>3, <2>3, <2>8, <3>1, GoodParts
  <2>16. /\ ItemsOK(Cells', Used', folders', Freshes') /\ NamesOK(Cells', folders', created')
         /\ Bytes(Cells', Sz', Used', folders', written')
    BY <1>0, <2>3, <2>7 DEF Contents
  <2> QED BY <2>13, <2>14, <2>15, <2>16, GoodNext DEF Good2
<1> QED BY <1>7, <1>8

\* A call ends with a block that has no pointer yet: the block is lost.
LEMMA LoseGood ==
  ASSUME IInv, Sound, NEW p \in Procs, Return(p), UNCHANGED <<disk, dirents, written, created, folders>>,
         call[p].at = "pointer", lost' = lost \cup {call[p].n}
  PROVE  Good'
<1> DEFINE n == call[p].n
<1>1. TypeOK /\ Lines /\ Good /\ Agree
  BY GoodParts DEF IInv
<1>2. PICK c : c = Idle
  OBVIOUS
<1>3. /\ Becomes(p, c) /\ c.at # "pointer" /\ ~Fresh(c) /\ NoMore(c, call[p])
      /\ \A E, N, U, F, Z, T, D : Local(c, E, N, U, F, Z, T, D)
  BY <1>2, IdleOK DEF Return
<1>4. /\ Used' = Used /\ Sz' = Sz /\ Tree' = Tree /\ Cells' = Cells /\ Agree'
      /\ inodes' = inodes /\ bitmap' = bitmap /\ data' = data /\ dirents' = dirents
      /\ folders' = folders /\ created' = created /\ written' = written
  BY <1>1, StateSame
<1>5. Grows(Used, folders, Sz, Tree, Used', folders', Sz', Tree')
  BY <1>1, <1>4, GrowsSame
<1>6. \A q \in Procs \ {p} : Relies(call[q], dirents, inodes, data, dirents', inodes', data')
  BY <1>1, <1>4, RelySame, GoodParts
<1>7. \A q \in Procs \ {p} : Distinct(c, call[q]) /\ Distinct(call[q], c)
  BY <1>1, <1>3, GoodParts, DistinctKept
<1>8. /\ \A q \in Procs : Local(call'[q], dirents', inodes', Used', folders', Sz', Tree', data')
      /\ \A q, r \in Procs : q # r => Distinct(call'[q], call'[r])
  BY <1>1, <1>3, <1>5, <1>6, <1>7, LocalsNext
<1>9. Pending' = Pending \ {n} /\ n \in Pending
  BY <1>1, <1>3, PendingIs, GoodParts
<1>10. Freshes' \subseteq Freshes
  BY <1>1, <1>3, FreshesAre
<1>11. Space(Tree', bitmap', Pending', lost')
  <2>1. Space(Tree, bitmap, Pending, lost)
    BY <1>1, GoodParts
  <2> QED BY <1>4, <1>9, <2>1, SpaceLose
<1>12. ItemsOK(Cells', Used', folders', Freshes')
  <2>1. ItemsOK(Cells, Used, folders, Freshes) /\ folders \subseteq Used
    BY <1>1, GoodParts DEF Agree
  <2> QED BY <1>4, <1>10, <2>1, ItemsKept
<1> QED BY <1>1, <1>4, <1>8, <1>11, <1>12, GoodParts, GoodNext DEF Good2

\* process_kill keeps the invariant, or is damage: what was taken is lost.
LEMMA KillStep ==
  ASSUME IInv, Sound, NEW p \in Procs, process_kill(p)
  PROVE  TypeOK' /\ Lines' /\ (Sound' => Good')
<1> DEFINE o == call[p]
<1>1. TypeOK /\ Lines /\ Good /\ Line(o, Open) /\ Where(o) # "idle"
  <2>1. TypeOK /\ Lines /\ Good
    BY DEF IInv
  <2>2. o # Idle
    BY DEF process_kill
  <2> QED BY <2>1, <2>2 DEF Lines, Line
<1>2. /\ Return(p) /\ UNCHANGED <<disk, calls, written, created, folders>>
      /\ lost' = lost \cup When(o.at = "pointer", o.n)
  BY DEF process_kill, At
<1>3. CASE o.op = "close"
  <2>1. Where(o) = "save" /\ o.at # "pointer" /\ o.d \in Open
    BY <1>1, <1>3 DEF Line, Where
  <2>2. dirents' = [dirents EXCEPT ![o.d] = None] /\ ~Sound'
    <3>1. Torn(p)
      BY <1>3 DEF Torn
    <3>2. Damaged({"torn"})
      BY <3>1 DEF process_kill, When
    <3>3. ~Sound'
      BY <3>2 DEF Damaged, Sound
    <3> QED BY <1>3, <3>3 DEF process_kill
  <2>3. UNCHANGED history
    BY <1>2, <2>1 DEF When, history
  <2>4. TypeHistory' /\ calls' \in 0 .. MaxCalls
    BY <1>1, <1>2, <2>3, TypeParts, TypeSame
  <2>5. TypeDisk'
    <3>1. /\ inodes \in [Inums -> Node] /\ bitmap \in SUBSET Blocks
          /\ DOMAIN data = Blocks /\ \A b \in Blocks : DOMAIN data[b] = Page
          /\ dirents \in [Dirents -> Entry \cup {None}]
      BY <1>1 DEF TypeOK
    <3>2. inodes' = inodes /\ bitmap' = bitmap /\ data' = data
      BY <1>2 DEF disk
    <3>3. dirents' \in [Dirents -> Entry \cup {None}]
      BY <2>2, <3>1
    <3> QED BY <3>1, <3>2, <3>3 DEF TypeDisk
  <2>6. \A q \in Procs \ {p} : Where(call[q]) # "idle" => call[q].d \in Open'
    <3> SUFFICES ASSUME NEW q \in Procs \ {p}, Where(call[q]) # "idle" PROVE call[q].d \in Open'
      OBVIOUS
    <3>1. call[q].d # o.d /\ call[q].d \in Open
      BY <1>1, <1>3 DEF Lines, Line
    <3>2. call[q].d \in Dirents /\ dirents[call[q].d] # None /\ dirents \in [Dirents -> Entry \cup {None}]
      BY <1>1, <3>1 DEF Open, TypeOK
    <3>3. dirents'[call[q].d] = dirents[call[q].d]
      BY <2>2, <3>1, <3>2
    <3> QED BY <3>2, <3>3 DEF Open
  <2>7. PICK c : c = Idle
    OBVIOUS
  <2>8. Becomes(p, c) /\ TypeCall(c) /\ Line(c, Open')
    BY <1>2, <2>7, IdleOK DEF Return
  <2>9. TypeOK'
    BY <1>1, <2>4, <2>5, <2>8, TypeNext
  <2>10. Lines'
    BY <1>1, <2>6, <2>7, <2>8, LinesNext
  <2> QED BY <2>2, <2>9, <2>10
<1>4. CASE o.op # "close" /\ o.at # "pointer"
  <2>1. dirents' = dirents
    BY <1>4 DEF process_kill
  <2>2. UNCHANGED history
    BY <1>2, <1>4 DEF When, history
  <2> QED BY <1>2, <1>4, <2>1, <2>2, QuietReturn
<1>5. CASE o.op # "close" /\ o.at = "pointer"
  <2>1. dirents' = dirents
    BY <1>5 DEF process_kill
  <2>2. lost' = lost \cup {o.n}
    BY <1>2, <1>5 DEF When
  <2>3. Good'
    BY <1>2, <1>5, <2>1, <2>2, LoseGood
  <2>4. o.n \in Numbers
    <3>1. o.n \in Pending
      BY <1>5 DEF Pending, At
    <3>2. Pending \subseteq Numbers
      BY <1>1, GoodParts DEF Space
    <3> QED BY <3>1, <3>2
  <2>5. TypeDisk' /\ TypeHistory' /\ calls' \in 0 .. MaxCalls
    <3>1. TypeDisk /\ TypeHistory /\ calls \in 0 .. MaxCalls
      BY <1>1, TypeParts
    <3>2. TypeDisk'
      BY <1>2, <2>1, <3>1, TypeSame
    <3>3. TypeHistory'
      <4>1. o.n \in Blocks
        BY <2>4, Sizes
      <4> QED BY <1>2, <2>2, <3>1, <4>1 DEF TypeHistory
    <3> QED BY <1>2, <3>1, <3>2, <3>3
  <2>6. PICK c : c = Idle
    OBVIOUS
  <2>7. Becomes(p, c) /\ TypeCall(c) /\ Line(c, Open)
    BY <1>2, <2>6, IdleOK DEF Return
  <2>8. Follow(p, c)
    BY <2>6, <2>7 DEF Follow
  <2>9. Open' = Open
    BY <2>1 DEF Open
  <2>10. TypeOK' /\ Lines'
    BY <1>1, <2>5, <2>7, <2>8, <2>9, OpenStep
  <2> QED BY <2>3, <2>10
<1> QED BY <1>3, <1>4, <1>5
-----------------------------------------------------------------------------
(* The start.                                                                *)

\* The blocks and the inode of a disk just formatted.
LEMMA FreshDisk ==
  Init => /\ RootInode \in Node /\ RootInode.size = 1 /\ RootInode.indirect = Zero
          /\ \A k \in 0 .. Direct - 1 : RootInode.direct[k] = IF k = 0 THEN 1 ELSE Zero
          /\ Inode(FALSE) \in Node /\ Dot \in Item /\ 1 \in Blocks
          /\ DOMAIN data = Blocks /\ \A b \in Blocks : DOMAIN data[b] = Page
          /\ \A s \in Page : data[1][s] = IF s = 0 THEN Dot ELSE Zero
          /\ (\A s \in Page : data[Zero][s] = Zero) \/ \A s \in Page : data[Zero][s] = Junk
          /\ \A b \in Numbers : b # 1 => \A s \in Page : data[b][s] = Junk
<1> SUFFICES ASSUME Init
             PROVE  /\ RootInode \in Node /\ RootInode.size = 1 /\ RootInode.indirect = Zero
                    /\ \A k \in 0 .. Direct - 1 : RootInode.direct[k] = IF k = 0 THEN 1 ELSE Zero
                    /\ Inode(FALSE) \in Node /\ Dot \in Item /\ 1 \in Blocks
                    /\ DOMAIN data = Blocks /\ \A b \in Blocks : DOMAIN data[b] = Page
                    /\ \A s \in Page : data[1][s] = IF s = 0 THEN Dot ELSE Zero
                    /\ (\A s \in Page : data[Zero][s] = Zero) \/ \A s \in Page : data[Zero][s] = Junk
                    /\ \A b \in Numbers : b # 1 => \A s \in Page : data[b][s] = Junk
  OBVIOUS
<1>1. 0 \in 0 .. Direct - 1 /\ 1 \in Blocks /\ Zero \in Blocks /\ 0 \in Inums /\ 1 # Zero /\ 0 \in Page
  BY Sizes
<1>2. PICK zeros : zeros = [i \in 0 .. Direct - 1 |-> Zero]
  OBVIOUS
<1>3. PICK first : first = [zeros EXCEPT ![0] = 1]
  OBVIOUS
<1>4. zeros \in [0 .. Direct - 1 -> Blocks] /\ first \in [0 .. Direct - 1 -> Blocks]
      /\ \A k \in 0 .. Direct - 1 : first[k] = IF k = 0 THEN 1 ELSE Zero
  BY <1>1, <1>2, <1>3
<1>5. \A u : Inode(u) = [inuse |-> u, size |-> 0, direct |-> zeros, indirect |-> Zero]
  BY <1>2 DEF Inode
<1>6. Inode(FALSE) \in Node
  BY <1>1, <1>4, <1>5 DEF Node
<1>7. PICK new : new = Inode(TRUE)
  OBVIOUS
<1>8. /\ RootInode \in Node /\ RootInode.size = 1 /\ RootInode.indirect = Zero /\ RootInode.direct = first
  <2>1. new \in Node /\ new.direct = zeros /\ new.indirect = Zero
    BY <1>1, <1>4, <1>5, <1>7 DEF Node
  <2>2. RootInode = [new EXCEPT !.size = 1, !.direct[0] = 1]
    BY <1>7 DEF RootInode
  <2>3. RootInode \in Node
    BY <1>1, <2>1, <2>2 DEF Node
  <2> QED BY <1>1, <1>3, <2>1, <2>2, <2>3 DEF Node
<1>9. Dot \in Item
  BY <1>1 DEF Dot, Item
<1>10. PICK x \in {Zero, Junk} :
         data = [b \in Blocks |-> IF b = 1 THEN [s \in Page |-> IF s = 0 THEN Dot ELSE Zero]
                                  ELSE IF b = Zero THEN Full(x) ELSE Full(Junk)]
  BY DEF Init
<1>11. \A y : DOMAIN Full(y) = Page /\ \A s \in Page : Full(y)[s] = y
  BY DEF Full
<1>12. /\ DOMAIN data = Blocks /\ \A b \in Blocks : DOMAIN data[b] = Page
       /\ \A s \in Page : data[1][s] = IF s = 0 THEN Dot ELSE Zero
       /\ (\A s \in Page : data[Zero][s] = Zero) \/ \A s \in Page : data[Zero][s] = Junk
  BY <1>1, <1>10, <1>11
<1>13. \A b \in Numbers : b # 1 => \A s \in Page : data[b][s] = Junk
  BY <1>10, <1>11, Sizes
<1> QED BY <1>1, <1>4, <1>6, <1>8, <1>9, <1>12, <1>13

\* Only the root directory is in use, it is open, and it has block 1.
LEMMA FreshTree ==
  ASSUME Init
  PROVE  /\ Used = {0} /\ Open = {Root} /\ Copy(Root) = RootInode /\ dirents[Root].inum = 0
            /\ dirents[Root].isdir
         /\ Root \in Dirents /\ View(0) = RootInode /\ inodes[0] = RootInode
         /\ \A i \in Inums, k \in Kinds : Tree[i][k] = IF i = 0 /\ k = 0 THEN 1 ELSE Zero
         /\ \A i \in Inums, k \in Slots0, s \in Page :
              Cells[i][k][s] = IF i = 0 /\ k = 0 /\ s = 0 THEN Dot ELSE Zero
<1>1. /\ RootInode \in Node /\ RootInode.size = 1 /\ RootInode.indirect = Zero
      /\ \A k \in 0 .. Direct - 1 : RootInode.direct[k] = IF k = 0 THEN 1 ELSE Zero
      /\ Dot \in Item /\ 1 \in Blocks
      /\ \A s \in Page : data[1][s] = IF s = 0 THEN Dot ELSE Zero
  BY FreshDisk
<1>2. 0 \in Inums /\ 1 # Zero /\ Zero # Junk /\ 1 \in Numbers /\ 0 \in Kinds /\ 0 \in Slots0
        /\ Behind(0) = 0
      /\ 0 \in 0 .. Direct - 1
  BY Sizes DEF Kinds, Slots0, Behind
<1>3. RootInode.inuse /\ ~Inode(FALSE).inuse
  BY DEF RootInode, Inode
<1>4. Used = {0} /\ inodes[0] = RootInode
  BY <1>2, <1>3 DEF Init, Used
<1>5. PICK e : e = [inum |-> 0, disk |-> RootInode, isdir |-> TRUE]
  OBVIOUS
<1>6. Root \in Dirents /\ dirents = [d \in Dirents |-> IF d = Root THEN e ELSE None]
  BY <1>5, DiskFSAssumption DEF Init
<1>7. e \in Entry /\ e # None /\ e.inum = 0 /\ e.disk = RootInode /\ e.isdir
  <2>1. e \in Entry
    BY <1>1, <1>2, <1>5 DEF Entry
  <2> QED BY <1>5, <2>1, WordAssumption
<1>8. Open = {Root} /\ dirents[Root] = e /\ Copy(Root) = RootInode
  BY <1>6, <1>7 DEF Open, Copy
<1>9. View(0) = RootInode
  <2>1. {d \in Open : dirents[d].inum = 0} = {Root}
    BY <1>7, <1>8
  <2>2. Views(0) = {RootInode}
    BY <1>8, <2>1 DEF Views
  <2> QED BY <2>2 DEF View
<1>10. Kept(Zero) = Zero /\ Kept(1) = 1 /\ Kept(Dot) = Dot
  BY <1>1, <1>2, WordAssumption, Sizes DEF Kept, Nil
<1>11. ASSUME NEW i \in Inums, NEW k \in Kinds PROVE Tree[i][k] = IF i = 0 /\ k = 0 THEN 1 ELSE Zero
  <2>1. Tree[i][k] = IF i = 0 THEN Kept(Pointer(RootInode, k)) ELSE Zero
    BY <1>4, <1>9 DEF Tree
  <2>2. Pointer(RootInode, k) = IF k = 0 THEN 1 ELSE Zero
    <3>1. CASE k \in 0 .. Direct - 1
      BY <1>1, <3>1, Sizes DEF Pointer
    <3>2. CASE k \notin 0 .. Direct - 1
      <4>1. ~(k < Direct) /\ k # 0
        BY <3>2, Sizes DEF Kinds
      <4> QED BY <1>1, <4>1 DEF Pointer
    <3> QED BY <3>1, <3>2
  <2> QED BY <1>10, <2>1, <2>2
<1>12. ASSUME NEW i \in Inums, NEW k \in Slots0, NEW s \in Page
       PROVE  Cells[i][k][s] = IF i = 0 /\ k = 0 /\ s = 0 THEN Dot ELSE Zero
  <2>1. Cells[i][k][s] = IF Tree[i][Behind(k)] = Zero THEN Zero ELSE Kept(data[Tree[i][Behind(k)]][s])
    BY CellIs DEF Cells
  <2>2. Behind(k) \in Kinds /\ (Behind(k) = 0 <=> k = 0)
    BY <1>2, KindIs
  <2>3. Tree[i][Behind(k)] = IF i = 0 /\ k = 0 THEN 1 ELSE Zero
    BY <1>11, <2>2
  <2>4. CASE i = 0 /\ k = 0
    BY <1>1, <1>2, <1>10, <2>1, <2>3, <2>4
  <2>5. CASE ~(i = 0 /\ k = 0)
    BY <2>1, <2>3, <2>5
  <2> QED BY <2>4, <2>5
<1> QED BY <1>4, <1>6, <1>7, <1>8, <1>9, <1>11, <1>12

\* A formatted disk satisfies the invariant.
LEMMA InitGood ==
  Init => IInv
<1> SUFFICES ASSUME Init PROVE TypeOK /\ Lines /\ Good
  BY DEF IInv
<1>1. /\ Used = {0} /\ Open = {Root} /\ Copy(Root) = RootInode /\ dirents[Root].inum = 0
         /\ dirents[Root].isdir
      /\ Root \in Dirents /\ View(0) = RootInode /\ inodes[0] = RootInode
      /\ \A i \in Inums, k \in Kinds : Tree[i][k] = IF i = 0 /\ k = 0 THEN 1 ELSE Zero
      /\ \A i \in Inums, k \in Slots0, s \in Page :
           Cells[i][k][s] = IF i = 0 /\ k = 0 /\ s = 0 THEN Dot ELSE Zero
  BY FreshTree
<1>2. /\ RootInode \in Node /\ RootInode.size = 1 /\ Inode(FALSE) \in Node /\ Dot \in Item /\ 1 \in Blocks
      /\ DOMAIN data = Blocks /\ \A b \in Blocks : DOMAIN data[b] = Page
      /\ (\A s \in Page : data[Zero][s] = Zero) \/ \A s \in Page : data[Zero][s] = Junk
      /\ \A b \in Numbers : b # 1 => \A s \in Page : data[b][s] = Junk
  BY FreshDisk
<1>3. /\ inodes = [i \in Inums |-> IF i = 0 THEN RootInode ELSE Inode(FALSE)] /\ bitmap = {Zero, 1}
      /\ dirents = [d \in Dirents |-> IF d = Root THEN [inum |-> 0, disk |-> RootInode, isdir |-> TRUE]
                                      ELSE None]
      /\ call = [p \in Procs |-> Idle] /\ calls = 0
      /\ written = [i \in Inums |-> [s \in 0 .. MaxSize - 1 |-> None]]
      /\ created = [i \in Inums |-> {}] /\ folders = {0} /\ lost = {} /\ damage = {}
  BY DEF Init
<1>4. 0 \in Inums /\ Zero \in Blocks /\ 1 # Zero /\ 1 \in Numbers /\ 0 \in Kinds /\ 0 \in Slots0
        /\ Zero \notin Numbers
  BY Sizes DEF Kinds, Slots0
<1>5. PICK idle : idle = Idle
  OBVIOUS
<1>6. /\ \A p \in Procs : call[p] = idle /\ DOMAIN call = Procs
      /\ TypeCall(idle) /\ Where(idle) = "idle" /\ idle.at = "idle" /\ idle.op = "none"
      /\ ~Fresh(idle) /\ ~Aims(idle) /\ ~Clears(idle) /\ Line(idle, Open)
      /\ \A E, N, U, F, Z, T, D : Local(idle, E, N, U, F, Z, T, D)
  <2>1. \A p \in Procs : call[p] = idle
    BY <1>3, <1>5
  <2>2. DOMAIN call = Procs
    BY <1>3
  <2> QED BY <1>5, <2>1, <2>2, IdleOK
<1>7. DOMAIN call = Procs
  BY <1>3
<1>8. TypeOK
  <2>1. inodes \in [Inums -> Node] /\ bitmap \in SUBSET Blocks
    BY <1>2, <1>3, <1>4
  <2>2. dirents \in [Dirents -> Entry \cup {None}]
    <3>1. [inum |-> 0, disk |-> RootInode, isdir |-> TRUE] \in Entry
      BY <1>2, <1>4 DEF Entry
    <3> QED BY <1>3, <3>1
  <2>3. calls \in 0 .. MaxCalls
    BY <1>3, DiskFSAssumption
  <2>4. /\ written \in [Inums -> [0 .. MaxSize - 1 -> Values \cup {None}]]
        /\ created \in [Inums -> SUBSET (Names \cup {"."})]
        /\ folders \in SUBSET Inums /\ lost \in SUBSET Blocks
    BY <1>3, <1>4
  <2>5. \A p \in Procs : TypeCall(call[p])
    BY <1>6
  <2> QED BY <1>2, <1>7, <2>1, <2>2, <2>3, <2>4, <2>5 DEF TypeOK, TypeCall
<1>9. Lines
  BY <1>6 DEF Lines
<1>10. Agree
  <2>1. EntryOK(Root)
    <3>1. RootInode.inuse
      BY DEF RootInode, Inode
    <3> QED BY <1>1, <1>3, <3>1 DEF EntryOK
  <2>2. \A i \in Inums \ Used : inodes[i] = Inode(FALSE)
    BY <1>1, <1>3
  <2> QED BY <1>1, <1>3, <2>1, <2>2 DEF Agree
<1>11. Sz[0] = 1
  BY <1>1, <1>2, <1>4 DEF Sz
<1>12. Small(Used, Sz)
  <2>1. Start(0) \in Nat /\ Direct + Slots \in Nat /\ 0 < Direct + Slots /\ Slots \in Nat \ {0}
    BY Begins, Sizes
  <2>2. Start(0) + Slots <= Start(Direct + Slots) /\ Start(Direct + Slots) \in Nat
    BY <2>1, Begins
  <2> QED BY <1>1, <1>11, <2>1, <2>2 DEF Small
<1>13. Pending = {} /\ Freshes = {}
  BY <1>6 DEF Pending, Freshes, At
<1>14. Space(Tree, bitmap, Pending, lost)
  BY <1>1, <1>3, <1>4, <1>13, Sizes DEF Space
<1>15. Blank(Tree, data)
  <2>1. \A b \in Numbers : (\A i \in Inums, k \in Kinds : Tree[i][k] # b) =>
          \A s \in Page : data[b][s] = Junk
    BY <1>1, <1>2, <1>4
  <2>2. \A i \in Inums : Tree[i][Direct] = Zero
    BY <1>1, Sizes, KindIs
  <2> QED BY <1>2, <2>1, <2>2 DEF Blank
<1>16. Within(Tree, Sz, folders)
  <2> SUFFICES ASSUME NEW k \in Slots0, Tree[0][Behind(k)] # Zero PROVE Start(k) < Sz[0]
    BY <1>3 DEF Within
  <2>1. Behind(k) \in Kinds /\ Behind(k) = 0
    BY <1>1, <1>4, KindIs
  <2>2. k = 0
    BY <2>1, KindIs, Sizes DEF Behind, Slots0
  <2>3. Start(0) = 0
    BY Sizes DEF Start
  <2> QED BY <1>11, <2>2, <2>3
<1>17. ItemsOK(Cells, Used, folders, Freshes)
  <2>1. Dot.inum = 0 /\ Dot.isdir
    BY DEF Dot
  <2> QED BY <1>1, <1>2, <1>3, <1>4, <1>13, <2>1 DEF ItemsOK
<1>18. NamesOK(Cells, folders, created)
  BY <1>1, <1>3, <1>4 DEF NamesOK
<1>19. Bytes(Cells, Sz, Used, folders, written)
  BY <1>3 DEF Bytes
<1>20. Locals
  BY <1>6 DEF Locals, Distinct
<1> QED BY <1>8, <1>9, <1>10, <1>12, <1>14, <1>15, <1>16, <1>17, <1>18, <1>19, <1>20 DEF Good
-----------------------------------------------------------------------------
(* The theorems.                                                             *)

\* Each step of a call, one case per action.
LEMMA StepKeeps ==
  ASSUME IInv, Sound, NEW p \in Procs, Step(p)
  PROVE  TypeOK' /\ Lines' /\ (Sound' => Good')
<1>1. CASE fs_dirent_write(p)
  BY <1>1, WriteStartStep
<1>2. CASE next(p)
  BY <1>2, NextStep
<1>3. CASE fill(p)
  BY <1>3, FillStep
<1>4. CASE diskfs_dirent_lookup(p)
  BY <1>4, LookupStep
<1>5. CASE fs_dirent_close(p)
  BY <1>5, CloseStep
<1>6. CASE save(p)
  BY <1>6, SaveStep
<1>7. CASE claim(p)
  BY <1>7, ClaimStep
<1>8. CASE init(p)
  BY <1>8, InitStep
<1>9. CASE echo(p)
  BY <1>9, EchoStep
<1>10. CASE load(p)
  BY <1>10, LoadStep
<1>11. CASE look(p)
  BY <1>11, LookStep
<1>12. CASE empty(p)
  BY <1>12, EmptyStep
<1>13. CASE add(p)
  BY <1>13, AddStep
<1>14. CASE grow(p)
  BY <1>14, GrowStep
<1>15. CASE put(p)
  BY <1>15, PutStep
<1>16. CASE no_block(p)
  BY <1>16, NoBlockStep
<1>17. CASE take(p)
  BY <1>17, TakeStep
<1>18. CASE zero(p)
  BY <1>18, ZeroStep
<1>19. CASE pointers(p)
  BY <1>19, PointersStep
<1>20. CASE pointer(p)
  BY <1>20, PointerStep
<1>21. CASE data_write(p)
  BY <1>21, DataStep
<1>22. CASE delete(p)
  BY <1>22, DeleteStep
<1>23. CASE process_kill(p)
  BY <1>23, KillStep
<1> QED BY <1>1, <1>2, <1>3, <1>4, <1>5, <1>6, <1>7, <1>8, <1>9, <1>10, <1>11, <1>12, <1>13, <1>14, <1>15,
           <1>16, <1>17, <1>18, <1>19, <1>20, <1>21, <1>22, <1>23 DEF Step

\* A step that changes nothing.
LEMMA StutterKeeps ==
  IInv /\ UNCHANGED vars => IInv'
<1> SUFFICES ASSUME IInv, UNCHANGED vars PROVE IInv'
  OBVIOUS
<1>1. /\ UNCHANGED <<disk, dirents>> /\ dirents' = dirents /\ call' = call /\ calls' = calls
      /\ written' = written /\ created' = created /\ folders' = folders /\ lost' = lost /\ damage' = damage
  BY DEF vars, history
<1>2. /\ Used' = Used /\ Sz' = Sz /\ Tree' = Tree /\ Cells' = Cells /\ Open' = Open
      /\ inodes' = inodes /\ bitmap' = bitmap /\ data' = data /\ Agree' = Agree
  BY <1>1, StateSame
<1>3. TypeOK'
  BY <1>1, <1>2 DEF IInv, TypeOK
<1>4. Lines'
  BY <1>1, <1>2 DEF IInv, Lines
<1>5. ASSUME Sound' PROVE Good'
  <2>1. Good
    BY <1>1, <1>5 DEF IInv, Sound
  <2>2. Pending' = Pending /\ Freshes' = Freshes
    BY <1>1 DEF Pending, Freshes, At
  <2> QED BY <1>1, <1>2, <2>1, <2>2, GoodParts, GoodNext DEF Good2
<1> QED BY <1>3, <1>4, <1>5 DEF IInv

\* The inductive invariant: at every moment each call is at a step its task can be at,
\* and, until something goes wrong, what it has read and chosen still fits the disk, the
\* copies of the inodes agree, and blocks, items and bytes are where they should be.
THEOREM IInvHolds == Spec => []IInv
<1>1. ASSUME IInv, Next PROVE IInv'
  <2>1. PICK p \in Procs :
          \/ damage = {} /\ Step(p)
          \/ table(p) \/ bits(p) \/ delete_rest(p) \/ free(p) \/ bury(p) \/ unclaim(p)
    BY <1>1 DEF Next
  <2>2. TypeOK' /\ Lines' /\ (Sound' => Good')
    <3>1. CASE damage = {} /\ Step(p)
      BY <1>1, <3>1, StepKeeps DEF Sound
    <3>2. CASE table(p)
      BY <1>1, <3>2, TableStep
    <3>3. CASE bits(p)
      BY <1>1, <3>3, BitsStep
    <3>4. CASE delete_rest(p)
      BY <1>1, <3>4, RestStep
    <3>5. CASE free(p)
      BY <1>1, <3>5, FreeStep
    <3>6. CASE bury(p)
      BY <1>1, <3>6, BuryStep
    <3>7. CASE unclaim(p)
      BY <1>1, <3>7, UnclaimStep
    <3> QED BY <2>1, <3>1, <3>2, <3>3, <3>4, <3>5, <3>6, <3>7
  <2> QED BY <2>2 DEF IInv
<1>2. IInv /\ [Next]_vars => IInv'
  BY <1>1, StutterKeeps
<1> QED BY InitGood, <1>2, PTL DEF Spec

\* Every variable keeps its type, and every call the fields and the pages that its next
\* step uses.
THEOREM TypeCorrect == Spec => []TypeOK
<1>1. IInv => TypeOK
  BY DEF IInv
<1> QED BY <1>1, IInvHolds, PTL

\* The pointers of a file in use, and what they point to.
LEMMA PointersAre ==
  ASSUME IInv, Sound
  PROVE  /\ \A x \in Pointers : /\ x[1] \in Used /\ x[1] \in Inums /\ x[2] \in Kinds /\ x = <<x[1], x[2]>>
                                /\ Tree[x[1]][x[2]] = Pointer(View(x[1]), x[2])
                                /\ Tree[x[1]][x[2]] # Zero
         /\ \A i \in Inums, k \in Kinds : Tree[i][k] # Zero =>
              <<i, k>> \in Pointers /\ Tree[i][k] = Pointer(View(i), k)
<1>1. \A i \in Inums, k \in Kinds : Tree[i][k] = IF i \in Used THEN Kept(Pointer(View(i), k)) ELSE Zero
  BY DEF Tree
<1>2. Used \subseteq Inums
  BY DEF Used
<1>3. \A b : (b \in Nil => Kept(b) = Zero) /\ (b \notin Nil => Kept(b) = b)
  BY DEF Kept
<1>4. ASSUME NEW x \in Pointers
      PROVE  /\ x[1] \in Used /\ x[1] \in Inums /\ x[2] \in Kinds /\ x = <<x[1], x[2]>>
             /\ Tree[x[1]][x[2]] = Pointer(View(x[1]), x[2]) /\ Tree[x[1]][x[2]] # Zero
  <2>1. /\ x[1] \in Used /\ x[2] \in Kinds /\ x = <<x[1], x[2]>> /\ Pointer(View(x[1]), x[2]) \notin Nil
    BY DEF Pointers, Kinds, Nil
  <2>2. Tree[x[1]][x[2]] = Pointer(View(x[1]), x[2])
    BY <1>1, <1>2, <1>3, <2>1
  <2> QED BY <1>2, <2>1, <2>2 DEF Nil
<1>5. ASSUME NEW i \in Inums, NEW k \in Kinds, Tree[i][k] # Zero
      PROVE  <<i, k>> \in Pointers /\ Tree[i][k] = Pointer(View(i), k)
  <2>1. i \in Used /\ Kept(Pointer(View(i), k)) # Zero
    BY <1>1, <1>5
  <2>2. Pointer(View(i), k) \notin Nil
    BY <1>3, <2>1
  <2>3. Tree[i][k] = Pointer(View(i), k)
    BY <1>1, <1>3, <2>1, <2>2
  <2> QED BY <2>1, <2>2, <2>3 DEF Pointers, Kinds, Nil
<1> QED BY <1>4, <1>5

\* Between any two steps of any two calls, until something goes wrong, all copies of an
\* inode agree, no block has two pointers to it, and the bitmap marks exactly the blocks
\* with a pointer, those on the way to one and those a kill has lost.
THEOREM SpaceSoundHolds == Spec => []SpaceSound
<1>1. ASSUME IInv, Sound
      PROVE  /\ \A i \in Used : Cardinality(Views(i)) = 1
             /\ \A x, y \in Pointers : x # y => Pointer(View(x[1]), x[2]) # Pointer(View(y[1]), y[2])
             /\ bitmap = {Zero} \cup {Pointer(View(x[1]), x[2]) : x \in Pointers} \cup Pending \cup lost
  <2>1. Agree /\ Space(Tree, bitmap, Pending, lost) /\ TypeOK
    BY <1>1, GoodParts DEF IInv
  <2>2. \A i \in Used : Cardinality(Views(i)) = 1
    <3> SUFFICES ASSUME NEW i \in Used PROVE Cardinality(Views(i)) = 1
      OBVIOUS
    <3>1. i \in Inums
      BY DEF Used
    <3>2. Views(i) = {View(i)}
      BY <2>1, <3>1, ViewIs
    <3> QED BY <3>2, FS_Singleton
  <2>3. ASSUME NEW x \in Pointers, NEW y \in Pointers, x # y
        PROVE  Pointer(View(x[1]), x[2]) # Pointer(View(y[1]), y[2])
    <3>1. /\ x[1] \in Inums /\ x[2] \in Kinds /\ x = <<x[1], x[2]>> /\ Tree[x[1]][x[2]] # Zero
          /\ Tree[x[1]][x[2]] = Pointer(View(x[1]), x[2])
          /\ y[1] \in Inums /\ y[2] \in Kinds /\ y = <<y[1], y[2]>>
          /\ Tree[y[1]][y[2]] = Pointer(View(y[1]), y[2])
      BY <1>1, PointersAre
    <3>2. ~(x[1] = y[1] /\ x[2] = y[2])
      BY <2>3, <3>1
    <3>3. Tree[x[1]][x[2]] # Tree[y[1]][y[2]]
      BY <2>1, <3>1, <3>2 DEF Space
    <3> QED BY <3>1, <3>3
  <2>4. bitmap = {Zero} \cup {Pointer(View(x[1]), x[2]) : x \in Pointers} \cup Pending \cup lost
    <3>1. bitmap \subseteq Blocks /\ Zero \in bitmap /\ Pending \subseteq Numbers /\ lost \subseteq Numbers
      BY <2>1 DEF Space, TypeOK
    <3>2. \A b \in Numbers : b \in bitmap <=> (\E i \in Inums, k \in Kinds : Tree[i][k] = b)
            \/ b \in Pending \cup lost
      BY <2>1 DEF Space
    <3>3. ASSUME NEW b \in bitmap
          PROVE  b \in {Zero} \cup {Pointer(View(x[1]), x[2]) : x \in Pointers} \cup Pending \cup lost
      <4>1. CASE \E i \in Inums, k \in Kinds : Tree[i][k] = b /\ b # Zero
        <5>1. PICK i \in Inums, k \in Kinds : Tree[i][k] = b /\ b # Zero
          BY <4>1
        <5>2. <<i, k>> \in Pointers /\ b = Pointer(View(i), k)
          BY <1>1, <5>1, PointersAre
        <5>3. <<i, k>>[1] = i /\ <<i, k>>[2] = k
          OBVIOUS
        <5> QED BY <5>2, <5>3
      <4>2. b = Zero \/ b \in Numbers
        BY <3>1, Sizes
      <4> QED BY <3>2, <4>1, <4>2, Sizes
    <3>4. ASSUME NEW x \in Pointers PROVE Pointer(View(x[1]), x[2]) \in bitmap
      <4>1. /\ x[1] \in Inums /\ x[2] \in Kinds /\ Tree[x[1]][x[2]] # Zero
            /\ Tree[x[1]][x[2]] = Pointer(View(x[1]), x[2])
        BY <1>1, PointersAre
      <4>2. Tree[x[1]][x[2]] \in Blocks
        <5>1. Blank(Tree, data)
          BY <1>1, GoodParts DEF IInv
        <5> QED BY <2>1, <4>1, <5>1, TreeIs
      <4>3. Tree[x[1]][x[2]] \in Numbers
        BY <4>1, <4>2, Sizes
      <4> QED BY <3>2, <4>1, <4>3
    <3>5. \A b \in Pending \cup lost : b \in bitmap
      BY <3>1, <3>2
    <3> QED BY <3>1, <3>3, <3>4, <3>5
  <2> QED BY <2>2, <2>3, <2>4
<1>2. IInv => SpaceSound
  BY <1>1 DEF SpaceSound
<1> QED BY <1>2, IInvHolds, PTL

\* Until something goes wrong a read of a byte returns what was last written there,
\* through whatever entry, and after the last close of the file.
THEOREM ReadBackHolds == Spec => []ReadBack
<1>1. ASSUME IInv, Sound, NEW i \in Used, NEW v \in Views(i), NEW s \in 0 .. MaxSize - 1,
             written[i][s] # None
      PROVE  s < v.size /\ fs_dirent_read(v)[s] = written[i][s]
  <2>1. Agree /\ Bytes(Cells, Sz, Used, folders, written) /\ TypeOK /\ i \in Inums
    BY <1>1, GoodParts DEF IInv, Used
  <2>2. v = View(i) /\ Sz[i] = v.size /\ v.size \in Nat
    BY <1>1, <2>1, ViewIs, ViewTyped
  <2>3. PICK k : k = s \div Slots
    OBVIOUS
  <2>4. PICK t : t = s % Slots
    OBVIOUS
  <2>5. s \in Nat /\ k \in Slots0 /\ t \in Page
    BY <1>1, <2>3, <2>4, SlotOf
  <2>6. s < v.size /\ Cells[i][k][t] = written[i][s]
    BY <1>1, <2>1, <2>2, <2>3, <2>4 DEF Bytes
  <2>7. Cells[i][k][t] = Kept(PageAt(v, k)[t])
    BY <1>1, <2>2, <2>5, PageFacts
  <2>8. written[i][s] \notin Nil
    <3>1. written \in [Inums -> [0 .. MaxSize - 1 -> Values \cup {None}]]
      BY <2>1, TypeParts DEF TypeHistory
    <3>2. written[i] \in [0 .. MaxSize - 1 -> Values \cup {None}]
      BY <2>1, <3>1
    <3>3. written[i][s] \in Values
      BY <1>1, <3>2
    <3> QED BY <3>3, WordAssumption DEF Nil
  <2>9. PageAt(v, k)[t] = written[i][s]
    BY <2>6, <2>7, <2>8 DEF Kept, Nil
  <2>10. fs_dirent_read(v)[s] = PageAt(v, k)[t]
    BY <2>2, <2>3, <2>4, <2>5, <2>6 DEF fs_dirent_read
  <2> QED BY <2>6, <2>9, <2>10
<1>2. IInv => ReadBack
  BY <1>1 DEF ReadBack
<1> QED BY <1>2, IInvHolds, PTL

\* The items of a directory are its cells.
LEMMA ItemCells ==
  ASSUME IInv, Sound, NEW i \in folders, NEW x \in Items(i)
  PROVE  /\ i \in Used /\ x[1] \in Slots0 /\ x[2] \in Page /\ x = <<x[1], x[2]>>
         /\ ItemAt(i, x) = Cells[i][x[1]][x[2]] /\ Cells[i][x[1]][x[2]] # Zero
<1>1. Agree /\ TypeOK
  BY GoodParts DEF IInv
<1>2. i \in Used /\ i \in Inums
  BY <1>1 DEF Agree, Used
<1>3. View(i).size \in Nat /\ Sz[i] = View(i).size
  BY <1>1, <1>2, ViewTyped
<1>4. /\ x[1] \in 0 .. BlocksOf(View(i)) - 1 /\ x[2] \in Page /\ x = <<x[1], x[2]>>
      /\ IsItem(PageAt(View(i), x[1])[x[2]])
  BY DEF Items
<1>5. x[1] \in Nat /\ Start(x[1]) < Sz[i]
  <2>1. BlocksOf(View(i)) \in Nat /\ \A k \in Nat : k < BlocksOf(View(i)) <=> k * Slots < View(i).size
    BY <1>3, BlocksIff
  <2>2. x[1] \in Nat /\ x[1] < BlocksOf(View(i))
    BY <1>4, <2>1
  <2> QED BY <1>3, <2>1, <2>2 DEF Start
<1>6. x[1] \in Slots0
  BY <1>2, <1>5, BlockWithin
<1>7. Cells[i][x[1]][x[2]] = Kept(PageAt(View(i), x[1])[x[2]])
  BY <1>2, <1>4, <1>6, PageFacts
<1>8. PageAt(View(i), x[1])[x[2]] \notin Nil
  BY <1>4 DEF IsItem, Nil
<1> QED BY <1>2, <1>4, <1>6, <1>7, <1>8 DEF ItemAt, Kept, Nil

\* Until something goes wrong, in every directory no name is there twice, each leads to
\* an inode in use, no inode has two names, and none that was put there and not removed
\* has gone.
THEOREM NamesSoundHolds == Spec => []NamesSound
<1>1. ASSUME IInv, Sound, NEW i \in folders
      PROVE  /\ \A x \in Items(i) : ItemAt(i, x).inum \in Used
             /\ \A j \in folders : \A x \in Items(i), y \in Items(j) :
                  <<i, x>> # <<j, y>> => /\ ItemAt(i, x).inum # ItemAt(j, y).inum
                                       /\ (i = j => ItemAt(i, x).name # ItemAt(j, y).name)
             /\ created[i] \subseteq Listed(View(i))
  <2>1. /\ ItemsOK(Cells, Used, folders, Freshes) /\ NamesOK(Cells, folders, created) /\ TypeOK
        /\ i \in Used /\ i \in Inums
    BY <1>1, GoodParts DEF IInv, Agree, Used
  <2>2. ASSUME NEW x \in Items(i) PROVE ItemAt(i, x).inum \in Used
    <3>1. /\ x[1] \in Slots0 /\ x[2] \in Page
          /\ ItemAt(i, x) = Cells[i][x[1]][x[2]] /\ Cells[i][x[1]][x[2]] # Zero
      BY <1>1, ItemCells
    <3>2. Cells[i][x[1]][x[2]].inum \in Used
      BY <1>1, <2>1, <3>1 DEF ItemsOK
    <3> QED BY <3>1, <3>2
  <2>3. ASSUME NEW j \in folders, NEW x \in Items(i), NEW y \in Items(j), <<i, x>> # <<j, y>>
        PROVE  /\ ItemAt(i, x).inum # ItemAt(j, y).inum
               /\ i = j => ItemAt(i, x).name # ItemAt(j, y).name
    <3>1. /\ x[1] \in Slots0 /\ x[2] \in Page /\ x = <<x[1], x[2]>>
          /\ ItemAt(i, x) = Cells[i][x[1]][x[2]] /\ Cells[i][x[1]][x[2]] # Zero
      BY <1>1, ItemCells
    <3>2. /\ y[1] \in Slots0 /\ y[2] \in Page /\ y = <<y[1], y[2]>>
          /\ ItemAt(j, y) = Cells[j][y[1]][y[2]] /\ Cells[j][y[1]][y[2]] # Zero
      BY <1>1, ItemCells
    <3>3. ~(i = j /\ x[1] = y[1] /\ x[2] = y[2])
      BY <2>3, <3>1, <3>2
    <3>4. /\ Cells[i][x[1]][x[2]].inum # Cells[j][y[1]][y[2]].inum
          /\ i = j => Cells[i][x[1]][x[2]].name # Cells[j][y[1]][y[2]].name
      BY <1>1, <2>1, <3>1, <3>2, <3>3 DEF NamesOK
    <3> QED BY <3>1, <3>2, <3>4
  <2>4. ASSUME NEW n \in created[i] PROVE n \in Listed(View(i))
    <3>1. n \in Names \cup {"."}
      BY <2>1 DEF TypeOK
    <3>2. PICK k \in Slots0, s \in Page : Cells[i][k][s] # Zero /\ Cells[i][k][s].name = n
      BY <1>1, <2>1, <2>4, <3>1 DEF NamesOK
    <3>3. Cells[i][k][s].name \in Listed(View(i))
      BY <1>1, <2>1, <3>2, CellListed
    <3> QED BY <3>2, <3>3
  <2> QED BY <2>2, <2>3, <2>4
<1>2. IInv => NamesSound
  BY <1>1 DEF NamesSound
<1> QED BY <1>2, IInvHolds, PTL
=============================================================================
