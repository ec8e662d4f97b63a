----------------------------- MODULE BlockCache -----------------------------
(***************************************************************************)
(* kernel/bcache.c over kernel/device.c: one list of cached blocks for all *)
(* processes, and no lock.  The disk driver gives up the CPU while it      *)
(* waits, and interrupts are on from there to the end of the call (always, *)
(* in the kernel shell), so calls overlap between any two steps below.     *)
(* Commands to the disk do not overlap (Mutex): one transfer is one step.  *)
(***************************************************************************)
EXTENDS KList

CONSTANTS
  Procs, Blocks,
  Entries,          \* the addresses kmalloc may give an entry
  NoEntry,          \* the null pointer
  max_cache_size,
  MaxWrites,        \* bound: writes of one behaviour, one version of data each
  MaxFailures       \* bound: transfers that fail

ASSUME BlockCacheAssumption ==
  /\ max_cache_size \in Nat \ {0} /\ MaxWrites \in Nat /\ MaxFailures \in Nat
  /\ MaxFailures < max_cache_size  \* so that the drift of size empties no list
  /\ IsFiniteSet(Procs) /\ IsFiniteSet(Blocks) /\ Blocks # {}
  /\ NoEntry \notin Entries \cup Blocks

\* What a block holds: the number of the write that put it there, 0 for what
\* the disk came with, Junk for what a fresh page holds.
Junk == -1
Data == Junk .. MaxWrites

VARIABLES
  cache,     \* the list, head first
  size,      \* cache.size, which list_remove gets wrong
  entry,     \* struct bcache_entry at each address
  heap,      \* the addresses in use
  disk,
  call,      \* the call each process is in
  latest,    \* history: the last write to each block
  answer,    \* history: what each process last read
  promise,   \* history: latest when the flush of a process began
  failures,  \* bound counter
  raced,     \* history: two calls have met in one of the ways below
  lost       \* history: a write-back has failed

vars == <<cache, size, entry, heap, disk, call, latest, answer, promise, failures, raced, lost>>

Entry == [block : Blocks \cup {NoEntry}, dirty : BOOLEAN, data : Data]

NoBlock == [block |-> NoEntry, dirty |-> FALSE, data |-> Junk]

\* at: the next thing the call does; e: the entry it works on; victim: the one
\* bcache_trim has popped; hit: bcache_find had found e.
Call == [at : {"idle", "miss", "trim", "evict", "evicted", "load", "loaded",
               "walk", "clean", "cleaned"},
         op : {"none", "read", "write", "flush", "flush_block"},
         block : Blocks \cup {NoEntry}, hit : BOOLEAN,
         e : Entries \cup {NoEntry}, victim : Entries \cup {NoEntry}]

Idle == [at |-> "idle", op |-> "none", block |-> NoEntry, hit |-> FALSE,
         e |-> NoEntry, victim |-> NoEntry]

\* bcache_entry_delete: what is read there from now on is anything but a block.
bcache_entry_delete(e) ==
  /\ heap' = heap \ {e}
  /\ entry' = [entry EXCEPT ![e] = NoBlock]

Goto(p, l) == call' = [call EXCEPT ![p].at = l]
Return(p) == call' = [call EXCEPT ![p] = Idle]

\* p has created e and not yet filled it, by a read or by the write itself.
Unfilled(e) ==
  \E p \in Procs : /\ call[p].e = e /\ ~call[p].hit
                   /\ call[p].at \in {"trim", "evict", "evicted", "load"}

\* A process other than p has popped e from the list, and will delete it.
PoppedBeside(p, e) ==
  \E q \in Procs \ {p} : call[q].at \in {"evict", "evicted"} /\ call[q].victim = e

\* A process other than p writes e back.
CleanedBeside(p, e) ==
  \/ PoppedBeside(p, e)
  \/ \E q \in Procs \ {p} : call[q].at \in {"clean", "cleaned"} /\ call[q].e = e

\* A process other than p still uses e.
HeldBeside(p, e) ==
  \/ PoppedBeside(p, e)
  \/ \E q \in Procs \ {p} : call[q].at \notin {"idle", "miss"} /\ call[q].e = e

\* A process other than p has yet to write back what it popped of block b.
EvictedBeside(p, b) ==
  \E q \in Procs \ {p} : call[q].at = "evict" /\ entry[call[q].victim].block = b

Cached(b) == {e \in Range(cache) : entry[e].block = b}

\* Mutant: only the device is compared.
bcache_find_any(b) == IF cache = <<>> THEN NoEntry ELSE cache[1]

\* bcache_find: the first entry of b from the head.
bcache_find(b) ==
  IF Cached(b) = {} THEN NoEntry
  ELSE cache[Min({i \in DOMAIN cache : entry[cache[i]].block = b})]

\* Mutant: the walk goes towards the head.
Successor_back(e) ==
  LET before == {i \in DOMAIN cache : i < Len(cache) /\ cache[i + 1] = e}
  IN  IF before = {} THEN NoEntry ELSE cache[Min(before)]

\* The entry after e, unless e is off the list: then its pointers are null.
Successor(e) ==
  LET after == {i \in DOMAIN cache : i > 1 /\ cache[i - 1] = e}
  IN  IF after = {} THEN NoEntry ELSE cache[Min(after)]

Written == Max({latest[b] : b \in Blocks})
Writing == {p \in Procs : call[p].at # "idle" /\ call[p].op = "write"}

\* bcache_read_block or bcache_write_block up to bcache_find.
start(p, op, b) ==
  /\ call[p].at = "idle"
  /\ op = "write" => Written + Cardinality(Writing) < MaxWrites
  /\ LET e == bcache_find(b) IN
     /\ call' = [call EXCEPT ![p] =
          [at |-> IF e = NoEntry THEN "miss" ELSE "trim", op |-> op, block |-> b,
           hit |-> e # NoEntry, e |-> e, victim |-> NoEntry]]
     /\ raced' = (raced \/ (e # NoEntry /\ Unfilled(e)))
  /\ UNCHANGED <<cache, size, entry, heap, disk, latest, answer, promise, failures, lost>>

\* Nothing is allocated, and the call returns KERROR_OUT_OF_MEMORY.
out_of_memory(p) ==
  /\ call[p].at = "miss"
  /\ Return(p)
  /\ UNCHANGED <<cache, size, entry, heap, disk, latest, answer, promise, failures, raced, lost>>

\* Mutant: the entry is not counted.
list_push_head_uncounted(e) == cache' = <<e>> \o cache /\ UNCHANGED size

list_push_head(e) == cache' = <<e>> \o cache /\ size' = size + 1

\* bcache_entry_create and list_push_head.  dirty is what kmalloc left there.
bcache_create(p) ==
  /\ call[p].at = "miss"
  /\ \E e \in Entries \ heap, d \in BOOLEAN :
       /\ entry' = [entry EXCEPT ![e] = [block |-> call[p].block, dirty |-> d, data |-> Junk]]
       /\ heap' = heap \cup {e}
       /\ list_push_head(e)
       /\ call' = [call EXCEPT ![p].at = "trim", ![p].e = e]
  /\ raced' = (raced \/ Cached(call[p].block) # {})
  /\ UNCHANGED <<disk, latest, answer, promise, failures, lost>>

\* Mutant: one entry too many may stay.
Full_late(p) == call[p].at = "trim" /\ size > max_cache_size + 1

\* The condition of the loop of bcache_trim.
Full(p) == call[p].at = "trim" /\ size > max_cache_size

\* bcache_trim pops the tail.  A clean entry is deleted at once, a dirty one goes
\* through bcache_entry_clean.
bcache_trim(p) ==
  /\ Full(p)
  /\ LET v == cache[Len(cache)] IN
     /\ cache' = SubSeq(cache, 1, Len(cache) - 1)
     /\ IF entry[v].dirty
        THEN /\ call' = [call EXCEPT ![p].at = "evict", ![p].victim = v]
             /\ raced' = (raced \/ Unfilled(v))
             /\ UNCHANGED <<heap, entry>>
        ELSE /\ bcache_entry_delete(v)
             /\ raced' = (raced \/ HeldBeside(p, v) \/ call[p].e = v)
             /\ UNCHANGED call
  /\ size' = size - 1
  /\ UNCHANGED <<disk, latest, answer, promise, failures, lost>>

\* device_write of the entry e, which may fail without anybody noticing.
device_write(p, e) ==
  /\ \/ /\ disk' = [disk EXCEPT ![entry[e].block] = entry[e].data]
        /\ UNCHANGED <<failures, lost>>
     \/ /\ failures < MaxFailures
        /\ failures' = failures + 1 /\ lost' = TRUE
        /\ UNCHANGED disk
  /\ raced' = (raced \/ EvictedBeside(p, entry[e].block) \/ PoppedBeside(p, e))
  /\ UNCHANGED <<cache, size, entry, heap, latest, answer, promise>>

evict_write(p) ==
  /\ call[p].at = "evict"
  /\ device_write(p, call[p].victim)
  /\ Goto(p, "evicted")

evict_delete(p) ==
  /\ call[p].at = "evicted"
  /\ bcache_entry_delete(call[p].victim)
  /\ raced' = (raced \/ HeldBeside(p, call[p].victim) \/ call[p].e = call[p].victim)
  /\ call' = [call EXCEPT ![p].at = "trim", ![p].victim = NoEntry]
  /\ UNCHANGED <<cache, size, disk, latest, answer, promise, failures, lost>>

Trimmed(p) == call[p].at = "trim" /\ ~Full(p)

\* The answer is copied out of the entry.
Copy(p) ==
  /\ answer' = [answer EXCEPT ![p] = entry[call[p].e].data]
  /\ raced' = (raced \/ PoppedBeside(p, call[p].e))
  /\ Return(p)
  /\ UNCHANGED <<cache, size, entry, heap, disk, latest, promise, failures, lost>>

read_hit(p) == Trimmed(p) /\ call[p].op = "read" /\ call[p].hit /\ Copy(p)

read_miss(p) ==
  /\ Trimmed(p) /\ call[p].op = "read" /\ ~call[p].hit
  /\ Goto(p, "load")
  /\ UNCHANGED <<cache, size, entry, heap, disk, latest, answer, promise, failures, raced, lost>>

device_read(p) ==
  /\ call[p].at = "load"
  /\ entry' = [entry EXCEPT ![call[p].e].data = disk[call[p].block]]
  /\ raced' = (raced \/ EvictedBeside(p, call[p].block))
  /\ Goto(p, "loaded")
  /\ UNCHANGED <<cache, size, heap, disk, latest, answer, promise, failures, lost>>

\* Mutant: the entry stays in the list.
list_remove_not(e) == UNCHANGED <<cache, size>>

\* list_remove returns at once if e is on no list, and counts only the removal of
\* the head or the tail: it clears node->list before it would decrement its size.
list_remove(e) ==
  /\ cache' = Without(cache, {e})
  /\ size' = IF cache # <<>> /\ e \in {cache[1], cache[Len(cache)]} THEN size - 1 ELSE size

device_read_fails(p) ==
  /\ call[p].at = "load" /\ failures < MaxFailures
  /\ failures' = failures + 1
  /\ list_remove(call[p].e)
  /\ bcache_entry_delete(call[p].e)
  /\ raced' = (raced \/ HeldBeside(p, call[p].e))
  /\ Return(p)
  /\ UNCHANGED <<disk, latest, answer, promise, lost>>

read_loaded(p) == call[p].at = "loaded" /\ Copy(p)

\* Mutant: the block is not marked dirty if it was cached.
Fill_clean(p, d) ==
  [entry EXCEPT ![call[p].e].data = d, ![call[p].e].dirty = @ \/ ~call[p].hit]

Fill(p, d) == [entry EXCEPT ![call[p].e].data = d, ![call[p].e].dirty = TRUE]

\* The end of bcache_write_block.
write_block(p) ==
  /\ Trimmed(p) /\ call[p].op = "write"
  /\ LET d == Written + 1 IN
     /\ entry' = Fill(p, d)
     /\ latest' = [latest EXCEPT ![call[p].block] = d]
  /\ raced' = (raced \/ CleanedBeside(p, call[p].e))
  /\ Return(p)
  /\ UNCHANGED <<cache, size, heap, disk, answer, promise, failures, lost>>

\* bcache_flush_device and bcache_flush_all, of the one device.
flush(p) ==
  /\ call[p].at = "idle"
  /\ call' = [call EXCEPT ![p].at = "walk", ![p].op = "flush", ![p].hit = TRUE,
                          ![p].e = IF cache = <<>> THEN NoEntry ELSE cache[1]]
  /\ promise' = [promise EXCEPT ![p] = latest]
  /\ UNCHANGED <<cache, size, entry, heap, disk, latest, answer, failures, raced, lost>>

Advance(p) == [call EXCEPT ![p].at = "walk", ![p].e = Successor(@)]

walk_clean(p) ==
  /\ call[p].at = "walk" /\ call[p].e # NoEntry
  /\ IF entry[call[p].e].dirty
     THEN Goto(p, "clean") /\ raced' = (raced \/ Unfilled(call[p].e))
     ELSE call' = Advance(p) /\ UNCHANGED raced
  /\ UNCHANGED <<cache, size, entry, heap, disk, latest, answer, promise, failures, lost>>

\* bcache_flush_block of a cached block (of another one it does nothing).
flush_block(p, b) ==
  /\ call[p].at = "idle" /\ bcache_find(b) # NoEntry /\ entry[bcache_find(b)].dirty
  /\ call' = [call EXCEPT ![p] = [at |-> "clean", op |-> "flush_block", block |-> b,
                                  hit |-> TRUE, e |-> bcache_find(b), victim |-> NoEntry]]
  /\ raced' = (raced \/ Unfilled(bcache_find(b)))
  /\ UNCHANGED <<cache, size, entry, heap, disk, latest, answer, promise, failures, lost>>

clean_write(p) ==
  /\ call[p].at = "clean"
  /\ device_write(p, call[p].e)
  /\ Goto(p, "cleaned")

\* The end of bcache_entry_clean, whatever device_write answered.
clean_done(p) ==
  /\ call[p].at = "cleaned"
  /\ entry' = [entry EXCEPT ![call[p].e].dirty = FALSE]
  /\ call' = IF call[p].op = "flush" THEN Advance(p) ELSE [call EXCEPT ![p] = Idle]
  /\ UNCHANGED <<cache, size, heap, disk, latest, answer, promise, failures, raced, lost>>

flush_return(p) ==
  /\ call[p].at = "walk" /\ call[p].e = NoEntry
  /\ Return(p)
  /\ promise' = [promise EXCEPT ![p] = [b \in Blocks |-> 0]]
  /\ UNCHANGED <<cache, size, entry, heap, disk, latest, answer, failures, raced, lost>>

Init ==
  /\ cache = <<>> /\ size = 0 /\ heap = {}
  /\ disk = [b \in Blocks |-> 0]
  /\ entry = [e \in Entries |-> NoBlock]
  /\ call = [p \in Procs |-> Idle]
  /\ latest = disk
  /\ answer = [p \in Procs |-> 0] /\ promise = [p \in Procs |-> disk]
  /\ failures = 0 /\ raced = FALSE /\ lost = FALSE

Access(p) ==
  \/ \E b \in Blocks : start(p, "read", b) \/ start(p, "write", b)
  \/ out_of_memory(p) \/ bcache_create(p)
  \/ bcache_trim(p) \/ evict_write(p) \/ evict_delete(p)
  \/ read_hit(p) \/ read_miss(p) \/ device_read(p) \/ device_read_fails(p) \/ read_loaded(p)
  \/ write_block(p)

Flush(p) ==
  \/ flush(p) \/ walk_clean(p) \/ clean_write(p) \/ clean_done(p) \/ flush_return(p)
  \/ \E b \in Blocks : flush_block(p, b)

\* What the list and the entries are after a race is not claimed to be known.
Next == ~raced /\ \E p \in Procs : Access(p) \/ Flush(p)

Spec == Init /\ [][Next]_vars
-----------------------------------------------------------------------------
TypeOK ==
  /\ cache \in Seq(Entries) /\ size \in Nat
  /\ entry \in [Entries -> Entry] /\ heap \in SUBSET Entries
  /\ disk \in [Blocks -> Data] /\ latest \in [Blocks -> Data]
  /\ call \in [Procs -> Call]
  /\ answer \in [Procs -> Data] /\ promise \in [Procs -> [Blocks -> Data]]
  /\ failures \in 0 .. MaxFailures /\ raced \in BOOLEAN /\ lost \in BOOLEAN

Filled(b) == {e \in Cached(b) : ~Unfilled(e)}

Evicting(b) == {call[p].victim : p \in {q \in Procs : /\ call[q].at = "evict"
                                                       /\ entry[call[q].victim].block = b}}

\* The last write to a block is in its cached entry, or on its way from the cache
\* to the disk, or on the disk, whatever is created, evicted and flushed, until two
\* calls meet on one entry or a write-back fails.
Coherent ==
  raced \/ lost \/
  \A b \in Blocks :
    IF Filled(b) # {} THEN \A e \in Filled(b) : entry[e].data = latest[b]
    ELSE IF Evicting(b) # {} THEN \E e \in Evicting(b) : entry[e].data = latest[b]
    ELSE disk[b] = latest[b]

\* An entry that is not dirty may be thrown away: the disk has what it holds.
CleanIsOnDisk ==
  raced \/ lost \/
  \A b \in Blocks : \A e \in Filled(b) : ~entry[e].dirty => disk[b] = entry[e].data

\* Nobody works on an entry that has been deleted.
OnlyAllocated ==
  raced \/
  /\ Range(cache) \subseteq heap
  /\ \A p \in Procs :
       /\ call[p].at \in {"evict", "evicted"} => call[p].victim \in heap \ Range(cache)
       /\ call[p].at \notin {"idle", "miss", "walk"} => call[p].e \in heap

\* Once the calls that have just added an entry are through with bcache_trim, the
\* cache is no larger than max_cache_size, however size has drifted from its length.
Bounded ==
  Len(cache) <= max_cache_size
                 + Cardinality({p \in Procs : call[p].at \in {"trim", "evict", "evicted"}})

\* When a flush returns, all that had been written when it began is on the disk,
\* or on its way there by a process that evicts it.
FlushedIsDurable ==
  raced \/ lost \/
  \A p \in Procs : call[p].at = "walk" /\ call[p].op = "flush" /\ call[p].e = NoEntry =>
    \A b \in Blocks : disk[b] >= promise[p][b] \/ EvictedBeside(p, b)

\* To its callers the cache is the disk, only faster.
Store == INSTANCE BlockStore WITH content <- latest, broken <- raced \/ lost
IsStore == Store!Spec
=============================================================================
