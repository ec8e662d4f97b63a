CONSTANTS
  Procs = {p1, p2}
  Blocks = {b1, b2, b3}
  Entries = {e1, e2, e3, e4}
  NoEntry = NoEntry
  max_cache_size = 2
  MaxWrites = 2
  MaxFailures = 1
SPECIFICATION Spec
SYMMETRY Symmetry
CONSTRAINT UntilRace
INVARIANTS TypeOK Coherent CleanIsOnDisk OnlyAllocated Bounded FlushedIsDurable
 
