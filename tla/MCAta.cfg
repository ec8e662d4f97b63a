CONSTANTS
  a = a
  s = s
  h = h
  disk = disk
  cdrom = cdrom
  Procs = {a, s, h}
  NoProc = NoProc
  Queues = {sleepers, waiters}
  Sleepers = sleepers
  Waiters = waiters
  CLICKS_PER_SECOND = 2
  MaxTicks = 2
  Hogs = {h}
  Probers = {s}
  Kind <- Attached
  First = disk
  NBlocks = 2
  ATA_TIMEOUT = 500
  ATA_IDENTIFY_TIMEOUT = 0
  MaxKills = 1
SPECIFICATION FairSpec
INVARIANTS TypeOK OwnData
PROPERTIES TimeGoesOn HolderFinishes
CHECK_DEADLOCK FALSE
