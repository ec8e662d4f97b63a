CONSTANTS
  Procs = {p1, p2, p3, p4}
  NoProc = NoProc
  Queues = {waiters}
  Waiters = waiters
SPECIFICATION FairSpec
INVARIANTS MutexTypeOK MutualExclusion NoStrandedWaiter
PROPERTIES IsLock 
CHECK_DEADLOCK FALSE
