CONSTANTS
  Procs = {p1, p2, p3}
  NoProc = NoProc
  MaxPid = 3
  Queues = {clock}
  Clock = clock
SPECIFICATION Spec
SYMMETRY Symmetry
CHECK_DEADLOCK FALSE
INVARIANT NoMissedExit
