CONSTANTS
  Procs = {p1, p2, p3}
  NoProc = NoProc
  Queues = {sleepers}
  Sleepers = sleepers
  PIPE_SIZE = 3
  Bytes = {0, 1}
  MaxSize = 2
SPECIFICATION Spec
SYMMETRY Symmetry
INVARIANTS TypeOK NoStrandedSleeper
PROPERTIES IsFifo
CHECK_DEADLOCK FALSE
CONSTRAINT UntilBroken
