CONSTANTS
  Procs = {p1, p2, p3}
  NoProc = NoProc
  Queues = {readers}
  Readers = readers
  EVENT_BUFFER_SIZE = 3
  Events = {k1, k2}
  MaxSize = 2
SPECIFICATION EventSpec
SYMMETRY Symmetry
INVARIANTS EventTypeOK NoEventWaits
PROPERTIES IsFifo
