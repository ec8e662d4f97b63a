CONSTANTS
  Processes = {s, p, q}
  Shell = s
  NFrames = 26
  MaxData = 2
  MaxCalls = 4
  MaxWrites = 2
  Written = {1}
SPECIFICATION PagingSpec
SYMMETRY Programs
INVARIANTS PagingTypeOK 
 
CHECK_DEADLOCK FALSE
