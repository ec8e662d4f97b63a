CONSTANTS
  Procs = {shell, p1}
  Shell = shell
  Res = {r1, r2, r3, r4, r5}
  None = None
  NFds = 2
  STDDIR = 0
  MaxParts = 2
  MaxRefs = 3
SPECIFICATION Spec
SYMMETRY Symmetry
INVARIANTS TypeOK  
CHECK_DEADLOCK FALSE
