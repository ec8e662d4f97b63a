CONSTANTS
  Procs = {p1, p2}
  Names = {a, b}
  Values = {v}
  Dirents = {root, d1, d2}
  Root = root
  Zero = Zero
  Junk = Junk
  None = None
  NBlocks = 5
  NInodes = 3
  Direct = 1
  Slots = 2
  MaxSize = 4
  MaxCalls = 3
SPECIFICATION Spec
SYMMETRY Symmetry
INVARIANTS TypeOK SpaceSound  
CHECK_DEADLOCK FALSE
