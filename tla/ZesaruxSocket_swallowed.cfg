CONSTANTS
  MaxCmds = 2
  MaxRuns = 1
  MaxPauses = 0
SPECIFICATION Spec
INVARIANTS
  CalledInOrder
CHECK_DEADLOCK FALSE
