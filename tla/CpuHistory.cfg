CONSTANTS
  MaxRun = 4
  MaxDepth = 4
  MaxSize = 2
SPECIFICATION Spec
INVARIANTS
  StackIsShown
  HistoryInOrder
CHECK_DEADLOCK FALSE
