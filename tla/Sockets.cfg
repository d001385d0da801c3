SPECIFICATION MCSpec
CONSTANTS
  Tasks = {t1, t2, t3, t4}
  MaxCmds = 4
  MaxRuns = 2
  MaxPauses = 1
  Lengths <- MCLengths
  MaxChunk = 14
  Continues = 3
  Pauses = 2
CHECK_DEADLOCK FALSE
INVARIANTS
  MutualExclusion
  WaiterIsServed
  QuitIsTidy
  OwnAnswer
  ReceivedWhole
  StoppedClean
PROPERTIES
  EveryLockSettles
  RunGoesOn
  IncompleteIsTimed
  StopIsTold
