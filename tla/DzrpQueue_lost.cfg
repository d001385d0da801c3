CONSTANTS
  MaxCmds = 3
  SeqMax = 4
  Lossy = TRUE
  WritesFail = FALSE
SPECIFICATION FairSpec
PROPERTIES
  AlwaysSettles
CHECK_DEADLOCK FALSE
