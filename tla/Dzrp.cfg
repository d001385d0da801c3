CONSTANTS
  MaxCmds = 5
  SeqMax = 2
  Lossy = TRUE
  WritesFail = TRUE
  Addrs = {a1, a2}
  NoAddr = NoAddr
  MaxPauses = 1
SPECIFICATION MCSpec
INVARIANTS
  TypeOK
  OwnResponse
  NoForgottenPromise
  ExecutedInOrder
  ReportedStopIsReal
  BreakIsAwaited
  RemoteInSync
PROPERTIES
  ServiceSpec
  EveryCommandSettles
  PauseStopsRun
