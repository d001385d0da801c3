SPECIFICATION Spec
CONSTANTS
  Top = 2
  Banks = {0, 1, 2}
  Rom = {0}
  SlotBanks <- MCSlotBanks
  InitialSlots <- MCInitialSlots
  Ops <- MCOps
  Wps <- MCWps
  Bps <- MCBps
  TimeStep = 2
  MaxTstates = 3
  MaxCalls = 4
CHECK_DEADLOCK FALSE
INVARIANTS
  WatchesWork
PROPERTIES
  StateIsRestored
  StopEnds
