SPECIFICATION MCSpec
CONSTANTS
  Addr <- MCAddr
  SlotAt <- SlotOf
  Single = {0}
  Pages = {0, 1}
  Programs <- MCPrograms
  Patches <- MCPatches
  StopsOf <- MCStops
  Skips = {}
  Callers = {2}
CHECK_DEADLOCK FALSE
INVARIANTS
  CodeIsShown
  CodeIsUnderstood
  FormatsAreRead
