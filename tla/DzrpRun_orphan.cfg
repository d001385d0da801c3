CONSTANTS
  Addrs = {a1}
  NoAddr = NoAddr
  MaxPauses = 1
SPECIFICATION Spec
INVARIANTS
  RemovedIsInMap
