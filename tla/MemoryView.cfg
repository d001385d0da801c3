CONSTANTS
  Boundary = 4
  Top = 31
  ByteMax = 1
  Ranges <- MCRanges
  Texts <- MCTexts
  Options = {"plain", "zero", "delta"}
  Criteria <- MCCriteria
  MaxStops = 1
  MaxInputs = 3
SPECIFICATION Spec
CHECK_DEADLOCK FALSE
INVARIANTS
  MemoryIsShown
  DiffIsExact
