SPECIFICATION MCSpec
CONSTANTS
  MaxReqs = 3
  MaxStacks = 2
  MaxLaunches = 5
  Clicks = 2
  Tests = 2
  MayLoop = FALSE
  Calm = TRUE
  MaxVerdicts = 2
  Folders = {f1}
  Names = {"a", "b"}
  Listings <- MCListings
  MaxFileEdits = 4
  MaxChanges = 2
CHECK_DEADLOCK FALSE
INVARIANTS
  ResponsesAreOnce
  SessionsAreSeparate
  VerdictsAreRight
  ShownIsCurrent
PROPERTIES
  VscodeIsTold
  SessionsEnd
