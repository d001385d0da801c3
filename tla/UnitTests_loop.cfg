SPECIFICATION Spec
CONSTANTS
  Clicks = 2
  Tests = 1
  MayLoop = TRUE
  Calm = TRUE
  MaxVerdicts = 5
CHECK_DEADLOCK FALSE
PROPERTIES
  TestsTimeOut
