SPECIFICATION PlatformSpec
CONSTANTS
  Monitors = {"trace", "lsm"}
  RingSize = 1
  ChanSize = 1
  MaxNumber = 2
  Busy = TRUE
CHECK_DEADLOCK FALSE
INVARIANTS LoadGranted PostureMatchesPrograms RingsRead
PROPERTIES NothingSkipped StopReturnsBusy
