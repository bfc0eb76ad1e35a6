SPECIFICATION Spec
CONSTANTS
  Messages = {1, 2}
  Capacity = 1
  Drains = TRUE
  Flagged = {"auth open"}
CHECK_DEADLOCK FALSE
INVARIANT AuthAnswered
PROPERTY AuthSettled
