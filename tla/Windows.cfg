SPECIFICATION Spec
CONSTANTS
  Machines <- MCMachines
  Actors <- MCActors
  Subjects = {"s"}
  SockOps = {1}
  Denied = {"p1"}
  RingSize = 1
  ChanSize = 1
  CounterSize = 2
  MaxLives = 2
CHECK_DEADLOCK FALSE
INVARIANTS RingHeld ReceivedAccounted EventTrue SessionsReleased
PROPERTY StopReturns
