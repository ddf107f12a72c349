\* A waiter that has seen the output run when it is stopped.
SPECIFICATION Spec
CONSTANTS
  Waiters = {w1}
  FrameNumbers = 3
  BufferSize = 2
  RunInPeriod = 2
INVARIANTS NobodyLeftWaiting
CHECK_DEADLOCK FALSE
