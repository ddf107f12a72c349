\* The run-in of StartOutput beside the input thread.
SPECIFICATION Spec
CONSTANTS
  Waiters = {}
  FrameNumbers = 3
  BufferSize = 2
  RunInPeriod = 2
INVARIANTS OneFrameTogether
CHECK_DEADLOCK FALSE
