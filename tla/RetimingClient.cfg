\* Two waiters, and a user that connects, starts, stops and disconnects at will.
SPECIFICATION FairSpec
CONSTANTS
  Waiters = {w1, w2}
  FrameNumbers = 1
  BufferSize = 2
  RunInPeriod = 2
INVARIANTS TypeOK QuietAfterDisconnect
PROPERTIES CallsReturn WaitersServed
CHECK_DEADLOCK FALSE
