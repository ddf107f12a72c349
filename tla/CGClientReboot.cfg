\* Two routes to a server that restarts its frame IDs.
SPECIFICATION Spec
CONSTANTS
  MaxRoutes = 2
  Readers = {}
  Statics = {s1}
  NoStatics = NoStatics
  NoFrame = 99
  MaxFrames = 3
  MaxBuffer = 1
  MayReboot = TRUE
  Repeats = FALSE
INVARIANTS NothingLost
CHECK_DEADLOCK FALSE
