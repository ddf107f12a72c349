\* Three routes bring at most four frames to a polling reader: order,
\* completeness and the refinement of the feed.
SPECIFICATION Spec
CONSTANTS
  MaxRoutes = 3
  Readers = {}
  Statics = {s1}
  NoStatics = NoStatics
  NoFrame = 99
  MaxFrames = 4
  MaxBuffer = 2
  MayReboot = FALSE
  Repeats = FALSE
INVARIANTS TypeOK NothingLost BufferChain
PROPERTIES ImplementsFeed
CHECK_DEADLOCK FALSE
