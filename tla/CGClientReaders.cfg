\* One route, two readers that wait with a deadline, and statics that change:
\* nobody sleeps over a frame, every wait returns, frames keep their statics.
SPECIFICATION FairSpec
CONSTANTS
  MaxRoutes = 1
  Readers = {t1, t2}
  Statics = {s1, s2}
  NoStatics = NoStatics
  NoFrame = 99
  MaxFrames = 3
  MaxBuffer = 2
  MayReboot = FALSE
  Repeats = TRUE
INVARIANTS NoSleepOverFrames StaticsMatchFrame
PROPERTIES WaitReturns
CHECK_DEADLOCK FALSE
