\* GetFrame in all modes, two buffer sizes, time-outs and reconnections.
SPECIFICATION Spec
CONSTANTS
  Callers = {c1}
  MaxFrames = 3
  Sizes = {1, 2}
  Modes = {"ServerPush", "ClientPull", "ClientPullPreFetch"}
  MaxAsked = 2
  MaxNet = 2
  Reconnects = TRUE
INVARIANTS TypeOK PreFetchUnderWay NothingCached
PROPERTIES LatestAdvances
CHECK_DEADLOCK FALSE
