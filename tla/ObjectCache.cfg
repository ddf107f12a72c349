\* Objects of four types that change, vanish, and are turned off and on, over
\* reconnections.
SPECIFICATION Spec
CONSTANTS
  v1 = v1
  v2 = v2
  Types <- MCTypes
  Values = {v1, v2}
  Nothing = Nothing
  NotAsked = NotAsked
  Null = Null
  MaxNet = 1
SYMMETRY ValueSymmetry
INVARIANTS UnchangedKept NothingLeftOver
