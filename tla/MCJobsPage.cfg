SPECIFICATION FairSpec
CONSTANTS
  None = None
  Own = {j1}
  Foreign = {x1}
  MaxRuns = 2
  MaxTargets = 1
  MaxEffects = 2
  MaxInFlight = 2
  MaxTurns = 2
INVARIANTS OneStream OverlayFollowsServer NoTargetLost
PROPERTY RunningIsTemporary
CHECK_DEADLOCK FALSE
