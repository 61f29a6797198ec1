SPECIFICATION Spec
CONSTANTS
  None = None
  Own = {j1}
  Foreign = {}
  MaxRuns = 1
  MaxTargets = 1
  MaxEffects = 1
  MaxInFlight = 2
  MaxTurns = 2
INVARIANT NoTargetTwice
CHECK_DEADLOCK FALSE
