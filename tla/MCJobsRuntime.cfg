\* One job, a client that awaits each response, crashes and restarts.
CONSTANTS
  None = None
  Jobs = {j1}
  Users = {u1}
  Executions = {e1, e2}
  Requests = {q1}
  MaxDbRetries = 1
  Minute = 2
  MaxTime = 4
  MaxDelay = 4
  Period <- MCPeriod
  OwnerOf <- MCOwnerOf
  Payloads <- MCPayloads
  Bodies <- MixedBodies
SYMMETRY ExecutionSymmetry
SPECIFICATION Spec
INVARIANTS
  RuntimeFollowsIntent
  DeletedIsDetached
PROPERTY RestartResumesSchedules
