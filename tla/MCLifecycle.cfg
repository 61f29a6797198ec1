SPECIFICATION FairSpec
CONSTANTS
  None = None
  Boot = Boot
  Callers = {Boot, r1, r2}
  Collections = 3
  Legacy = {2}
  NonUnique = {3}
  MaxClients = 3
  MaxRetries = 2
  MaxRequests = 2
  MaxCalls = 2
INVARIANTS ConnectionOK IndexesAreConfigured WorkIsDrained
PROPERTY ProcessesShutDown
CHECK_DEADLOCK FALSE
