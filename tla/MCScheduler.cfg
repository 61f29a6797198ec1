\* Two jobs of one user under every kind of schedule, no overflow of setTimeout.
CONSTANTS
  None = None
  Jobs = {j1, j2}
  Users = {u1}
  Minute = 2
  MaxTime = 14
  MaxDelay = 14
  Period <- MCPeriod
  OwnerOf <- MCOwnerOf
  Payloads <- AllPayloads
SPECIFICATION Spec
INVARIANTS
  StoppedIsSilent
  AnnouncedRunIsReal
  SnapshotIsCurrent
PROPERTY ImplementsContract
