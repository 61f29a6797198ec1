\* Two targets at work beside two that are refused, an abort at any point.
CONSTANTS
  None = None
  Targets = {"ch", "ich", "unknown", "bare"}
  TotalAttempts = 2
  SitePages = 3
  Rows = 2
  Documents <- MCDocuments
  Tool <- MCTool
  Settings <- MCSettings
SPECIFICATION FairSpec
INVARIANTS
  NoBrowserForgotten
  EveryVacancyAccounted
PROPERTIES
  CancelIsNotBlamed
  ImplementsContract
  ExecuteResolves
CHECK_DEADLOCK FALSE
