SPECIFICATION FairSession
CONSTANTS
  LogoutTimeout = 2
  MaxCalls = 3
  MaxMoves = 2
INVARIANTS DashboardHasUser ExpiredIsPrompted
PROPERTY WaitsEnd
CHECK_DEADLOCK FALSE
