SPECIFICATION FairSession
CONSTANTS
  LogoutTimeout = 2
  MaxCalls = 2
  MaxMoves = 0
PROPERTIES PromptIsAnswered
CHECK_DEADLOCK FALSE
