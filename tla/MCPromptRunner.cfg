\* Prompts that follow and overlap each other; the user may never answer an ask.
CONSTANTS
  None = None
  Conversations = {c1}
  Prompts = {p1, p2}
  Requests = {q1, q2}
  MaxSteps = 2
  FinishedPromptLimit = 1
SPECIFICATION FairSpec
INVARIANTS
  PromptsAreTracked
  OpenAskIsReplayed
PROPERTIES
  StopIsFinal
  ImplementsContract
  PromptsEnd
