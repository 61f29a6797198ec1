\* A prompt started while another one finishes.
CONSTANTS
  None = None
  Conversations = {c1}
  Prompts = {p1, p2}
  Requests = {q1, q2}
  MaxSteps = 1
  FinishedPromptLimit = 2
SPECIFICATION Spec
PROPERTY EveryTurnIsSent
