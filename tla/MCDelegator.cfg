\* Two runs at once of one job, every interleaving of calls, tools and retries.
CONSTANTS
  None = None
  Jobs = {j1}
  Executions = {e1, e2}
  Delegations <- MCDelegations
  MaxDbRetries = 2
SPECIFICATION FairSpec
INVARIANTS
  TypeOK
  QueuesAreLive
  OutcomeFollowsRecord
PROPERTIES
  NoToolAfterCancel
  RunsEnd
