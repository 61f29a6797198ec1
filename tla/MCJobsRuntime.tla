---------------------------- MODULE MCJobsRuntime ----------------------------
(***************************************************************************)
(* Small instances of JobsRuntime for TLC.                                 *)
(***************************************************************************)
EXTENDS JobsRuntime, TLC

MCPeriod == [daily |-> 2]

MCOwnerOf == [j \in Jobs |-> CHOOSE u \in Users : TRUE]

MCPayload(type, start, end, isStopped) ==
  [type |-> type, startDate |-> start, endDate |-> end, isStopped |-> isStopped]

MCPayloads ==
  {MCPayload("once", 2, None, FALSE), MCPayload("daily", 2, 5, FALSE)}

\* Unscheduled, once and recurring jobs.
MixedBodies == {[tools |-> 1, schedule |-> p] : p \in MCPayloads \cup {None}}

ExecutionSymmetry == Permutations(Executions)

=============================================================================
