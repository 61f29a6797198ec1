----------------------------- MODULE MCScheduler -----------------------------
(***************************************************************************)
(* Small instances of Scheduler for TLC.                                   *)
(***************************************************************************)
EXTENDS Scheduler

\* "daily" comes round every two minutes, "weekly" every four.
MCPeriod == [daily |-> 4, weekly |-> 8]

MCOwnerOf == [j \in Jobs |-> CHOOSE u \in Users : TRUE]

MCPayload(type, start, end, isStopped) ==
  [type |-> type, startDate |-> start, endDate |-> end, isStopped |-> isStopped]

\* Starts ahead and already passed, one of them off the minute; with and without
\* an end, an end on an occurrence and one between two, one equal to a start that
\* lies more than a period ahead.
AllPayloads ==
  {MCPayload("once", 4, None, FALSE),
   MCPayload("daily", 0, None, FALSE),
   MCPayload("daily", 2, 6, FALSE),
   MCPayload("daily", 2, 7, FALSE),
   MCPayload("daily", 6, 6, FALSE),
   MCPayload("daily", 3, 9, FALSE),
   MCPayload("weekly", 2, None, FALSE),
   MCPayload("daily", 2, 6, TRUE)}

=============================================================================
