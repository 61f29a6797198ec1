----------------------------- MODULE JobsOverlay -----------------------------
(***************************************************************************)
(* The pure functions of frontend/src/components/pages/jobs: how a stream  *)
(* event is merged into the executions of a job (mappers), and what a job  *)
(* card shows and offers (jobsList/mappers, ScraperTarget).  A schedule is *)
(* [type, status, startDate, endDate], a stream entry [status, nextRun,    *)
(* lastRun], an execution [executionId, finishedAt, tools], a tool [toolId,*)
(* targets]; None is null or undefined.                                    *)
(***************************************************************************)
EXTENDS Absent

-----------------------------------------------------------------------------
\* Executions

IndexWhere(s, Test(_)) ==
  IF \E i \in DOMAIN s : Test(s[i]) THEN CHOOSE i \in DOMAIN s : Test(s[i]) ELSE 0

\* The target is appended to its tool, which the first one of the tool creates.
addTarget(tools, event) ==
  LET i == IndexWhere(tools, LAMBDA t : t.toolId = event.toolId) IN
  IF i = 0 THEN Append(tools, [toolId |-> event.toolId, targets |-> <<event.target>>])
  ELSE [tools EXCEPT ![i].targets = Append(@, event.target)]

mapToExecutions(executions, event) ==
  LET i == IndexWhere(executions, LAMBDA e : e.executionId = event.executionId) IN
  IF i = 0
  THEN Append(executions, [executionId |-> event.executionId, finishedAt |-> None,
                           tools |-> addTarget(<<>>, event)])
  ELSE [executions EXCEPT ![i].tools = addTarget(@, event)]

\* The events a snapshot carries are merged into what the page already shows.
replay(executions, events) == FoldLeft(mapToExecutions, executions, events)

\* onJobFinishedEvent: the end of the run, if the page has its execution.
withFinishedAt(executions, event) ==
  LET i == IndexWhere(executions, LAMBDA e : e.executionId = event.executionId) IN
  IF i = 0 THEN executions ELSE [executions EXCEPT ![i].finishedAt = event.finishedAt]

-----------------------------------------------------------------------------
\* The job card

\* The first that applies, in this order.
mapToStatus(schedule, stream, isRunning, now) ==
  IF isRunning THEN "running"
  ELSE IF schedule = None THEN "inactive"
  ELSE IF schedule.type = "once"
  THEN IF schedule.startDate <= now THEN "inactive"
       ELSE IF schedule.status = "stopped" THEN "paused" ELSE "active"
  ELSE IF stream = None THEN "missing"
  ELSE IF schedule.endDate # None /\ schedule.endDate <= now THEN "inactive"
  ELSE IF stream.status = "stopped" THEN "paused" ELSE "active"

mapToActionType(status) ==
  [running |-> "stop", active |-> "pause", paused |-> "activate",
   inactive |-> "run", missing |-> "retry"][status]

\* The dates of the card, None shown as "n/a".  delegatedAt of the first and the last
\* execution stand for those of a job without a schedule of its own.
mapToCardSchedule(schedule, stream, firstRun, lastRun, now) ==
  IF schedule = None
  THEN [type |-> None, startDate |-> firstRun, endDate |-> None, nextRun |-> None, lastRun |-> lastRun]
  ELSE IF schedule.type = "once"
  THEN [type |-> "once", startDate |-> schedule.startDate, endDate |-> None,
        nextRun |-> IF schedule.startDate > now THEN schedule.startDate ELSE None, lastRun |-> lastRun]
  ELSE [type |-> schedule.type, startDate |-> schedule.startDate, endDate |-> schedule.endDate,
        nextRun |-> IF stream = None THEN None ELSE stream.nextRun,
        lastRun |-> IF stream = None THEN None ELSE stream.lastRun]

showSkeleton(schedule, isStreamHydrated) ==
  schedule # None /\ schedule.type # "once" /\ ~isStreamHydrated

-----------------------------------------------------------------------------
\* What the backend accepts (jobs-controller), by the persisted schedule

CanBeActive(schedule, now) ==
  /\ schedule.endDate # None => schedule.endDate > now
  /\ schedule.type = "once" => schedule.startDate > now

\* The handler behind an action does not reject it.
accepts(action, schedule, isRunning, now) ==
  CASE action = "run" -> ~isRunning
    [] action = "stop" -> isRunning
    [] action = "pause" -> ~isRunning /\ schedule # None /\ schedule.status = "idle"
    [] action = "activate" ->
         ~isRunning /\ schedule # None /\ schedule.status = "stopped" /\ CanBeActive(schedule, now)
    [] action = "retry" ->
         ~isRunning /\ schedule # None /\ (schedule.status = "stopped" \/ CanBeActive(schedule, now))

-----------------------------------------------------------------------------
\* Properties

\* However the targets of several runs and tools interleave, each is shown once, under
\* its run and tool, in the order it came.
EventsAreMerged(events) ==
  LET executions == replay(<<>>, events)
      runs == {events[i].executionId : i \in DOMAIN events}
      toolsOf(r) == {events[i].toolId : i \in {k \in DOMAIN events : events[k].executionId = r}}
      targetsOf(r, t) == Mapped(LAMBDA e : e.target,
                                Where(events, LAMBDA e : e.executionId = r /\ e.toolId = t))
  IN /\ Len(executions) = Cardinality(runs)
     /\ \A i \in DOMAIN executions :
          LET r == executions[i].executionId IN
          /\ r \in runs
          /\ Len(executions[i].tools) = Cardinality(toolsOf(r))
          /\ \A k \in DOMAIN executions[i].tools :
               executions[i].tools[k].targets = targetsOf(r, executions[i].tools[k].toolId)

\* While page and backend agree on the job, the card offers an action the backend accepts,
\* but for one case: a recurring schedule that ended and is attached no more shows as
\* missing, and its retry is refused.
OfferedActionIsAccepted(schedule, stream, isRunning, now) ==
  LET status == mapToStatus(schedule, stream, isRunning, now)
      agreed == (schedule # None /\ stream # None) => schedule.status = stream.status
      ended == status = "missing" /\ schedule.status = "idle" /\ ~CanBeActive(schedule, now)
  IN agreed => accepts(mapToActionType(status), schedule, isRunning, now) \/ ended

\* The two mappers of a card agree: a once schedule has a next run exactly while its
\* status says that it can still start, a missing one has none.
CardAgrees(schedule, stream, firstRun, lastRun, now) ==
  LET card == mapToCardSchedule(schedule, stream, firstRun, lastRun, now)
      status == mapToStatus(schedule, stream, FALSE, now)
  IN /\ (schedule # None /\ schedule.type = "once") =>
          ((card.nextRun # None) <=> status \in {"active", "paused"})
     /\ status = "missing" => card.nextRun = None /\ showSkeleton(schedule, FALSE)

=============================================================================
