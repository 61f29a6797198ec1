------------------------------ MODULE Scheduler ------------------------------
(***************************************************************************)
(* backend/src/aop/scheduler/index.ts: the in-memory cron jobs, each with  *)
(* a start timer, an end timer and a node-cron task, against a clock.      *)
(*                                                                         *)
(* A callback runs within the tick it is due in: the clock advances only   *)
(* when no timer and no cron task is due.  Within a tick callbacks and     *)
(* calls interleave freely, except that timers of one cron job expire in   *)
(* order, the start timer first on a tie (it is armed first).              *)
(***************************************************************************)
EXTENDS Cron

CONSTANTS
  Jobs,
  Users,
  OwnerOf,    \* job -> its user
  MaxDelay    \* the longest delay setTimeout honours: 2^31 - 1 ms, in ticks

ASSUME SchedulerAssumption ==
  /\ OwnerOf \in [Jobs -> Users]
  /\ MaxDelay \in Nat

VARIABLES
  now,             \* the clock
  cronJobs,        \* job -> its CronJob, or None
  scheduledEvent,  \* user -> the last jobs-scheduled snapshot emitted for them
  lastStart        \* job -> instant of the last call of delegateScheduledJob
                   \* under the current attachment, or None (kept for the properties)

vars == <<now, cronJobs, scheduledEvent, lastStart>>

CronJob ==
  [payload      : Payloads,
   attachedAt   : Nat,                  \* "now" in the closures of schedule()
   status       : {"idle", "stopped"},
   startTimeout : Nat \cup {None},      \* instant at which it fires
   stopTimeout  : Nat \cup {None},
   cronSince    : Nat \cup {None}]      \* None: task not started; else the instant
                                        \* it was started or last ticked

ASSUME NoneIsNoRecord ==
  None \notin CronJob /\ None \notin [payload : Payloads, since : Nat]

-----------------------------------------------------------------------------
\* Events

\* getCronJobEventsForUser, without the dates: those follow from the payload.
CronJobEvents(jobs, u) ==
  [j \in {k \in Jobs : OwnerOf[k] = u /\ jobs[k] # None} |-> jobs[j].status]

EmitCronJobsForUser(u) ==
  scheduledEvent' = [scheduledEvent EXCEPT ![u] = CronJobEvents(cronJobs', u)]

-----------------------------------------------------------------------------
\* schedule() and delete()

\* Node runs a timer whose delay is below 1 or above 2^31 - 1 ms after 1 ms.
NodeDelay(ms) == IF ms \in 1..MaxDelay THEN ms ELSE 0

NewCronJob(p) ==
  [payload      |-> p,
   attachedAt   |-> now,
   status       |-> IF p.isStopped THEN "stopped" ELSE "idle",
   startTimeout |-> IF p.isStopped THEN None ELSE now + NodeDelay(p.startDate - now),
   stopTimeout  |-> IF p.isStopped \/ p.endDate = None
                    THEN None ELSE now + NodeDelay(p.endDate - now),
   cronSince    |-> None]

\* The previous attachment, if any, is torn down: its timers and its cron task
\* live in the entry that is replaced.  The two throws between the tear-down and the
\* new entry, for no or an invalid cron expression, are left out: the types and dates
\* the schemas admit always make a valid one.
Schedule(j, p) ==
  /\ cronJobs' = [cronJobs EXCEPT ![j] = NewCronJob(p)]
  /\ EmitCronJobsForUser(OwnerOf[j])
  /\ lastStart' = [lastStart EXCEPT ![j] = None]

\* Mutant: torn down without telling the stream.
DeleteSilently(j) ==
  /\ cronJobs' = [cronJobs EXCEPT ![j] = None]
  /\ UNCHANGED scheduledEvent
  /\ lastStart' = [lastStart EXCEPT ![j] = None]

\* Absent: only logged.
Delete(j) ==
  /\ cronJobs' = [cronJobs EXCEPT ![j] = None]
  /\ IF cronJobs[j] = None THEN UNCHANGED scheduledEvent ELSE EmitCronJobsForUser(OwnerOf[j])
  /\ lastStart' = [lastStart EXCEPT ![j] = None]

-----------------------------------------------------------------------------
\* Callbacks.  A step that satisfies StartsJob(j) calls delegateScheduledJob(j).

StartTimerDue(j) ==
  cronJobs[j] # None /\ cronJobs[j].startTimeout = now

StopTimerDue(j) ==
  /\ cronJobs[j] # None
  /\ cronJobs[j].stopTimeout = now
  /\ cronJobs[j].startTimeout # now

CronTickDue(j) ==
  /\ cronJobs[j] # None
  /\ cronJobs[j].cronSince # None
  /\ cronJobs[j].cronSince < now
  /\ now \in CronInstants(cronJobs[j].payload)

IsOnce(j) == cronJobs[j].payload.type = "once"

\* Mutant: a start date that has passed is caught up with.
CatchUp(j) == TRUE

StartWasInTheFuture(j) == cronJobs[j].payload.startDate > cronJobs[j].attachedAt

\* once: delegate, then delete.
StartTimerOnce(j) ==
  /\ StartTimerDue(j)
  /\ IsOnce(j)
  /\ cronJobs' = [cronJobs EXCEPT ![j] = None]
  /\ EmitCronJobsForUser(OwnerOf[j])
  /\ lastStart' = [lastStart EXCEPT ![j] = now]

\* recurring: delegate unless the start had passed, then start the cron task.
StartTimerRecurring(j) ==
  /\ StartTimerDue(j)
  /\ ~IsOnce(j)
  /\ cronJobs' = [cronJobs EXCEPT ![j].startTimeout = None, ![j].cronSince = now]
  /\ lastStart' = IF StartWasInTheFuture(j) THEN [lastStart EXCEPT ![j] = now] ELSE lastStart
  /\ UNCHANGED scheduledEvent

\* Mutant: the status changes but the cron task keeps ticking.
StopTimerKeepsTask(j) ==
  /\ StopTimerDue(j)
  /\ cronJobs' = [cronJobs EXCEPT ![j].stopTimeout = None, ![j].status = "stopped"]
  /\ EmitCronJobsForUser(OwnerOf[j])
  /\ UNCHANGED lastStart

StopTimer(j) ==
  /\ StopTimerDue(j)
  /\ cronJobs' = [cronJobs EXCEPT ![j].stopTimeout = None, ![j].cronSince = None,
                                  ![j].status = "stopped"]
  /\ EmitCronJobsForUser(OwnerOf[j])
  /\ UNCHANGED lastStart

CronTick(j) ==
  /\ CronTickDue(j)
  /\ cronJobs' = [cronJobs EXCEPT ![j].cronSince = now]
  /\ lastStart' = [lastStart EXCEPT ![j] = now]
  /\ UNCHANGED scheduledEvent

-----------------------------------------------------------------------------
\* Specification

Init ==
  /\ now = 0
  /\ cronJobs = [j \in Jobs |-> None]
  /\ scheduledEvent = [u \in Users |-> CronJobEvents(cronJobs, u)]
  /\ lastStart = [j \in Jobs |-> None]

Callback(j) ==
  StartTimerOnce(j) \/ StartTimerRecurring(j) \/ StopTimer(j) \/ CronTick(j)

Tick ==
  /\ now < MaxTime
  /\ \A j \in Jobs : ~StartTimerDue(j) /\ ~StopTimerDue(j) /\ ~CronTickDue(j)
  /\ now' = now + 1
  /\ UNCHANGED <<cronJobs, scheduledEvent, lastStart>>

Next ==
  \/ /\ \E j \in Jobs : Callback(j) \/ Delete(j) \/ \E p \in Payloads : Schedule(j, p)
     /\ UNCHANGED now
  \/ Tick

Spec == Init /\ [][Next]_vars

-----------------------------------------------------------------------------
\* Properties

TypeOK ==
  /\ now \in 0..MaxTime
  /\ cronJobs \in [Jobs -> CronJob \cup {None}]
  /\ DOMAIN scheduledEvent = Users
  /\ lastStart \in [Jobs -> Nat \cup {None}]

\* No attached schedule reaches past the longest delay setTimeout honours.
NoOverflow ==
  \A p \in Payloads :
    p.startDate <= MaxDelay /\ (p.endDate # None => p.endDate <= MaxDelay)

\* A cron job shown as stopped is silent: neither its start timer nor its cron
\* task can start the job any more (FR-JOBS-SSC-002, FR-JOBS-SCH-009).
StoppedIsSilent ==
  \A j \in Jobs :
    cronJobs[j] # None /\ cronJobs[j].status = "stopped" =>
      cronJobs[j].startTimeout = None /\ cronJobs[j].cronSince = None

\* No start comes before the start date of the schedule (FR-JOBS-SCH-005).
NoEarlyStart ==
  \A j \in Jobs :
    cronJobs[j] # None /\ lastStart[j] # None =>
      lastStart[j] >= cronJobs[j].payload.startDate

\* The stream never lags the map: the last jobs-scheduled snapshot a user was
\* sent shows exactly the attached cron jobs with their status (FR-JOBS-STR-004).
SnapshotIsCurrent ==
  \A u \in Users : scheduledEvent[u] = CronJobEvents(cronJobs, u)

\* When the cron job will really start the job next, if nobody intervenes.
NextStart(c) ==
  LET starts == IF c.startTimeout # None /\ c.payload.startDate > c.attachedAt
                THEN {c.startTimeout}
                ELSE {t \in CronInstants(c.payload) : t > now}
      inTime == {t \in starts : c.stopTimeout # None => t <= c.stopTimeout}
  IN  IF inTime = {} THEN None ELSE Min(inTime)

\* The next run an active recurring schedule announces is the one it makes
\* (FR-JOBS-STR-003); judged while nothing is due at this instant.  A start still
\* ahead must be on the minute: getNextRunDate rounds it, the start timer does not.
AnnouncedRunIsReal ==
  \A j \in Jobs :
    (/\ cronJobs[j] # None
     /\ cronJobs[j].status = "idle"
     /\ ~IsOnce(j)
     /\ \/ now >= cronJobs[j].payload.startDate
        \/ Truncate(cronJobs[j].payload.startDate) = cronJobs[j].payload.startDate
     /\ ~StartTimerDue(j) /\ ~StopTimerDue(j) /\ ~CronTickDue(j))
      => NextRunDate(cronJobs[j].payload, now) = NextStart(cronJobs[j])

\* What the contract sees attached: what the map holds, under its payload and
\* from the instant it was attached.
Attached ==
  [j \in Jobs |->
    IF cronJobs[j] = None THEN None
    ELSE [payload |-> cronJobs[j].payload, since |-> cronJobs[j].attachedAt]]

Contract == INSTANCE ScheduleContract WITH attached <- Attached

\* The scheduler starts a job exactly when ScheduleContract says, whatever order
\* timers, cron task and calls come in (FR-JOBS-SCH-004, SCH-005, SCH-009, SSC-002).
ImplementsContract == Contract!Spec

=============================================================================
