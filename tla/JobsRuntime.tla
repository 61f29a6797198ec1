----------------------------- MODULE JobsRuntime -----------------------------
(***************************************************************************)
(* The jobs subsystem: the HTTP handlers of jobs-controller.ts between the *)
(* Mongo collection of jobs, the Scheduler and the Delegator, and the      *)
(* restart of the process (server-initialize-db.ts).                       *)
(*                                                                         *)
(* A handler runs to its first await in one step, and from the reply of    *)
(* each database call to the next await (or the response) in another; in   *)
(* between, timers fire, runs progress and other handlers run.  The        *)
(* database executes a call at any moment between the two, atomically.     *)
(* One owner: every repository call is scoped to the owner, so jobs of     *)
(* other owners behave as absent ones.                                     *)
(***************************************************************************)
EXTENDS Cron

CONSTANTS
  Jobs, Users, OwnerOf, MaxDelay,         \* as in Scheduler
  Executions, MaxDbRetries,               \* as in Delegator
  Requests,   \* bound: requests in flight at once
  Bodies      \* bodies of create and update: [tools, schedule], the schedule a payload or None

VARIABLES
  now, cronJobs, scheduledEvent, lastStart,         \* Scheduler
  pendingJobs, runningJobs, runs, targetEvents,     \* Delegator
  docs,      \* job -> its document in Mongo, or None
  created,   \* job ids drawn so far
  requests,  \* request -> what its handler holds across an await, or None
  up         \* the process runs and has initialised

schedulerVars == <<cronJobs, scheduledEvent, lastStart>>
delegatorVars == <<pendingJobs, runningJobs, runs, targetEvents>>
vars == <<now, schedulerVars, delegatorVars, docs, created, requests, up>>

Delegations ==
  [scheduleType : ScheduleTypes \cup {None}, tools : {b.tools : b \in Bodies}]

S == INSTANCE Scheduler
D == INSTANCE Delegator

Document == [tools : Nat \ {0}, schedule : SchedulePayload \cup {None}]

\* A handler between two of its steps.
Request ==
  [kind        : {"create", "update", "run", "stop", "delete", "status", "retry"},
   job         : Jobs,
   body        : Document \cup {None},
   wantStopped : BOOLEAN,
   step        : {1, 2},                 \* the database call it is at
   replied     : BOOLEAN,                \* the call has executed
   seen        : Document \cup {None}]   \* and returned this document

ASSUME JobsRuntimeAssumption ==
  /\ Bodies \subseteq [tools : Nat \ {0}, schedule : Payloads \cup {None}]
  /\ None \notin SchedulePayload /\ None \notin Document /\ None \notin Request
  /\ MaxDelay \in Nat

\* What is registered with, or handed to, the delegator for a document.
DelegationOf(doc) ==
  [scheduleType |-> IF doc.schedule = None THEN None ELSE doc.schedule.type,
   tools        |-> doc.tools]

Init ==
  /\ S!Init
  /\ D!Init
  /\ docs = [j \in Jobs |-> None]
  /\ created = {}
  /\ requests = [q \in Requests |-> None]
  /\ up = TRUE

-----------------------------------------------------------------------------
\* Requests and database calls

Running(j) == runningJobs[j] # None

Accept(q, r) ==
  /\ up /\ requests[q] = None
  /\ requests' = [requests EXCEPT ![q] =
       [kind |-> r.kind, job |-> r.job, body |-> r.body, wantStopped |-> r.wantStopped,
        step |-> 1, replied |-> FALSE, seen |-> None]]
  /\ UNCHANGED <<now, schedulerVars, delegatorVars, docs, up>>

Ask(kind, j, body, wantStopped) ==
  [kind |-> kind, job |-> j, body |-> body, wantStopped |-> wantStopped]

Finish(q) == requests' = [requests EXCEPT ![q] = None]

\* The request whose reply has come in and found its document.
Resumes(q, kind) ==
  /\ up /\ requests[q] # None
  /\ requests[q].kind = kind /\ requests[q].replied /\ requests[q].seen # None
  /\ UNCHANGED <<now, docs, created, up>>

WritesBody(r) == r.kind = "update" \/ (r.kind = "status" /\ r.step = 2)

\* The document after the call: insertOne, findOneAndUpdate, deleteOne, findOne.
Written(r, old) ==
  IF r.kind = "create" THEN r.body
  ELSE IF old # None /\ r.kind = "delete" THEN None
  ELSE IF old # None /\ WritesBody(r) THEN r.body
  ELSE old

DbExecutes(q) ==
  LET r == requests[q] IN
  /\ r # None /\ ~r.replied
  /\ docs' = [docs EXCEPT ![r.job] = Written(r, @)]
  /\ requests' = [requests EXCEPT ![q].replied = TRUE,
       ![q].seen = IF r.kind = "delete" THEN docs[r.job] ELSE Written(r, docs[r.job])]
  /\ UNCHANGED <<now, schedulerVars, delegatorVars, created, up>>

\* The call fails, or finds no document: the handler throws.
DbRejects(q) ==
  /\ requests[q] # None
  /\ ~requests[q].replied \/ requests[q].seen = None
  /\ Finish(q)
  /\ UNCHANGED <<now, schedulerVars, delegatorVars, docs, created, up>>

-----------------------------------------------------------------------------
\* Attaching a document's schedule to the runtime

Detach(j) == S!Delete(j) /\ D!RemoveJob(j)

\* schedule() and register(); if either throws, what is half attached is wiped
\* and the response carries a warning.
Attach(j, doc) ==
  \/ S!Schedule(j, doc.schedule) /\ D!Register(j, DelegationOf(doc))
  \/ Detach(j)

\* validateJobSchedule, when the request comes in.
ValidNow(body) ==
  body.schedule # None =>
    /\ body.schedule.startDate >= now
    /\ body.schedule.endDate # None => body.schedule.endDate >= now

\* An active schedule that can still start a run.
CanActivate(s) ==
  /\ s.endDate # None => s.endDate > now
  /\ s.type = "once" => s.startDate > now

-----------------------------------------------------------------------------
\* Handlers

CreateJob(q, j, body) ==
  /\ j \notin created /\ ValidNow(body)
  /\ Accept(q, Ask("create", j, body, FALSE))
  /\ created' = created \cup {j}

CreateJobResumes(q) ==
  LET r == requests[q] IN
  /\ Resumes(q, "create")
  /\ Finish(q)
  /\ IF r.seen.schedule # None THEN Attach(r.job, r.seen)
     ELSE D!Delegate(r.job, DelegationOf(r.seen)) /\ UNCHANGED schedulerVars

UpdateJob(q, j, body) ==
  /\ j \in created /\ ValidNow(body) /\ ~Running(j)
  /\ Accept(q, Ask("update", j, body, FALSE))
  /\ UNCHANGED created

\* Mutant: an update that clears the schedule leaves the old one attached.
UpdateJobKeepsSchedule(q) ==
  LET r == requests[q] IN
  /\ Resumes(q, "update")
  /\ Finish(q)
  /\ IF r.seen.schedule # None THEN Attach(r.job, r.seen)
     ELSE UNCHANGED <<schedulerVars, delegatorVars>>

UpdateJobResumes(q) ==
  LET r == requests[q] IN
  /\ Resumes(q, "update")
  /\ Finish(q)
  /\ IF r.seen.schedule # None THEN Attach(r.job, r.seen) ELSE Detach(r.job)

RunJob(q, j) ==
  /\ j \in created
  /\ Accept(q, Ask("run", j, None, FALSE))
  /\ UNCHANGED created

RunJobResumes(q) ==
  LET r == requests[q] IN
  /\ Resumes(q, "run")
  /\ Finish(q)
  /\ IF Running(r.job) THEN UNCHANGED delegatorVars
     ELSE D!Delegate(r.job, DelegationOf(r.seen))
  /\ UNCHANGED schedulerVars

StopJob(q, j) ==
  /\ j \in created
  /\ Accept(q, Ask("stop", j, None, FALSE))
  /\ UNCHANGED created

\* cancel() does nothing for a job that is not running.
StopJobResumes(q) ==
  /\ Resumes(q, "stop")
  /\ Finish(q)
  /\ D!Cancel(requests[q].job)
  /\ UNCHANGED schedulerVars

DeleteJob(q, j) ==
  /\ j \in created /\ ~Running(j)
  /\ Accept(q, Ask("delete", j, None, FALSE))
  /\ UNCHANGED created

\* Mutant: the schedule of a deleted job is torn down, its registration is not.
DeleteJobKeepsRegistration(q) ==
  /\ Resumes(q, "delete")
  /\ Finish(q)
  /\ S!Delete(requests[q].job)
  /\ UNCHANGED delegatorVars

DeleteJobResumes(q) ==
  /\ Resumes(q, "delete")
  /\ Finish(q)
  /\ Detach(requests[q].job)

ChangeJobScheduleStatus(q, j, wantStopped) ==
  /\ j \in created /\ ~Running(j)
  /\ Accept(q, Ask("status", j, None, wantStopped))
  /\ UNCHANGED created

\* The job is read: reject, or write it back with the requested status.
ChangeStatusReads(q) ==
  LET r == requests[q]
      s == r.seen.schedule
      accepted == s # None /\ s.isStopped # r.wantStopped /\ (r.wantStopped \/ CanActivate(s))
  IN
  /\ Resumes(q, "status") /\ r.step = 1
  /\ IF accepted
     THEN requests' = [requests EXCEPT ![q] =
            [r EXCEPT !.step = 2, !.replied = FALSE, !.seen = None,
                      !.body = [r.seen EXCEPT !.schedule.isStopped = r.wantStopped]]]
     ELSE Finish(q)
  /\ UNCHANGED <<schedulerVars, delegatorVars>>

\* The job is written: the runtime is attached from what was read.
ChangeStatusResumes(q) ==
  LET r == requests[q] IN
  /\ Resumes(q, "status") /\ r.step = 2
  /\ Finish(q)
  /\ Attach(r.job, r.body)

RetryJobSchedule(q, j) ==
  /\ j \in created /\ ~Running(j)
  /\ Accept(q, Ask("retry", j, None, FALSE))
  /\ UNCHANGED created

RetryJobScheduleResumes(q) ==
  LET r == requests[q]
      s == r.seen.schedule
  IN
  /\ Resumes(q, "retry")
  /\ Finish(q)
  /\ IF s # None /\ (s.isStopped \/ CanActivate(s)) THEN Attach(r.job, r.seen)
     ELSE UNCHANGED <<schedulerVars, delegatorVars>>

Handler(q) ==
  \/ \E j \in Jobs :
       \/ \E body \in Bodies : CreateJob(q, j, body) \/ UpdateJob(q, j, body)
       \/ RunJob(q, j) \/ StopJob(q, j) \/ DeleteJob(q, j) \/ RetryJobSchedule(q, j)
       \/ \E wantStopped \in BOOLEAN : ChangeJobScheduleStatus(q, j, wantStopped)
  \/ CreateJobResumes(q) \/ UpdateJobResumes(q) \/ RunJobResumes(q) \/ StopJobResumes(q)
  \/ DeleteJobResumes(q) \/ ChangeStatusReads(q) \/ ChangeStatusResumes(q)
  \/ RetryJobScheduleResumes(q)

-----------------------------------------------------------------------------
\* Timers, runs, crash and restart

\* A timer or cron callback; the delegator runs within it up to its first await.
CallbackFires(j) ==
  /\ \/ (S!StartTimerOnce(j) \/ S!CronTick(j)) /\ D!DelegateScheduledJob(j)
     \/ /\ S!StartTimerRecurring(j)
        /\ IF S!StartWasInTheFuture(j) THEN D!DelegateScheduledJob(j) ELSE UNCHANGED delegatorVars
     \/ S!StopTimer(j) /\ UNCHANGED delegatorVars
  /\ UNCHANGED <<now, docs, created, requests, up>>

\* Target events are left to Delegator; a record needs a document to go to,
\* and the jobs-scheduled snapshot a recurring run sends at its end is the current one.
RunProgresses(e) ==
  /\ \/ D!NextTool(e) \/ D!LeaveTools(e) \/ D!ToolThrows(e) \/ D!PersistFails(e)
     \/ D!PersistSucceeds(e) /\ docs[runs[e].job] # None
  /\ UNCHANGED <<now, schedulerVars, docs, created, requests, up>>

Tick ==
  /\ S!Tick
  /\ UNCHANGED <<delegatorVars, docs, created, requests, up>>

\* Everything but the database is lost.
Crash ==
  /\ up /\ up' = FALSE
  /\ cronJobs' = [j \in Jobs |-> None]
  /\ scheduledEvent' = [u \in Users |-> S!CronJobEvents(cronJobs', u)]
  /\ lastStart' = [j \in Jobs |-> None]
  /\ pendingJobs' = [j \in Jobs |-> None]
  /\ runningJobs' = [j \in Jobs |-> None]
  /\ runs' = [e \in Executions |-> None]
  /\ targetEvents' = {}
  /\ requests' = [q \in Requests |-> None]
  /\ UNCHANGED <<now, docs, created>>

\* Mutant: a schedule that has begun is attached from its original start.
RestoredScheduleFromStart(doc) ==
  LET s == doc.schedule IN
  IF s = None THEN None
  ELSE IF s.endDate # None /\ s.endDate < now THEN None
  ELSE IF s.type = "once" /\ s.startDate <= now THEN None
  ELSE s

\* The schedule to attach for a document after a restart, or None: not past its
\* end; a recurring one that has begun resumes at its next run.
RestoredSchedule(doc) ==
  LET s == doc.schedule IN
  IF s = None THEN None
  ELSE IF s.endDate # None /\ s.endDate < now THEN None
  ELSE IF s.startDate > now THEN s
  ELSE IF s.type = "once" \/ NextRunDate(s, now) = None THEN None
  ELSE [s EXCEPT !.startDate = NextRunDate(s, now)]

Restored(j) == docs[j] # None /\ RestoredSchedule(docs[j]) # None

\* initializeDatabase: one pass over the documents, before the server listens.
Boot ==
  /\ ~up /\ up' = TRUE
  /\ cronJobs' = [j \in Jobs |->
       IF Restored(j) THEN S!NewCronJob(RestoredSchedule(docs[j])) ELSE None]
  /\ scheduledEvent' = [u \in Users |-> S!CronJobEvents(cronJobs', u)]
  /\ pendingJobs' = [j \in Jobs |-> IF Restored(j) THEN DelegationOf(docs[j]) ELSE None]
  /\ UNCHANGED <<now, lastStart, runningJobs, runs, targetEvents, docs, created, requests>>

Next ==
  \/ \E q \in Requests : Handler(q) \/ DbExecutes(q) \/ DbRejects(q)
  \/ \E j \in Jobs : CallbackFires(j)
  \/ \E e \in Executions : RunProgresses(e)
  \/ Tick \/ Crash \/ Boot

Spec == Init /\ [][Next]_vars

-----------------------------------------------------------------------------
\* Properties

\* No request on the job is in flight.
Settled(j) == up /\ \A q \in Requests : requests[q] # None => requests[q].job # j

\* Two schedules name the same instants (a restart moves the start to the next run).
SameRule(s, t) ==
  /\ s.type = t.type /\ s.endDate = t.endDate
  /\ IF s.type = "once" THEN s.startDate = t.startDate ELSE CronInstants(s) = CronInstants(t)

\* What is attached is what the owner saved: rule and active-or-stopped intent
\* (FR-JOBS-SCH-008; SCH-011: a failed attach leaves nothing attached).
RuntimeFollowsIntent ==
  \A j \in Jobs :
    (Settled(j) /\ docs[j] # None /\ cronJobs[j] # None) =>
      /\ docs[j].schedule # None
      /\ SameRule(cronJobs[j].payload, docs[j].schedule)
      /\ cronJobs[j].payload.isStopped = docs[j].schedule.isStopped

\* A deleted job has nothing left in the runtime that could start it (FR-JOBS-DEL-001).
DeletedIsDetached ==
  \A j \in created :
    (Settled(j) /\ docs[j] = None) => cronJobs[j] = None /\ pendingJobs[j] = None

\* After a restart every restored schedule is in the state the owner left it in,
\* and an active one next starts when it would have without the restart
\* (FR-JOBS-REBOOT-001, FR-JOBS-SCH-004).
RestartResumesSchedules ==
  [][~up /\ up' =>
       \A j \in Jobs :
         cronJobs'[j] # None =>
           LET s == docs[j].schedule IN
           /\ cronJobs'[j].status = IF s.isStopped THEN "stopped" ELSE "idle"
           /\ cronJobs'[j].startTimeout =
                IF s.isStopped THEN None
                ELSE IF s.startDate > now THEN s.startDate ELSE NextRunDate(s, now)]_vars

=============================================================================
