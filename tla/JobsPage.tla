------------------------------- MODULE JobsPage -------------------------------
(***************************************************************************)
(* The Jobs page of the frontend (components/pages/jobs/Jobs.tsx) and what *)
(* feeds it: the REST client, the event stream (api/service/client/        *)
(* stream.ts) and, in the backend, the stream handler of jobs-controller   *)
(* with the emitter's buffer of finished targets.                          *)
(*                                                                         *)
(* Each mount of the page runs an effect that fetches the jobs and then    *)
(* subscribes; React's StrictMode runs the effect twice, the first time    *)
(* with its cleanup at once.  A connection delivers in order or breaks,    *)
(* which loses what is in flight; the client then connects again and gets  *)
(* a new snapshot.  Runs of jobs are the backend's, here as far as the     *)
(* stream tells of them (Delegator has the rest).                          *)
(***************************************************************************)
EXTENDS JobsOverlay

CONSTANTS
  Own,          \* jobs of the user of the page
  Foreign,      \* jobs of other users
  MaxRuns,      \* bound: runs, whose execution ids are 1..MaxRuns in the order they start
  MaxTargets,   \* bound: targets of a run
  MaxEffects,   \* bound: runs of the mount effect
  MaxInFlight,  \* bound: events in flight on a connection when the server sends
  MaxTurns      \* bound: mounts, connections that break and requests, together

VARIABLES
  docs,         \* job -> executions persisted, or None
  created,      \* job ids drawn so far
  running,      \* Delegator.runningJobs, its keys
  runs,         \* execution -> [job, sent, phase], or None
  emitted,      \* Emitter.emittedJobTargetEvents
  attached,     \* jobs with an entry in Scheduler.cronJobs
  effects,      \* the runs of the mount effect, in order
  page,         \* the state of Jobs
  mutation,     \* the request the page awaits, or None
  turns,        \* count of what MaxTurns bounds
  overwritten   \* history: jobs the page replaced by what a response carried

serverVars == <<docs, created, running, runs, emitted, attached>>
vars == <<serverVars, effects, page, mutation, turns, overwritten>>

Jobs == Own \cup Foreign
Executions == 1..MaxRuns
RunState == [job : Jobs, sent : 0..MaxTargets, phase : {"tools", "persisted", "done"}]

ASSUME PageAssumption ==
  /\ IsFiniteSet(Own) /\ MaxRuns \in Nat /\ MaxTargets \in Nat
  /\ None \notin RunState

Effects == 1..Len(effects)

\* component is 0 while the page is not shown.
Unmounted == 0
NewState(component) ==
  [component |-> component, jobs |-> <<>>, isFetchingJobs |-> TRUE, running |-> {},
   scheduled |-> {}, isStreamHydrated |-> FALSE]

Turn == turns < MaxTurns /\ turns' = turns + 1

Init ==
  /\ created \in SUBSET Own
  /\ docs = [j \in Own |-> IF j \in created THEN <<>> ELSE None]
  /\ running = {}
  /\ runs = [e \in Executions |-> None]
  /\ emitted = <<>>
  /\ attached = {}
  /\ effects = <<>>
  /\ page = NewState(Unmounted)
  /\ mutation = None
  /\ turns = 0
  /\ overwritten = {}

-----------------------------------------------------------------------------
\* Stream: the server's side

Queued(event) ==
  [i \in Effects |-> IF effects[i].connection = "open"
                     THEN [effects[i] EXCEPT !.queue = Append(@, event)] ELSE effects[i]]

\* emit(): each handler passes on the events of its own user.
Emit(owned, event) ==
  IF owned THEN /\ \A i \in Effects : Len(effects[i].queue) < MaxInFlight
                /\ effects' = Queued(event)
  ELSE UNCHANGED effects

EventsOf(j) == Among(emitted, {v \in Range(emitted) : v.jobId = j})
Without(j) == Among(emitted, {v \in Range(emitted) : v.jobId # j})

\* streamJobs: what the snapshot on connect carries.
Snapshot ==
  [type |-> "jobs-aggregated", running |-> running \cap Own,
   events |-> [j \in running \cap Own |-> EventsOf(j)], scheduled |-> attached]

Delegate(j) ==
  \E e \in Executions :
    /\ runs[e] = None /\ \A before \in 1..(e - 1) : runs[before] # None
    /\ runs' = [runs EXCEPT ![e] = [job |-> j, sent |-> 0, phase |-> "tools"]]
    /\ running' = running \cup {j}
    /\ Emit(j \in Own, [type |-> "jobs-running", running |-> running'])
    /\ UNCHANGED <<docs, created, emitted, attached>>

\* A schedule fires, or another client of the user runs the job.
RunStarts(j) ==
  /\ j \in Own => docs[j] # None
  /\ Delegate(j)
  /\ UNCHANGED <<page, mutation, turns, overwritten>>

TargetEvent(e) ==
  [type |-> "job-target-finished", jobId |-> runs[e].job, executionId |-> e, toolId |-> "tool",
   target |-> <<e, runs[e].sent + 1>>]

\* Only of the user's own runs: those of others reach no handler and no snapshot of his.
TargetFinishes(e) ==
  /\ runs[e] # None /\ runs[e].phase = "tools" /\ runs[e].sent < MaxTargets
  /\ runs[e].job \in Own
  /\ runs' = [runs EXCEPT ![e].sent = @ + 1]
  /\ emitted' = Append(emitted, TargetEvent(e))
  /\ Emit(TRUE, TargetEvent(e))
  /\ UNCHANGED <<docs, created, running, attached, page, mutation, turns, overwritten>>

TargetsOf(e) == [n \in 1..runs[e].sent |-> <<e, n>>]

Record(e) ==
  [executionId |-> e, finishedAt |-> e, tools |-> <<[toolId |-> "tool", targets |-> TargetsOf(e)]>>]

\* The record is in the database, or was given up: delegate() has yet to resume.
RecordIsWritten(e) ==
  /\ runs[e] # None /\ runs[e].phase = "tools"
  /\ runs' = [runs EXCEPT ![e].phase = "persisted"]
  /\ docs' = IF runs[e].job \in Own /\ docs[runs[e].job] # None
             THEN [docs EXCEPT ![runs[e].job] = Append(@, Record(e))] ELSE docs
  /\ UNCHANGED <<created, running, emitted, attached, effects, page, mutation, turns, overwritten>>

\* delegate() emits the outcome and cleans up.
RunEnds(e, type) ==
  /\ runs[e] # None /\ runs[e].phase = IF type = "job-failed" THEN "tools" ELSE "persisted"
  /\ runs' = [runs EXCEPT ![e].phase = "done"]
  /\ running' = running \ {runs[e].job}
  /\ emitted' = Without(runs[e].job)
  /\ Emit(runs[e].job \in Own,
          [type |-> type, jobId |-> runs[e].job, executionId |-> e, finishedAt |-> e])
  /\ UNCHANGED <<docs, created, attached, page, mutation, turns, overwritten>>

\* A schedule is attached; the user's schedules are announced.
ScheduleIsAttached(j) ==
  /\ docs[j] # None /\ j \notin attached
  /\ attached' = attached \cup {j}
  /\ Emit(TRUE, [type |-> "jobs-scheduled", scheduled |-> attached'])
  /\ UNCHANGED <<docs, created, running, runs, emitted, page, mutation, turns, overwritten>>

-----------------------------------------------------------------------------
\* The mount effect

Shown == page.component # Unmounted

NewEffect(component, cancelled) ==
  [component |-> component, phase |-> "fetching", cancelled |-> cancelled, answer |-> <<>>,
   connection |-> "none", queue |-> <<>>]

\* StrictMode: effect, cleanup, effect, all before the first await resolves.
Mount(isStrict) ==
  LET c == Len(effects) + 1
      new == IF isStrict THEN <<NewEffect(c, TRUE), NewEffect(c, FALSE)>> ELSE <<NewEffect(c, FALSE)>>
  IN
  /\ ~Shown /\ Len(effects) + Len(new) <= MaxEffects
  /\ Turn
  /\ effects' = effects \o new
  /\ page' = NewState(c)
  /\ overwritten' = {}
  /\ UNCHANGED <<serverVars, mutation>>

Closed(effect) == [effect EXCEPT !.phase = "closed", !.connection = "none", !.queue = <<>>]

\* The cleanup: closes the subscription there is.
Unmount ==
  /\ Shown
  /\ effects' = [i \in Effects |->
       IF effects[i].component # page.component THEN effects[i]
       ELSE IF effects[i].phase = "streaming" THEN [Closed(effects[i]) EXCEPT !.cancelled = TRUE]
       ELSE [effects[i] EXCEPT !.cancelled = TRUE]]
  /\ page' = NewState(Unmounted)
  /\ UNCHANGED <<serverVars, mutation, turns, overwritten>>

\* The executions persisted so far come with each job.
Stored == Mapped(LAMBDA j : [id |-> j, executions |-> docs[j]], SetToSeq({j \in Own : docs[j] # None}))

\* The backend answers getAll.
FetchIsServed(i) ==
  /\ effects[i].phase = "fetching"
  /\ effects' = [effects EXCEPT ![i].phase = "answered",
                                ![i].answer = Stored]
  /\ UNCHANGED <<serverVars, page, mutation, turns, overwritten>>

\* getAll rejects: logged, the page goes on loading.
FetchFails(i) ==
  /\ effects[i].phase = "fetching"
  /\ effects' = [effects EXCEPT ![i] = Closed(@)]
  /\ UNCHANGED <<serverVars, page, mutation, turns, overwritten>>

Fetched(i) ==
  /\ effects[i].phase = "answered"
  /\ IF effects[i].component = page.component
     THEN /\ page' = [page EXCEPT !.jobs = effects[i].answer, !.isFetchingJobs = FALSE]
          /\ overwritten' = IF page.isStreamHydrated THEN Own ELSE overwritten
     ELSE UNCHANGED <<page, overwritten>>
  /\ UNCHANGED <<serverVars, mutation, turns>>

Subscribed(effect) == [effect EXCEPT !.phase = "streaming", !.connection = "connecting", !.answer = <<>>]

\* Mutant: the subscription is kept whether or not the cleanup has run.
FetchArrivesRegardless(i) ==
  /\ Fetched(i)
  /\ effects' = [effects EXCEPT ![i] = Subscribed(@)]

\* The jobs are shown and the stream is opened, and closed at once after a cleanup.
FetchArrives(i) ==
  /\ Fetched(i)
  /\ effects' = [effects EXCEPT ![i] =
       IF effects[i].cancelled THEN Closed(Subscribed(@)) ELSE Subscribed(@)]

-----------------------------------------------------------------------------
\* Stream: the client's side

\* The handler of the backend subscribes after it sent the snapshot, in the same step.
Connect(i) ==
  /\ effects[i].connection = "connecting"
  /\ effects' = [effects EXCEPT ![i].connection = "open", ![i].queue = <<Snapshot>>]
  /\ UNCHANGED <<serverVars, page, mutation, turns, overwritten>>

\* A 4xx, as for the access token of the first connection once it has expired: fatal.
ConnectIsRefused(i) ==
  /\ effects[i].connection = "connecting"
  /\ effects' = [effects EXCEPT ![i].connection = "dead"]
  /\ UNCHANGED <<serverVars, page, mutation, turns, overwritten>>

\* The connection breaks or the server closes it: onclose throws, the client retries.
ConnectionBreaks(i) ==
  /\ effects[i].connection = "open" /\ Turn
  /\ effects' = [effects EXCEPT ![i].connection = "connecting", ![i].queue = <<>>]
  /\ UNCHANGED <<serverVars, page, mutation, overwritten>>

-----------------------------------------------------------------------------
\* Stream: what the page makes of an event

WithExecutions(jobs, Change(_)) ==
  [n \in DOMAIN jobs |-> [jobs[n] EXCEPT !.executions = Change(jobs[n])]]

\* Mutant: the targets that the snapshot carries are not replayed.
onJobsAggregatedEventWithoutReplay(state, event) ==
  [state EXCEPT !.running = event.running, !.scheduled = event.scheduled, !.isStreamHydrated = TRUE]

\* Mutant: the running jobs of the snapshot are added to those shown.
onJobsAggregatedEventAdds(state, event) ==
  [state EXCEPT !.running = @ \cup event.running, !.scheduled = event.scheduled, !.isStreamHydrated = TRUE]

onJobsAggregatedEvent(state, event) ==
  [state EXCEPT !.running = event.running, !.scheduled = event.scheduled, !.isStreamHydrated = TRUE,
     !.jobs = WithExecutions(@, LAMBDA job :
       IF job.id \in event.running THEN replay(job.executions, event.events[job.id]) ELSE job.executions)]

onRunningJobsEvent(state, event) == [state EXCEPT !.running = event.running]

onScheduledJobsEvent(state, event) == [state EXCEPT !.scheduled = event.scheduled]

onTargetFinishedEvent(state, event) ==
  [state EXCEPT !.jobs = WithExecutions(@, LAMBDA job :
     IF job.id = event.jobId THEN mapToExecutions(job.executions, event) ELSE job.executions)]

\* Mutant: a failed run stays in the overlay.
onJobFailedEventKeeps(state, event) == state

\* onJobCancelledEvent does the same.
onJobFailedEvent(state, event) == [state EXCEPT !.running = @ \ {event.jobId}]

onJobFinishedEvent(state, event) ==
  [state EXCEPT !.running = @ \ {event.jobId},
     !.jobs = WithExecutions(@, LAMBDA job :
       IF job.id = event.jobId THEN withFinishedAt(job.executions, event) ELSE job.executions)]

OnMessage(state, event) ==
  CASE event.type = "jobs-aggregated" -> onJobsAggregatedEvent(state, event)
    [] event.type = "jobs-running" -> onRunningJobsEvent(state, event)
    [] event.type = "jobs-scheduled" -> onScheduledJobsEvent(state, event)
    [] event.type = "job-target-finished" -> onTargetFinishedEvent(state, event)
    [] event.type \in {"job-failed", "job-cancelled"} -> onJobFailedEvent(state, event)
    [] event.type = "job-finished" -> onJobFinishedEvent(state, event)

\* onmessage; the state of a component that is gone is not set.
Deliver(i) ==
  /\ effects[i].connection = "open" /\ effects[i].queue # <<>>
  /\ effects' = [effects EXCEPT ![i].queue = Tail(@)]
  /\ page' = IF effects[i].component = page.component THEN OnMessage(page, Head(effects[i].queue)) ELSE page
  /\ UNCHANGED <<serverVars, mutation, turns, overwritten>>

-----------------------------------------------------------------------------
\* Requests of the page: onCreateJob, onUpdateJob, onDeleteJob.  Those that run, stop or
\* schedule a job change nothing on the page but through the stream: RunStarts, RunEnds.

OnPage(j) == \E n \in DOMAIN page.jobs : page.jobs[n].id = j

\* The request is sent and passes the guards of its handler; one that does not is a toast.
Submit(kind, j) ==
  /\ Shown /\ ~page.isFetchingJobs /\ mutation = None
  /\ IF kind = "create" THEN j \notin created
     ELSE OnPage(j) /\ docs[j] # None /\ j \notin running
  /\ mutation' = [kind |-> kind, job |-> j, component |-> page.component, isServed |-> FALSE, answer |-> <<>>]
  /\ Turn
  /\ UNCHANGED <<serverVars, effects, page, overwritten>>

\* The request or its answer fails: a toast.
RequestFails ==
  /\ mutation # None
  /\ mutation' = None
  /\ UNCHANGED <<serverVars, effects, page, turns, overwritten>>

Detached(j) ==
  /\ running' = running \ {j} /\ emitted' = Without(j)
  /\ attached' = attached \ {j}
  /\ Emit(TRUE, [type |-> "jobs-scheduled", scheduled |-> attached \ {j}])
  /\ UNCHANGED runs

\* What the handler does once the database has answered; by then a run can have started.
RequestIsServed ==
  LET j == mutation.job IN
  /\ mutation # None /\ ~mutation.isServed
  /\ \/ /\ mutation.kind = "create"
        /\ docs' = [docs EXCEPT ![j] = <<>>] /\ created' = created \cup {j}
        /\ UNCHANGED <<running, runs, emitted, attached, effects>>
     \/ /\ mutation.kind = "update" /\ UNCHANGED <<docs, created>>
        /\ Detached(j) \/ UNCHANGED <<running, runs, emitted, attached, effects>>
     \/ /\ mutation.kind = "delete"
        /\ docs' = [docs EXCEPT ![j] = None] /\ UNCHANGED created
        /\ Detached(j)
  /\ mutation' = [mutation EXCEPT !.isServed = TRUE, !.answer = IF docs'[j] = None THEN <<>> ELSE docs'[j]]
  /\ UNCHANGED <<page, turns, overwritten>>

\* The page takes the job of the response over as it is.
ResponseArrives ==
  LET j == mutation.job
      job == [id |-> j, executions |-> mutation.answer]
  IN
  /\ mutation # None /\ mutation.isServed
  /\ mutation' = None
  /\ IF mutation.component # page.component THEN UNCHANGED <<page, overwritten>>
     ELSE /\ page' = [page EXCEPT !.jobs =
               CASE mutation.kind = "create" -> Append(@, job)
                 [] mutation.kind = "update" -> [n \in DOMAIN @ |-> IF @[n].id = j THEN job ELSE @[n]]
                 [] mutation.kind = "delete" -> Among(@, {other \in Range(@) : other.id # j})]
          /\ overwritten' = overwritten \cup {j}
  /\ UNCHANGED <<serverVars, effects, turns>>

-----------------------------------------------------------------------------

Outcomes == {"job-finished", "job-cancelled", "job-failed"}

Run(e) == RecordIsWritten(e) \/ \E type \in Outcomes : RunEnds(e, type)

EffectActs(i) ==
  \/ FetchIsServed(i) \/ FetchFails(i) \/ FetchArrives(i)
  \/ Connect(i) \/ ConnectIsRefused(i) \/ ConnectionBreaks(i) \/ Deliver(i)

Next ==
  \/ \E j \in Jobs : RunStarts(j)
  \/ \E e \in Executions : TargetFinishes(e) \/ Run(e)
  \/ \E j \in Own : ScheduleIsAttached(j)
  \/ \E isStrict \in BOOLEAN : Mount(isStrict)
  \/ Unmount
  \/ \E i \in Effects : EffectActs(i)
  \/ \E kind \in {"create", "update", "delete"}, j \in Own : Submit(kind, j)
  \/ RequestFails \/ RequestIsServed \/ ResponseArrives

Spec == Init /\ [][Next]_vars

\* Runs end (their tools time out), the client retries and the network delivers.
FairSpec ==
  /\ Spec
  /\ \A e \in Executions : WF_vars(Run(e))
  /\ \A i \in 1..MaxEffects :
       WF_vars(i \in Effects /\ (Connect(i) \/ ConnectIsRefused(i))) /\ WF_vars(i \in Effects /\ Deliver(i))

-----------------------------------------------------------------------------
\* Properties

TypeOK ==
  /\ running \subseteq Jobs /\ attached \subseteq Own
  /\ \A e \in Executions : runs[e] # None => runs[e].sent \in 0..MaxTargets
  /\ \A i \in Effects :
       /\ effects[i].phase \in {"fetching", "answered", "streaming", "closed"}
       /\ effects[i].connection \in {"none", "connecting", "open", "dead"}
       /\ effects[i].connection # "open" => effects[i].queue = <<>>
  /\ page.running \subseteq Jobs /\ page.scheduled \subseteq Own

\* "Cleanup may have run between the await and now; close the subscription we just
\* opened so we don't leak it": a page has at most one stream, and none once it is gone.
OneStream ==
  /\ TypeOK
  /\ \A i \in Effects :
       effects[i].phase = "streaming" =>
         /\ effects[i].component = page.component /\ ~effects[i].cancelled
         /\ \A k \in Effects : effects[k].phase = "streaming" => k = i

\* The page shows the stream of its connection, and everything sent has come.
UpToDate ==
  \E i \in Effects :
    /\ effects[i].component = page.component
    /\ effects[i].connection = "open" /\ effects[i].queue = <<>>

InProgress(j) == \E e \in Executions : runs[e] # None /\ runs[e].job = j /\ runs[e].phase # "done"

\* An up-to-date page shows every running job of its user as running, no other one
\* but a job whose run was detached and still goes on, and its schedules as they are.
OverlayFollowsServer ==
  UpToDate =>
    /\ running \cap Own \subseteq page.running
    /\ \A j \in page.running \cap Own : InProgress(j)
    /\ page.scheduled = attached

ShowsTarget(job, target) ==
  \E x \in DOMAIN job.executions : \E t \in DOMAIN job.executions[x].tools :
    \E n \in DOMAIN job.executions[x].tools[t].targets :
      job.executions[x].tools[t].targets[n] = target

OneRun(j) ==
  \A e, f \in Executions :
    (/\ runs[e] # None /\ runs[e].job = j /\ runs[e].phase # "done"
     /\ runs[f] # None /\ runs[f].job = j /\ runs[f].phase # "done") => e = f

\* Through breaks and reconnects, an up-to-date page shows every finished target of
\* the run that the backend lists, unless a response has replaced the job since.
NoTargetLost ==
  UpToDate =>
    \A n \in DOMAIN page.jobs :
      LET job == page.jobs[n] IN
      job.id \in running /\ OneRun(job.id) /\ job.id \notin overwritten =>
        \A k \in DOMAIN emitted : emitted[k].jobId = job.id => ShowsTarget(job, emitted[k].target)

\* "every event is delivered twice — duplicating targets in executions[].tools[].targets"
\* is what the page is meant to avoid: no target is shown twice.
NoTargetTwice ==
  \A n \in DOMAIN page.jobs :
    \A x \in DOMAIN page.jobs[n].executions :
      \A t \in DOMAIN page.jobs[n].executions[x].tools :
        IsInjective(page.jobs[n].executions[x].tools[t].targets)

Dead == \E i \in Effects : effects[i].component = page.component /\ effects[i].connection = "dead"

\* A job shown as running is not shown so for ever: its end is delivered, or a
\* reconnect brings it, unless the stream was refused.
RunningIsTemporary ==
  \A j \in Own : (j \in page.running) ~> (j \notin page.running \/ Dead)

=============================================================================
