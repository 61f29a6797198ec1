---------------------------- MODULE EventStreams ----------------------------
(***************************************************************************)
(* The event emitter (aop/emitter) and the two event streams of a user,    *)
(* streamJobs (jobs-controller.ts) and streamMcp (mcp-controller.ts), over *)
(* histories of what the delegator, the prompt runner and the clients do.  *)
(*                                                                         *)
(* Emitting is synchronous: each event is with its listeners before the    *)
(* next step.  An owner is a function from jobs to [user, recurring], and  *)
(* a step is [op, on]: what happens, and to which job, run, user or        *)
(* connection.                                                             *)
(***************************************************************************)
EXTENDS Absent

\* An open connection has no end yet: null is no place in a history.
ASSUME NoneIsNoNumber == None \notin Nat

JobTypes == {"jobs-running", "jobs-scheduled", "job-target-finished", "job-finished", "job-failed", "job-cancelled"}

McpTypes == {"selecting", "permission", "call", "answering", "answer", "error", "stopped"}

TypesOf(kind) == IF kind = "jobs" THEN JobTypes ELSE McpTypes

\* runs holds every run there was; running is the delegator's map from a job to its run;
\* emitted is a ghost that keeps every event that passed its schema.
NoStreams ==
  [runs |-> <<>>, running |-> <<>>, emittedJobTargetEvents |-> <<>>, asks |-> <<>>,
   connections |-> <<>>, listeners |-> {}, emitted |-> <<>>]

-----------------------------------------------------------------------------
\* The emitter

\* sendSSE() by the listeners of this type, each for its own user.
Delivered(st, event) ==
  [i \in DOMAIN st.connections |->
     IF [connection |-> i, type |-> event.type] \in st.listeners /\ event.user = st.connections[i].user
     THEN [st.connections[i] EXCEPT !.sent = Append(@, event)] ELSE st.connections[i]]

\* emit(): an event that fails its schema is logged and dropped.
emit(st, event, valid) ==
  IF ~valid THEN st
  ELSE [st EXCEPT
         !.emittedJobTargetEvents = IF event.type = "job-target-finished" THEN Append(@, event) ELSE @,
         !.connections = Delivered(st, event), !.emitted = Append(@, event)]

clearJobTargetEvents(st, job) ==
  [st EXCEPT !.emittedJobTargetEvents = Where(@, LAMBDA event : event.job # job)]

getEmittedJobTargetEventsForUser(st, user) ==
  Where(st.emittedJobTargetEvents, LAMBDA event : event.user = user)

-----------------------------------------------------------------------------
\* The streams

\* getRunningJobsForUser()
RunningOf(st, user, owner) == {job \in DOMAIN st.running : owner[job].user = user}

\* The snapshot with which a jobs stream begins.
aggregated(st, user, owner) ==
  [type |-> "jobs-aggregated", user |-> user,
   runningJobs |-> [job \in RunningOf(st, user, owner) |->
     Where(getEmittedJobTargetEventsForUser(st, user), LAMBDA event : event.job = job)]]

\* The snapshot with which a prompt stream begins: getOpenPermissionsForUser().
openPermissions(st, user) == Where(st.asks, LAMBDA event : event.user = user)

\* streamJobs() and streamMcp(): the snapshot, and one listener for each type of event.
open(st, user, kind, owner) ==
  LET connection == Len(st.connections) + 1
      snapshot == IF kind = "jobs" THEN <<aggregated(st, user, owner)>> ELSE openPermissions(st, user) IN
  [st EXCEPT
    !.connections = Append(@, [user |-> user, kind |-> kind, sent |-> snapshot,
                               after |-> Len(st.emitted), until |-> None]),
    !.listeners = @ \cup {[connection |-> connection, type |-> type] : type \in TypesOf(kind)}]

\* Mutant: one listener is not taken off.
closeKeepsListener(st, i) ==
  [st EXCEPT !.connections[i].until = Len(st.emitted),
             !.listeners = {l \in @ : l.connection # i \/ l.type \in {"job-cancelled", "stopped"}}]

\* req.on("close"): every listener of the connection is taken off.
close(st, i) ==
  [st EXCEPT !.connections[i].until = Len(st.emitted),
             !.listeners = {l \in @ : l.connection # i}]

-----------------------------------------------------------------------------
\* The delegator

newRun(job) == [job |-> job, targets |-> 0, over |-> FALSE]

\* delegate() to its first tool.  The event names the running jobs of every user.
runStarts(st, job, owner) ==
  LET run == Len(st.runs) + 1
      running == [other \in DOMAIN st.running \cup {job} |-> IF other = job THEN run ELSE st.running[other]] IN
  emit([st EXCEPT !.runs = Append(@, newRun(job)), !.running = running],
       [type |-> "jobs-running", user |-> owner[job].user, runningJobs |-> DOMAIN running], TRUE)

\* The runs that go on, those out of the map included.
GoesOn(st, run) == run \in DOMAIN st.runs /\ ~st.runs[run].over

\* onTargetFinish()
targetFinishes(st, run, valid, owner) ==
  LET job == st.runs[run].job IN
  emit([st EXCEPT !.runs[run].targets = @ + 1],
       [type |-> "job-target-finished", user |-> owner[job].user, job |-> job, run |-> run,
        target |-> st.runs[run].targets + 1], valid)

\* removeJob(): its runs go on, out of the map.
removeJob(st, job) ==
  clearJobTargetEvents([st EXCEPT !.running = Restrict(@, DOMAIN @ \ {job})], job)

\* The last event of a run, and the finally of delegate(), which clears by job.
runEnds(st, run, type, owner) ==
  LET job == st.runs[run].job
      user == owner[job].user
      announced == emit([st EXCEPT !.runs[run].over = TRUE], [type |-> type, user |-> user, job |-> job, run |-> run], TRUE)
      attached == IF owner[job].recurring THEN emit(announced, [type |-> "jobs-scheduled", user |-> user], TRUE)
                  ELSE announced IN
  removeJob(attached, job)

-----------------------------------------------------------------------------
\* The prompt runner, as far as its events go.

ask(st, user) ==
  LET event == [type |-> "permission", user |-> user, call |-> Len(st.emitted)] IN
  emit([st EXCEPT !.asks = Append(@, event)], event, TRUE)

\* The first open ask of the user is settled, and its prompt goes on or stops.
decided(st, user, type) ==
  LET waiting == openPermissions(st, user) IN
  IF waiting = <<>> THEN st
  ELSE emit([st EXCEPT !.asks = Where(@, LAMBDA event : event # Head(waiting))],
            [type |-> type, user |-> user], TRUE)

-----------------------------------------------------------------------------

StreamStep(st, step, owner) ==
  CASE step.op = "openJobs" -> open(st, step.on, "jobs", owner)
    [] step.op = "openMcp" -> open(st, step.on, "mcp", owner)
    [] step.op = "close" ->
         IF step.on \in DOMAIN st.connections /\ st.connections[step.on].until = None THEN close(st, step.on) ELSE st
    [] step.op = "start" -> runStarts(st, step.on, owner)
    [] step.op = "target" -> IF GoesOn(st, step.on) THEN targetFinishes(st, step.on, TRUE, owner) ELSE st
    [] step.op = "badTarget" -> IF GoesOn(st, step.on) THEN targetFinishes(st, step.on, FALSE, owner) ELSE st
    [] step.op = "remove" -> removeJob(st, step.on)
    [] step.op = "ask" -> ask(st, step.on)
    [] step.op \in {"call", "stopped"} -> decided(st, step.on, step.op)
    [] step.op \in {"job-finished", "job-failed", "job-cancelled"} ->
         IF GoesOn(st, step.on) THEN runEnds(st, step.on, step.op, owner) ELSE st

\* The state after a history of steps.
Streamed(steps, owner) ==
  LET after[n \in 0..Len(steps)] == IF n = 0 THEN NoStreams ELSE StreamStep(after[n - 1], steps[n], owner) IN
  after[Len(steps)]

-----------------------------------------------------------------------------
\* Properties of a history

\* What a stream was sent after its snapshot: the events of its kind and its user that were
\* emitted while it was open, each once, in order, and no others.
StreamIsFaithful(steps, owner) ==
  LET st == Streamed(steps, owner) IN
  \A i \in DOMAIN st.connections :
    LET c == st.connections[i]
        while == SubSeq(st.emitted, c.after + 1, OrElse(c.until, Len(st.emitted)))
        own == Where(while, LAMBDA event : event.user = c.user /\ event.type \in TypesOf(c.kind)) IN
    IsSuffix(own, c.sent) /\ (c.kind = "jobs" => Len(c.sent) = Len(own) + 1)

\* A client that connects in the middle misses nothing that goes on: of each run that the
\* snapshots name it has seen each valid target once, in the snapshot or after it, and of each
\* open ask of its user it has heard once.
SnapshotIsCurrent(steps, owner) ==
  LET st == Streamed(steps, owner)
      EventsOf(events, run) == Where(events, LAMBDA e : e.type = "job-target-finished" /\ e.run = run) IN
  \A i \in DOMAIN st.connections :
    LET c == st.connections[i] IN
    c.until = None =>
      IF c.kind = "jobs"
      THEN \A job \in RunningOf(st, c.user, owner) :
             LET run == st.running[job]
                 shown == c.sent[1].runningJobs
                 hydrated == IF job \in DOMAIN shown THEN shown[job] ELSE <<>> IN
             /\ EventsOf(hydrated, run) \o EventsOf(c.sent, run) = EventsOf(st.emitted, run)
             /\ \A other \in DOMAIN shown \ {job} : EventsOf(shown[other], run) = <<>>
      ELSE \A n \in DOMAIN openPermissions(st, c.user) :
             Cardinality({k \in DOMAIN c.sent : c.sent[k] = openPermissions(st, c.user)[n]}) = 1

=============================================================================
