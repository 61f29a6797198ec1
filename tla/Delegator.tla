------------------------------ MODULE Delegator ------------------------------
(***************************************************************************)
(* backend/src/aop/delegator/index.ts: routes job runs to their tools.     *)
(*                                                                         *)
(* delegate() is an async function: what it does between two awaits is one *)
(* step here.  Several invocations can be in flight at once; each has a    *)
(* record in runs, its local variables and its aborter.  What the tools    *)
(* do, and the database, are the environment's choice.                     *)
(***************************************************************************)
EXTENDS Absent

CONSTANTS
  Jobs,
  Executions,    \* execution ids: bounds the invocations of delegate() remembered at once
  Delegations,   \* payloads [scheduleType, tools]: a schedule type or None, a number of tools
  MaxDbRetries   \* config.maxDbRetries

ASSUME DelegatorAssumption ==
  /\ None \notin Executions
  /\ None \notin Delegations
  /\ MaxDbRetries \in Nat \ {0}
  /\ \A d \in Delegations : d.tools \in Nat \ {0}

VARIABLES
  pendingJobs,   \* job -> registered payload, or None
  runningJobs,   \* job -> execution whose aborter and payload the entry holds, or None
  runs,          \* execution -> its invocation of delegate(), or None
  targetEvents   \* Emitter.emittedJobTargetEvents: <<job, execution, tool>>

vars == <<pendingJobs, runningJobs, runs, targetEvents>>

Run ==
  [job       : Jobs,
   payload   : Delegations,
   phase     : {"tools", "persisting", "done"},
   tool      : Nat,                                \* toolIndex, from 1
   aborted   : BOOLEAN,                            \* aborter.cancelled
   cancelled : BOOLEAN,                            \* cancelledAt is set
   status    : {None, "completed", "cancelled"},   \* of the execution record
   attempts  : Nat,                                \* failed attempts to persist
   recorded  : Nat,                                \* times the record was pushed
   outcome   : {None, "finished", "cancelled", "failed"}]  \* event that ended the run

ASSUME NoneIsNoRun == None \notin Run

ASSUME NoneIsNoOutcome == None \notin {"finished", "cancelled", "failed"}

Active(e) == runs[e] # None /\ runs[e].phase # "done"

Init ==
  /\ pendingJobs = [j \in Jobs |-> None]
  /\ runningJobs = [j \in Jobs |-> None]
  /\ runs = [e \in Executions |-> None]
  /\ targetEvents = {}

-----------------------------------------------------------------------------
\* Queues

Register(j, d) ==
  /\ pendingJobs' = [pendingJobs EXCEPT ![j] = d]
  /\ UNCHANGED <<runningJobs, runs, targetEvents>>

EventsOf(j) == {v \in targetEvents : v[1] = j}

\* The abort signal of the run the entry of j points to, if there is one.
Aborted(j) ==
  [e \in Executions |->
    IF runningJobs[j] = e /\ Active(e) THEN [runs[e] EXCEPT !.aborted = TRUE] ELSE runs[e]]

Cancel(j) ==
  /\ runs' = Aborted(j)
  /\ UNCHANGED <<pendingJobs, runningJobs, targetEvents>>

RemoveJob(j) ==
  /\ runs' = Aborted(j)
  /\ pendingJobs' = [pendingJobs EXCEPT ![j] = None]
  /\ runningJobs' = [runningJobs EXCEPT ![j] = None]
  /\ targetEvents' = targetEvents \ EventsOf(j)

-----------------------------------------------------------------------------
\* delegate()

\* Up to the first await: the entry of the job is set, whoever held it.
\* crypto.randomUUID() draws an execution id that is not in flight.
Delegate(j, d) ==
  \E e \in Executions :
    /\ ~Active(e)
    /\ runs' = [runs EXCEPT ![e] =
         [job |-> j, payload |-> d, phase |-> "tools", tool |-> 1, aborted |-> FALSE,
          cancelled |-> FALSE, status |-> None, attempts |-> 0, recorded |-> 0,
          outcome |-> None]]
    /\ runningJobs' = [runningJobs EXCEPT ![j] = e]
    /\ UNCHANGED <<pendingJobs, targetEvents>>

\* delegateScheduledJob(): without a registered payload only logs.
DelegateScheduledJob(j) ==
  IF pendingJobs[j] = None THEN UNCHANGED vars ELSE Delegate(j, pendingJobs[j])

IsRecurring(d) == d.scheduleType \notin {None, "once"}

\* Mutant: the finally block forgets runningJobs.
EndStillRunning(e, outcome, recorded) ==
  LET j == runs[e].job IN
  /\ runs' = [runs EXCEPT ![e].phase = "done", ![e].outcome = outcome, ![e].recorded = recorded]
  /\ pendingJobs' = IF IsRecurring(runs[e].payload) THEN pendingJobs
                    ELSE [pendingJobs EXCEPT ![j] = None]
  /\ targetEvents' = targetEvents \ EventsOf(j)
  /\ UNCHANGED runningJobs

\* The end of the run, the finally block included: it clears the queues by job,
\* not by execution.
End(e, outcome, recorded) ==
  LET j == runs[e].job IN
  /\ runs' = [runs EXCEPT ![e].phase = "done", ![e].outcome = outcome, ![e].recorded = recorded]
  /\ pendingJobs' = IF IsRecurring(runs[e].payload) THEN pendingJobs
                    ELSE [pendingJobs EXCEPT ![j] = None]
  /\ runningJobs' = [runningJobs EXCEPT ![j] = None]
  /\ targetEvents' = targetEvents \ EventsOf(j)

\* onTargetFinish, called back by the tool that executes.
TargetFinish(e) ==
  /\ Active(e) /\ runs[e].phase = "tools"
  /\ targetEvents' = targetEvents \cup {<<runs[e].job, e, runs[e].tool>>}
  /\ UNCHANGED <<pendingJobs, runningJobs, runs>>

LastTool(e) == runs[e].tool = runs[e].payload.tools

\* Mutant: the loop does not look at the abort signal.
NextToolRegardless(e) ==
  /\ Active(e) /\ runs[e].phase = "tools"
  /\ ~LastTool(e)
  /\ runs' = [runs EXCEPT ![e].tool = @ + 1]
  /\ UNCHANGED <<pendingJobs, runningJobs, targetEvents>>

\* The awaited tool resolves: the next one starts, unless the run was aborted.
NextTool(e) ==
  /\ Active(e) /\ runs[e].phase = "tools"
  /\ ~LastTool(e) /\ ~runs[e].aborted
  /\ runs' = [runs EXCEPT ![e].tool = @ + 1]
  /\ UNCHANGED <<pendingJobs, runningJobs, targetEvents>>

\* Mutant: the record takes its status from the wrong vocabulary.
LeaveToolsFinished(e) ==
  /\ Active(e) /\ runs[e].phase = "tools"
  /\ LastTool(e) \/ runs[e].aborted
  /\ runs' = [runs EXCEPT ![e].phase = "persisting", ![e].cancelled = ~LastTool(e),
                          ![e].status = IF runs[e].aborted THEN "cancelled" ELSE "finished"]
  /\ UNCHANGED <<pendingJobs, runningJobs, targetEvents>>

\* Mutant: persistResult() is not awaited.
LeaveToolsUnpersisted(e) ==
  /\ Active(e) /\ runs[e].phase = "tools"
  /\ LastTool(e) \/ runs[e].aborted
  /\ End(e, "finished", 0)

\* The loop is left, after the last tool or before a further one (only then is
\* cancelledAt set); the status is fixed and persisting begins.
LeaveTools(e) ==
  /\ Active(e) /\ runs[e].phase = "tools"
  /\ LastTool(e) \/ runs[e].aborted
  /\ runs' = [runs EXCEPT ![e].phase = "persisting",
                          ![e].cancelled = ~LastTool(e),
                          ![e].status = IF runs[e].aborted THEN "cancelled" ELSE "completed"]
  /\ UNCHANGED <<pendingJobs, runningJobs, targetEvents>>

\* A tool rejects: the run fails and nothing is persisted.
ToolThrows(e) ==
  /\ Active(e) /\ runs[e].phase = "tools"
  /\ End(e, "failed", runs[e].recorded)

\* The event that ends a run that was persisted, or could not be.
Outcome(e) ==
  IF runs[e].status = "cancelled" /\ runs[e].cancelled THEN "cancelled" ELSE "finished"

PersistSucceeds(e) ==
  /\ Active(e) /\ runs[e].phase = "persisting"
  /\ End(e, Outcome(e), runs[e].recorded + 1)

\* Mutant: the count of failed attempts starts over, so that retrying never stops.
PersistFailsUncounted(e) ==
  /\ Active(e) /\ runs[e].phase = "persisting"
  /\ runs' = [runs EXCEPT ![e].attempts = (@ + 1) % MaxDbRetries]
  /\ UNCHANGED <<pendingJobs, runningJobs, targetEvents>>

\* addExecution rejects, whether or not the record was pushed before; after the
\* last attempt the error is only logged.
PersistFails(e) ==
  /\ Active(e) /\ runs[e].phase = "persisting"
  /\ \E recorded \in {runs[e].recorded, runs[e].recorded + 1} :
       IF runs[e].attempts + 1 < MaxDbRetries
       THEN /\ runs' = [runs EXCEPT ![e].attempts = @ + 1, ![e].recorded = recorded]
            /\ UNCHANGED <<pendingJobs, runningJobs, targetEvents>>
       ELSE End(e, Outcome(e), recorded)

-----------------------------------------------------------------------------
\* Specification: any caller, at any time.

RunStep(e) ==
  \/ NextTool(e) \/ LeaveTools(e) \/ ToolThrows(e)
  \/ PersistSucceeds(e) \/ PersistFails(e)

Next ==
  \/ \E j \in Jobs :
       \/ \E d \in Delegations : Register(j, d) \/ Delegate(j, d)
       \/ DelegateScheduledJob(j) \/ Cancel(j) \/ RemoveJob(j)
  \/ \E e \in Executions : TargetFinish(e) \/ RunStep(e)

Spec == Init /\ [][Next]_vars

\* Tools end (a scraper bounds every navigation and request) and so do calls of
\* the database driver; nobody has to call the delegator.
FairSpec == Spec /\ \A e \in Executions : WF_vars(RunStep(e))

-----------------------------------------------------------------------------
\* Properties

TypeOK ==
  /\ pendingJobs \in [Jobs -> Delegations \cup {None}]
  /\ runningJobs \in [Jobs -> Executions \cup {None}]
  /\ runs \in [Executions -> Run \cup {None}]
  /\ targetEvents \subseteq Jobs \X Executions \X Nat

\* No job is left behind as running: an entry of runningJobs always points to a
\* run of that job that is still going on, however runs overlap and are removed.
RunningEntryIsLive ==
  \A j \in Jobs :
    runningJobs[j] # None =>
      Active(runningJobs[j]) /\ runs[runningJobs[j]].job = j

\* Buffered target events, replayed to clients that connect, are those of runs
\* still going on (FR-JOBS-STR-002: in-flight target-finished events).
TargetEventsAreInFlight ==
  \A v \in targetEvents : Active(v[2]) /\ runs[v[2]].job = v[1]

\* The queues speak of runs that go on, and each of its own job, although all of them
\* are keyed by job and runs of one job overlap.
QueuesAreLive == RunningEntryIsLive /\ TargetEventsAreInFlight

\* The event that ends a run comes after its record was written or given up, so
\* that a client that refetches on the event sees the execution (FR-JOBS-RUN-002).
OutcomeFollowsRecord ==
  \A e \in Executions :
    (runs[e] # None /\ runs[e].outcome \in {"finished", "cancelled"}) =>
      runs[e].recorded > 0 \/ runs[e].attempts + 1 = MaxDbRetries

\* Once cancellation is requested no further tool of the run starts (FR-JOBS-STP-003).
NoToolAfterCancel ==
  [][\A e \in Executions :
       (Active(e) /\ runs[e].aborted /\ runs'[e].aborted) => runs'[e].tool = runs[e].tool]_vars

\* Every run ends, whatever the database does (the retries are bounded).
RunsEnd ==
  \A e \in Executions : Active(e) ~> ~Active(e)

=============================================================================
