--------------------------- MODULE DelegatorProofs ---------------------------
(***************************************************************************)
(* Theorems about Delegator, for any jobs, payloads, number of overlapping *)
(* runs and number of retries; and about EventStreams, the streams that    *)
(* tell of the runs, for any history of them.                              *)
(***************************************************************************)
EXTENDS Delegator, PureProofs

\* The queues never point at a run that is over: an entry of runningJobs and a
\* buffered target event are each about a run of their own job in flight.
Inv == TypeOK /\ RunningEntryIsLive /\ TargetEventsAreInFlight

\* The invariant depends on a run only through its being active and its job: a
\* step that keeps both, and the queues, keeps the invariant.
SameRuns ==
  /\ runs' \in [Executions -> Run \cup {None}]
  /\ \A e \in Executions : Active(e) => Active(e)' /\ runs'[e].job = runs[e].job

LEMMA RunOfActive ==
  ASSUME TypeOK, NEW e \in Executions, Active(e)
  PROVE  runs[e] \in Run
  BY DEF TypeOK, Active

LEMMA InitInv == Init => Inv
  BY DEF Init, Inv, TypeOK, RunningEntryIsLive, TargetEventsAreInFlight

\* Queues that only lose entries keep the invariant if the runs are kept.
LEMMA Shrinking ==
  ASSUME Inv, SameRuns,
         pendingJobs' \in [Jobs -> Delegations \cup {None}],
         runningJobs' \in [Jobs -> Executions \cup {None}],
         \A j \in Jobs : runningJobs'[j] \in {runningJobs[j], None},
         targetEvents' \subseteq targetEvents
  PROVE  Inv'
  <1>1. TypeOK'
    BY DEF Inv, TypeOK, SameRuns
  <1>2. RunningEntryIsLive'
    BY DEF Inv, TypeOK, RunningEntryIsLive, SameRuns
  <1>3. TargetEventsAreInFlight'
    <2> SUFFICES ASSUME NEW v \in targetEvents'
                 PROVE  Active(v[2])' /\ runs'[v[2]].job = v[1]
      BY DEF TargetEventsAreInFlight
    <2>1. v \in targetEvents /\ v[2] \in Executions
      BY DEF Inv, TypeOK
    <2> QED
      BY <2>1 DEF Inv, TargetEventsAreInFlight, SameRuns
  <1> QED
    BY <1>1, <1>2, <1>3 DEF Inv

\* Aborting changes a run in no respect but its abort flag.
LEMMA AbortedRuns ==
  ASSUME TypeOK, NEW j \in Jobs, runs' = Aborted(j)
  PROVE  SameRuns
  <1>1. ASSUME NEW e \in Executions, Active(e)
        PROVE  /\ [runs[e] EXCEPT !.aborted = TRUE] \in Run
               /\ [runs[e] EXCEPT !.aborted = TRUE].phase = runs[e].phase
               /\ [runs[e] EXCEPT !.aborted = TRUE].job = runs[e].job
    BY <1>1, RunOfActive DEF Run
  <1> QED
    BY <1>1, NoneIsNoRun DEF Aborted, Active, TypeOK, SameRuns

LEMMA RegisterInv ==
  ASSUME Inv, NEW j \in Jobs, NEW d \in Delegations, Register(j, d)
  PROVE  Inv'
  <1>1. SameRuns
    BY DEF Register, Inv, TypeOK, SameRuns, Active
  <1> QED
    BY <1>1, Shrinking DEF Register, Inv, TypeOK

LEMMA CancelInv ==
  ASSUME Inv, NEW j \in Jobs, Cancel(j)
  PROVE  Inv'
  <1>1. SameRuns
    BY AbortedRuns DEF Cancel, Inv
  <1> QED
    BY <1>1, Shrinking DEF Cancel, Inv, TypeOK

LEMMA RemoveJobInv ==
  ASSUME Inv, NEW j \in Jobs, RemoveJob(j)
  PROVE  Inv'
  <1>1. SameRuns
    BY AbortedRuns DEF RemoveJob, Inv
  <1> QED
    BY <1>1, Shrinking DEF RemoveJob, Inv, TypeOK

\* A new run takes an execution that is not in flight, so nothing points to it yet.
LEMMA DelegateInv ==
  ASSUME Inv, NEW j \in Jobs, NEW d \in Delegations, Delegate(j, d)
  PROVE  Inv'
  <1> DEFINE new == [job |-> j, payload |-> d, phase |-> "tools", tool |-> 1,
                     aborted |-> FALSE, cancelled |-> FALSE, status |-> None,
                     attempts |-> 0, recorded |-> 0, outcome |-> None]
  <1>1. PICK e \in Executions :
          /\ ~Active(e)
          /\ runs' = [runs EXCEPT ![e] = new]
          /\ runningJobs' = [runningJobs EXCEPT ![j] = e]
          /\ UNCHANGED <<pendingJobs, targetEvents>>
    BY DEF Delegate
  <1>2. new \in Run /\ new.phase = "tools" /\ new.job = j
    BY DEF Run
  <1>3. TypeOK'
    BY <1>1, <1>2 DEF Inv, TypeOK
  <1> HIDE DEF new
  <1>4. \A f \in Executions \ {e} : runs'[f] = runs[f]
    BY <1>1 DEF Inv, TypeOK
  <1>5. runs'[e] = new /\ Active(e)'
    BY <1>1, <1>2, NoneIsNoRun DEF Inv, TypeOK, Active
  <1>6. RunningEntryIsLive'
    <2> SUFFICES ASSUME NEW k \in Jobs, runningJobs'[k] # None
                 PROVE  Active(runningJobs[k])' /\ runs'[runningJobs'[k]].job = k
      BY DEF RunningEntryIsLive
    <2>1. CASE k = j
      BY <2>1, <1>1, <1>2, <1>5 DEF Inv, TypeOK
    <2>2. CASE k # j
      <3>1. runningJobs'[k] = runningJobs[k] /\ runningJobs[k] \in Executions
        BY <2>2, <1>1 DEF Inv, TypeOK
      <3>2. Active(runningJobs[k]) /\ runs[runningJobs[k]].job = k
        BY <3>1 DEF Inv, RunningEntryIsLive
      <3> QED
        BY <3>1, <3>2, <1>1, <1>4 DEF Active
    <2> QED
      BY <2>1, <2>2
  <1>7. TargetEventsAreInFlight'
    <2> SUFFICES ASSUME NEW v \in targetEvents
                 PROVE  Active(v[2])' /\ runs'[v[2]].job = v[1]
      BY <1>1 DEF TargetEventsAreInFlight
    <2>1. v[2] \in Executions /\ Active(v[2]) /\ runs[v[2]].job = v[1]
      BY DEF Inv, TypeOK, TargetEventsAreInFlight
    <2> QED
      BY <2>1, <1>1, <1>4 DEF Active
  <1> QED
    BY <1>3, <1>6, <1>7 DEF Inv

LEMMA DelegateScheduledJobInv ==
  ASSUME Inv, NEW j \in Jobs, DelegateScheduledJob(j)
  PROVE  Inv'
  <1>1. CASE pendingJobs[j] = None
    BY <1>1 DEF DelegateScheduledJob, vars, Inv, TypeOK, RunningEntryIsLive,
                TargetEventsAreInFlight, Active
  <1>2. CASE pendingJobs[j] # None
    <2>1. pendingJobs[j] \in Delegations /\ Delegate(j, pendingJobs[j])
      BY <1>2 DEF DelegateScheduledJob, Inv, TypeOK
    <2> QED
      BY <2>1, DelegateInv
  <1> QED
    BY <1>1, <1>2

\* The finally block clears by job: what it leaves is about other jobs, hence
\* about other runs than the one that ends.
LEMMA EndInv ==
  ASSUME Inv, NEW e \in Executions, Active(e), NEW recorded \in Nat,
         NEW outcome \in {"finished", "cancelled", "failed"}, End(e, outcome, recorded)
  PROVE  Inv'
  <1> DEFINE over == [runs[e] EXCEPT !.phase = "done", !.outcome = outcome,
                                     !.recorded = recorded]
  <1>1. runs[e] \in Run
    BY RunOfActive DEF Inv
  <1>2. over \in Run
    BY <1>1 DEF Run
  <1>3. runs' = [runs EXCEPT ![e] = over]
    BY <1>1 DEF End, Inv, TypeOK, Run
  <1> HIDE DEF over
  <1>4. runs[e].job \in Jobs
    BY <1>1 DEF Run
  <1>5. TypeOK'
    BY <1>2, <1>3, <1>4 DEF End, EventsOf, Inv, TypeOK
  <1>6. \A f \in Executions \ {e} : runs'[f] = runs[f]
    BY <1>3 DEF Inv, TypeOK
  <1>7. RunningEntryIsLive'
    <2> SUFFICES ASSUME NEW k \in Jobs, runningJobs'[k] # None
                 PROVE  Active(runningJobs[k])' /\ runs'[runningJobs'[k]].job = k
      BY DEF RunningEntryIsLive
    <2>1. k # runs[e].job /\ runningJobs'[k] = runningJobs[k] /\ runningJobs[k] \in Executions
      BY <1>4 DEF End, Inv, TypeOK
    <2>2. Active(runningJobs[k]) /\ runs[runningJobs[k]].job = k
      BY <2>1 DEF Inv, RunningEntryIsLive
    <2> QED
      BY <2>1, <2>2, <1>6 DEF Active
  <1>8. TargetEventsAreInFlight'
    <2> SUFFICES ASSUME NEW v \in targetEvents'
                 PROVE  Active(v[2])' /\ runs'[v[2]].job = v[1]
      BY DEF TargetEventsAreInFlight
    <2>1. v \in targetEvents /\ v[1] # runs[e].job
      BY DEF End, EventsOf
    <2>2. v[2] \in Executions /\ Active(v[2]) /\ runs[v[2]].job = v[1]
      BY <2>1 DEF Inv, TypeOK, TargetEventsAreInFlight
    <2> QED
      BY <2>1, <2>2, <1>6 DEF Active
  <1> QED
    BY <1>5, <1>7, <1>8 DEF Inv

LEMMA TargetFinishInv ==
  ASSUME Inv, NEW e \in Executions, TargetFinish(e)
  PROVE  Inv'
  <1>1. runs[e] \in Run /\ Active(e)
    BY RunOfActive DEF TargetFinish, Inv
  <1>2. runs[e].job \in Jobs /\ runs[e].tool \in Nat
    BY <1>1 DEF Run
  <1>3. TypeOK'
    BY <1>2 DEF TargetFinish, Inv, TypeOK
  <1>4. RunningEntryIsLive'
    BY DEF TargetFinish, Inv, RunningEntryIsLive, Active
  <1>5. TargetEventsAreInFlight'
    <2> SUFFICES ASSUME NEW v \in targetEvents'
                 PROVE  Active(v[2])' /\ runs'[v[2]].job = v[1]
      BY DEF TargetEventsAreInFlight
    <2>1. CASE v \in targetEvents
      BY <2>1 DEF TargetFinish, Inv, TargetEventsAreInFlight, Active
    <2>2. CASE v = <<runs[e].job, e, runs[e].tool>>
      BY <2>2, <1>1 DEF TargetFinish, Active
    <2> QED
      BY <2>1, <2>2 DEF TargetFinish
  <1> QED
    BY <1>3, <1>4, <1>5 DEF Inv

\* A step inside a run: only counters and the phase of a run still in flight change.
LEMMA WithinRun ==
  ASSUME Inv, NEW e \in Executions, Active(e), NEW r \in Run,
         r.phase # "done", r.job = runs[e].job,
         runs' = [runs EXCEPT ![e] = r],
         UNCHANGED <<pendingJobs, runningJobs, targetEvents>>
  PROVE  Inv'
  <1>1. SameRuns
    BY NoneIsNoRun DEF SameRuns, Active, Inv, TypeOK
  <1> QED
    BY <1>1, Shrinking DEF Inv, TypeOK

LEMMA NextToolInv ==
  ASSUME Inv, NEW e \in Executions, NextTool(e)
  PROVE  Inv'
  <1> DEFINE r == [runs[e] EXCEPT !.tool = @ + 1]
  <1>1. runs[e] \in Run /\ Active(e)
    BY RunOfActive DEF NextTool, Inv
  <1>2. r \in Run /\ r.phase # "done" /\ r.job = runs[e].job
    BY <1>1 DEF Run, NextTool
  <1>3. runs' = [runs EXCEPT ![e] = r] /\ UNCHANGED <<pendingJobs, runningJobs, targetEvents>>
    BY <1>1 DEF NextTool, Inv, TypeOK, Run
  <1> HIDE DEF r
  <1> QED
    BY <1>1, <1>2, <1>3, WithinRun

LEMMA LeaveToolsInv ==
  ASSUME Inv, NEW e \in Executions, LeaveTools(e)
  PROVE  Inv'
  <1> DEFINE r == [runs[e] EXCEPT !.phase = "persisting", !.cancelled = ~LastTool(e),
                     !.status = IF runs[e].aborted THEN "cancelled" ELSE "completed"]
  <1>1. runs[e] \in Run /\ Active(e)
    BY RunOfActive DEF LeaveTools, Inv
  <1>2. r \in Run /\ r.phase # "done" /\ r.job = runs[e].job
    BY <1>1 DEF Run, LastTool
  <1>3. runs' = [runs EXCEPT ![e] = r] /\ UNCHANGED <<pendingJobs, runningJobs, targetEvents>>
    BY <1>1 DEF LeaveTools, Inv, TypeOK, Run
  <1> HIDE DEF r
  <1> QED
    BY <1>1, <1>2, <1>3, WithinRun

LEMMA ToolThrowsInv ==
  ASSUME Inv, NEW e \in Executions, ToolThrows(e)
  PROVE  Inv'
  <1>1. Active(e) /\ runs[e] \in Run
    BY RunOfActive DEF ToolThrows, Inv
  <1>2. runs[e].recorded \in Nat
    BY <1>1 DEF Run
  <1> QED
    BY <1>1, <1>2, EndInv DEF ToolThrows

LEMMA PersistSucceedsInv ==
  ASSUME Inv, NEW e \in Executions, PersistSucceeds(e)
  PROVE  Inv'
  <1>1. Active(e) /\ runs[e] \in Run
    BY RunOfActive DEF PersistSucceeds, Inv
  <1>2. runs[e].recorded + 1 \in Nat
    BY <1>1 DEF Run
  <1>3. Outcome(e) \in {"finished", "cancelled", "failed"}
    BY DEF Outcome
  <1> QED
    BY <1>1, <1>2, <1>3, EndInv DEF PersistSucceeds

LEMMA PersistFailsInv ==
  ASSUME Inv, NEW e \in Executions, PersistFails(e)
  PROVE  Inv'
  <1>1. Active(e) /\ runs[e] \in Run /\ runs[e].phase = "persisting"
    BY RunOfActive DEF PersistFails, Inv
  <1>2. PICK recorded \in {runs[e].recorded, runs[e].recorded + 1} :
          IF runs[e].attempts + 1 < MaxDbRetries
          THEN /\ runs' = [runs EXCEPT ![e].attempts = @ + 1, ![e].recorded = recorded]
               /\ UNCHANGED <<pendingJobs, runningJobs, targetEvents>>
          ELSE End(e, Outcome(e), recorded)
    BY DEF PersistFails
  <1>3. recorded \in Nat
    BY <1>1, <1>2 DEF Run
  <1>4. CASE runs[e].attempts + 1 < MaxDbRetries
    <2> DEFINE r == [runs[e] EXCEPT !.attempts = @ + 1, !.recorded = recorded]
    <2>1. r = [[runs[e] EXCEPT !.attempts = @ + 1] EXCEPT !.recorded = recorded]
      BY <1>1 DEF Run
    <2>2. [runs[e] EXCEPT !.attempts = @ + 1] \in Run
      BY <1>1 DEF Run
    <2>3. r \in Run /\ r.phase # "done" /\ r.job = runs[e].job
      BY <1>1, <1>3, <2>1, <2>2 DEF Run
    <2>4. runs' = [runs EXCEPT ![e] = r] /\ UNCHANGED <<pendingJobs, runningJobs, targetEvents>>
      BY <1>1, <1>2, <1>4 DEF Inv, TypeOK, Run
    <2> HIDE DEF r
    <2> QED
      BY <1>1, <2>3, <2>4, WithinRun
  <1>5. CASE ~(runs[e].attempts + 1 < MaxDbRetries)
    <2>1. Outcome(e) \in {"finished", "cancelled", "failed"}
      BY DEF Outcome
    <2>2. End(e, Outcome(e), recorded)
      BY <1>2, <1>5
    <2> QED
      BY <1>1, <1>3, <2>1, <2>2, EndInv
  <1> QED
    BY <1>4, <1>5

LEMMA NextInv == Inv /\ [Next]_vars => Inv'
  <1> SUFFICES ASSUME Inv, [Next]_vars PROVE Inv'
    OBVIOUS
  <1>1. CASE UNCHANGED vars
    BY <1>1 DEF vars, Inv, TypeOK, RunningEntryIsLive, TargetEventsAreInFlight, Active
  <1>2. ASSUME NEW j \in Jobs, NEW d \in Delegations, Register(j, d) \/ Delegate(j, d)
        PROVE  Inv'
    BY <1>2, RegisterInv, DelegateInv
  <1>3. ASSUME NEW j \in Jobs, DelegateScheduledJob(j) \/ Cancel(j) \/ RemoveJob(j)
        PROVE  Inv'
    BY <1>3, DelegateScheduledJobInv, CancelInv, RemoveJobInv
  <1>4. ASSUME NEW e \in Executions, TargetFinish(e) \/ RunStep(e)
        PROVE  Inv'
    BY <1>4, TargetFinishInv, NextToolInv, LeaveToolsInv, ToolThrowsInv,
       PersistSucceedsInv, PersistFailsInv DEF RunStep
  <1> QED
    BY <1>1, <1>2, <1>3, <1>4 DEF Next

THEOREM Invariance == Spec => []Inv
  BY InitInv, NextInv, PTL DEF Spec

\* Every variable of the delegator keeps its type (runs of delegate(), the two
\* queues and the event buffer of delegator/index.ts and emitter/index.ts).
THEOREM TypeCorrect == Spec => []TypeOK
  BY Invariance, PTL DEF Inv

\* No job is left behind as running, however many runs of it overlap and
\* whenever it is removed: the guards of update, delete and run, which read
\* runningJobs, cannot be blocked for ever by a run that is over; and the buffer
\* replayed to connecting clients holds events of runs in flight only.
THEOREM QueuesStayLive == Spec => []QueuesAreLive
  BY Invariance, PTL DEF Inv, QueuesAreLive

-----------------------------------------------------------------------------
\* What a run announces, against what it recorded.

\* The attempts never pass their limit, an outcome is announced once, at the end,
\* and a run that was to be recorded has been, or has used its last attempt.
Recorded(r) ==
  /\ r.attempts + 1 <= MaxDbRetries
  /\ r.phase # "done" => r.outcome = None
  /\ r.outcome \in {"finished", "cancelled"} =>
       r.recorded > 0 \/ r.attempts + 1 = MaxDbRetries

RecordInv == \A e \in Executions : runs[e] # None => Recorded(runs[e])

LEMMA ActiveRun ==
  ASSUME Inv, RecordInv, NEW e \in Executions, Active(e)
  PROVE  runs[e] \in Run /\ Recorded(runs[e]) /\ runs[e].outcome = None
  BY RunOfActive DEF Inv, RecordInv, Recorded, Active

LEMMA OneRunChanges ==
  ASSUME Inv, RecordInv, NEW e \in Executions, NEW r, Recorded(r),
         runs' = [runs EXCEPT ![e] = r]
  PROVE  RecordInv'
  BY DEF Inv, TypeOK, RecordInv, Recorded

LEMMA AbortedRecord ==
  ASSUME Inv, RecordInv, NEW j \in Jobs, runs' = Aborted(j)
  PROVE  RecordInv'
  <1> SUFFICES ASSUME NEW e \in Executions, runs'[e] # None
               PROVE  Recorded(runs'[e])
    BY DEF RecordInv, Recorded
  <1>1. CASE runningJobs[j] = e /\ Active(e)
    <2> DEFINE r == [runs[e] EXCEPT !.aborted = TRUE]
    <2>1. runs'[e] = r
      BY <1>1 DEF Aborted
    <2>2. /\ r.attempts = runs[e].attempts
          /\ r.phase = runs[e].phase
          /\ r.outcome = runs[e].outcome
          /\ r.recorded = runs[e].recorded
      BY <1>1, ActiveRun DEF Run
    <2> HIDE DEF r
    <2> QED
      BY <1>1, <2>1, <2>2, ActiveRun DEF Recorded
  <1>2. CASE ~(runningJobs[j] = e /\ Active(e))
    <2>1. runs'[e] = runs[e]
      BY <1>2 DEF Aborted
    <2> QED
      BY <2>1 DEF RecordInv
  <1> QED
    BY <1>1, <1>2

LEMMA DelegateRecord ==
  ASSUME Inv, RecordInv, NEW j \in Jobs, NEW d \in Delegations, Delegate(j, d)
  PROVE  RecordInv'
  <1> DEFINE new == [job |-> j, payload |-> d, phase |-> "tools", tool |-> 1,
                     aborted |-> FALSE, cancelled |-> FALSE, status |-> None,
                     attempts |-> 0, recorded |-> 0, outcome |-> None]
  <1>1. PICK e \in Executions : runs' = [runs EXCEPT ![e] = new]
    BY DEF Delegate
  <1>2. new.attempts = 0 /\ new.phase = "tools" /\ new.outcome = None
    OBVIOUS
  <1>3. None \notin {"finished", "cancelled"}
    BY NoneIsNoOutcome
  <1> HIDE DEF new
  <1>4. Recorded(new)
    BY <1>2, <1>3, DelegatorAssumption DEF Recorded
  <1> QED
    BY <1>1, <1>4, OneRunChanges

\* The end of a run keeps the invariant if what it announces has been recorded.
LEMMA EndRecord ==
  ASSUME Inv, RecordInv, NEW e \in Executions, Active(e), NEW recorded \in Nat,
         NEW outcome, End(e, outcome, recorded),
         outcome \in {"finished", "cancelled"} =>
           recorded > 0 \/ runs[e].attempts + 1 = MaxDbRetries
  PROVE  RecordInv'
  <1> DEFINE over == [runs[e] EXCEPT !.phase = "done", !.outcome = outcome,
                                     !.recorded = recorded]
  <1>1. runs[e] \in Run /\ Recorded(runs[e])
    BY ActiveRun
  <1>2. runs' = [runs EXCEPT ![e] = over]
    BY <1>1 DEF End, Inv, TypeOK, Run
  <1>3. /\ over.attempts = runs[e].attempts
        /\ over.phase = "done"
        /\ over.outcome = outcome
        /\ over.recorded = recorded
    BY <1>1 DEF Run
  <1> HIDE DEF over
  <1>4. Recorded(over)
    BY <1>1, <1>3 DEF Recorded
  <1> QED
    BY <1>2, <1>4, OneRunChanges

\* A step inside a run that uses up no attempt.
LEMMA WithinRecord ==
  ASSUME Inv, RecordInv, NEW e \in Executions, Active(e), NextTool(e) \/ LeaveTools(e)
  PROVE  RecordInv'
  <1>1. runs[e] \in Run /\ Recorded(runs[e])
    BY ActiveRun
  <1>2. PICK r :
          /\ runs' = [runs EXCEPT ![e] = r]
          /\ r.attempts = runs[e].attempts /\ r.outcome = runs[e].outcome
    <2>1. CASE NextTool(e)
      <3> DEFINE r == [runs[e] EXCEPT !.tool = @ + 1]
      <3>1. runs' = [runs EXCEPT ![e] = r]
        BY <2>1, <1>1 DEF NextTool, Inv, TypeOK, Run
      <3>2. r.attempts = runs[e].attempts /\ r.outcome = runs[e].outcome
        BY <1>1 DEF Run
      <3> QED
        BY <3>1, <3>2
    <2>2. CASE LeaveTools(e)
      <3> DEFINE r == [runs[e] EXCEPT !.phase = "persisting", !.cancelled = ~LastTool(e),
                         !.status = IF runs[e].aborted THEN "cancelled" ELSE "completed"]
      <3>1. runs' = [runs EXCEPT ![e] = r]
        BY <2>2, <1>1 DEF LeaveTools, Inv, TypeOK, Run
      <3>2. r.attempts = runs[e].attempts /\ r.outcome = runs[e].outcome
        BY <1>1 DEF Run
      <3> QED
        BY <3>1, <3>2
    <2> QED
      BY <2>1, <2>2
  <1>3. r.outcome = None
    BY <1>2, ActiveRun
  <1>4. Recorded(r)
    BY <1>1, <1>2, <1>3, NoneIsNoOutcome DEF Recorded
  <1> QED
    BY <1>2, <1>4, OneRunChanges

LEMMA PersistFailsRecord ==
  ASSUME Inv, RecordInv, NEW e \in Executions, PersistFails(e)
  PROVE  RecordInv'
  <1>1. Active(e) /\ runs[e] \in Run /\ Recorded(runs[e]) /\ runs[e].outcome = None
    BY ActiveRun DEF PersistFails
  <1>2. PICK recorded \in {runs[e].recorded, runs[e].recorded + 1} :
          IF runs[e].attempts + 1 < MaxDbRetries
          THEN /\ runs' = [runs EXCEPT ![e].attempts = @ + 1, ![e].recorded = recorded]
               /\ UNCHANGED <<pendingJobs, runningJobs, targetEvents>>
          ELSE End(e, Outcome(e), recorded)
    BY DEF PersistFails
  <1>3. recorded \in Nat /\ runs[e].attempts \in Nat
    BY <1>1, <1>2 DEF Run
  <1>4. CASE runs[e].attempts + 1 < MaxDbRetries
    <2> DEFINE r == [runs[e] EXCEPT !.attempts = @ + 1, !.recorded = recorded]
    <2>1. runs' = [runs EXCEPT ![e] = r]
      BY <1>1, <1>2, <1>4 DEF Inv, TypeOK, Run
    <2>2. r.attempts = runs[e].attempts + 1 /\ r.outcome = None
      BY <1>1 DEF Run
    <2> HIDE DEF r
    <2>3. Recorded(r)
      BY <1>3, <1>4, <2>2, NoneIsNoOutcome, DelegatorAssumption DEF Recorded
    <2> QED
      BY <2>1, <2>3, OneRunChanges
  <1>5. CASE ~(runs[e].attempts + 1 < MaxDbRetries)
    <2>1. runs[e].attempts + 1 = MaxDbRetries
      BY <1>1, <1>3, <1>5, DelegatorAssumption DEF Recorded
    <2> QED
      BY <1>1, <1>2, <1>3, <1>5, <2>1, EndRecord
  <1> QED
    BY <1>4, <1>5

LEMMA RunStepRecord ==
  ASSUME Inv, RecordInv, NEW e \in Executions, RunStep(e)
  PROVE  RecordInv'
  <1>1. CASE NextTool(e) \/ LeaveTools(e)
    BY <1>1, WithinRecord DEF NextTool, LeaveTools
  <1>2. CASE ToolThrows(e)
    <2>1. Active(e) /\ runs[e].recorded \in Nat
      BY <1>2, ActiveRun DEF ToolThrows, Run
    <2> QED
      BY <1>2, <2>1, EndRecord DEF ToolThrows
  <1>3. CASE PersistSucceeds(e)
    <2>1. Active(e) /\ runs[e].recorded + 1 \in Nat /\ runs[e].recorded + 1 > 0
      BY <1>3, ActiveRun DEF PersistSucceeds, Run
    <2> QED
      BY <1>3, <2>1, EndRecord, SMTT(30) DEF PersistSucceeds
  <1>4. CASE PersistFails(e)
    BY <1>4, PersistFailsRecord
  <1> QED
    BY <1>1, <1>2, <1>3, <1>4 DEF RunStep

LEMMA NextRecord == Inv /\ RecordInv /\ [Next]_vars => RecordInv'
  <1> SUFFICES ASSUME Inv, RecordInv, [Next]_vars PROVE RecordInv'
    OBVIOUS
  <1>1. CASE UNCHANGED runs
    BY <1>1 DEF RecordInv, Recorded
  <1>2. ASSUME NEW j \in Jobs, Cancel(j) \/ RemoveJob(j)
        PROVE  RecordInv'
    BY <1>2, AbortedRecord DEF Cancel, RemoveJob
  <1>3. ASSUME NEW j \in Jobs, NEW d \in Delegations, Delegate(j, d)
        PROVE  RecordInv'
    BY <1>3, DelegateRecord
  <1>4. ASSUME NEW j \in Jobs, DelegateScheduledJob(j), ~UNCHANGED runs
        PROVE  RecordInv'
    <2>1. pendingJobs[j] \in Delegations /\ Delegate(j, pendingJobs[j])
      BY <1>4 DEF DelegateScheduledJob, vars, Inv, TypeOK
    <2> QED
      BY <2>1, DelegateRecord
  <1>5. ASSUME NEW e \in Executions, RunStep(e)
        PROVE  RecordInv'
    BY <1>5, RunStepRecord
  <1> QED
    BY <1>1, <1>2, <1>3, <1>4, <1>5 DEF Next, vars, Register, TargetFinish

\* A run is announced as finished or cancelled only after its record was written
\* or the last attempt to write it failed, whatever the database does in between.
THEOREM OutcomesFollowRecords == Spec => []OutcomeFollowsRecord
  <1>1. Init => RecordInv
    BY DEF Init, RecordInv
  <1>2. RecordInv => OutcomeFollowsRecord
    BY DEF RecordInv, Recorded, OutcomeFollowsRecord
  <1> QED
    BY <1>1, <1>2, NextRecord, Invariance, PTL DEF Spec

-----------------------------------------------------------------------------
\* After a cancellation.

\* No step other than NextTool moves a run that was in flight on to another tool.
LEMMA ToolIsKept ==
  ASSUME Inv, NEW e \in Executions, NEW f \in Executions, Active(f), RunStep(e),
         f = e => runs[e].aborted
  PROVE  runs'[f].tool = runs[f].tool
  <1>1. runs[e] \in Run /\ runs \in [Executions -> Run \cup {None}]
    BY RunOfActive DEF Inv, TypeOK, RunStep, NextTool, LeaveTools, ToolThrows,
                       PersistSucceeds, PersistFails
  <1>2. CASE f # e
    BY <1>1, <1>2 DEF RunStep, NextTool, LeaveTools, ToolThrows, PersistSucceeds,
                      PersistFails, End
  <1>3. CASE f = e
    <2>1. ~NextTool(e)
      BY <1>3 DEF NextTool
    <2>2. CASE \E outcome, recorded : End(e, outcome, recorded)
      <3>1. PICK outcome, recorded : End(e, outcome, recorded)
        BY <2>2
      <3> DEFINE over == [runs[e] EXCEPT !.phase = "done", !.outcome = outcome,
                                         !.recorded = recorded]
      <3>2. runs' = [runs EXCEPT ![e] = over]
        BY <1>1, <3>1 DEF End, Run
      <3>3. over.tool = runs[e].tool
        BY <1>1 DEF Run
      <3> QED
        BY <1>1, <1>3, <3>2, <3>3
    <2>3. CASE LeaveTools(e)
      BY <1>1, <1>3, <2>3 DEF LeaveTools, Run
    <2>4. CASE ToolThrows(e) \/ PersistSucceeds(e)
      BY <2>2, <2>4 DEF ToolThrows, PersistSucceeds
    <2>5. CASE PersistFails(e)
      <3>1. PICK recorded :
              IF runs[e].attempts + 1 < MaxDbRetries
              THEN runs' = [runs EXCEPT ![e].attempts = @ + 1, ![e].recorded = recorded]
              ELSE End(e, Outcome(e), recorded)
        BY <2>5 DEF PersistFails
      <3>2. CASE runs[e].attempts + 1 < MaxDbRetries
        BY <1>1, <1>3, <3>1, <3>2 DEF Run
      <3>3. CASE ~(runs[e].attempts + 1 < MaxDbRetries)
        BY <2>2, <3>1, <3>3
      <3> QED
        BY <3>2, <3>3
    <2> QED
      BY <2>1, <2>3, <2>4, <2>5 DEF RunStep
  <1> QED
    BY <1>2, <1>3

\* Once cancellation of a run was requested, none of its further tools starts,
\* although a run of the same job that overlaps it goes on (delegate's loop).
THEOREM CancelledRunsStartNoTool == Spec => NoToolAfterCancel
  <1>1. ASSUME Inv, [Next]_vars, NEW f \in Executions, Active(f), runs[f].aborted
        PROVE  runs'[f].tool = runs[f].tool
    <2>1. runs[f] \in Run
      BY <1>1, RunOfActive DEF Inv
    <2>2. CASE UNCHANGED runs
      BY <2>2
    <2>3. ASSUME NEW j \in Jobs, runs' = Aborted(j)
          PROVE  runs'[f].tool = runs[f].tool
      BY <1>1, <2>1, <2>3 DEF Aborted, Run
    <2>4. ASSUME NEW j \in Jobs, NEW d, Delegate(j, d)
          PROVE  runs'[f].tool = runs[f].tool
      BY <1>1, <2>4 DEF Delegate, Inv, TypeOK
    <2>5. ASSUME NEW e \in Executions, RunStep(e)
          PROVE  runs'[f].tool = runs[f].tool
      BY <1>1, <2>5, ToolIsKept
    <2> QED
      BY <1>1, <2>2, <2>3, <2>4, <2>5
         DEF Next, vars, Register, TargetFinish, Cancel, RemoveJob, DelegateScheduledJob
  <1>2. Inv /\ [Next]_vars =>
          [\A e \in Executions :
             (Active(e) /\ runs[e].aborted /\ runs'[e].aborted)
               => runs'[e].tool = runs[e].tool]_vars
    BY <1>1
  <1> QED
    BY <1>2, Invariance, PTL DEF Spec, NoToolAfterCancel

-----------------------------------------------------------------------------
\* Subsequences: what is among them, and how often

\* What is in S keeps its place among the elements in S.
LEMMA SubFinds ==
  ASSUME NEW V, NEW S, NEW s \in Seq(V), NEW i \in DOMAIN s, s[i] \in S
  PROVE  Sub(s, S) # <<>>
  <1> DEFINE P == {u \in Seq(V) : (\E k \in DOMAIN u : u[k] \in S) => Sub(u, S) # <<>>}
  <1>1. <<>> \in P
    OBVIOUS
  <1>2. ASSUME NEW u \in Seq(V), NEW v \in V, u \in P
        PROVE  Append(u, v) \in P
    <2>1. Append(u, v) \in Seq(V)
      OBVIOUS
    <2>2. CASE v \in S
      <3>1. Sub(Append(u, v), S) = Append(Sub(u, S), v) /\ Sub(u, S) \in Seq(V)
        BY <2>2, SubTaken, SubTyped
      <3>2. Append(Sub(u, S), v) # <<>>
        BY <3>1
      <3> QED
        BY <2>1, <3>1, <3>2
    <2>3. CASE v \notin S
      <3>1. Sub(Append(u, v), S) = Sub(u, S)
        BY <2>3, SubDropped
      <3>2. ASSUME NEW k \in DOMAIN Append(u, v), Append(u, v)[k] \in S
            PROVE  k \in DOMAIN u /\ u[k] \in S
        BY <2>3, <3>2
      <3> QED
        BY <1>2, <2>1, <3>1, <3>2
    <2> QED
      BY <2>2, <2>3
  <1> HIDE DEF P
  <1>3. s \in P
    BY <1>1, <1>2, AppendInduction
  <1> QED
    BY <1>3 DEF P

\* Where nothing is in S, no element is.
LEMMA SubNone ==
  ASSUME NEW V, NEW S, \A v \in V : v \notin S, NEW s \in Seq(V)
  PROVE  Sub(s, S) = <<>>
  <1> DEFINE P == {u \in Seq(V) : Sub(u, S) = <<>>}
  <1>1. <<>> \in P
    BY SubEmpty
  <1>2. ASSUME NEW u \in Seq(V), NEW v \in V, u \in P
        PROVE  Append(u, v) \in P
    BY <1>2, SubDropped
  <1> HIDE DEF P
  <1>3. s \in P
    BY <1>1, <1>2, AppendInduction
  <1> QED
    BY <1>3 DEF P

\* How often a value occurs is the length of its subsequence.
LEMMA OccurrencesAre ==
  ASSUME NEW V, NEW w, NEW s \in Seq(V)
  PROVE  /\ IsFiniteSet({k \in DOMAIN s : s[k] = w})
         /\ Cardinality({k \in DOMAIN s : s[k] = w}) = Len(Sub(s, {w}))
  <1> DEFINE At_(u) == {k \in DOMAIN u : u[k] = w}
             P == {u \in Seq(V) : IsFiniteSet(At_(u)) /\ Cardinality(At_(u)) = Len(Sub(u, {w}))}
  <1>1. <<>> \in P
    <2>1. At_(<<>>) = {} /\ <<>> \in Seq(V)
      OBVIOUS
    <2>2. Sub(<<>>, {w}) = <<>> /\ Len(<<>>) = 0
      BY SubEmpty
    <2>3. IsFiniteSet({}) /\ Cardinality({}) = 0
      BY FS_EmptySet
    <2> QED
      BY <2>1, <2>2, <2>3
  <1>2. ASSUME NEW u \in Seq(V), NEW v \in V, u \in P
        PROVE  Append(u, v) \in P
    <2> DEFINE t == Append(u, v)
               n == Len(u) + 1
    <2>1. /\ t \in Seq(V) /\ n \in DOMAIN t /\ t[n] = v /\ n \notin DOMAIN u
          /\ \A k \in DOMAIN u : k \in DOMAIN t /\ t[k] = u[k]
          /\ \A k \in DOMAIN t : k \in DOMAIN u \/ k = n
      OBVIOUS
    <2>2. IsFiniteSet(At_(u)) /\ Cardinality(At_(u)) = Len(Sub(u, {w})) /\ n \notin At_(u)
      BY <1>2, <2>1
    <2>3. CASE v = w
      <3>1. At_(t) = At_(u) \cup {n}
        BY <2>1, <2>3
      <3>2. Sub(t, {w}) = Append(Sub(u, {w}), v) /\ Sub(u, {w}) \in Seq(V)
        BY <2>3, SubTaken, SubTyped
      <3>3. IsFiniteSet(At_(u) \cup {n}) /\ Cardinality(At_(u) \cup {n}) = Cardinality(At_(u)) + 1
        BY <2>2, FS_AddElement
      <3>4. Len(Append(Sub(u, {w}), v)) = Len(Sub(u, {w})) + 1
        BY <3>2
      <3> QED
        BY <2>1, <2>2, <3>1, <3>2, <3>3, <3>4
    <2>4. CASE v # w
      <3>1. At_(t) = At_(u)
        BY <2>1, <2>4
      <3>2. Sub(t, {w}) = Sub(u, {w})
        BY <2>4, SubDropped
      <3> QED
        BY <2>1, <2>2, <3>1, <3>2
    <2> QED
      BY <2>3, <2>4
  <1> HIDE DEF P
  <1>3. s \in P
    BY <1>1, <1>2, AppendInduction
  <1> QED
    BY <1>3 DEF P

\* What is in T and in S is found among the elements in T.
LEMMA SubWithin ==
  ASSUME NEW V, NEW s \in Seq(V), NEW S, NEW T, \A v \in V : v \in S => v \in T
  PROVE  Sub(Sub(s, T), S) = Sub(s, S)
  <1>1. Sub(Sub(s, T), S) = Sub(s, T \cap S)
    BY SubOfSub
  <1>2. \A v \in V : v \in T \cap S <=> v \in S
    OBVIOUS
  <1>3. Sub(s, T \cap S) = Sub(s, S)
    BY <1>2, SubSame
  <1> QED
    BY <1>1, <1>3

\* Nothing in S is among the elements in T if it is not in s.
LEMMA SubStaysEmpty ==
  ASSUME NEW V, NEW s \in Seq(V), NEW S, NEW T, Sub(s, S) = <<>>
  PROVE  Sub(Sub(s, T), S) = <<>>
  <1>1. Sub(Sub(s, T), S) = Sub(s, T \cap S) /\ Sub(Sub(s, S), T) = Sub(s, S \cap T)
    BY SubOfSub
  <1>2. T \cap S = S \cap T
    OBVIOUS
  <1> QED
    BY <1>1, <1>2, SubEmpty

\* What is seen from a place on, after one more element.
LEMMA TailAppend ==
  ASSUME NEW V, NEW s \in Seq(V), NEW v \in V, NEW from \in 0..Len(s), NEW to \in 0..Len(s)
  PROVE  /\ SubSeq(Append(s, v), from + 1, Len(s) + 1) = Append(SubSeq(s, from + 1, Len(s)), v)
         /\ SubSeq(Append(s, v), from + 1, to) = SubSeq(s, from + 1, to)
         /\ SubSeq(s, from + 1, to) \in Seq(V) /\ SubSeq(s, from + 1, Len(s)) \in Seq(V)
  <1>1. SubSeq(s, from + 1, to) \in Seq(V) /\ SubSeq(s, from + 1, Len(s)) \in Seq(V)
    OBVIOUS
  <1>2. SubSeq(Append(s, v), from + 1, to) = SubSeq(s, from + 1, to)
    OBVIOUS
  <1> DEFINE x == SubSeq(Append(s, v), from + 1, Len(s) + 1)
             y == Append(SubSeq(s, from + 1, Len(s)), v)
             n == Len(s) - from
  <1>3. n \in Nat /\ x \in Seq(V) /\ y \in Seq(V) /\ Len(x) = n + 1 /\ Len(y) = n + 1
    <2>1. n \in Nat /\ Append(s, v) \in Seq(V) /\ Len(Append(s, v)) = Len(s) + 1
      OBVIOUS
    <2>2. Len(x) = n + 1
      BY <2>1
    <2>3. SubSeq(s, from + 1, Len(s)) \in Seq(V) /\ Len(SubSeq(s, from + 1, Len(s))) = n
      OBVIOUS
    <2>4. Len(y) = n + 1
      BY <2>3
    <2>5. x \in Seq(V) /\ y \in Seq(V)
      BY <2>1, <2>3
    <2> HIDE DEF x, y, n
    <2> QED
      BY <2>1, <2>2, <2>4, <2>5
  <1>4. x = [i \in 1..(n + 1) |-> x[i]] /\ y = [i \in 1..(n + 1) |-> y[i]]
    <2> HIDE DEF x, y, n
    <2> QED
      BY <1>3, SequenceIs
  <1>5. \A i \in 1..(n + 1) : x[i] = y[i]
    <2>1. \A i \in 1..n : x[i] = s[from + i] /\ y[i] = s[from + i]
      <3>1. \A i \in 1..n : SubSeq(s, from + 1, Len(s))[i] = s[from + i]
        OBVIOUS
      <3>2. \A i \in 1..n : x[i] = Append(s, v)[from + i] /\ from + i \in 1..Len(s)
        OBVIOUS
      <3>3. Len(SubSeq(s, from + 1, Len(s))) = n /\ SubSeq(s, from + 1, Len(s)) \in Seq(V)
        OBVIOUS
      <3>4. \A i \in 1..n : y[i] = SubSeq(s, from + 1, Len(s))[i]
        BY <3>3
      <3> QED
        BY <3>1, <3>2, <3>4
    <2>2. x[n + 1] = v /\ y[n + 1] = v
      OBVIOUS
    <2> SUFFICES ASSUME NEW i \in 1..(n + 1) PROVE x[i] = y[i]
      OBVIOUS
    <2>3. n \in Nat
      BY <1>3
    <2> HIDE DEF x, y, n
    <2>4. i \in 1..n \/ i = n + 1
      BY <2>3
    <2> QED
      BY <2>1, <2>2, <2>4
  <1> HIDE DEF x, y, n
  <1>6. x = y
    BY <1>4, <1>5
  <1> QED
    BY <1>1, <1>2, <1>6 DEF x, y

\* The second part of a sequence is its suffix.
LEMMA SecondPart ==
  ASSUME NEW V, NEW r \in Seq(V), NEW s \in Seq(V)
  PROVE  IsSuffix(s, r \o s)
  <1> DEFINE t == r \o s
             x == Reverse(s)
             y == Reverse(t)
  <1>1. /\ t \in Seq(V) /\ Len(t) = Len(r) + Len(s) /\ Len(s) \in Nat /\ Len(r) \in Nat
        /\ \A i \in 1..Len(s) : t[Len(r) + i] = s[i]
    OBVIOUS
  <1> HIDE DEF t
  <1>2. x = [i \in 1..Len(s) |-> s[(Len(s) - i) + 1]] /\ y = [i \in 1..Len(t) |-> t[(Len(t) - i) + 1]]
    BY DEF Reverse
  <1> HIDE DEF x, y
  <1>3. \A i \in 1..Len(s) : i \in 1..Len(t) /\ x[i] = y[i]
    <2> SUFFICES ASSUME NEW i \in 1..Len(s) PROVE i \in 1..Len(t) /\ x[i] = y[i]
      OBVIOUS
    <2>1. i \in 1..Len(t) /\ (Len(t) - i) + 1 = Len(r) + ((Len(s) - i) + 1) /\ (Len(s) - i) + 1 \in 1..Len(s)
      BY <1>1
    <2> QED
      BY <1>1, <1>2, <2>1
  <1>4. x \in Seq(V) /\ Len(x) = Len(s)
    <2>1. \A i \in 1..Len(s) : s[(Len(s) - i) + 1] \in V
      OBVIOUS
    <2> QED
      BY <1>1, <1>2, <2>1
  <1>5. y \in Seq(V) /\ Len(y) = Len(t)
    <2>1. \A i \in 1..Len(t) : t[(Len(t) - i) + 1] \in V
      BY <1>1
    <2> QED
      BY <1>1, <1>2, <2>1
  <1>6. IsPrefix(x, y)
    <2>1. Len(x) <= Len(y) /\ Len(x) \in Nat
      BY <1>1, <1>4, <1>5
    <2>2. SubSeq(x, 1, Len(x)) = SubSeq(y, 1, Len(x))
      BY <1>1, <1>3, <1>4, <1>5
    <2> QED
      BY <2>1, <2>2 DEF IsPrefix
  <1> QED
    BY <1>6 DEF IsSuffix, x, y, t

-----------------------------------------------------------------------------
\* Streams

\* The events of these users and jobs: what tells of a target, of an ask, and of neither.
TargetsOf(users, J) == [type : {"job-target-finished"}, user : users, job : J, run : Nat, target : Nat]

AsksOf(users) == [type : {"permission"}, user : users, call : Nat]

QuietOf(users, J) ==
  [type : {"jobs-running"}, user : users, runningJobs : SUBSET J]
  \cup [type : {"job-finished", "job-failed", "job-cancelled"}, user : users, job : J, run : Nat]
  \cup [type : {"jobs-scheduled", "call", "stopped"}, user : users]

EmittedOf(users, J) == TargetsOf(users, J) \cup AsksOf(users) \cup QuietOf(users, J)

\* What a stream begins with, and all it can be sent.
SnapshotsOf(users, J) ==
  [type : {"jobs-aggregated"}, user : users, runningJobs : UNION {[D -> Seq(TargetsOf(users, J))] : D \in SUBSET J}]

SentOf(users, J) == EmittedOf(users, J) \cup SnapshotsOf(users, J)

\* The types of a connection and of the state.
ConnectionsOf(users, J) ==
  [user : users, kind : {"jobs", "mcp"}, sent : Seq(SentOf(users, J)), after : Nat, until : Nat \cup {None}]

StreamStates(users, J) ==
  [runs : Seq([job : J, targets : Nat, over : BOOLEAN]), running : UNION {[D -> Nat] : D \in SUBSET J},
   emittedJobTargetEvents : Seq(TargetsOf(users, J)), asks : Seq(AsksOf(users)),
   connections : Seq(ConnectionsOf(users, J)), listeners : SUBSET [connection : Nat, type : JobTypes \cup McpTypes],
   emitted : Seq(EmittedOf(users, J))]

\* What an event's type tells of it.
LEMMA EventsAre ==
  ASSUME NEW users, NEW J, NEW e \in SentOf(users, J)
  PROVE  /\ e.user \in users
         /\ e \in TargetsOf(users, J) <=> e.type = "job-target-finished"
         /\ e \in AsksOf(users) <=> e.type = "permission"
         /\ e \in SnapshotsOf(users, J) <=> e.type = "jobs-aggregated"
         /\ e \in EmittedOf(users, J) <=> e.type \in JobTypes \cup McpTypes
         /\ e \in TargetsOf(users, J) => e.run \in Nat /\ e.job \in J /\ e.type \in JobTypes
         /\ e \in AsksOf(users) => e.call \in Nat /\ e.type \in McpTypes /\ e.type \notin JobTypes
  <1>1. CASE e \in TargetsOf(users, J)
    BY <1>1 DEF TargetsOf, AsksOf, SnapshotsOf, EmittedOf, JobTypes, McpTypes
  <1>2. CASE e \in AsksOf(users)
    BY <1>2 DEF TargetsOf, AsksOf, SnapshotsOf, EmittedOf, JobTypes, McpTypes
  <1>3. CASE e \in SnapshotsOf(users, J)
    <2>1. e.type = "jobs-aggregated" /\ e.user \in users
      BY <1>3 DEF SnapshotsOf
    <2>2. e \notin TargetsOf(users, J) /\ e \notin AsksOf(users) /\ e \notin QuietOf(users, J)
      BY <2>1 DEF TargetsOf, AsksOf, QuietOf
    <2> QED
      BY <1>3, <2>1, <2>2 DEF EmittedOf, JobTypes, McpTypes
  <1>4. CASE e \in QuietOf(users, J)
    <2>1. /\ e.user \in users
          /\ e.type \in {"jobs-running", "job-finished", "job-failed", "job-cancelled", "jobs-scheduled", "call", "stopped"}
      BY <1>4 DEF QuietOf
    <2>2. e \notin TargetsOf(users, J) /\ e \notin AsksOf(users) /\ e \notin SnapshotsOf(users, J)
      BY <2>1 DEF TargetsOf, AsksOf, SnapshotsOf
    <2> QED
      BY <1>4, <2>1, <2>2 DEF EmittedOf, JobTypes, McpTypes
  <1> QED
    BY <1>1, <1>2, <1>3, <1>4 DEF SentOf, EmittedOf

\* A connection after an event was emitted.
Told(c, e) ==
  IF c.until = None /\ e.user = c.user /\ e.type \in TypesOf(c.kind) THEN [c EXCEPT !.sent = Append(@, e)] ELSE c

LEMMA ToldIs ==
  ASSUME NEW users, NEW J, NEW c \in ConnectionsOf(users, J), NEW e \in EmittedOf(users, J)
  PROVE  /\ Told(c, e) \in ConnectionsOf(users, J)
         /\ Told(c, e).user = c.user /\ Told(c, e).kind = c.kind
         /\ Told(c, e).after = c.after /\ Told(c, e).until = c.until
         /\ Told(c, e).sent = IF c.until = None /\ e.user = c.user /\ e.type \in TypesOf(c.kind)
                              THEN Append(c.sent, e) ELSE c.sent
         /\ c.sent \in Seq(SentOf(users, J)) /\ c.user \in users /\ c.kind \in {"jobs", "mcp"}
         /\ c.after \in Nat /\ c.until \in Nat \cup {None} /\ e \in SentOf(users, J)
  <1>1. e \in SentOf(users, J)
    BY DEF SentOf
  <1> DEFINE W == SentOf(users, J)
  <1>2. c \in [user : users, kind : {"jobs", "mcp"}, sent : Seq(W), after : Nat, until : Nat \cup {None}] /\ e \in W
    BY <1>1 DEF ConnectionsOf
  <1> HIDE DEF W
  <1>3. c.sent \in Seq(W) /\ Append(c.sent, e) \in Seq(W)
    BY <1>2
  <1>4. Told(c, e) \in [user : users, kind : {"jobs", "mcp"}, sent : Seq(W), after : Nat, until : Nat \cup {None}]
    BY <1>2, <1>3 DEF Told
  <1>5. /\ Told(c, e).user = c.user /\ Told(c, e).kind = c.kind
        /\ Told(c, e).after = c.after /\ Told(c, e).until = c.until
        /\ Told(c, e).sent = IF c.until = None /\ e.user = c.user /\ e.type \in TypesOf(c.kind)
                             THEN Append(c.sent, e) ELSE c.sent
    BY <1>2 DEF Told
  <1> QED
    BY <1>2, <1>4, <1>5 DEF W, ConnectionsOf

\* The listeners are those of the open connections, one for each type of event.
Listening(connections, listeners) ==
  /\ \A l \in listeners : l.connection \in DOMAIN connections
  /\ \A i \in DOMAIN connections : \A t \in JobTypes \cup McpTypes :
       [connection |-> i, type |-> t] \in listeners
         <=> connections[i].until = None /\ t \in TypesOf(connections[i].kind)

LEMMA DeliveredIs ==
  ASSUME NEW users, NEW J, NEW st \in StreamStates(users, J), NEW e \in EmittedOf(users, J),
         Listening(st.connections, st.listeners)
  PROVE  Delivered(st, e) = [i \in DOMAIN st.connections |-> Told(st.connections[i], e)]
  <1>1. e.type \in JobTypes \cup McpTypes
    <2>1. e \in SentOf(users, J)
      BY DEF SentOf
    <2> QED
      BY <2>1, EventsAre
  <1>2. \A i \in DOMAIN st.connections :
          [connection |-> i, type |-> e.type] \in st.listeners
            <=> st.connections[i].until = None /\ e.type \in TypesOf(st.connections[i].kind)
    BY <1>1 DEF Listening
  <1> QED
    BY <1>2 DEF Delivered, Told

LEMMA ToldConnections ==
  ASSUME NEW users, NEW J, NEW connections \in Seq(ConnectionsOf(users, J)), NEW e \in EmittedOf(users, J)
  PROVE  LET told == [i \in DOMAIN connections |-> Told(connections[i], e)] IN
         /\ told \in Seq(ConnectionsOf(users, J)) /\ DOMAIN told = DOMAIN connections
         /\ \A i \in DOMAIN connections : told[i] = Told(connections[i], e)
  <1> DEFINE told == [i \in DOMAIN connections |-> Told(connections[i], e)]
  <1>1. \A i \in DOMAIN connections : told[i] = Told(connections[i], e) /\ connections[i] \in ConnectionsOf(users, J)
    OBVIOUS
  <1>2. Len(connections) \in Nat /\ DOMAIN connections = 1..Len(connections)
    OBVIOUS
  <1>3. \A i \in 1..Len(connections) : Told(connections[i], e) \in ConnectionsOf(users, J)
    BY <1>1, <1>2, ToldIs
  <1>4. told = [i \in 1..Len(connections) |-> told[i]]
    BY <1>2
  <1>5. \A i \in 1..Len(connections) : told[i] \in ConnectionsOf(users, J)
    BY <1>1, <1>2, <1>3
  <1> HIDE DEF told
  <1>6. told \in Seq(ConnectionsOf(users, J)) /\ Len(told) = Len(connections)
    BY <1>2, <1>4, <1>5, FunctionsAreSequences
  <1> QED
    BY <1>1, <1>2, <1>4, <1>6 DEF told

LEMMA TailGrows ==
  ASSUME NEW V, NEW s \in Seq(V), NEW v \in V, NEW from \in 0..Len(s)
  PROVE  SubSeq(Append(s, v), from + 1, Len(s) + 1) = Append(SubSeq(s, from + 1, Len(s)), v)
  <1>1. Len(s) \in 0..Len(s)
    OBVIOUS
  <1> QED
    BY <1>1, TailAppend

LEMMA TailStays ==
  ASSUME NEW V, NEW s \in Seq(V), NEW v \in V, NEW from \in 0..Len(s), NEW to \in 0..Len(s)
  PROVE  SubSeq(Append(s, v), from + 1, to) = SubSeq(s, from + 1, to)
  BY TailAppend

\* x is r and then s.
Joins(V, x, r, s) == r \in Seq(V) /\ s \in Seq(V) /\ x = r \o s

LEMMA JoinsGrow ==
  ASSUME NEW V, NEW r, NEW s, NEW x, NEW v \in V, Joins(V, x, r, s)
  PROVE  Joins(V, Append(x, v), r, Append(s, v))
  <1>1. r \in Seq(V) /\ s \in Seq(V) /\ v \in V /\ x = r \o s
    BY DEF Joins
  <1>2. Append(s, v) \in Seq(V)
    BY <1>1
  <1> DEFINE t == Append(s, v)
             y == Append(x, v)
             z == r \o t
             n == Len(r) + Len(s) + 1
  <1>3. Len(r) \in Nat /\ Len(s) \in Nat /\ x \in Seq(V) /\ Len(x) = Len(r) + Len(s)
    BY <1>1
  <1>4. y \in Seq(V) /\ Len(y) = n
    BY <1>1, <1>3
  <1>5. z \in Seq(V) /\ Len(z) = n
    BY <1>1, <1>2, <1>3
  <1>6. \A i \in 1..n : y[i] = z[i]
    <2>1. \A i \in 1..n : y[i] = IF i = n THEN v ELSE x[i]
      BY <1>1, <1>3
    <2>2. \A i \in 1..Len(x) : x[i] = IF i <= Len(r) THEN r[i] ELSE s[i - Len(r)]
      BY <1>1, <1>3
    <2>3. \A i \in 1..n : z[i] = IF i <= Len(r) THEN r[i] ELSE t[i - Len(r)]
      BY <1>1, <1>2, <1>3
    <2>4. \A i \in 1..(Len(s) + 1) : t[i] = IF i = Len(s) + 1 THEN v ELSE s[i]
      BY <1>1, <1>3
    <2> DEFINE p == Len(r)
               q == Len(s)
    <2>5. p \in Nat /\ q \in Nat /\ Len(x) = p + q
      BY <1>3
    <2> SUFFICES ASSUME NEW i \in 1..(p + q + 1) PROVE y[i] = z[i]
      OBVIOUS
    <2> HIDE DEF y, z, t, p, q
    <2>6. CASE i = p + q + 1
      <3>1. i \in 1..n /\ i = n /\ ~(i <= p) /\ i - p = q + 1 /\ q + 1 \in 1..(q + 1)
        BY <2>5, <2>6 DEF p, q
      <3>2. y[i] = v
        BY <2>1, <3>1
      <3>3. z[i] = t[i - p]
        BY <2>3, <3>1 DEF p
      <3>4. t[q + 1] = v
        BY <2>4, <3>1 DEF q
      <3> QED
        BY <3>1, <3>2, <3>3, <3>4
    <2>7. CASE i # p + q + 1 /\ i <= p
      <3>1. i \in 1..n /\ i # n /\ i \in 1..Len(x)
        BY <2>5, <2>7 DEF p, q
      <3> QED
        BY <2>1, <2>2, <2>3, <2>7, <3>1 DEF p
    <2>8. CASE i # p + q + 1 /\ ~(i <= p)
      <3>1. i \in 1..n /\ i # n /\ i \in 1..Len(x)
        BY <2>5, <2>8 DEF p, q
      <3>2. i - p \in 1..(q + 1) /\ i - p # q + 1
        BY <2>5, <2>8
      <3>3. y[i] = s[i - p]
        BY <2>1, <2>2, <2>8, <3>1 DEF p
      <3>4. z[i] = t[i - p]
        BY <2>3, <2>8, <3>1 DEF p
      <3>5. t[i - p] = s[i - p]
        BY <2>4, <3>2 DEF q
      <3> QED
        BY <3>3, <3>4, <3>5
    <2> QED
      BY <2>6, <2>7, <2>8
  <1> HIDE DEF y, z, n
  <1>7. y = z
    BY <1>4, <1>5, <1>6, SequenceIs
  <1> QED
    BY <1>1, <1>2, <1>7 DEF Joins, y, z

-----------------------------------------------------------------------------
\* What one connection was sent

\* The events a connection hears, and those among what was emitted while it was open.
HeardBy(users, J, c) == {e \in EmittedOf(users, J) : e.user = c.user /\ e.type \in TypesOf(c.kind)}

\* What was emitted while the connection was open.
While(c, emitted) == SubSeq(emitted, c.after + 1, OrElse(c.until, Len(emitted)))

\* A connection was sent a snapshot and then what it heard.
Sending(users, J, c, emitted) ==
  /\ c.after <= Len(emitted) /\ OrElse(c.until, Len(emitted)) <= Len(emitted)
  /\ \E snapshot \in Seq(SentOf(users, J)) :
       /\ c.sent = snapshot \o Sub(While(c, emitted), HeardBy(users, J, c))
       /\ c.kind = "jobs" => Len(snapshot) = 1

LEMMA HeardIs ==
  ASSUME NEW users, NEW J, NEW c \in ConnectionsOf(users, J), NEW emitted \in Seq(EmittedOf(users, J)),
         c.after <= Len(emitted), OrElse(c.until, Len(emitted)) <= Len(emitted), None \notin Nat
  PROVE  /\ While(c, emitted) \in Seq(EmittedOf(users, J))
         /\ Sub(While(c, emitted), HeardBy(users, J, c)) \in Seq(SentOf(users, J))
  <1>1. c.after \in Nat /\ c.until \in Nat \cup {None}
    BY DEF ConnectionsOf
  <1>2. Len(emitted) \in Nat /\ OrElse(c.until, Len(emitted)) \in 0..Len(emitted) /\ c.after \in 0..Len(emitted)
    BY <1>1 DEF OrElse
  <1>3. While(c, emitted) \in Seq(EmittedOf(users, J))
    BY <1>2 DEF While
  <1>4. Sub(While(c, emitted), HeardBy(users, J, c)) \in Seq(EmittedOf(users, J))
    BY <1>3, SubTyped
  <1>5. EmittedOf(users, J) \subseteq SentOf(users, J)
    BY DEF SentOf
  <1> QED
    BY <1>3, <1>4, <1>5, WiderSequences

LEMMA SendingGoesOn ==
  ASSUME NEW users, NEW J, NEW c \in ConnectionsOf(users, J), NEW emitted \in Seq(EmittedOf(users, J)),
         NEW e \in EmittedOf(users, J), None \notin Nat, Sending(users, J, c, emitted)
  PROVE  Sending(users, J, Told(c, e), Append(emitted, e))
  <1> DEFINE d == Told(c, e)
             n == Len(emitted)
             E == EmittedOf(users, J)
             W == SentOf(users, J)
             S == HeardBy(users, J, c)
             more == Append(emitted, e)
  <1>1. /\ d.user = c.user /\ d.kind = c.kind /\ d.after = c.after /\ d.until = c.until
        /\ d.sent = IF c.until = None /\ e.user = c.user /\ e.type \in TypesOf(c.kind)
                    THEN Append(c.sent, e) ELSE c.sent
        /\ c.after \in Nat /\ c.until \in Nat \cup {None} /\ e \in W
    BY ToldIs
  <1>2. c.after <= n /\ OrElse(c.until, n) <= n /\ n \in Nat /\ more \in Seq(E) /\ Len(more) = n + 1
    BY DEF Sending
  <1>3. PICK snapshot \in Seq(W) : /\ c.sent = snapshot \o Sub(While(c, emitted), S)
                                   /\ c.kind = "jobs" => Len(snapshot) = 1
    BY DEF Sending
  <1>4. HeardBy(users, J, d) = S
    BY <1>1 DEF HeardBy
  <1>5. While(c, emitted) \in Seq(E) /\ Sub(While(c, emitted), S) \in Seq(W)
    BY <1>2, HeardIs
  <1>6. c.after \in 0..n
    BY <1>1, <1>2
  <1> HIDE DEF d, E, W, S, n
  <1>7. CASE c.until = None
    <2>1. While(c, emitted) = SubSeq(emitted, c.after + 1, n) /\ While(d, more) = SubSeq(more, c.after + 1, n + 1)
      BY <1>1, <1>2, <1>7 DEF While, OrElse, n
    <2>2. While(d, more) = Append(While(c, emitted), e)
      <3> DEFINE from == c.after
      <3>1. from \in 0..Len(emitted) /\ Len(emitted) \in 0..Len(emitted)
        BY <1>2, <1>6 DEF n
      <3> HIDE DEF from
      <3>2. SubSeq(Append(emitted, e), from + 1, Len(emitted) + 1) = Append(SubSeq(emitted, from + 1, Len(emitted)), e)
        BY <3>1, TailGrows, Zenon
      <3> QED
        BY <2>1, <3>2 DEF from, n
    <2>3. e \in S <=> e.user = c.user /\ e.type \in TypesOf(c.kind)
      BY DEF S, HeardBy
    <2>4. d.sent = snapshot \o Sub(While(d, more), S)
      <3>1. CASE e \in S
        <4>1. Sub(While(d, more), S) = Append(Sub(While(c, emitted), S), e)
          BY <1>5, <2>2, <3>1, SubTaken DEF E
        <4>2. d.sent = Append(c.sent, e)
          BY <1>1, <1>7, <2>3, <3>1
        <4>3. Joins(W, c.sent, snapshot, Sub(While(c, emitted), S)) /\ e \in W
          BY <1>1, <1>3, <1>5 DEF W, Joins
        <4>4. Joins(W, Append(c.sent, e), snapshot, Append(Sub(While(c, emitted), S), e))
          BY <4>3, JoinsGrow, Zenon
        <4> QED
          BY <4>1, <4>2, <4>4 DEF Joins
      <3>2. CASE e \notin S
        <4>1. Sub(While(d, more), S) = Sub(While(c, emitted), S)
          BY <1>5, <2>2, <3>2, SubDropped DEF E
        <4>2. d.sent = c.sent
          BY <1>1, <2>3, <3>2
        <4> QED
          BY <1>3, <4>1, <4>2
      <3> QED
        BY <3>1, <3>2
    <2>5. d.after <= Len(more) /\ OrElse(d.until, Len(more)) <= Len(more)
      BY <1>1, <1>2, <1>7 DEF OrElse
    <2> QED
      BY <1>1, <1>3, <1>4, <2>4, <2>5 DEF Sending, W, d
  <1>8. CASE c.until # None
    <2>1. c.until \in 0..n /\ OrElse(c.until, n) = c.until /\ OrElse(d.until, Len(more)) = c.until
      BY <1>1, <1>2, <1>8 DEF OrElse
    <2>2. While(d, more) = SubSeq(more, c.after + 1, c.until) /\ While(c, emitted) = SubSeq(emitted, c.after + 1, c.until)
      BY <1>1, <2>1 DEF While, n
    <2>3. While(d, more) = While(c, emitted)
      <3> DEFINE from == c.after
                 to == c.until
      <3>1. from \in 0..Len(emitted) /\ to \in 0..Len(emitted)
        BY <1>6, <2>1 DEF n
      <3> HIDE DEF from, to
      <3>2. SubSeq(Append(emitted, e), from + 1, to) = SubSeq(emitted, from + 1, to)
        BY <3>1, TailStays, Zenon
      <3> QED
        BY <2>2, <3>2 DEF from, to
    <2>4. d.sent = snapshot \o Sub(While(d, more), S)
      BY <1>1, <1>3, <1>8, <2>3
    <2>5. d.after <= Len(more) /\ OrElse(d.until, Len(more)) <= Len(more)
      BY <1>1, <1>2, <2>1
    <2> QED
      BY <1>1, <1>3, <1>4, <2>4, <2>5 DEF Sending, W, d
  <1> QED
    BY <1>7, <1>8

\* The targets of a run.
OfRun(users, J, r) == {e \in TargetsOf(users, J) : e.run = r}

\* What the snapshot of a jobs stream shows of a job.
ShownOf(c, job) == LET shown == c.sent[1].runningJobs IN IF job \in DOMAIN shown THEN shown[job] ELSE <<>>

\* A jobs stream has been shown, then and since, what was emitted of the runs in the map.
Hydrated(users, J, owner, started, running, c, emitted) ==
  c.until = None /\ c.kind = "jobs" =>
    /\ c.sent # <<>> /\ c.sent[1] \in SnapshotsOf(users, J)
    /\ \A r \in Nat : r > Len(started) =>
         /\ Sub(c.sent, OfRun(users, J, r)) = <<>>
         /\ \A job \in J : Sub(ShownOf(c, job), OfRun(users, J, r)) = <<>>
    /\ \A job \in DOMAIN running : owner[job].user = c.user =>
         LET r == running[job] IN
         /\ Sub(ShownOf(c, job), OfRun(users, J, r)) \o Sub(c.sent, OfRun(users, J, r))
              = Sub(emitted, OfRun(users, J, r))
         /\ \A other \in J \ {job} : Sub(ShownOf(c, other), OfRun(users, J, r)) = <<>>

LEMMA ShownTyped ==
  ASSUME NEW users, NEW J, NEW c, c.sent[1] \in SnapshotsOf(users, J), NEW job
  PROVE  ShownOf(c, job) \in Seq(TargetsOf(users, J))
  <1>1. PICK D \in SUBSET J : c.sent[1].runningJobs \in [D -> Seq(TargetsOf(users, J))]
    BY DEF SnapshotsOf
  <1> DEFINE T == TargetsOf(users, J)
  <1>2. <<>> \in Seq(T)
    OBVIOUS
  <1> HIDE DEF T
  <1> QED
    BY <1>1, <1>2 DEF ShownOf, T

LEMMA HydratedGoesOn ==
  ASSUME NEW users, NEW J, NEW owner, NEW started, NEW running, Len(started) \in Nat,
         NEW c \in ConnectionsOf(users, J), NEW emitted \in Seq(EmittedOf(users, J)), NEW e \in EmittedOf(users, J),
         \A job \in DOMAIN running : running[job] \in DOMAIN started /\ started[running[job]].job = job,
         e \in TargetsOf(users, J) =>
           e.run <= Len(started) /\ e.job = started[e.run].job /\ e.user = owner[e.job].user,
         Hydrated(users, J, owner, started, running, c, emitted)
  PROVE  Hydrated(users, J, owner, started, running, Told(c, e), Append(emitted, e))
  <1> DEFINE d == Told(c, e)
             E == EmittedOf(users, J)
             W == SentOf(users, J)
             R(r) == OfRun(users, J, r)
             more == Append(emitted, e)
             hears == c.until = None /\ e.user = c.user /\ e.type \in TypesOf(c.kind)
  <1>1. /\ d.user = c.user /\ d.kind = c.kind /\ d.until = c.until
        /\ d.sent = IF hears THEN Append(c.sent, e) ELSE c.sent
        /\ c.sent \in Seq(W) /\ e \in W
    BY ToldIs
  <1> HIDE DEF d
  <1> SUFFICES ASSUME c.until = None, c.kind = "jobs"
               PROVE  /\ d.sent # <<>> /\ d.sent[1] \in SnapshotsOf(users, J)
                      /\ \A r \in Nat : r > Len(started) =>
                           /\ Sub(d.sent, R(r)) = <<>>
                           /\ \A job \in J : Sub(ShownOf(d, job), R(r)) = <<>>
                      /\ \A job \in DOMAIN running : owner[job].user = c.user =>
                           /\ Sub(ShownOf(d, job), R(running[job])) \o Sub(d.sent, R(running[job])) = Sub(more, R(running[job]))
                           /\ \A other \in J \ {job} : Sub(ShownOf(d, other), R(running[job])) = <<>>
    BY <1>1 DEF Hydrated, d
  <1>2. /\ c.sent # <<>> /\ c.sent[1] \in SnapshotsOf(users, J)
        /\ \A r \in Nat : r > Len(started) =>
             /\ Sub(c.sent, R(r)) = <<>>
             /\ \A job \in J : Sub(ShownOf(c, job), R(r)) = <<>>
        /\ \A job \in DOMAIN running : owner[job].user = c.user =>
             /\ Sub(ShownOf(c, job), R(running[job])) \o Sub(c.sent, R(running[job])) = Sub(emitted, R(running[job]))
             /\ \A other \in J \ {job} : Sub(ShownOf(c, other), R(running[job])) = <<>>
    BY DEF Hydrated
  <1> HIDE DEF W, E, R
  <1>3. d.sent # <<>> /\ d.sent[1] = c.sent[1]
    BY <1>1, <1>2
  <1>4. \A job : ShownOf(d, job) = ShownOf(c, job)
    BY <1>3 DEF ShownOf
  <1>5. \A r : e \in R(r) <=> e.type = "job-target-finished" /\ e.run = r
    BY <1>1, EventsAre DEF R, OfRun, W
  <1>6. \A r : e \notin R(r) => Sub(d.sent, R(r)) = Sub(c.sent, R(r)) /\ Sub(more, R(r)) = Sub(emitted, R(r))
    <2> SUFFICES ASSUME NEW r, e \notin R(r)
                 PROVE  Sub(d.sent, R(r)) = Sub(c.sent, R(r)) /\ Sub(more, R(r)) = Sub(emitted, R(r))
      OBVIOUS
    <2>1. Sub(Append(c.sent, e), R(r)) = Sub(c.sent, R(r))
      BY <1>1, SubDropped
    <2>2. Sub(more, R(r)) = Sub(emitted, R(r))
      BY SubDropped DEF E
    <2> QED
      BY <1>1, <2>1, <2>2
  <1>7. ASSUME NEW r \in Nat, r > Len(started)
        PROVE  /\ Sub(d.sent, R(r)) = <<>>
               /\ \A job \in J : Sub(ShownOf(d, job), R(r)) = <<>>
    <2>1. e \notin R(r)
      <3>1. e \in TargetsOf(users, J) => e.run <= Len(started)
        OBVIOUS
      <3>2. e \in R(r) => e \in TargetsOf(users, J) /\ e.run = r
        BY DEF R, OfRun
      <3>3. ~(r <= Len(started))
        BY <1>7
      <3> QED
        BY <3>1, <3>2, <3>3
    <2> QED
      BY <1>2, <1>4, <1>6, <1>7, <2>1
  <1>8. ASSUME NEW job \in DOMAIN running, owner[job].user = c.user
        PROVE  /\ Sub(ShownOf(d, job), R(running[job])) \o Sub(d.sent, R(running[job])) = Sub(more, R(running[job]))
               /\ \A other \in J \ {job} : Sub(ShownOf(d, other), R(running[job])) = <<>>
    <2> DEFINE r == running[job]
    <2>1. CASE e \notin R(r)
      BY <1>2, <1>4, <1>6, <1>8, <2>1
    <2>2. CASE e \in R(r)
      <3>1. e \in TargetsOf(users, J) /\ e.run = r
        BY <2>2 DEF R, OfRun
      <3>2. e.user = c.user
        BY <1>8, <3>1
      <3>3. e.type \in TypesOf(c.kind)
        <4>1. e.type \in JobTypes
          BY <1>1, <3>1, EventsAre DEF W
        <4> QED
          BY <4>1 DEF TypesOf
      <3>4. d.sent = Append(c.sent, e)
        BY <1>1, <3>2, <3>3
      <3>5. Sub(d.sent, R(r)) = Append(Sub(c.sent, R(r)), e)
        <4> DEFINE S == R(r)
        <4>1. e \in S
          BY <2>2
        <4> HIDE DEF S
        <4>2. Sub(Append(c.sent, e), S) = Append(Sub(c.sent, S), e)
          BY <1>1, <4>1, SubTaken, Zenon
        <4> QED
          BY <3>4, <4>2 DEF S
      <3>6. Sub(more, R(r)) = Append(Sub(emitted, R(r)), e)
        BY <2>2, SubTaken DEF E
      <3> DEFINE x == Sub(ShownOf(c, job), R(r))
                 y == Sub(c.sent, R(r))
      <3>7. x \in Seq(W) /\ y \in Seq(W)
        <4>1. ShownOf(c, job) \in Seq(TargetsOf(users, J))
          BY <1>2, ShownTyped
        <4>2. TargetsOf(users, J) \subseteq W
          BY DEF W, SentOf, EmittedOf
        <4>3. ShownOf(c, job) \in Seq(W)
          BY <4>1, <4>2, WiderSequences
        <4> QED
          BY <1>1, <4>3, SubTyped
      <3>8. x \o y = Sub(emitted, R(r))
        BY <1>2, <1>8
      <3> HIDE DEF x, y
      <3>9. x \o Append(y, e) = Append(x \o y, e)
        <4>1. Joins(W, x \o y, x, y)
          BY <3>7 DEF Joins
        <4>2. Joins(W, Append(x \o y, e), x, Append(y, e))
          BY <1>1, <4>1, JoinsGrow, Zenon
        <4> QED
          BY <4>2 DEF Joins
      <3>10. Sub(ShownOf(d, job), R(r)) = x /\ Sub(d.sent, R(r)) = Append(y, e)
        BY <1>4, <3>5 DEF x, y
      <3> QED
        BY <1>2, <1>4, <1>8, <3>6, <3>8, <3>9, <3>10
    <2> QED
      BY <2>1, <2>2
  <1> QED
    BY <1>2, <1>3, <1>7, <1>8

-----------------------------------------------------------------------------
\* The state of the streams

\* The targets that are told as those of the runs there were.
KnownOf(users, J, owner, started) ==
  {e \in TargetsOf(users, J) : e.run \in DOMAIN started /\ e.job = started[e.run].job /\ e.user = owner[e.job].user}

\* The delegator's map leads from a job to a run of this job.
Mapping(started, running) ==
  \A job \in DOMAIN running : running[job] \in DOMAIN started /\ started[running[job]].job = job

\* Of a run to come nothing was emitted, and of a run in the map the buffer holds what was.
Buffering(users, J, started, running, buffer, emitted) ==
  /\ \A r \in Nat : r > Len(started) => Sub(emitted, OfRun(users, J, r)) = <<>>
  /\ \A job \in DOMAIN running :
       Sub(buffer, OfRun(users, J, running[job])) = Sub(emitted, OfRun(users, J, running[job]))

\* Each connection was sent what it heard, and knows the runs in the map.
Serving(users, J, owner, started, running, connections, emitted) ==
  \A i \in DOMAIN connections :
    /\ Sending(users, J, connections[i], emitted)
    /\ Hydrated(users, J, owner, started, running, connections[i], emitted)

\* The invariant but for the asks.
StreamCore(users, J, owner, st) ==
  /\ st \in StreamStates(users, J)
  /\ Listening(st.connections, st.listeners)
  /\ Mapping(st.runs, st.running)
  /\ st.emittedJobTargetEvents \in Seq(KnownOf(users, J, owner, st.runs))
  /\ Buffering(users, J, st.runs, st.running, st.emittedJobTargetEvents, st.emitted)
  /\ Serving(users, J, owner, st.runs, st.running, st.connections, st.emitted)

LEMMA StatesAre ==
  ASSUME NEW users, NEW J, NEW st \in StreamStates(users, J)
  PROVE  /\ st.runs \in Seq([job : J, targets : Nat, over : BOOLEAN]) /\ Len(st.runs) \in Nat
         /\ DOMAIN st.runs = 1..Len(st.runs)
         /\ DOMAIN st.running \in SUBSET J /\ st.running \in [DOMAIN st.running -> Nat]
         /\ st.emittedJobTargetEvents \in Seq(TargetsOf(users, J)) /\ st.asks \in Seq(AsksOf(users))
         /\ st.connections \in Seq(ConnectionsOf(users, J))
         /\ Len(st.connections) \in Nat /\ DOMAIN st.connections = 1..Len(st.connections)
         /\ st.listeners \in SUBSET [connection : Nat, type : JobTypes \cup McpTypes]
         /\ st.emitted \in Seq(EmittedOf(users, J)) /\ Len(st.emitted) \in Nat
  <1> DEFINE R == [job : J, targets : Nat, over : BOOLEAN]
             M == UNION {[D -> Nat] : D \in SUBSET J}
             T == TargetsOf(users, J)
             A == AsksOf(users)
             C == ConnectionsOf(users, J)
             L == [connection : Nat, type : JobTypes \cup McpTypes]
             E == EmittedOf(users, J)
  <1>1. st \in [runs : Seq(R), running : M, emittedJobTargetEvents : Seq(T), asks : Seq(A), connections : Seq(C),
                listeners : SUBSET L, emitted : Seq(E)]
    BY DEF StreamStates
  <1>2. \A q \in M : DOMAIN q \in SUBSET J /\ q \in [DOMAIN q -> Nat]
    OBVIOUS
  <1> HIDE DEF R, M, T, A, C, L, E
  <1>3. /\ st.runs \in Seq(R) /\ st.running \in M /\ st.emittedJobTargetEvents \in Seq(T) /\ st.asks \in Seq(A)
        /\ st.connections \in Seq(C) /\ st.listeners \in SUBSET L /\ st.emitted \in Seq(E)
    BY <1>1
  <1>4. DOMAIN st.running \in SUBSET J /\ st.running \in [DOMAIN st.running -> Nat]
    BY <1>2, <1>3
  <1>5. Len(st.runs) \in Nat /\ DOMAIN st.runs = 1..Len(st.runs)
    BY <1>3
  <1>6. Len(st.connections) \in Nat /\ DOMAIN st.connections = 1..Len(st.connections) /\ Len(st.emitted) \in Nat
    BY <1>3
  <1> QED
    BY <1>3, <1>4, <1>5, <1>6 DEF R, T, A, C, L, E

StateOf(started, running, buffer, asks, connections, listeners, emitted) ==
  [runs |-> started, running |-> running, emittedJobTargetEvents |-> buffer, asks |-> asks,
   connections |-> connections, listeners |-> listeners, emitted |-> emitted]

LEMMA StateFields ==
  ASSUME NEW started, NEW running, NEW buffer, NEW asks, NEW connections, NEW listeners, NEW emitted
  PROVE  LET t == StateOf(started, running, buffer, asks, connections, listeners, emitted) IN
         /\ t.runs = started /\ t.running = running /\ t.emittedJobTargetEvents = buffer /\ t.asks = asks
         /\ t.connections = connections /\ t.listeners = listeners /\ t.emitted = emitted
  BY DEF StateOf

\* The same state with other values in its fields.
LEMMA StatesMake ==
  ASSUME NEW users, NEW J, NEW started \in Seq([job : J, targets : Nat, over : BOOLEAN]),
         NEW running, DOMAIN running \in SUBSET J, running \in [DOMAIN running -> Nat],
         NEW buffer \in Seq(TargetsOf(users, J)), NEW asks \in Seq(AsksOf(users)),
         NEW connections \in Seq(ConnectionsOf(users, J)),
         NEW listeners \in SUBSET [connection : Nat, type : JobTypes \cup McpTypes],
         NEW emitted \in Seq(EmittedOf(users, J))
  PROVE  StateOf(started, running, buffer, asks, connections, listeners, emitted) \in StreamStates(users, J)
  <1>1. running \in UNION {[D -> Nat] : D \in SUBSET J}
    OBVIOUS
  <1> QED
    BY <1>1 DEF StreamStates, StateOf

\* emit() of a valid event.
Emission(users, J, st, e, t) ==
  /\ t \in StreamStates(users, J)
  /\ t.runs = st.runs /\ t.running = st.running /\ t.asks = st.asks /\ t.listeners = st.listeners
  /\ t.emitted = Append(st.emitted, e)
  /\ t.emittedJobTargetEvents = IF e.type = "job-target-finished" THEN Append(st.emittedJobTargetEvents, e)
                                ELSE st.emittedJobTargetEvents
  /\ DOMAIN t.connections = DOMAIN st.connections
  /\ \A i \in DOMAIN st.connections : t.connections[i] = Told(st.connections[i], e)

LEMMA EmitIs ==
  ASSUME NEW users, NEW J, NEW st \in StreamStates(users, J), NEW e \in EmittedOf(users, J),
         Listening(st.connections, st.listeners), NEW t, t = emit(st, e, TRUE)
  PROVE  Emission(users, J, st, e, t)
  <1> DEFINE buffer == IF e.type = "job-target-finished" THEN Append(st.emittedJobTargetEvents, e)
                       ELSE st.emittedJobTargetEvents
             told == [i \in DOMAIN st.connections |-> Told(st.connections[i], e)]
             more == Append(st.emitted, e)
  <1>1. Delivered(st, e) = told
    BY DeliveredIs
  <1>2. st.connections \in Seq(ConnectionsOf(users, J)) /\ st.emitted \in Seq(EmittedOf(users, J))
        /\ st.emittedJobTargetEvents \in Seq(TargetsOf(users, J))
    BY StatesAre
  <1>3. told \in Seq(ConnectionsOf(users, J)) /\ DOMAIN told = DOMAIN st.connections
        /\ \A i \in DOMAIN st.connections : told[i] = Told(st.connections[i], e)
    BY <1>2, ToldConnections
  <1>4. buffer \in Seq(TargetsOf(users, J))
    <2>1. e.type = "job-target-finished" => e \in TargetsOf(users, J)
      BY EventsAre DEF SentOf
    <2> QED
      BY <1>2, <2>1
  <1>5. more \in Seq(EmittedOf(users, J))
    BY <1>2
  <1>6. t = [st EXCEPT !.emittedJobTargetEvents = buffer, !.connections = told, !.emitted = more]
    BY <1>1 DEF emit
  <1>7. st = [runs |-> st.runs, running |-> st.running, emittedJobTargetEvents |-> st.emittedJobTargetEvents,
              asks |-> st.asks, connections |-> st.connections, listeners |-> st.listeners, emitted |-> st.emitted]
    BY DEF StreamStates
  <1> HIDE DEF buffer, told, more
  <1>8. t = [runs |-> st.runs, running |-> st.running, emittedJobTargetEvents |-> buffer,
              asks |-> st.asks, connections |-> told, listeners |-> st.listeners, emitted |-> more]
    BY <1>6, <1>7
  <1> DEFINE started == st.runs
             running == st.running
             asks == st.asks
             listeners == st.listeners
  <1>9. /\ started \in Seq([job : J, targets : Nat, over : BOOLEAN])
        /\ DOMAIN running \in SUBSET J /\ running \in [DOMAIN running -> Nat] /\ asks \in Seq(AsksOf(users))
        /\ listeners \in SUBSET [connection : Nat, type : JobTypes \cup McpTypes]
    BY StatesAre
  <1>10. t = StateOf(started, running, buffer, asks, told, listeners, more)
    BY <1>8 DEF StateOf
  <1> HIDE DEF started, running, asks, listeners
  <1>11. t \in StreamStates(users, J)
    <2>1. StateOf(started, running, buffer, asks, told, listeners, more) \in StreamStates(users, J)
      BY <1>3, <1>4, <1>5, <1>9, StatesMake
    <2> QED
      BY <1>10, <2>1, Zenon
  <1>12. /\ t.runs = started /\ t.running = running /\ t.emittedJobTargetEvents = buffer /\ t.asks = asks
         /\ t.connections = told /\ t.listeners = listeners /\ t.emitted = more
    <2> DEFINE q == StateOf(started, running, buffer, asks, told, listeners, more)
    <2>1. /\ q.runs = started /\ q.running = running /\ q.emittedJobTargetEvents = buffer /\ q.asks = asks
          /\ q.connections = told /\ q.listeners = listeners /\ q.emitted = more
      BY StateFields
    <2>2. t = q
      BY <1>10
    <2> HIDE DEF q
    <2> QED
      BY <2>1, <2>2, Zenon
  <1> QED
    BY <1>3, <1>11, <1>12 DEF Emission, buffer, more, started, running, asks, listeners

\* Of an event that is not told of a run the run has no more targets.
LEMMA BufferingGoesOn ==
  ASSUME NEW users, NEW J, NEW owner, NEW started, NEW running, Len(started) \in Nat, DOMAIN started = 1..Len(started),
         NEW buffer \in Seq(KnownOf(users, J, owner, started)), NEW emitted \in Seq(EmittedOf(users, J)),
         NEW e \in EmittedOf(users, J), e \in TargetsOf(users, J) => e \in KnownOf(users, J, owner, started),
         Buffering(users, J, started, running, buffer, emitted),
         NEW after, after = IF e.type = "job-target-finished" THEN Append(buffer, e) ELSE buffer
  PROVE  /\ Buffering(users, J, started, running, after, Append(emitted, e))
         /\ after \in Seq(KnownOf(users, J, owner, started))
  <1> DEFINE K == KnownOf(users, J, owner, started)
             E == EmittedOf(users, J)
             R(r) == OfRun(users, J, r)
             more == Append(emitted, e)
             isTarget == e.type = "job-target-finished"
  <1>1. e \in TargetsOf(users, J) <=> isTarget
    BY EventsAre DEF SentOf
  <1>2. isTarget => e \in K
    BY <1>1
  <1>3. after \in Seq(K)
    <2>1. buffer \in Seq(K)
      OBVIOUS
    <2> HIDE DEF K
    <2> QED
      BY <1>2, <2>1
  <1>4. \A r : e \in R(r) => isTarget /\ e.run = r
    BY <1>1 DEF OfRun
  <1>5. \A r \in Nat : r > Len(started) => e \notin R(r)
    <2>1. isTarget => e.run <= Len(started)
      BY <1>2 DEF KnownOf
    <2> HIDE DEF isTarget, R
    <2> SUFFICES ASSUME NEW r \in Nat, r > Len(started), e \in R(r) PROVE FALSE
      OBVIOUS
    <2>2. e.run = r /\ e.run <= Len(started)
      BY <1>4, <2>1
    <2>3. ~(r <= Len(started))
      OBVIOUS
    <2> QED
      BY <2>2, <2>3
  <1> HIDE DEF K, E, R
  <1>6. \A r : e \notin R(r) => Sub(more, R(r)) = Sub(emitted, R(r)) /\ Sub(after, R(r)) = Sub(buffer, R(r))
    <2> SUFFICES ASSUME NEW r, e \notin R(r)
                 PROVE  Sub(more, R(r)) = Sub(emitted, R(r)) /\ Sub(after, R(r)) = Sub(buffer, R(r))
      OBVIOUS
    <2>1. Sub(more, R(r)) = Sub(emitted, R(r))
      BY SubDropped
    <2>2. isTarget => Sub(Append(buffer, e), R(r)) = Sub(buffer, R(r))
      BY <1>2, SubDropped DEF K
    <2> QED
      BY <2>1, <2>2
  <1>7. \A r : e \in R(r) => /\ Sub(more, R(r)) = Append(Sub(emitted, R(r)), e)
                             /\ Sub(after, R(r)) = Append(Sub(buffer, R(r)), e)
    <2> SUFFICES ASSUME NEW r, e \in R(r)
                 PROVE  /\ Sub(more, R(r)) = Append(Sub(emitted, R(r)), e)
                        /\ Sub(after, R(r)) = Append(Sub(buffer, R(r)), e)
      OBVIOUS
    <2>1. Sub(more, R(r)) = Append(Sub(emitted, R(r)), e)
      BY SubTaken
    <2>2. e \in K
      BY <1>2, <1>4
    <2>3. Sub(Append(buffer, e), R(r)) = Append(Sub(buffer, R(r)), e)
      BY <2>2, SubTaken DEF K
    <2> QED
      BY <1>4, <2>1, <2>3
  <1> HIDE DEF more, isTarget
  <1>8. \A r \in Nat : r > Len(started) => Sub(emitted, R(r)) = <<>>
    BY DEF Buffering, R
  <1>9. \A job \in DOMAIN running : Sub(buffer, R(running[job])) = Sub(emitted, R(running[job]))
    BY DEF Buffering, R
  <1>10. \A r \in Nat : r > Len(started) => Sub(more, R(r)) = <<>>
    BY <1>5, <1>6, <1>8
  <1>11. \A job \in DOMAIN running : Sub(after, R(running[job])) = Sub(more, R(running[job]))
    <2> SUFFICES ASSUME NEW job \in DOMAIN running
                 PROVE  Sub(after, R(running[job])) = Sub(more, R(running[job]))
      OBVIOUS
    <2>1. CASE e \in R(running[job])
      BY <1>7, <1>9, <2>1
    <2>2. CASE e \notin R(running[job])
      BY <1>6, <1>9, <2>2
    <2> QED
      BY <2>1, <2>2
  <1> QED
    BY <1>3, <1>10, <1>11 DEF Buffering, R, K, more

LEMMA EmitKeeps ==
  ASSUME NEW users, NEW J, NEW owner, NEW st, StreamCore(users, J, owner, st), None \notin Nat,
         NEW e \in EmittedOf(users, J), e \in TargetsOf(users, J) => e \in KnownOf(users, J, owner, st.runs),
         NEW t, t = emit(st, e, TRUE)
  PROVE  StreamCore(users, J, owner, t)
  <1>1. /\ st \in StreamStates(users, J) /\ Listening(st.connections, st.listeners)
        /\ Mapping(st.runs, st.running) /\ st.emittedJobTargetEvents \in Seq(KnownOf(users, J, owner, st.runs))
        /\ Buffering(users, J, st.runs, st.running, st.emittedJobTargetEvents, st.emitted)
        /\ Serving(users, J, owner, st.runs, st.running, st.connections, st.emitted)
    BY DEF StreamCore
  <1>2. /\ t \in StreamStates(users, J)
        /\ t.runs = st.runs /\ t.running = st.running /\ t.asks = st.asks /\ t.listeners = st.listeners
        /\ t.emitted = Append(st.emitted, e)
        /\ t.emittedJobTargetEvents = IF e.type = "job-target-finished" THEN Append(st.emittedJobTargetEvents, e)
                                      ELSE st.emittedJobTargetEvents
        /\ DOMAIN t.connections = DOMAIN st.connections
        /\ \A i \in DOMAIN st.connections : t.connections[i] = Told(st.connections[i], e)
    <2>1. Emission(users, J, st, e, t)
      BY <1>1, EmitIs
    <2> QED
      BY <2>1 DEF Emission
  <1>3. /\ Len(st.runs) \in Nat /\ DOMAIN st.runs = 1..Len(st.runs) /\ st.emitted \in Seq(EmittedOf(users, J))
        /\ \A i \in DOMAIN st.connections : st.connections[i] \in ConnectionsOf(users, J)
    <2>1. /\ Len(st.runs) \in Nat /\ DOMAIN st.runs = 1..Len(st.runs) /\ st.emitted \in Seq(EmittedOf(users, J))
          /\ st.connections \in Seq(ConnectionsOf(users, J))
      BY <1>1, StatesAre
    <2> QED
      BY <2>1
  <1>4. /\ Buffering(users, J, t.runs, t.running, t.emittedJobTargetEvents, t.emitted)
        /\ t.emittedJobTargetEvents \in Seq(KnownOf(users, J, owner, t.runs))
    <2> DEFINE buffer == st.emittedJobTargetEvents
               after == t.emittedJobTargetEvents
               started == st.runs
               running == st.running
               emitted == st.emitted
    <2>1. /\ Len(started) \in Nat /\ DOMAIN started = 1..Len(started)
          /\ buffer \in Seq(KnownOf(users, J, owner, started)) /\ emitted \in Seq(EmittedOf(users, J))
          /\ e \in TargetsOf(users, J) => e \in KnownOf(users, J, owner, started)
          /\ Buffering(users, J, started, running, buffer, emitted)
          /\ after = IF e.type = "job-target-finished" THEN Append(buffer, e) ELSE buffer
      BY <1>1, <1>2, <1>3
    <2> HIDE DEF buffer, after, started, running, emitted
    <2>2. /\ Buffering(users, J, started, running, after, Append(emitted, e))
          /\ after \in Seq(KnownOf(users, J, owner, started))
      BY <2>1, BufferingGoesOn, Zenon
    <2> QED
      BY <1>2, <2>2 DEF started, running, after, emitted
  <1>5. Listening(t.connections, t.listeners)
    <2>1. \A i \in DOMAIN st.connections :
            t.connections[i].until = st.connections[i].until /\ t.connections[i].kind = st.connections[i].kind
      <3> SUFFICES ASSUME NEW i \in DOMAIN st.connections
                   PROVE  /\ t.connections[i].until = st.connections[i].until
                          /\ t.connections[i].kind = st.connections[i].kind
        OBVIOUS
      <3> DEFINE c == st.connections[i]
      <3>1. c \in ConnectionsOf(users, J) /\ t.connections[i] = Told(c, e)
        BY <1>2, <1>3
      <3> HIDE DEF c
      <3>2. Told(c, e).until = c.until /\ Told(c, e).kind = c.kind
        BY <3>1, ToldIs
      <3> QED
        BY <3>1, <3>2 DEF c
    <2> QED
      BY <1>1, <1>2, <2>1 DEF Listening
  <1>6. Serving(users, J, owner, t.runs, t.running, t.connections, t.emitted)
    <2> SUFFICES ASSUME NEW i \in DOMAIN st.connections
                 PROVE  /\ Sending(users, J, t.connections[i], t.emitted)
                        /\ Hydrated(users, J, owner, t.runs, t.running, t.connections[i], t.emitted)
      BY <1>2 DEF Serving
    <2> DEFINE c == st.connections[i]
               emitted == st.emitted
               started == st.runs
               running == st.running
    <2>1. /\ c \in ConnectionsOf(users, J) /\ emitted \in Seq(EmittedOf(users, J)) /\ Len(started) \in Nat
          /\ Sending(users, J, c, emitted) /\ Hydrated(users, J, owner, started, running, c, emitted)
      BY <1>1, <1>3 DEF Serving
    <2>2. \A job \in DOMAIN running : running[job] \in DOMAIN started /\ started[running[job]].job = job
      BY <1>1 DEF Mapping
    <2>3. e \in TargetsOf(users, J) =>
            e.run <= Len(started) /\ e.job = started[e.run].job /\ e.user = owner[e.job].user
      BY <1>3 DEF KnownOf
    <2>4. t.connections[i] = Told(c, e) /\ t.emitted = Append(emitted, e) /\ t.runs = started /\ t.running = running
      BY <1>2
    <2> HIDE DEF c, emitted, started, running
    <2>5. Sending(users, J, Told(c, e), Append(emitted, e))
      BY <2>1, SendingGoesOn
    <2>6. Hydrated(users, J, owner, started, running, Told(c, e), Append(emitted, e))
      BY <2>1, <2>2, <2>3, HydratedGoesOn
    <2> QED
      BY <2>4, <2>5, <2>6
  <1>7. Mapping(t.runs, t.running)
    BY <1>1, <1>2
  <1> QED
    BY <1>2, <1>4, <1>5, <1>6, <1>7 DEF StreamCore

-----------------------------------------------------------------------------
\* The open asks

\* Of an ask to come nothing was heard, and an open ask of its user a prompt stream heard once.
AskHeard(users, c, asks, n) ==
  c.until = None /\ c.kind = "mcp" =>
    \A v \in AsksOf(users) :
      /\ v.call >= n => Sub(c.sent, {v}) = <<>>
      /\ v.user = c.user /\ Sub(asks, {v}) # <<>> => Sub(c.sent, {v}) = <<v>>

\* An ask is open once.
Open(users, asks, n) ==
  \A v \in AsksOf(users) :
    /\ Sub(asks, {v}) \in {<<>>, <<v>>}
    /\ v.call >= n => Sub(asks, {v}) = <<>>

\* The open asks, and what the prompt streams heard of them.
AsksKept(users, st) ==
  /\ Open(users, st.asks, Len(st.emitted))
  /\ \A i \in DOMAIN st.connections : AskHeard(users, st.connections[i], st.asks, Len(st.emitted))

LEMMA AskedQuiet ==
  ASSUME NEW users, NEW J, NEW c \in ConnectionsOf(users, J), NEW e \in EmittedOf(users, J),
         e.type # "permission", NEW asks, NEW n \in Nat, AskHeard(users, c, asks, n)
  PROVE  AskHeard(users, Told(c, e), asks, n + 1)
  <1> DEFINE d == Told(c, e)
             W == SentOf(users, J)
  <1>1. /\ d.user = c.user /\ d.kind = c.kind /\ d.until = c.until
        /\ d.sent = IF c.until = None /\ e.user = c.user /\ e.type \in TypesOf(c.kind)
                    THEN Append(c.sent, e) ELSE c.sent
        /\ c.sent \in Seq(W) /\ e \in W
    BY ToldIs
  <1>2. e \notin AsksOf(users)
    BY DEF AsksOf
  <1> HIDE DEF W, d
  <1>3. \A v \in AsksOf(users) : Sub(d.sent, {v}) = Sub(c.sent, {v})
    <2> SUFFICES ASSUME NEW v \in AsksOf(users) PROVE Sub(d.sent, {v}) = Sub(c.sent, {v})
      OBVIOUS
    <2>1. e \notin {v}
      BY <1>2
    <2>2. Sub(Append(c.sent, e), {v}) = Sub(c.sent, {v})
      BY <1>1, <2>1, SubDropped
    <2> QED
      BY <1>1, <2>2
  <1>4. \A v \in AsksOf(users) : v.call \in Nat /\ (v.call >= n + 1 => v.call >= n)
    BY DEF AsksOf
  <1>5. AskHeard(users, d, asks, n + 1)
    BY <1>1, <1>3, <1>4 DEF AskHeard
  <1> QED
    BY <1>5 DEF d

LEMMA AskedAsk ==
  ASSUME NEW users, NEW J, NEW c \in ConnectionsOf(users, J), NEW e \in AsksOf(users),
         NEW asks \in Seq(AsksOf(users)), NEW n \in Nat, e.call = n, AskHeard(users, c, asks, n)
  PROVE  AskHeard(users, Told(c, e), Append(asks, e), n + 1)
  <1> DEFINE d == Told(c, e)
             W == SentOf(users, J)
             A == AsksOf(users)
  <1>1. e \in EmittedOf(users, J) /\ e \in W
    BY DEF EmittedOf, SentOf
  <1>2. /\ d.user = c.user /\ d.kind = c.kind /\ d.until = c.until
        /\ d.sent = IF c.until = None /\ e.user = c.user /\ e.type \in TypesOf(c.kind)
                    THEN Append(c.sent, e) ELSE c.sent
        /\ c.sent \in Seq(W)
    BY <1>1, ToldIs
  <1>3. c.kind = "mcp" => e.type \in TypesOf(c.kind)
    <2>1. e.type \in McpTypes
      BY <1>1, EventsAre
    <2> QED
      BY <2>1 DEF TypesOf
  <1>4. \A v \in A : v.call \in Nat /\ (v.call >= n + 1 => v.call >= n /\ v # e)
    BY DEF AsksOf
  <1> HIDE DEF W, d, A
  <1> SUFFICES ASSUME c.until = None, c.kind = "mcp", NEW v \in A
               PROVE  /\ v.call >= n + 1 => Sub(d.sent, {v}) = <<>>
                      /\ v.user = c.user /\ Sub(Append(asks, e), {v}) # <<>> => Sub(d.sent, {v}) = <<v>>
    BY <1>2 DEF AskHeard, d, A
  <1>5. /\ v.call >= n => Sub(c.sent, {v}) = <<>>
        /\ v.user = c.user /\ Sub(asks, {v}) # <<>> => Sub(c.sent, {v}) = <<v>>
    BY DEF AskHeard, A
  <1>6. CASE v # e
    <2>1. e \notin {v}
      BY <1>6
    <2>2. Sub(Append(c.sent, e), {v}) = Sub(c.sent, {v})
      BY <1>1, <1>2, <2>1, SubDropped
    <2>3. Sub(Append(asks, e), {v}) = Sub(asks, {v})
      BY <2>1, SubDropped
    <2>4. Sub(d.sent, {v}) = Sub(c.sent, {v})
      BY <1>2, <2>2
    <2> QED
      BY <1>4, <1>5, <2>3, <2>4
  <1>7. CASE v = e
    <2>1. Sub(c.sent, {v}) = <<>>
      <3>1. v.call >= n
        BY <1>7
      <3> QED
        BY <1>5, <3>1
    <2>2. e \in {v}
      BY <1>7
    <2>3. Sub(Append(c.sent, e), {v}) = Append(Sub(c.sent, {v}), e)
      BY <1>1, <1>2, <2>2, SubTaken
    <2>4. Sub(Append(c.sent, e), {v}) = <<v>>
      <3>1. Append(<<>>, v) = <<v>>
        OBVIOUS
      <3> QED
        BY <1>7, <2>1, <2>3, <3>1, Zenon
    <2>5. v.user = c.user => d.sent = Append(c.sent, e)
      BY <1>2, <1>3, <1>7
    <2>6. ~(v.call >= n + 1)
      BY <1>4, <1>7
    <2> QED
      BY <2>4, <2>5, <2>6
  <1> QED
    BY <1>6, <1>7

LEMMA OpenGrows ==
  ASSUME NEW users, NEW e \in AsksOf(users), NEW asks \in Seq(AsksOf(users)), NEW n \in Nat, e.call = n,
         Open(users, asks, n)
  PROVE  Open(users, Append(asks, e), n + 1)
  <1> DEFINE A == AsksOf(users)
  <1>1. \A v \in A : v.call \in Nat /\ (v.call >= n + 1 => v.call >= n /\ v # e)
    BY DEF AsksOf
  <1> SUFFICES ASSUME NEW v \in A
               PROVE  /\ Sub(Append(asks, e), {v}) \in {<<>>, <<v>>}
                      /\ v.call >= n + 1 => Sub(Append(asks, e), {v}) = <<>>
    BY DEF Open
  <1>2. Sub(asks, {v}) \in {<<>>, <<v>>} /\ (v.call >= n => Sub(asks, {v}) = <<>>)
    BY DEF Open
  <1>3. CASE v # e
    <2>1. e \notin {v}
      BY <1>3
    <2>2. Sub(Append(asks, e), {v}) = Sub(asks, {v})
      BY <2>1, SubDropped
    <2> QED
      BY <1>1, <1>2, <2>2
  <1>4. CASE v = e
    <2>1. Sub(asks, {v}) = <<>> /\ e \in {v}
      BY <1>2, <1>4
    <2>2. Sub(Append(asks, e), {v}) = Append(Sub(asks, {v}), e)
      BY <2>1, SubTaken
    <2>3. Sub(Append(asks, e), {v}) = <<v>>
      BY <1>4, <2>1, <2>2
    <2>4. ~(v.call >= n + 1)
      BY <1>1, <1>4
    <2> QED
      BY <2>3, <2>4
  <1> QED
    BY <1>3, <1>4

\* Fewer asks are open, and none is heard anew.
LEMMA OpenShrinks ==
  ASSUME NEW users, NEW asks \in Seq(AsksOf(users)), NEW n, NEW S, Open(users, asks, n)
  PROVE  Open(users, Sub(asks, S), n)
  <1> SUFFICES ASSUME NEW v \in AsksOf(users)
               PROVE  /\ Sub(Sub(asks, S), {v}) \in {<<>>, <<v>>}
                      /\ v.call >= n => Sub(Sub(asks, S), {v}) = <<>>
    BY DEF Open
  <1>1. Sub(asks, {v}) \in {<<>>, <<v>>} /\ (v.call >= n => Sub(asks, {v}) = <<>>)
    BY DEF Open
  <1>2. Sub(Sub(asks, S), {v}) = Sub(asks, S \cap {v})
    BY SubOfSub
  <1>3. CASE v \in S
    <2>1. S \cap {v} = {v}
      BY <1>3
    <2> QED
      BY <1>1, <1>2, <2>1
  <1>4. CASE v \notin S
    <2>1. S \cap {v} = {}
      BY <1>4
    <2>2. \A w \in AsksOf(users) : w \notin {}
      OBVIOUS
    <2>3. Sub(asks, {}) = <<>>
      BY <2>2, SubNone
    <2> QED
      BY <1>2, <2>1, <2>3
  <1> QED
    BY <1>3, <1>4

LEMMA AskedShrinks ==
  ASSUME NEW users, NEW c, NEW asks \in Seq(AsksOf(users)), NEW n, NEW S, AskHeard(users, c, asks, n)
  PROVE  AskHeard(users, c, Sub(asks, S), n)
  <1>1. \A v : Sub(asks, {v}) = <<>> => Sub(Sub(asks, S), {v}) = <<>>
    BY SubStaysEmpty
  <1> QED
    BY <1>1 DEF AskHeard

-----------------------------------------------------------------------------

\* The invariant of a history's states.
StreamInv(users, J, owner, st) == StreamCore(users, J, owner, st) /\ AsksKept(users, st)

\* A valid event that is no ask.
LEMMA EmitSafe ==
  ASSUME NEW users, NEW J, NEW owner, NEW st, StreamInv(users, J, owner, st), None \notin Nat,
         NEW e \in EmittedOf(users, J), e.type # "permission",
         e \in TargetsOf(users, J) => e \in KnownOf(users, J, owner, st.runs)
  PROVE  StreamInv(users, J, owner, emit(st, e, TRUE))
  <1> DEFINE t == emit(st, e, TRUE)
  <1>1. /\ StreamCore(users, J, owner, st) /\ AsksKept(users, st) /\ st \in StreamStates(users, J)
        /\ Listening(st.connections, st.listeners)
    BY DEF StreamInv, StreamCore
  <1>2. t = emit(st, e, TRUE)
    OBVIOUS
  <1> HIDE DEF t
  <1>3. StreamCore(users, J, owner, t)
    BY <1>1, <1>2, EmitKeeps
  <1>4. Emission(users, J, st, e, t)
    BY <1>1, <1>2, EmitIs
  <1>5. /\ t.asks = st.asks /\ t.emitted = Append(st.emitted, e) /\ DOMAIN t.connections = DOMAIN st.connections
        /\ \A i \in DOMAIN st.connections : t.connections[i] = Told(st.connections[i], e)
    BY <1>4 DEF Emission
  <1>6. st.connections \in Seq(ConnectionsOf(users, J)) /\ st.emitted \in Seq(EmittedOf(users, J))
    BY <1>1, StatesAre
  <1>7. Len(st.emitted) \in Nat /\ Len(t.emitted) = Len(st.emitted) + 1
    BY <1>5, <1>6
  <1>8. \A i \in DOMAIN st.connections : st.connections[i] \in ConnectionsOf(users, J)
    BY <1>6
  <1>9. Open(users, t.asks, Len(t.emitted))
    <2>1. \A v \in AsksOf(users) : v.call \in Nat /\ (v.call >= Len(t.emitted) => v.call >= Len(st.emitted))
      BY <1>7 DEF AsksOf
    <2> QED
      BY <1>1, <1>5, <2>1 DEF AsksKept, Open
  <1>10. ASSUME NEW i \in DOMAIN t.connections
         PROVE  AskHeard(users, t.connections[i], t.asks, Len(t.emitted))
    <2> DEFINE c == st.connections[i]
               n == Len(st.emitted)
    <2>1. c \in ConnectionsOf(users, J) /\ n \in Nat /\ AskHeard(users, c, st.asks, n)
      BY <1>1, <1>5, <1>7, <1>8 DEF AsksKept
    <2>2. t.connections[i] = Told(c, e) /\ Len(t.emitted) = n + 1
      BY <1>5, <1>7
    <2> HIDE DEF c, n
    <2>3. AskHeard(users, Told(c, e), st.asks, n + 1)
      BY <2>1, AskedQuiet
    <2> QED
      BY <1>5, <2>2, <2>3
  <1>11. StreamInv(users, J, owner, t)
    BY <1>3, <1>9, <1>10 DEF StreamInv, AsksKept
  <1> QED
    BY <1>11 DEF t

-----------------------------------------------------------------------------
\* The invariant by the fields of the state

\* The fields of the state one by one: what StreamInv says of them, without the record.
RunsOf(J) == [job : J, targets : Nat, over : BOOLEAN]

ListenersOf == [connection : Nat, type : JobTypes \cup McpTypes]

StreamParts(users, J, owner, started, running, buffer, asks, connections, listeners, emitted) ==
  /\ started \in Seq(RunsOf(J)) /\ DOMAIN running \in SUBSET J /\ running \in [DOMAIN running -> Nat]
  /\ buffer \in Seq(KnownOf(users, J, owner, started)) /\ asks \in Seq(AsksOf(users))
  /\ connections \in Seq(ConnectionsOf(users, J)) /\ listeners \in SUBSET ListenersOf
  /\ emitted \in Seq(EmittedOf(users, J))
  /\ Listening(connections, listeners) /\ Mapping(started, running)
  /\ Buffering(users, J, started, running, buffer, emitted)
  /\ Serving(users, J, owner, started, running, connections, emitted)
  /\ Open(users, asks, Len(emitted))
  /\ \A i \in DOMAIN connections : AskHeard(users, connections[i], asks, Len(emitted))

LEMMA PartsOf ==
  ASSUME NEW users, NEW J, NEW owner, NEW st, StreamInv(users, J, owner, st)
  PROVE  /\ st = StateOf(st.runs, st.running, st.emittedJobTargetEvents, st.asks, st.connections, st.listeners,
                         st.emitted)
         /\ StreamParts(users, J, owner, st.runs, st.running, st.emittedJobTargetEvents, st.asks,
                        st.connections, st.listeners, st.emitted)
  <1>1. st \in StreamStates(users, J)
    BY DEF StreamInv, StreamCore
  <1>2. st = StateOf(st.runs, st.running, st.emittedJobTargetEvents, st.asks, st.connections, st.listeners, st.emitted)
    BY <1>1 DEF StreamStates, StateOf
  <1>3. /\ st.runs \in Seq(RunsOf(J)) /\ DOMAIN st.running \in SUBSET J /\ st.running \in [DOMAIN st.running -> Nat]
        /\ st.asks \in Seq(AsksOf(users)) /\ st.connections \in Seq(ConnectionsOf(users, J))
        /\ st.listeners \in SUBSET ListenersOf /\ st.emitted \in Seq(EmittedOf(users, J))
    BY <1>1, StatesAre DEF RunsOf, ListenersOf
  <1> QED
    BY <1>2, <1>3 DEF StreamInv, StreamCore, AsksKept, StreamParts

LEMMA PartsMake ==
  ASSUME NEW users, NEW J, NEW owner, NEW started, NEW running, NEW buffer, NEW asks, NEW connections, NEW listeners,
         NEW emitted,
         StreamParts(users, J, owner, started, running, buffer, asks, connections, listeners, emitted)
  PROVE  StreamInv(users, J, owner, StateOf(started, running, buffer, asks, connections, listeners, emitted))
  <1> DEFINE t == StateOf(started, running, buffer, asks, connections, listeners, emitted)
  <1>1. /\ t.runs = started /\ t.running = running /\ t.emittedJobTargetEvents = buffer /\ t.asks = asks
        /\ t.connections = connections /\ t.listeners = listeners /\ t.emitted = emitted
    BY StateFields
  <1>2. buffer \in Seq(TargetsOf(users, J))
    <2>1. KnownOf(users, J, owner, started) \subseteq TargetsOf(users, J) /\ buffer \in Seq(KnownOf(users, J, owner, started))
      BY DEF KnownOf, StreamParts
    <2> QED
      BY <2>1, WiderSequences
  <1>3. /\ started \in Seq([job : J, targets : Nat, over : BOOLEAN])
        /\ DOMAIN running \in SUBSET J /\ running \in [DOMAIN running -> Nat] /\ asks \in Seq(AsksOf(users))
        /\ connections \in Seq(ConnectionsOf(users, J)) /\ emitted \in Seq(EmittedOf(users, J))
        /\ listeners \in SUBSET [connection : Nat, type : JobTypes \cup McpTypes]
    BY DEF StreamParts, RunsOf, ListenersOf
  <1>4. t \in StreamStates(users, J)
    BY <1>2, <1>3, StatesMake
  <1> HIDE DEF t
  <1>5. StreamCore(users, J, owner, t)
    BY <1>1, <1>4 DEF StreamCore, StreamParts
  <1>6. AsksKept(users, t)
    BY <1>1 DEF AsksKept, StreamParts
  <1> QED
    BY <1>5, <1>6 DEF StreamInv, t

\* A run that is touched stays one of its job.
LEMMA RunsTouched ==
  ASSUME NEW users, NEW J, NEW owner, NEW started, NEW running, NEW buffer, NEW asks, NEW connections, NEW listeners,
         NEW emitted,
         StreamParts(users, J, owner, started, running, buffer, asks, connections, listeners, emitted),
         NEW after \in Seq(RunsOf(J)), DOMAIN after = DOMAIN started, \A r \in DOMAIN started : after[r].job = started[r].job
  PROVE  StreamParts(users, J, owner, after, running, buffer, asks, connections, listeners, emitted)
  <1>1. KnownOf(users, J, owner, after) = KnownOf(users, J, owner, started)
    BY DEF KnownOf
  <1>2. Len(after) = Len(started)
    <2>1. started \in Seq(RunsOf(J))
      BY DEF StreamParts
    <2> QED
      BY <2>1
  <1>3. Mapping(after, running)
    BY DEF Mapping, StreamParts
  <1>4. Buffering(users, J, after, running, buffer, emitted)
    BY <1>2 DEF Buffering, StreamParts
  <1>5. Serving(users, J, owner, after, running, connections, emitted)
    <2>1. Serving(users, J, owner, started, running, connections, emitted)
      BY DEF StreamParts
    <2> QED
      BY <1>2, <2>1 DEF Serving, Hydrated
  <1> QED
    BY <1>1, <1>3, <1>4, <1>5 DEF StreamParts

\* A run that starts.
WithRun(running, job, r) == [j \in DOMAIN running \cup {job} |-> IF j = job THEN r ELSE running[j]]

LEMMA RunsGrow ==
  ASSUME NEW users, NEW J, NEW owner, NEW started, NEW running, NEW buffer, NEW asks, NEW connections, NEW listeners,
         NEW emitted,
         StreamParts(users, J, owner, started, running, buffer, asks, connections, listeners, emitted),
         NEW job \in J, NEW added, added \in RunsOf(J), added.job = job
  PROVE  StreamParts(users, J, owner, Append(started, added), WithRun(running, job, Len(started) + 1), buffer, asks,
                     connections, listeners, emitted)
  <1> DEFINE n == Len(started)
             after == Append(started, added)
             map == WithRun(running, job, n + 1)
             R(r) == OfRun(users, J, r)
  <1>1. /\ started \in Seq(RunsOf(J)) /\ DOMAIN running \in SUBSET J /\ running \in [DOMAIN running -> Nat]
        /\ buffer \in Seq(KnownOf(users, J, owner, started)) /\ Mapping(started, running)
        /\ Buffering(users, J, started, running, buffer, emitted)
        /\ Serving(users, J, owner, started, running, connections, emitted)
    BY DEF StreamParts
  <1>2. /\ n \in Nat /\ DOMAIN started = 1..n /\ after \in Seq(RunsOf(J)) /\ Len(after) = n + 1 /\ DOMAIN after = 1..(n + 1)
        /\ after[n + 1] = added /\ \A r \in 1..n : after[r] = started[r]
    BY <1>1
  <1>0. DOMAIN map = DOMAIN running \cup {job} /\ map = [j \in DOMAIN map |-> IF j = job THEN n + 1 ELSE running[j]]
    BY DEF WithRun
  <1>3. /\ DOMAIN map \in SUBSET J /\ map[job] = n + 1
        /\ \A j \in DOMAIN map : j # job => j \in DOMAIN running /\ map[j] = running[j]
    BY <1>0, <1>1
  <1>4. map \in [DOMAIN map -> Nat]
    <2> HIDE DEF map, n
    <2> QED
      BY <1>0, <1>1, <1>2
  <1> HIDE DEF n, R, after, map
  <1>5. Mapping(after, map)
    BY <1>1, <1>2, <1>3 DEF Mapping
  <1>6. buffer \in Seq(KnownOf(users, J, owner, after))
    <2>1. KnownOf(users, J, owner, started) \subseteq KnownOf(users, J, owner, after)
      BY <1>2 DEF KnownOf
    <2> QED
      BY <1>1, <2>1, WiderSequences
  <1>7. \A r \in Nat : r > n + 1 => r > n
    BY <1>2
  <1>8. n + 1 \in Nat /\ n + 1 > n
    BY <1>2
  <1>9. Buffering(users, J, after, map, buffer, emitted)
    <2>1. \A r \in Nat : r > n => Sub(emitted, R(r)) = <<>>
      BY <1>1 DEF Buffering, R, n
    <2>2. \A j \in DOMAIN running : Sub(buffer, R(running[j])) = Sub(emitted, R(running[j]))
      BY <1>1 DEF Buffering, R
    <2>3. Sub(emitted, R(n + 1)) = <<>>
      BY <1>8, <2>1
    <2>4. Sub(buffer, R(n + 1)) = <<>>
      <3>1. \A e \in KnownOf(users, J, owner, started) : e.run \in 1..n
        BY <1>2 DEF KnownOf
      <3>2. \A e \in KnownOf(users, J, owner, started) : e \notin R(n + 1)
        BY <1>2, <3>1 DEF R, OfRun
      <3> QED
        BY <1>1, <3>2, SubNone
    <2>5. \A j \in DOMAIN map : Sub(buffer, R(map[j])) = Sub(emitted, R(map[j]))
      <3> SUFFICES ASSUME NEW j \in DOMAIN map PROVE Sub(buffer, R(map[j])) = Sub(emitted, R(map[j]))
        OBVIOUS
      <3>1. CASE j = job
        BY <1>3, <2>3, <2>4, <3>1
      <3>2. CASE j # job
        BY <1>3, <2>2, <3>2
      <3> QED
        BY <3>1, <3>2
    <2>6. \A r \in Nat : r > Len(after) => Sub(emitted, R(r)) = <<>>
      BY <1>2, <1>7, <2>1
    <2> QED
      BY <2>5, <2>6 DEF Buffering, R
  <1>10. Serving(users, J, owner, after, map, connections, emitted)
    <2> SUFFICES ASSUME NEW i \in DOMAIN connections
                 PROVE  Hydrated(users, J, owner, after, map, connections[i], emitted)
      BY <1>1 DEF Serving
    <2> DEFINE c == connections[i]
    <2>1. Hydrated(users, J, owner, started, running, c, emitted)
      BY <1>1 DEF Serving
    <2> HIDE DEF c
    <2> SUFFICES ASSUME c.until = None, c.kind = "jobs"
                 PROVE  /\ c.sent # <<>> /\ c.sent[1] \in SnapshotsOf(users, J)
                        /\ \A r \in Nat : r > Len(after) =>
                             /\ Sub(c.sent, R(r)) = <<>>
                             /\ \A j \in J : Sub(ShownOf(c, j), R(r)) = <<>>
                        /\ \A j \in DOMAIN map : owner[j].user = c.user =>
                             /\ Sub(ShownOf(c, j), R(map[j])) \o Sub(c.sent, R(map[j])) = Sub(emitted, R(map[j]))
                             /\ \A other \in J \ {j} : Sub(ShownOf(c, other), R(map[j])) = <<>>
      BY DEF Hydrated, R, c
    <2>2. /\ c.sent # <<>> /\ c.sent[1] \in SnapshotsOf(users, J)
          /\ \A r \in Nat : r > n =>
               /\ Sub(c.sent, R(r)) = <<>>
               /\ \A j \in J : Sub(ShownOf(c, j), R(r)) = <<>>
          /\ \A j \in DOMAIN running : owner[j].user = c.user =>
               /\ Sub(ShownOf(c, j), R(running[j])) \o Sub(c.sent, R(running[j])) = Sub(emitted, R(running[j]))
               /\ \A other \in J \ {j} : Sub(ShownOf(c, other), R(running[j])) = <<>>
      BY <2>1 DEF Hydrated, R, n
    <2>3. \A r \in Nat : r > n => Sub(emitted, R(r)) = <<>>
      BY <1>1 DEF Buffering, R, n
    <2>4. ASSUME NEW j \in DOMAIN map, owner[j].user = c.user
          PROVE  /\ Sub(ShownOf(c, j), R(map[j])) \o Sub(c.sent, R(map[j])) = Sub(emitted, R(map[j]))
                 /\ \A other \in J \ {j} : Sub(ShownOf(c, other), R(map[j])) = <<>>
      <3>1. CASE j = job
        <4>1. /\ Sub(ShownOf(c, j), R(n + 1)) = <<>> /\ Sub(c.sent, R(n + 1)) = <<>> /\ Sub(emitted, R(n + 1)) = <<>>
              /\ \A other \in J \ {j} : Sub(ShownOf(c, other), R(n + 1)) = <<>>
          BY <1>8, <2>2, <2>3, <3>1
        <4>2. <<>> \o <<>> = <<>>
          OBVIOUS
        <4> QED
          BY <1>3, <3>1, <4>1, <4>2
      <3>2. CASE j # job
        BY <1>3, <2>2, <2>4, <3>2
      <3> QED
        BY <3>1, <3>2
    <2>5. \A r \in Nat : r > Len(after) =>
            /\ Sub(c.sent, R(r)) = <<>>
            /\ \A j \in J : Sub(ShownOf(c, j), R(r)) = <<>>
      BY <1>2, <1>7, <2>2
    <2> QED
      BY <2>2, <2>4, <2>5
  <1> QED
    BY <1>2, <1>3, <1>4, <1>5, <1>6, <1>9, <1>10 DEF StreamParts, after, map, n

\* The targets of the other jobs.
OthersOf(users, J, job) == {e \in TargetsOf(users, J) : e.job # job}

\* A job that leaves the map takes its events out of the buffer.
LEMMA RunsLeave ==
  ASSUME NEW users, NEW J, NEW owner, NEW started, NEW running, NEW buffer, NEW asks, NEW connections, NEW listeners,
         NEW emitted,
         StreamParts(users, J, owner, started, running, buffer, asks, connections, listeners, emitted),
         NEW job, NEW map, map = [j \in DOMAIN running \ {job} |-> running[j]],
         NEW kept, kept = Sub(buffer, OthersOf(users, J, job))
  PROVE  StreamParts(users, J, owner, started, map, kept, asks, connections, listeners, emitted)
  <1> DEFINE K == KnownOf(users, J, owner, started)
             R(r) == OfRun(users, J, r)
  <1>1. /\ DOMAIN running \in SUBSET J /\ running \in [DOMAIN running -> Nat]
        /\ buffer \in Seq(K) /\ Mapping(started, running)
        /\ Buffering(users, J, started, running, buffer, emitted)
        /\ Serving(users, J, owner, started, running, connections, emitted)
    BY DEF StreamParts
  <1>2. DOMAIN map = DOMAIN running \ {job} /\ \A j \in DOMAIN map : j \in DOMAIN running /\ map[j] = running[j]
    OBVIOUS
  <1>3. DOMAIN map \in SUBSET J /\ map \in [DOMAIN map -> Nat]
    BY <1>1
  <1>4. kept \in Seq(K)
    BY <1>1, SubTyped
  <1>5. Mapping(started, map)
    BY <1>1, <1>2 DEF Mapping
  <1>6. Buffering(users, J, started, map, kept, emitted)
    <2>1. ASSUME NEW j \in DOMAIN map
          PROVE  Sub(kept, R(map[j])) = Sub(emitted, R(map[j]))
      <3>1. j \in DOMAIN running /\ map[j] = running[j] /\ j # job
        BY <1>2
      <3>2. started[running[j]].job = j /\ Sub(buffer, R(running[j])) = Sub(emitted, R(running[j]))
        BY <1>1, <3>1 DEF Mapping, Buffering
      <3>3. \A v \in K : v \in R(running[j]) => v \in OthersOf(users, J, job)
        BY <3>1, <3>2 DEF KnownOf, OfRun, OthersOf
      <3> HIDE DEF R, K
      <3> DEFINE S == R(running[j])
                 T == OthersOf(users, J, job)
      <3>4. \A v \in K : v \in S => v \in T
        BY <3>3
      <3> HIDE DEF S, T
      <3>5. Sub(Sub(buffer, T), S) = Sub(buffer, S)
        BY <1>1, <3>4, SubWithin
      <3> QED
        BY <3>1, <3>2, <3>5 DEF S, T
    <2> QED
      BY <1>1, <2>1 DEF Buffering
  <1>7. Serving(users, J, owner, started, map, connections, emitted)
    <2> SUFFICES ASSUME NEW i \in DOMAIN connections
                 PROVE  Hydrated(users, J, owner, started, map, connections[i], emitted)
      BY <1>1 DEF Serving
    <2>1. Hydrated(users, J, owner, started, running, connections[i], emitted)
      BY <1>1 DEF Serving
    <2> HIDE DEF R
    <2> QED
      BY <1>2, <2>1 DEF Hydrated
  <1> QED
    BY <1>3, <1>4, <1>5, <1>6, <1>7 DEF StreamParts

LEMMA AsksSettle ==
  ASSUME NEW users, NEW J, NEW owner, NEW started, NEW running, NEW buffer, NEW asks, NEW connections, NEW listeners,
         NEW emitted,
         StreamParts(users, J, owner, started, running, buffer, asks, connections, listeners, emitted), NEW S
  PROVE  StreamParts(users, J, owner, started, running, buffer, Sub(asks, S), connections, listeners, emitted)
  <1>1. /\ asks \in Seq(AsksOf(users)) /\ Open(users, asks, Len(emitted))
        /\ \A i \in DOMAIN connections : AskHeard(users, connections[i], asks, Len(emitted))
    BY DEF StreamParts
  <1> DEFINE n == Len(emitted)
  <1>2. Sub(asks, S) \in Seq(AsksOf(users))
    BY <1>1, SubTyped
  <1>3. Open(users, Sub(asks, S), Len(emitted))
    <2>1. Open(users, asks, n)
      BY <1>1
    <2> HIDE DEF n
    <2>2. Open(users, Sub(asks, S), n)
      BY <1>1, <2>1, OpenShrinks
    <2> QED
      BY <2>2 DEF n
  <1>4. \A i \in DOMAIN connections : AskHeard(users, connections[i], Sub(asks, S), Len(emitted))
    <2> SUFFICES ASSUME NEW i \in DOMAIN connections PROVE AskHeard(users, connections[i], Sub(asks, S), n)
      OBVIOUS
    <2> DEFINE c == connections[i]
    <2>1. AskHeard(users, c, asks, n)
      BY <1>1
    <2> HIDE DEF n, c
    <2>2. AskHeard(users, c, Sub(asks, S), n)
      BY <1>1, <2>1, AskedShrinks
    <2> QED
      BY <2>2 DEF c
  <1> QED
    BY <1>2, <1>3, <1>4 DEF StreamParts

LEMMA SequenceExcept ==
  ASSUME NEW V, NEW s \in Seq(V), NEW i \in DOMAIN s, NEW v, v \in V
  PROVE  [s EXCEPT ![i] = v] \in Seq(V)
  OBVIOUS

\* What close() leaves of the connections and of the listeners.
Closed(connections, i, n) == [connections EXCEPT ![i].until = n]

Left(listeners, i) == {l \in listeners : l.connection # i}

LEMMA ConnectionCloses ==
  ASSUME NEW users, NEW J, NEW owner, NEW started, NEW running, NEW buffer, NEW asks, NEW connections, NEW listeners,
         NEW emitted, None \notin Nat,
         StreamParts(users, J, owner, started, running, buffer, asks, connections, listeners, emitted),
         NEW i \in DOMAIN connections, connections[i].until = None
  PROVE  StreamParts(users, J, owner, started, running, buffer, asks, Closed(connections, i, Len(emitted)),
                     Left(listeners, i), emitted)
  <1> DEFINE after == Closed(connections, i, Len(emitted))
             left == Left(listeners, i)
             C == ConnectionsOf(users, J)
             n == Len(emitted)
             d == [connections[i] EXCEPT !.until = n]
  <1>1. /\ connections \in Seq(C) /\ listeners \in SUBSET ListenersOf /\ Listening(connections, listeners)
        /\ emitted \in Seq(EmittedOf(users, J))
        /\ Serving(users, J, owner, started, running, connections, emitted)
        /\ \A j \in DOMAIN connections : AskHeard(users, connections[j], asks, n)
    BY DEF StreamParts
  <1>2. n \in Nat /\ connections[i] \in C
    BY <1>1
  <1>3. /\ d \in C /\ d.user = connections[i].user /\ d.kind = connections[i].kind /\ d.sent = connections[i].sent
        /\ d.after = connections[i].after /\ d.until = n
    <2> DEFINE W == SentOf(users, J)
               c == connections[i]
    <2>1. c \in [user : users, kind : {"jobs", "mcp"}, sent : Seq(W), after : Nat, until : Nat \cup {None}]
      BY <1>2 DEF ConnectionsOf
    <2> HIDE DEF W, c, n
    <2>2. [c EXCEPT !.until = n] \in [user : users, kind : {"jobs", "mcp"}, sent : Seq(W), after : Nat, until : Nat \cup {None}]
      BY <1>2, <2>1
    <2>3. LET x == [c EXCEPT !.until = n] IN
          x.user = c.user /\ x.kind = c.kind /\ x.sent = c.sent /\ x.after = c.after /\ x.until = n
      BY <2>1
    <2> QED
      BY <2>2, <2>3 DEF c, W, ConnectionsOf
  <1>4. after = [connections EXCEPT ![i] = d]
    BY DEF Closed
  <1>0. \A l : l \in left <=> l \in listeners /\ l.connection # i
    BY DEF Left
  <1> HIDE DEF d, C, after, left
  <1>5. /\ after \in Seq(C) /\ DOMAIN after = DOMAIN connections
        /\ after[i] = d /\ \A j \in DOMAIN connections : j # i => after[j] = connections[j]
    <2>1. [connections EXCEPT ![i] = d] \in Seq(C)
      BY <1>1, <1>3, SequenceExcept, Zenon
    <2>2. after \in Seq(C)
      BY <1>4, <2>1, Zenon
    <2>3. DOMAIN after = DOMAIN connections /\ after[i] = d
      BY <1>4
    <2>4. \A j \in DOMAIN connections : j # i => after[j] = connections[j]
      BY <1>4
    <2> QED
      BY <2>2, <2>3, <2>4
  <1>6. Listening(after, left) /\ left \in SUBSET ListenersOf
    <2>1. n # None
      BY <1>2
    <2>2. \A l \in left : l.connection \in DOMAIN after
      BY <1>0, <1>1, <1>5 DEF Listening
    <2>3. \A j \in DOMAIN after : \A t \in JobTypes \cup McpTypes :
            [connection |-> j, type |-> t] \in left <=> after[j].until = None /\ t \in TypesOf(after[j].kind)
      <3> SUFFICES ASSUME NEW j \in DOMAIN after, NEW t \in JobTypes \cup McpTypes
                   PROVE  [connection |-> j, type |-> t] \in left
                            <=> after[j].until = None /\ t \in TypesOf(after[j].kind)
        OBVIOUS
      <3>1. [connection |-> j, type |-> t] \in listeners
              <=> connections[j].until = None /\ t \in TypesOf(connections[j].kind)
        BY <1>1, <1>5 DEF Listening
      <3>2. [connection |-> j, type |-> t] \in left <=> [connection |-> j, type |-> t] \in listeners /\ j # i
        BY <1>0
      <3>3. CASE j = i
        BY <1>3, <1>5, <2>1, <3>2, <3>3
      <3>4. CASE j # i
        BY <1>5, <3>1, <3>2, <3>4
      <3> QED
        BY <3>3, <3>4
    <2> QED
      BY <1>0, <1>1, <2>2, <2>3 DEF Listening
  <1>7. Serving(users, J, owner, started, running, after, emitted)
    <2>1. Sending(users, J, d, emitted)
      <3> DEFINE c == connections[i]
      <3>1. Sending(users, J, c, emitted)
        BY <1>1 DEF Serving
      <3>2. OrElse(c.until, n) = n /\ OrElse(d.until, n) = n
        BY <1>2, <1>3 DEF OrElse
      <3>3. While(d, emitted) = While(c, emitted) /\ HeardBy(users, J, d) = HeardBy(users, J, c)
        BY <1>3, <3>2 DEF While, HeardBy
      <3> QED
        BY <1>3, <3>1, <3>2, <3>3 DEF Sending
    <2>2. Hydrated(users, J, owner, started, running, d, emitted)
      BY <1>2, <1>3 DEF Hydrated
    <2> QED
      BY <1>1, <1>5, <2>1, <2>2 DEF Serving
  <1>8. \A j \in DOMAIN after : AskHeard(users, after[j], asks, Len(emitted))
    <2>1. AskHeard(users, d, asks, n)
      BY <1>2, <1>3 DEF AskHeard
    <2> QED
      BY <1>1, <1>5, <2>1
  <1> QED
    BY <1>5, <1>6, <1>7, <1>8 DEF StreamParts, C, after, left

LEMMA ConnectionOpens ==
  ASSUME NEW users, NEW J, NEW owner, NEW started, NEW running, NEW buffer, NEW asks, NEW connections, NEW listeners,
         NEW emitted, None \notin Nat,
         StreamParts(users, J, owner, started, running, buffer, asks, connections, listeners, emitted),
         NEW c \in ConnectionsOf(users, J), c.until = None, c.after = Len(emitted), c.kind = "jobs" => Len(c.sent) = 1,
         Hydrated(users, J, owner, started, running, c, emitted), AskHeard(users, c, asks, Len(emitted)),
         NEW after, after = Append(connections, c),
         NEW more, more = listeners \cup {[connection |-> Len(connections) + 1, type |-> t] : t \in TypesOf(c.kind)}
  PROVE  StreamParts(users, J, owner, started, running, buffer, asks, after, more, emitted)
  <1> DEFINE C == ConnectionsOf(users, J)
             m == Len(connections)
             n == Len(emitted)
             W == SentOf(users, J)
  <1>1. /\ connections \in Seq(C) /\ listeners \in SUBSET ListenersOf /\ Listening(connections, listeners)
        /\ emitted \in Seq(EmittedOf(users, J))
        /\ Serving(users, J, owner, started, running, connections, emitted)
        /\ \A j \in DOMAIN connections : AskHeard(users, connections[j], asks, n)
    BY DEF StreamParts
  <1>2. n \in Nat /\ m \in Nat /\ DOMAIN connections = 1..m
    BY <1>1
  <1> HIDE DEF C
  <1>3. /\ after \in Seq(C) /\ DOMAIN after = 1..(m + 1) /\ after[m + 1] = c
        /\ \A j \in 1..m : after[j] = connections[j]
    <2>1. c \in C
      BY DEF C
    <2> QED
      BY <1>1, <1>2, <2>1
  <1>4. TypesOf(c.kind) \in SUBSET (JobTypes \cup McpTypes)
    BY DEF TypesOf
  <1>5. more \in SUBSET ListenersOf
    <2>1. m + 1 \in Nat
      BY <1>2
    <2> QED
      BY <1>1, <1>4, <2>1 DEF ListenersOf
  <1>6. Listening(after, more)
    <2>1. \A l \in more : l.connection \in DOMAIN after
      BY <1>1, <1>2, <1>3 DEF Listening
    <2>2. \A j \in DOMAIN after : \A t \in JobTypes \cup McpTypes :
            [connection |-> j, type |-> t] \in more <=> after[j].until = None /\ t \in TypesOf(after[j].kind)
      <3> SUFFICES ASSUME NEW j \in DOMAIN after, NEW t \in JobTypes \cup McpTypes
                   PROVE  [connection |-> j, type |-> t] \in more
                            <=> after[j].until = None /\ t \in TypesOf(after[j].kind)
        OBVIOUS
      <3>1. [connection |-> j, type |-> t] \in more
              <=> [connection |-> j, type |-> t] \in listeners \/ (j = m + 1 /\ t \in TypesOf(c.kind))
        <4>1. \A u \in TypesOf(c.kind) :
                [connection |-> j, type |-> t] = [connection |-> m + 1, type |-> u] <=> j = m + 1 /\ t = u
          OBVIOUS
        <4> QED
          BY <4>1
      <3>2. CASE j = m + 1
        <4>1. [connection |-> j, type |-> t] \notin listeners
          BY <1>1, <1>2, <3>2 DEF Listening
        <4> QED
          BY <1>3, <3>1, <3>2, <4>1
      <3>3. CASE j \in 1..m
        <4>1. [connection |-> j, type |-> t] \in listeners
                <=> connections[j].until = None /\ t \in TypesOf(connections[j].kind)
          BY <1>1, <1>2, <3>3 DEF Listening
        <4>2. j # m + 1
          BY <1>2, <3>3
        <4> QED
          BY <1>3, <3>1, <3>3, <4>1, <4>2
      <3>4. j = m + 1 \/ j \in 1..m
        BY <1>2, <1>3
      <3> QED
        BY <3>2, <3>3, <3>4
    <2> QED
      BY <2>1, <2>2 DEF Listening
  <1>7. Sending(users, J, c, emitted)
    <2> DEFINE S == HeardBy(users, J, c)
    <2>1. OrElse(c.until, n) = n
      BY DEF OrElse
    <2>2. While(c, emitted) = <<>>
      BY <1>1, <1>2, <2>1 DEF While
    <2>3. Sub(While(c, emitted), S) = <<>>
      BY <2>2, SubEmpty
    <2>4. c.sent \in Seq(W)
      BY DEF ConnectionsOf
    <2> HIDE DEF S, W
    <2>5. c.sent = c.sent \o <<>>
      BY <2>4
    <2> QED
      BY <1>2, <2>1, <2>3, <2>4, <2>5 DEF Sending, W, S
  <1>8. Serving(users, J, owner, started, running, after, emitted)
    <2> SUFFICES ASSUME NEW j \in DOMAIN after
                 PROVE  /\ Sending(users, J, after[j], emitted)
                        /\ Hydrated(users, J, owner, started, running, after[j], emitted)
      BY DEF Serving
    <2>1. CASE j = m + 1
      BY <1>3, <1>7, <2>1
    <2>2. CASE j \in 1..m
      BY <1>1, <1>2, <1>3, <2>2 DEF Serving
    <2>3. j = m + 1 \/ j \in 1..m
      BY <1>2, <1>3
    <2> QED
      BY <2>1, <2>2, <2>3
  <1>9. \A j \in DOMAIN after : AskHeard(users, after[j], asks, Len(emitted))
    <2> SUFFICES ASSUME NEW j \in DOMAIN after PROVE AskHeard(users, after[j], asks, n)
      OBVIOUS
    <2>1. CASE j = m + 1
      BY <1>3, <2>1
    <2>2. CASE j \in 1..m
      BY <1>1, <1>2, <1>3, <2>2
    <2>3. j = m + 1 \/ j \in 1..m
      BY <1>2, <1>3
    <2> QED
      BY <2>1, <2>2, <2>3
  <1> QED
    BY <1>3, <1>5, <1>6, <1>8, <1>9 DEF StreamParts, C

-----------------------------------------------------------------------------
\* The steps

\* The events told to one user.
ToldTo(V, user) == {e \in V : e.user = user}

\* The targets of one job.
TargetsOfJob(users, J, job) == {e \in TargetsOf(users, J) : e.job = job}

\* What the buffer shows of a job to a user.
LEMMA ShownIs ==
  ASSUME NEW users, NEW J, NEW st, st.emittedJobTargetEvents \in Seq(TargetsOf(users, J)), NEW user, NEW job
  PROVE  Where(getEmittedJobTargetEventsForUser(st, user), LAMBDA event : event.job = job)
           = Sub(Sub(st.emittedJobTargetEvents, ToldTo(TargetsOf(users, J), user)), TargetsOfJob(users, J, job))
  <1> DEFINE T == TargetsOf(users, J)
             s == st.emittedJobTargetEvents
             U == ToldTo(T, user)
             B == TargetsOfJob(users, J, job)
  <1>1. s \in Seq(T)
    OBVIOUS
  <1>2. \A e \in T : (e.user = user <=> e \in U) /\ (e.job = job <=> e \in B)
    BY DEF ToldTo, TargetsOfJob
  <1> HIDE DEF T, s, U, B
  <1>3. Where(s, LAMBDA event : event.user = user) = Sub(s, U)
    <2>1. {i \in DOMAIN s : s[i].user = user} = {i \in DOMAIN s : s[i] \in U}
      <3>1. \A i \in DOMAIN s : s[i] \in T
        BY <1>1
      <3> QED
        BY <1>2, <3>1
    <2> QED
      BY <2>1 DEF Where, Sub
  <1>4. Where(Sub(s, U), LAMBDA event : event.job = job) = Sub(Sub(s, U), B)
    <2> DEFINE q == Sub(s, U)
    <2>1. q \in Seq(T)
      BY <1>1, SubTyped
    <2> HIDE DEF q
    <2>2. {i \in DOMAIN q : q[i].job = job} = {i \in DOMAIN q : q[i] \in B}
      <3>1. \A i \in DOMAIN q : q[i] \in T
        BY <2>1
      <3> QED
        BY <1>2, <3>1
    <2>3. Where(q, LAMBDA event : event.job = job) = Sub(q, B)
      BY <2>2 DEF Where, Sub
    <2> QED
      BY <2>3 DEF q
  <1>5. getEmittedJobTargetEventsForUser(st, user) = Sub(s, U)
    BY <1>3 DEF getEmittedJobTargetEventsForUser, s
  <1> QED
    BY <1>4, <1>5 DEF T, s, U, B

LEMMA OpenPermissionsAre ==
  ASSUME NEW users, NEW st, st.asks \in Seq(AsksOf(users)), NEW user
  PROVE  openPermissions(st, user) = Sub(st.asks, ToldTo(AsksOf(users), user))
  <1> DEFINE s == st.asks
             A == AsksOf(users)
             U == ToldTo(A, user)
  <1>1. \A i \in DOMAIN s : s[i] \in A
    OBVIOUS
  <1>2. \A e \in A : e.user = user <=> e \in U
    BY DEF ToldTo
  <1> HIDE DEF s, A, U
  <1>3. {i \in DOMAIN s : s[i].user = user} = {i \in DOMAIN s : s[i] \in U}
    BY <1>1, <1>2
  <1>4. Where(s, LAMBDA event : event.user = user) = Sub(s, U)
    BY <1>3 DEF Where, Sub
  <1> QED
    BY <1>4 DEF openPermissions, s, A, U

\* The connection that open() adds.
Opened(user, kind, snapshot, emitted) ==
  [user |-> user, kind |-> kind, sent |-> snapshot, after |-> Len(emitted), until |-> None]

\* c is what open() adds: of this user and kind, with this snapshot, from here on.
IsOpened(users, J, user, kind, snapshot, emitted, c) ==
  /\ c \in ConnectionsOf(users, J) /\ c.user = user /\ c.kind = kind /\ c.sent = snapshot
  /\ c.after = Len(emitted) /\ c.until = None

LEMMA OpenedIs ==
  ASSUME NEW users, NEW J, NEW user \in users, NEW kind \in {"jobs", "mcp"}, NEW snapshot \in Seq(SentOf(users, J)),
         NEW emitted \in Seq(EmittedOf(users, J))
  PROVE  IsOpened(users, J, user, kind, snapshot, emitted, Opened(user, kind, snapshot, emitted))
  <1> DEFINE W == SentOf(users, J)
  <1>1. Len(emitted) \in Nat /\ snapshot \in Seq(W)
    OBVIOUS
  <1> HIDE DEF W
  <1> QED
    BY <1>1 DEF IsOpened, Opened, ConnectionsOf, W

LEMMA OpenIs ==
  ASSUME NEW users, NEW J, NEW owner, NEW st, StreamInv(users, J, owner, st), None \notin Nat,
         NEW user \in users, NEW kind \in {"jobs", "mcp"}, NEW snapshot \in Seq(SentOf(users, J)),
         snapshot = IF kind = "jobs" THEN <<aggregated(st, user, owner)>> ELSE openPermissions(st, user),
         Hydrated(users, J, owner, st.runs, st.running, Opened(user, kind, snapshot, st.emitted), st.emitted),
         AskHeard(users, Opened(user, kind, snapshot, st.emitted), st.asks, Len(st.emitted))
  PROVE  StreamInv(users, J, owner, open(st, user, kind, owner))
  <1> DEFINE emitted == st.emitted
             c == Opened(user, kind, snapshot, emitted)
             started == st.runs
             running == st.running
             buffer == st.emittedJobTargetEvents
             asks == st.asks
             connections == st.connections
             listeners == st.listeners
             after == Append(connections, c)
             more == listeners \cup {[connection |-> Len(connections) + 1, type |-> t] : t \in TypesOf(kind)}
  <1>1. /\ st = StateOf(started, running, buffer, asks, connections, listeners, emitted)
        /\ StreamParts(users, J, owner, started, running, buffer, asks, connections, listeners, emitted)
    BY PartsOf
  <1>2. emitted \in Seq(EmittedOf(users, J))
    BY <1>1 DEF StreamParts
  <1>3. /\ c \in ConnectionsOf(users, J) /\ c.user = user /\ c.kind = kind /\ c.sent = snapshot
        /\ c.after = Len(emitted) /\ c.until = None
    <2>1. IsOpened(users, J, user, kind, snapshot, emitted, c)
      <3> HIDE DEF emitted
      <3> QED
        BY <1>2, OpenedIs
    <2> QED
      BY <2>1 DEF IsOpened
  <1>4. open(st, user, kind, owner) = StateOf(started, running, buffer, asks, after, more, emitted)
    <2>1. open(st, user, kind, owner)
            = [st EXCEPT !.connections = Append(@, c),
                         !.listeners = @ \cup {[connection |-> Len(connections) + 1, type |-> t] : t \in TypesOf(kind)}]
      BY DEF open, Opened
    <2> HIDE DEF c, started, running, buffer, asks, connections, listeners, emitted
    <2>2. st = [runs |-> started, running |-> running, emittedJobTargetEvents |-> buffer, asks |-> asks,
                connections |-> connections, listeners |-> listeners, emitted |-> emitted]
      BY <1>1 DEF StateOf
    <2> QED
      BY <2>1, <2>2 DEF StateOf
  <1>5. /\ Hydrated(users, J, owner, started, running, c, emitted) /\ AskHeard(users, c, asks, Len(emitted))
        /\ c.kind = "jobs" => Len(c.sent) = 1
    <2>1. kind = "jobs" => Len(snapshot) = 1
      OBVIOUS
    <2> QED
      BY <1>3, <2>1
  <1>6. after = Append(connections, c)
        /\ more = listeners \cup {[connection |-> Len(connections) + 1, type |-> t] : t \in TypesOf(c.kind)}
    BY <1>3
  <1> HIDE DEF c, started, running, buffer, asks, connections, listeners, emitted, after, more
  <1>7. StreamParts(users, J, owner, started, running, buffer, asks, after, more, emitted)
    BY <1>1, <1>3, <1>5, <1>6, ConnectionOpens
  <1>8. StreamInv(users, J, owner, StateOf(started, running, buffer, asks, after, more, emitted))
    BY <1>7, PartsMake
  <1> QED
    BY <1>4, <1>8

\* The snapshot of a jobs stream shows what was emitted of the runs in the map.
LEMMA SnapshotHydrates ==
  ASSUME NEW users, NEW J, NEW owner, NEW st, StreamInv(users, J, owner, st), NEW user \in users,
         NEW c, c.user = user, c.sent = <<aggregated(st, user, owner)>>
  PROVE  /\ aggregated(st, user, owner) \in SnapshotsOf(users, J)
         /\ Hydrated(users, J, owner, st.runs, st.running, c, st.emitted)
  <1> DEFINE K == KnownOf(users, J, owner, st.runs)
             T == TargetsOf(users, J)
             R(r) == OfRun(users, J, r)
             U == ToldTo(T, user)
             B(job) == TargetsOfJob(users, J, job)
             own == Sub(st.emittedJobTargetEvents, U)
             D == RunningOf(st, user, owner)
             a == aggregated(st, user, owner)
             shown == [job \in D |-> Sub(own, B(job))]
  <1>1. /\ st.emittedJobTargetEvents \in Seq(K) /\ Mapping(st.runs, st.running)
        /\ Buffering(users, J, st.runs, st.running, st.emittedJobTargetEvents, st.emitted)
        /\ DOMAIN st.running \in SUBSET J /\ st.running \in [DOMAIN st.running -> Nat] /\ Len(st.runs) \in Nat
        /\ DOMAIN st.runs = 1..Len(st.runs)
    <2>1. /\ StreamCore(users, J, owner, st) /\ st \in StreamStates(users, J)
      BY DEF StreamInv, StreamCore
    <2>2. /\ DOMAIN st.running \in SUBSET J /\ st.running \in [DOMAIN st.running -> Nat] /\ Len(st.runs) \in Nat
          /\ DOMAIN st.runs = 1..Len(st.runs)
      BY <2>1, StatesAre
    <2> QED
      BY <2>1, <2>2 DEF StreamCore
  <1>2. K \subseteq T /\ st.emittedJobTargetEvents \in Seq(T)
    <2>1. K \subseteq T
      BY DEF KnownOf
    <2> HIDE DEF K, T
    <2> QED
      BY <1>1, <2>1, WiderSequences
  <1>3. \A job : Where(getEmittedJobTargetEventsForUser(st, user), LAMBDA event : event.job = job) = Sub(own, B(job))
    BY <1>2, ShownIs
  <1>4. a.runningJobs = shown /\ a = [type |-> "jobs-aggregated", user |-> user, runningJobs |-> shown]
    <2> HIDE DEF D, own, B
    <2> QED
      BY <1>3 DEF aggregated, D
  <1>5. own \in Seq(K) /\ \A job : Sub(own, B(job)) \in Seq(K) /\ Sub(own, B(job)) \in Seq(T)
    <2>1. own \in Seq(K)
      BY <1>1, SubTyped
    <2> HIDE DEF own, K, B, T
    <2>2. \A job : Sub(own, B(job)) \in Seq(K)
      BY <2>1, SubTyped
    <2> QED
      BY <1>2, <2>1, <2>2, WiderSequences
  <1>6. D \in SUBSET J
    BY <1>1 DEF RunningOf
  <1>7. a \in SnapshotsOf(users, J)
    <2> HIDE DEF own, B, T, D, a
    <2>1. shown \in [D -> Seq(T)]
      BY <1>5
    <2>2. shown \in UNION {[X -> Seq(T)] : X \in SUBSET J}
      BY <1>6, <2>1
    <2> HIDE DEF shown
    <2> QED
      BY <1>4, <2>2 DEF SnapshotsOf, T
  <1>8. c.sent # <<>> /\ c.sent[1] = a /\ c.sent \in Seq(SnapshotsOf(users, J))
    <2> HIDE DEF a
    <2>1. c.sent = <<a>>
      BY DEF a
    <2> QED
      BY <1>7, <2>1
  <1>9. \A job : ShownOf(c, job) = IF job \in D THEN Sub(own, B(job)) ELSE <<>>
    <2> HIDE DEF own, B, T, D, a
    <2> QED
      BY <1>4, <1>8 DEF ShownOf
  <1>10. \A r : Sub(c.sent, R(r)) = <<>>
    <2>1. \A r : \A v \in SnapshotsOf(users, J) : v \notin R(r)
      BY DEF SnapshotsOf, OfRun, TargetsOf
    <2> HIDE DEF R
    <2> QED
      BY <1>8, <2>1, SubNone
  <1>11. \A r \in Nat : r > Len(st.runs) => \A job \in J : Sub(ShownOf(c, job), R(r)) = <<>>
    <2> SUFFICES ASSUME NEW r \in Nat, r > Len(st.runs), NEW job \in J PROVE Sub(ShownOf(c, job), R(r)) = <<>>
      OBVIOUS
    <2>1. \A v \in K : v \notin R(r)
      <3>1. \A v \in K : v.run \in 1..Len(st.runs)
        BY <1>1 DEF KnownOf
      <3>2. ~(r \in 1..Len(st.runs))
        BY <1>1
      <3>3. \A v : v \in R(r) => v.run = r
        BY DEF OfRun
      <3> HIDE DEF K, R
      <3> QED
        BY <3>1, <3>2, <3>3, Zenon
    <2> HIDE DEF K, R, own, B, D
    <2>2. Sub(Sub(own, B(job)), R(r)) = <<>>
      BY <1>5, <2>1, SubNone
    <2>3. Sub(<<>>, R(r)) = <<>>
      BY SubEmpty
    <2> QED
      BY <1>9, <2>2, <2>3
  <1>12. ASSUME NEW job \in DOMAIN st.running, owner[job].user = user
         PROVE  /\ Sub(ShownOf(c, job), R(st.running[job])) \o Sub(c.sent, R(st.running[job]))
                     = Sub(st.emitted, R(st.running[job]))
                /\ \A other \in J \ {job} : Sub(ShownOf(c, other), R(st.running[job])) = <<>>
    <2> DEFINE r == st.running[job]
               S == R(r)
    <2>1. r \in DOMAIN st.runs /\ st.runs[r].job = job
      BY <1>1 DEF Mapping
    <2>2. \A v \in K : v \in S => v \in U /\ v.job = job /\ v \in B(job)
      BY <1>12, <2>1 DEF KnownOf, OfRun, ToldTo, TargetsOfJob
    <2>3. job \in D
      BY <1>12 DEF RunningOf
    <2>4. Sub(st.emittedJobTargetEvents, S) = Sub(st.emitted, S)
      BY <1>1 DEF Buffering
    <2>5. Sub(c.sent, S) = <<>>
      BY <1>10
    <2>6. ShownOf(c, job) = Sub(own, B(job))
      BY <1>9, <2>3
    <2>7. Sub(Sub(own, B(job)), S) = Sub(own, S)
      <3> HIDE DEF K, S, own, B
      <3> QED
        BY <1>5, <2>2, SubWithin
    <2>8. Sub(own, S) = Sub(st.emittedJobTargetEvents, S)
      <3> HIDE DEF K, S, U
      <3> QED
        BY <1>1, <2>2, SubWithin
    <2>9. Sub(own, S) \in Seq(K)
      <3> HIDE DEF K, S, own
      <3> QED
        BY <1>5, SubTyped
    <2>10. Sub(ShownOf(c, job), S) \o Sub(c.sent, S) = Sub(st.emitted, S)
      <3> DEFINE x == Sub(own, S)
      <3> HIDE DEF x, K
      <3>1. x \in Seq(K)
        BY <2>9 DEF x
      <3>2. x \o <<>> = x
        BY <3>1
      <3>3. Sub(ShownOf(c, job), S) = x /\ x = Sub(st.emitted, S)
        BY <2>4, <2>6, <2>7, <2>8 DEF x
      <3> HIDE DEF S
      <3> QED
        BY <2>5, <3>2, <3>3
    <2>11. ASSUME NEW other \in J \ {job}
           PROVE  Sub(ShownOf(c, other), S) = <<>>
      <3> DEFINE V == K \cap B(other)
      <3>1. Sub(own, B(other)) \in Seq(V)
        <4> HIDE DEF own, K, B
        <4> QED
          BY <1>5, SubIsIn
      <3>2. \A v \in V : v \notin S
        BY <2>2, <2>11 DEF TargetsOfJob
      <3>3. Sub(<<>>, S) = <<>>
        BY SubEmpty
      <3> HIDE DEF V, S, own, B, D
      <3>4. Sub(Sub(own, B(other)), S) = <<>>
        BY <3>1, <3>2, SubNone
      <3> QED
        BY <1>9, <3>3, <3>4
    <2> QED
      BY <2>10, <2>11
  <1> QED
    BY <1>7, <1>8, <1>10, <1>11, <1>12 DEF Hydrated

LEMMA JobsOpen ==
  ASSUME NEW users, NEW J, NEW owner, NEW st, StreamInv(users, J, owner, st), None \notin Nat, NEW user \in users
  PROVE  StreamInv(users, J, owner, open(st, user, "jobs", owner))
  <1> DEFINE snapshot == <<aggregated(st, user, owner)>>
             kind == "jobs"
             emitted == st.emitted
             c == Opened(user, kind, snapshot, emitted)
  <1>1. c.user = user /\ c.kind = "jobs" /\ c.sent = <<aggregated(st, user, owner)>>
    BY DEF Opened
  <1>2. /\ aggregated(st, user, owner) \in SnapshotsOf(users, J)
        /\ Hydrated(users, J, owner, st.runs, st.running, c, st.emitted)
    <2> HIDE DEF c
    <2> QED
      BY <1>1, SnapshotHydrates
  <1>3. snapshot \in Seq(SentOf(users, J))
    BY <1>2 DEF SentOf
  <1>4. AskHeard(users, c, st.asks, Len(st.emitted))
    BY <1>1 DEF AskHeard
  <1>5. snapshot = IF kind = "jobs" THEN <<aggregated(st, user, owner)>> ELSE openPermissions(st, user)
    OBVIOUS
  <1>6. kind \in {"jobs", "mcp"}
    OBVIOUS
  <1>7. StreamInv(users, J, owner, open(st, user, kind, owner))
    <2>1. /\ Hydrated(users, J, owner, st.runs, st.running, Opened(user, kind, snapshot, st.emitted), st.emitted)
          /\ AskHeard(users, Opened(user, kind, snapshot, st.emitted), st.asks, Len(st.emitted))
      BY <1>2, <1>4
    <2> HIDE DEF snapshot, kind
    <2> QED
      BY <1>3, <1>5, <1>6, <2>1, OpenIs
  <1> QED
    BY <1>7

LEMMA PromptsOpen ==
  ASSUME NEW users, NEW J, NEW owner, NEW st, StreamInv(users, J, owner, st), None \notin Nat, NEW user \in users
  PROVE  StreamInv(users, J, owner, open(st, user, "mcp", owner))
  <1> DEFINE snapshot == openPermissions(st, user)
             kind == "mcp"
             A == AsksOf(users)
             U == ToldTo(A, user)
             asks == st.asks
             n == Len(st.emitted)
             c == Opened(user, kind, snapshot, st.emitted)
  <1>1. asks \in Seq(A) /\ Open(users, asks, n)
    <2>1. st \in StreamStates(users, J) /\ AsksKept(users, st)
      BY DEF StreamInv, StreamCore
    <2>2. st.asks \in Seq(AsksOf(users))
      BY <2>1, StatesAre
    <2> QED
      BY <2>1, <2>2 DEF AsksKept
  <1>2. snapshot = Sub(asks, U)
    BY <1>1, OpenPermissionsAre
  <1>3. c.user = user /\ c.kind = "mcp" /\ c.sent = snapshot
    BY DEF Opened
  <1> HIDE DEF snapshot
  <1>4. snapshot \in Seq(SentOf(users, J))
    <2>1. A \subseteq SentOf(users, J)
      BY DEF SentOf, EmittedOf
    <2> HIDE DEF A, U, asks
    <2>2. snapshot \in Seq(A)
      BY <1>1, <1>2, SubTyped
    <2> QED
      BY <2>1, <2>2, WiderSequences
  <1>5. Hydrated(users, J, owner, st.runs, st.running, c, st.emitted)
    BY <1>3 DEF Hydrated
  <1>6. AskHeard(users, c, asks, n)
    <2> SUFFICES ASSUME NEW v \in A
                 PROVE  /\ v.call >= n => Sub(snapshot, {v}) = <<>>
                        /\ v.user = user /\ Sub(asks, {v}) # <<>> => Sub(snapshot, {v}) = <<v>>
      BY <1>3 DEF AskHeard
    <2>1. Sub(asks, {v}) \in {<<>>, <<v>>} /\ (v.call >= n => Sub(asks, {v}) = <<>>)
      BY <1>1 DEF Open
    <2>2. v.user = user => v \in U
      BY DEF ToldTo
    <2> HIDE DEF A, U, asks, n
    <2>3. Sub(asks, {v}) = <<>> => Sub(snapshot, {v}) = <<>>
      BY <1>1, <1>2, SubStaysEmpty
    <2>4. v \in U => Sub(snapshot, {v}) = Sub(asks, {v})
      <3>1. v \in U => \A w \in A : w \in {v} => w \in U
        OBVIOUS
      <3> QED
        BY <1>1, <1>2, <3>1, SubWithin
    <2> QED
      BY <2>1, <2>2, <2>3, <2>4
  <1>7. snapshot = IF kind = "jobs" THEN <<aggregated(st, user, owner)>> ELSE openPermissions(st, user)
    BY DEF snapshot
  <1>8. kind \in {"jobs", "mcp"}
    OBVIOUS
  <1>9. StreamInv(users, J, owner, open(st, user, kind, owner))
    <2>1. /\ Hydrated(users, J, owner, st.runs, st.running, Opened(user, kind, snapshot, st.emitted), st.emitted)
          /\ AskHeard(users, Opened(user, kind, snapshot, st.emitted), st.asks, Len(st.emitted))
      BY <1>5, <1>6
    <2> HIDE DEF kind
    <2> QED
      BY <1>4, <1>7, <1>8, <2>1, OpenIs
  <1> QED
    BY <1>9

LEMMA CloseKeeps ==
  ASSUME NEW users, NEW J, NEW owner, NEW st, StreamInv(users, J, owner, st), None \notin Nat,
         NEW i \in DOMAIN st.connections, st.connections[i].until = None
  PROVE  StreamInv(users, J, owner, close(st, i))
  <1> DEFINE started == st.runs
             running == st.running
             buffer == st.emittedJobTargetEvents
             asks == st.asks
             connections == st.connections
             listeners == st.listeners
             emitted == st.emitted
             after == Closed(connections, i, Len(emitted))
             left == Left(listeners, i)
  <1>1. /\ st = StateOf(started, running, buffer, asks, connections, listeners, emitted)
        /\ StreamParts(users, J, owner, started, running, buffer, asks, connections, listeners, emitted)
    BY PartsOf
  <1>2. close(st, i) = StateOf(started, running, buffer, asks, after, left, emitted)
    <2>1. close(st, i) = [st EXCEPT !.connections = after, !.listeners = left]
      BY DEF close, Closed, Left
    <2> HIDE DEF started, running, buffer, asks, connections, listeners, emitted, after, left
    <2>2. st = [runs |-> started, running |-> running, emittedJobTargetEvents |-> buffer, asks |-> asks,
                connections |-> connections, listeners |-> listeners, emitted |-> emitted]
      BY <1>1 DEF StateOf
    <2> QED
      BY <2>1, <2>2 DEF StateOf
  <1>3. i \in DOMAIN connections /\ connections[i].until = None
    OBVIOUS
  <1> HIDE DEF started, running, buffer, asks, connections, listeners, emitted
  <1>4. StreamParts(users, J, owner, started, running, buffer, asks, after, left, emitted)
    BY <1>1, <1>3, ConnectionCloses
  <1>5. StreamInv(users, J, owner, StateOf(started, running, buffer, asks, after, left, emitted))
    BY <1>4, PartsMake
  <1> QED
    BY <1>2, <1>5

LEMMA RemoveKeeps ==
  ASSUME NEW users, NEW J, NEW owner, NEW st, StreamInv(users, J, owner, st), NEW job
  PROVE  StreamInv(users, J, owner, removeJob(st, job))
  <1> DEFINE started == st.runs
             running == st.running
             buffer == st.emittedJobTargetEvents
             asks == st.asks
             connections == st.connections
             listeners == st.listeners
             emitted == st.emitted
             map == [j \in DOMAIN running \ {job} |-> running[j]]
             T == TargetsOf(users, J)
             kept == Sub(buffer, OthersOf(users, J, job))
  <1>1. /\ st = StateOf(started, running, buffer, asks, connections, listeners, emitted)
        /\ StreamParts(users, J, owner, started, running, buffer, asks, connections, listeners, emitted)
    BY PartsOf
  <1>2. buffer \in Seq(T)
    <2>1. st \in StreamStates(users, J)
      BY DEF StreamInv, StreamCore
    <2> QED
      BY <2>1, StatesAre
  <1>3. Where(buffer, LAMBDA event : event.job # job) = kept
    <2>1. \A e \in T : e.job # job <=> e \in OthersOf(users, J, job)
      BY DEF OthersOf
    <2>2. \A k \in DOMAIN buffer : buffer[k] \in T
      BY <1>2
    <2> HIDE DEF buffer, T
    <2>3. {k \in DOMAIN buffer : buffer[k].job # job} = {k \in DOMAIN buffer : buffer[k] \in OthersOf(users, J, job)}
      BY <2>1, <2>2
    <2> QED
      BY <2>3 DEF Where, Sub
  <1>4. removeJob(st, job) = StateOf(started, map, kept, asks, connections, listeners, emitted)
    <2>1. removeJob(st, job)
            = [[st EXCEPT !.running = Restrict(@, DOMAIN @ \ {job})] EXCEPT
                 !.emittedJobTargetEvents = Where(@, LAMBDA event : event.job # job)]
      BY DEF removeJob, clearJobTargetEvents
    <2>2. Restrict(running, DOMAIN running \ {job}) = map
      BY DEF Restrict
    <2> HIDE DEF started, running, buffer, asks, connections, listeners, emitted, map, kept
    <2>3. st = [runs |-> started, running |-> running, emittedJobTargetEvents |-> buffer, asks |-> asks,
                connections |-> connections, listeners |-> listeners, emitted |-> emitted]
      BY <1>1 DEF StateOf
    <2>4. [st EXCEPT !.running = Restrict(@, DOMAIN @ \ {job})]
            = [runs |-> started, running |-> map, emittedJobTargetEvents |-> buffer, asks |-> asks,
               connections |-> connections, listeners |-> listeners, emitted |-> emitted]
      BY <2>2, <2>3
    <2>5. PICK r : r = [runs |-> started, running |-> map, emittedJobTargetEvents |-> buffer, asks |-> asks,
                        connections |-> connections, listeners |-> listeners, emitted |-> emitted]
      OBVIOUS
    <2>6. r.emittedJobTargetEvents = buffer /\ [r EXCEPT !.emittedJobTargetEvents = kept]
            = StateOf(started, map, kept, asks, connections, listeners, emitted)
      BY <2>5 DEF StateOf
    <2>7. removeJob(st, job) = [r EXCEPT !.emittedJobTargetEvents = Where(@, LAMBDA event : event.job # job)]
      BY <2>1, <2>4, <2>5, Zenon
    <2>8. removeJob(st, job) = [r EXCEPT !.emittedJobTargetEvents = kept]
      BY <1>3, <2>6, <2>7, Zenon
    <2> QED
      BY <2>6, <2>8
  <1>5. map = [j \in DOMAIN running \ {job} |-> running[j]] /\ kept = Sub(buffer, OthersOf(users, J, job))
    OBVIOUS
  <1> HIDE DEF started, running, buffer, asks, connections, listeners, emitted, map, kept
  <1>6. StreamParts(users, J, owner, started, map, kept, asks, connections, listeners, emitted)
    BY <1>1, <1>5, RunsLeave
  <1>7. StreamInv(users, J, owner, StateOf(started, map, kept, asks, connections, listeners, emitted))
    BY <1>6, PartsMake
  <1> QED
    BY <1>4, <1>7

LEMMA DecideKeeps ==
  ASSUME NEW users, NEW J, NEW owner, NEW st, StreamInv(users, J, owner, st), None \notin Nat, NEW user \in users,
         NEW type \in {"call", "stopped"}
  PROVE  StreamInv(users, J, owner, decided(st, user, type))
  <1> DEFINE waiting == openPermissions(st, user)
             h == Head(waiting)
             A == AsksOf(users)
             S == A \ {h}
             started == st.runs
             running == st.running
             buffer == st.emittedJobTargetEvents
             asks == st.asks
             connections == st.connections
             listeners == st.listeners
             emitted == st.emitted
             left == Sub(asks, S)
             e == [type |-> type, user |-> user]
             x == [st EXCEPT !.asks = Where(@, LAMBDA event : event # h)]
  <1>1. /\ st = StateOf(started, running, buffer, asks, connections, listeners, emitted)
        /\ StreamParts(users, J, owner, started, running, buffer, asks, connections, listeners, emitted)
    BY PartsOf
  <1>2. asks \in Seq(A)
    BY <1>1 DEF StreamParts
  <1>3. Where(asks, LAMBDA event : event # h) = left
    <2>1. \A k \in DOMAIN asks : asks[k] \in A
      BY <1>2
    <2> HIDE DEF asks, A, h
    <2>2. {k \in DOMAIN asks : asks[k] # h} = {k \in DOMAIN asks : asks[k] \in S}
      BY <2>1
    <2> QED
      BY <2>2 DEF Where, Sub
  <1>4. x = StateOf(started, running, buffer, left, connections, listeners, emitted)
    <2>1. x = [st EXCEPT !.asks = left]
      BY <1>3
    <2> HIDE DEF started, running, buffer, asks, connections, listeners, emitted, left, x
    <2>2. st = [runs |-> started, running |-> running, emittedJobTargetEvents |-> buffer, asks |-> asks,
                connections |-> connections, listeners |-> listeners, emitted |-> emitted]
      BY <1>1 DEF StateOf
    <2> QED
      BY <2>1, <2>2 DEF StateOf
  <1>5. e \in EmittedOf(users, J) /\ e.type # "permission" /\ e \notin TargetsOf(users, J)
    BY DEF EmittedOf, QuietOf, TargetsOf
  <1>6. decided(st, user, type) = IF waiting = <<>> THEN st ELSE emit(x, e, TRUE)
    BY DEF decided
  <1> HIDE DEF S, started, running, buffer, asks, connections, listeners, emitted, x, e, waiting
  <1>7. StreamParts(users, J, owner, started, running, buffer, left, connections, listeners, emitted)
    BY <1>1, AsksSettle
  <1> HIDE DEF left
  <1>8. StreamInv(users, J, owner, StateOf(started, running, buffer, left, connections, listeners, emitted))
    BY <1>7, PartsMake
  <1>9. StreamInv(users, J, owner, x)
    BY <1>4, <1>8
  <1>10. StreamInv(users, J, owner, emit(x, e, TRUE))
    BY <1>5, <1>9, EmitSafe
  <1> QED
    BY <1>6, <1>10

LEMMA AskKeeps ==
  ASSUME NEW users, NEW J, NEW owner, NEW st, StreamInv(users, J, owner, st), None \notin Nat, NEW user \in users
  PROVE  StreamInv(users, J, owner, ask(st, user))
  <1> DEFINE e == [type |-> "permission", user |-> user, call |-> Len(st.emitted)]
             n == Len(st.emitted)
             t == emit(st, e, TRUE)
  <1>1. /\ StreamCore(users, J, owner, st) /\ AsksKept(users, st) /\ st \in StreamStates(users, J)
        /\ Listening(st.connections, st.listeners)
    BY DEF StreamInv, StreamCore
  <1>2. /\ st.asks \in Seq(AsksOf(users)) /\ n \in Nat /\ st.connections \in Seq(ConnectionsOf(users, J))
        /\ st.emitted \in Seq(EmittedOf(users, J))
    BY <1>1, StatesAre
  <1>3. e \in AsksOf(users) /\ e.call = n
    BY <1>2 DEF AsksOf
  <1>4. e \in EmittedOf(users, J) /\ e \notin TargetsOf(users, J) /\ e.type # "job-target-finished"
    BY <1>3 DEF EmittedOf, AsksOf, TargetsOf
  <1>5. t = emit(st, e, TRUE)
    OBVIOUS
  <1> DEFINE u == ask(st, user)
             more == Append(st.asks, e)
  <1>6. u = [t EXCEPT !.asks = more]
    <2> HIDE DEF e
    <2>1. ask(st, user) = emit([st EXCEPT !.asks = Append(@, e)], e, TRUE)
      BY DEF ask, e
    <2>2. st = [runs |-> st.runs, running |-> st.running, emittedJobTargetEvents |-> st.emittedJobTargetEvents,
                asks |-> st.asks, connections |-> st.connections, listeners |-> st.listeners, emitted |-> st.emitted]
      BY <1>1 DEF StreamStates
    <2> DEFINE y == [st EXCEPT !.asks = Append(@, e)]
    <2>3. /\ y.connections = st.connections /\ y.listeners = st.listeners /\ y.emitted = st.emitted
          /\ y.emittedJobTargetEvents = st.emittedJobTargetEvents
      BY <2>2
    <2>4. Delivered(y, e) = Delivered(st, e)
      BY <2>3 DEF Delivered
    <2> DEFINE told == Delivered(st, e)
               buffer == IF e.type = "job-target-finished" THEN Append(st.emittedJobTargetEvents, e)
                         ELSE st.emittedJobTargetEvents
               events == Append(st.emitted, e)
    <2>5. emit(y, e, TRUE) = [y EXCEPT !.emittedJobTargetEvents = buffer, !.connections = told, !.emitted = events]
      <3> HIDE DEF y
      <3> QED
        BY <2>3, <2>4 DEF emit
    <2>6. t = [st EXCEPT !.emittedJobTargetEvents = buffer, !.connections = told, !.emitted = events]
      BY DEF emit
    <2>7. y = [st EXCEPT !.asks = more]
      OBVIOUS
    <2> HIDE DEF told, buffer, events, more, t, y
    <2> QED
      BY <2>1, <2>2, <2>5, <2>6, <2>7 DEF y
  <1> HIDE DEF e, t, u, n
  <1>7. StreamCore(users, J, owner, t)
    BY <1>1, <1>4, <1>5, EmitKeeps
  <1>8. Emission(users, J, st, e, t)
    BY <1>1, <1>4, <1>5, EmitIs
  <1>9. /\ t \in StreamStates(users, J) /\ t.asks = st.asks
        /\ t.emitted = Append(st.emitted, e) /\ DOMAIN t.connections = DOMAIN st.connections
        /\ \A i \in DOMAIN st.connections : t.connections[i] = Told(st.connections[i], e)
    BY <1>8 DEF Emission
  <1>10. more \in Seq(AsksOf(users)) /\ Len(t.emitted) = n + 1
    BY <1>2, <1>3, <1>9 DEF n
  <1>11. Open(users, more, n + 1)
    <2>1. Open(users, st.asks, n)
      BY <1>1 DEF AsksKept, n
    <2> DEFINE asks == st.asks
    <2>2. asks \in Seq(AsksOf(users)) /\ Open(users, asks, n)
      BY <1>2, <2>1
    <2> HIDE DEF asks
    <2>3. Open(users, Append(asks, e), n + 1)
      BY <1>2, <1>3, <2>2, OpenGrows
    <2> QED
      BY <2>3 DEF asks
  <1>12. ASSUME NEW i \in DOMAIN t.connections
         PROVE  AskHeard(users, t.connections[i], more, n + 1)
    <2> DEFINE c == st.connections[i]
               asks == st.asks
    <2>1. /\ c \in ConnectionsOf(users, J) /\ AskHeard(users, c, asks, n) /\ asks \in Seq(AsksOf(users))
      BY <1>1, <1>2, <1>9 DEF AsksKept, n
    <2>2. t.connections[i] = Told(c, e)
      BY <1>9
    <2>3. more = Append(asks, e)
      OBVIOUS
    <2> HIDE DEF c, asks, more
    <2>4. AskHeard(users, Told(c, e), Append(asks, e), n + 1)
      BY <1>2, <1>3, <2>1, AskedAsk
    <2> QED
      BY <2>2, <2>3, <2>4
  <1> HIDE DEF more
  <1>13. /\ u \in StreamStates(users, J)
         /\ u.runs = t.runs /\ u.running = t.running /\ u.emittedJobTargetEvents = t.emittedJobTargetEvents
         /\ u.asks = more /\ u.connections = t.connections /\ u.listeners = t.listeners /\ u.emitted = t.emitted
    <2> DEFINE A == AsksOf(users)
               E == EmittedOf(users, J)
               C == ConnectionsOf(users, J)
               T == TargetsOf(users, J)
               G == [job : J, targets : Nat, over : BOOLEAN]
               M == UNION {[D -> Nat] : D \in SUBSET J}
               L == SUBSET [connection : Nat, type : JobTypes \cup McpTypes]
    <2>1. t \in [runs : Seq(G), running : M, emittedJobTargetEvents : Seq(T), asks : Seq(A), connections : Seq(C),
                 listeners : L, emitted : Seq(E)]
      BY <1>9 DEF StreamStates
    <2>2. more \in Seq(A)
      BY <1>10
    <2> HIDE DEF A, E, C, T, G, M, L
    <2>3. u \in [runs : Seq(G), running : M, emittedJobTargetEvents : Seq(T), asks : Seq(A), connections : Seq(C),
                 listeners : L, emitted : Seq(E)]
      BY <1>6, <2>1, <2>2
    <2>4. /\ u.runs = t.runs /\ u.running = t.running /\ u.emittedJobTargetEvents = t.emittedJobTargetEvents
          /\ u.asks = more /\ u.connections = t.connections /\ u.listeners = t.listeners /\ u.emitted = t.emitted
      BY <1>6, <2>1
    <2> QED
      BY <2>3, <2>4 DEF A, E, C, T, G, M, L, StreamStates
  <1>14. StreamCore(users, J, owner, u)
    BY <1>7, <1>13 DEF StreamCore
  <1>15. AsksKept(users, u)
    BY <1>10, <1>11, <1>12, <1>13 DEF AsksKept
  <1> QED
    BY <1>14, <1>15 DEF StreamInv, u

\* A run with one field changed.
LEMMA TouchIs ==
  ASSUME NEW J, NEW started \in Seq(RunsOf(J)), NEW r \in DOMAIN started, NEW d, d \in RunsOf(J), d.job = started[r].job,
         NEW after, after = [started EXCEPT ![r] = d]
  PROVE  /\ after \in Seq(RunsOf(J)) /\ DOMAIN after = DOMAIN started
         /\ \A k \in DOMAIN started : after[k].job = started[k].job
  <1>1. after \in Seq(RunsOf(J))
    <2>1. [started EXCEPT ![r] = d] \in Seq(RunsOf(J))
      BY SequenceExcept, Zenon
    <2> QED
      BY <2>1, Zenon
  <1>2. DOMAIN after = DOMAIN started /\ after[r] = d /\ \A k \in DOMAIN started : k # r => after[k] = started[k]
    OBVIOUS
  <1> QED
    BY <1>1, <1>2

\* The state with other runs, which are of the same jobs.
LEMMA TouchKeeps ==
  ASSUME NEW users, NEW J, NEW owner, NEW st, StreamInv(users, J, owner, st),
         NEW r \in DOMAIN st.runs, NEW d, d \in RunsOf(J), d.job = st.runs[r].job,
         NEW x, x = [st EXCEPT !.runs[r] = d]
  PROVE  /\ StreamInv(users, J, owner, x) /\ DOMAIN x.runs = DOMAIN st.runs
         /\ \A k \in DOMAIN st.runs : x.runs[k].job = st.runs[k].job
  <1> DEFINE started == st.runs
             running == st.running
             buffer == st.emittedJobTargetEvents
             asks == st.asks
             connections == st.connections
             listeners == st.listeners
             emitted == st.emitted
             after == [started EXCEPT ![r] = d]
  <1>1. /\ st = StateOf(started, running, buffer, asks, connections, listeners, emitted)
        /\ StreamParts(users, J, owner, started, running, buffer, asks, connections, listeners, emitted)
    BY PartsOf
  <1>2. started \in Seq(RunsOf(J))
    BY <1>1 DEF StreamParts
  <1>3. x = [st EXCEPT !.runs = after]
    OBVIOUS
  <1>4. r \in DOMAIN started /\ d.job = started[r].job /\ after = [started EXCEPT ![r] = d]
    OBVIOUS
  <1> HIDE DEF started, running, buffer, asks, connections, listeners, emitted, after
  <1>5. x = StateOf(after, running, buffer, asks, connections, listeners, emitted)
    BY <1>1, <1>3 DEF StateOf
  <1>6. /\ after \in Seq(RunsOf(J)) /\ DOMAIN after = DOMAIN started
        /\ \A k \in DOMAIN started : after[k].job = started[k].job
    BY <1>2, <1>4, TouchIs
  <1>7. StreamParts(users, J, owner, after, running, buffer, asks, connections, listeners, emitted)
    BY <1>1, <1>6, RunsTouched
  <1>8. StreamInv(users, J, owner, StateOf(after, running, buffer, asks, connections, listeners, emitted))
    BY <1>7, PartsMake
  <1>9. x.runs = after
    <2> DEFINE q == StateOf(after, running, buffer, asks, connections, listeners, emitted)
    <2>1. q.runs = after
      BY StateFields
    <2> QED
      BY <1>5, <2>1
  <1> QED
    BY <1>5, <1>6, <1>8, <1>9 DEF started

LEMMA RunsAre ==
  ASSUME NEW users, NEW J, NEW owner, NEW st, StreamInv(users, J, owner, st)
  PROVE  /\ st.runs \in Seq(RunsOf(J)) /\ Len(st.runs) \in Nat /\ DOMAIN st.runs = 1..Len(st.runs)
         /\ \A r \in DOMAIN st.runs : /\ st.runs[r] \in RunsOf(J)
                                      /\ st.runs[r].job \in J /\ st.runs[r].targets \in Nat
  <1>1. st \in StreamStates(users, J)
    BY DEF StreamInv, StreamCore
  <1>2. st.runs \in Seq(RunsOf(J)) /\ Len(st.runs) \in Nat /\ DOMAIN st.runs = 1..Len(st.runs)
    BY <1>1, StatesAre DEF RunsOf
  <1>3. \A r \in DOMAIN st.runs : st.runs[r] \in RunsOf(J)
    BY <1>2
  <1>4. \A d \in RunsOf(J) : d.job \in J /\ d.targets \in Nat
    BY DEF RunsOf
  <1> QED
    BY <1>2, <1>3, <1>4

LEMMA TargetKeeps ==
  ASSUME NEW users, NEW J, NEW owner \in [J -> [user : users, recurring : BOOLEAN]],
         NEW st, StreamInv(users, J, owner, st), None \notin Nat, NEW r \in DOMAIN st.runs, NEW valid \in BOOLEAN
  PROVE  StreamInv(users, J, owner, targetFinishes(st, r, valid, owner))
  <1> DEFINE job == st.runs[r].job
             d == [st.runs[r] EXCEPT !.targets = @ + 1]
             x == [st EXCEPT !.runs[r] = d]
             e == [type |-> "job-target-finished", user |-> owner[job].user, job |-> job, run |-> r,
                   target |-> st.runs[r].targets + 1]
  <1>1. /\ st.runs[r] \in RunsOf(J) /\ job \in J /\ st.runs[r].targets \in Nat
        /\ DOMAIN st.runs = 1..Len(st.runs) /\ Len(st.runs) \in Nat
    BY RunsAre
  <1>2. d \in RunsOf(J) /\ d.job = st.runs[r].job
    BY <1>1 DEF RunsOf
  <1>3. owner[job].user \in users
    BY <1>1
  <1>4. targetFinishes(st, r, valid, owner) = emit(x, e, valid)
    BY DEF targetFinishes
  <1>5. x = [st EXCEPT !.runs[r] = d]
    OBVIOUS
  <1>6. /\ e \in TargetsOf(users, J) /\ e.run = r /\ e.job = st.runs[r].job /\ e.user = owner[e.job].user
        /\ e.type # "permission"
    BY <1>1, <1>3 DEF TargetsOf
  <1> HIDE DEF d, x, e
  <1>7. /\ StreamInv(users, J, owner, x) /\ DOMAIN x.runs = DOMAIN st.runs
        /\ \A k \in DOMAIN st.runs : x.runs[k].job = st.runs[k].job
    BY <1>2, <1>5, TouchKeeps
  <1>8. e \in KnownOf(users, J, owner, x.runs) /\ e \in EmittedOf(users, J)
    BY <1>6, <1>7 DEF KnownOf, EmittedOf
  <1>9. StreamInv(users, J, owner, emit(x, e, TRUE))
    BY <1>6, <1>7, <1>8, EmitSafe
  <1>10. emit(x, e, FALSE) = x
    BY DEF emit
  <1> QED
    BY <1>4, <1>7, <1>9, <1>10

LEMMA EndKeeps ==
  ASSUME NEW users, NEW J, NEW owner \in [J -> [user : users, recurring : BOOLEAN]],
         NEW st, StreamInv(users, J, owner, st), None \notin Nat, NEW r \in DOMAIN st.runs,
         NEW type \in {"job-finished", "job-failed", "job-cancelled"}
  PROVE  StreamInv(users, J, owner, runEnds(st, r, type, owner))
  <1> DEFINE job == st.runs[r].job
             user == owner[job].user
             d == [st.runs[r] EXCEPT !.over = TRUE]
             x == [st EXCEPT !.runs[r] = d]
             e == [type |-> type, user |-> user, job |-> job, run |-> r]
             f == [type |-> "jobs-scheduled", user |-> user]
             y == emit(x, e, TRUE)
             z == emit(y, f, TRUE)
  <1>1. /\ st.runs[r] \in RunsOf(J) /\ job \in J /\ DOMAIN st.runs = 1..Len(st.runs) /\ Len(st.runs) \in Nat
    BY RunsAre
  <1>2. d \in RunsOf(J) /\ d.job = st.runs[r].job
    BY <1>1 DEF RunsOf
  <1>3. user \in users
    BY <1>1
  <1>4. runEnds(st, r, type, owner) = removeJob(IF owner[job].recurring THEN z ELSE y, job)
    BY DEF runEnds
  <1>5. x = [st EXCEPT !.runs[r] = d]
    OBVIOUS
  <1>6. /\ e \in EmittedOf(users, J) /\ e \notin TargetsOf(users, J) /\ e.type # "permission"
        /\ f \in EmittedOf(users, J) /\ f \notin TargetsOf(users, J) /\ f.type # "permission"
    <2>1. r \in Nat
      BY <1>1
    <2>2. e \in QuietOf(users, J) /\ f \in QuietOf(users, J)
      BY <1>1, <1>3, <2>1 DEF QuietOf
    <2> QED
      BY <2>2 DEF EmittedOf, TargetsOf
  <1> HIDE DEF d, x, e, f
  <1>7. StreamInv(users, J, owner, x)
    BY <1>2, <1>5, TouchKeeps
  <1>8. StreamInv(users, J, owner, y)
    BY <1>6, <1>7, EmitSafe
  <1> HIDE DEF y
  <1>9. StreamInv(users, J, owner, z)
    BY <1>6, <1>8, EmitSafe
  <1> HIDE DEF z
  <1>10. /\ StreamInv(users, J, owner, removeJob(y, job)) /\ StreamInv(users, J, owner, removeJob(z, job))
    <2> HIDE DEF job
    <2> QED
      BY <1>8, <1>9, RemoveKeeps
  <1> QED
    BY <1>4, <1>10

LEMMA StartKeeps ==
  ASSUME NEW users, NEW J, NEW owner \in [J -> [user : users, recurring : BOOLEAN]],
         NEW st, StreamInv(users, J, owner, st), None \notin Nat, NEW job \in J
  PROVE  StreamInv(users, J, owner, runStarts(st, job, owner))
  <1> DEFINE started == st.runs
             running == st.running
             buffer == st.emittedJobTargetEvents
             asks == st.asks
             connections == st.connections
             listeners == st.listeners
             emitted == st.emitted
             added == newRun(job)
             n == Len(started) + 1
             map == WithRun(running, job, n)
             after == Append(started, added)
             e == [type |-> "jobs-running", user |-> owner[job].user, runningJobs |-> DOMAIN map]
             x == [st EXCEPT !.runs = after, !.running = map]
  <1>1. /\ st = StateOf(started, running, buffer, asks, connections, listeners, emitted)
        /\ StreamParts(users, J, owner, started, running, buffer, asks, connections, listeners, emitted)
    BY PartsOf
  <1>2. DOMAIN running \in SUBSET J
    BY <1>1 DEF StreamParts
  <1>3. added \in RunsOf(J) /\ added.job = job
    BY DEF newRun, RunsOf
  <1>4. DOMAIN map = DOMAIN running \cup {job}
    BY DEF WithRun
  <1>5. runStarts(st, job, owner) = emit(x, e, TRUE)
    BY DEF runStarts, WithRun
  <1>6. e \in EmittedOf(users, J) /\ e \notin TargetsOf(users, J) /\ e.type # "permission"
    <2>1. DOMAIN map \in SUBSET J /\ owner[job].user \in users
      BY <1>2, <1>4
    <2> HIDE DEF map
    <2>2. e \in QuietOf(users, J)
      BY <2>1 DEF QuietOf
    <2> QED
      BY <2>2 DEF EmittedOf, TargetsOf
  <1>7. x = [st EXCEPT !.runs = after, !.running = map]
    OBVIOUS
  <1> HIDE DEF started, running, buffer, asks, connections, listeners, emitted, added, map, after, e, x
  <1>8. x = StateOf(after, map, buffer, asks, connections, listeners, emitted)
    <2>1. st = [runs |-> started, running |-> running, emittedJobTargetEvents |-> buffer, asks |-> asks,
                connections |-> connections, listeners |-> listeners, emitted |-> emitted]
      BY <1>1 DEF StateOf
    <2> QED
      BY <1>7, <2>1 DEF StateOf
  <1>9. StreamParts(users, J, owner, after, map, buffer, asks, connections, listeners, emitted)
    BY <1>1, <1>3, RunsGrow DEF after, map
  <1>10. StreamInv(users, J, owner, StateOf(after, map, buffer, asks, connections, listeners, emitted))
    BY <1>9, PartsMake
  <1>11. StreamInv(users, J, owner, x)
    BY <1>8, <1>10
  <1>12. StreamInv(users, J, owner, emit(x, e, TRUE))
    BY <1>6, <1>11, EmitSafe
  <1> QED
    BY <1>5, <1>12

-----------------------------------------------------------------------------

\* The steps of a history of these users and jobs.
StreamStepsOf(users, J) ==
  [op : {"openJobs", "openMcp", "ask", "call", "stopped"}, on : users] \cup [op : {"start", "remove"}, on : J]
  \cup [op : {"close", "target", "badTarget", "job-finished", "job-failed", "job-cancelled"}, on : Nat]

LEMMA StreamStepKeeps ==
  ASSUME NEW users, NEW J, NEW owner \in [J -> [user : users, recurring : BOOLEAN]],
         NEW st, StreamInv(users, J, owner, st), None \notin Nat, NEW step \in StreamStepsOf(users, J)
  PROVE  StreamInv(users, J, owner, StreamStep(st, step, owner))
  <1> DEFINE on == step.on
  <1>1. CASE step.op = "openJobs" \/ step.op = "openMcp" \/ step.op = "ask" \/ step.op = "call" \/ step.op = "stopped"
    <2>1. on \in users
      BY <1>1 DEF StreamStepsOf
    <2>2. /\ StreamInv(users, J, owner, open(st, on, "jobs", owner))
          /\ StreamInv(users, J, owner, open(st, on, "mcp", owner))
          /\ StreamInv(users, J, owner, ask(st, on))
          /\ StreamInv(users, J, owner, decided(st, on, "call"))
          /\ StreamInv(users, J, owner, decided(st, on, "stopped"))
      <3> HIDE DEF on
      <3> QED
        BY <2>1, JobsOpen, PromptsOpen, AskKeeps, DecideKeeps
    <2> QED
      BY <1>1, <2>2 DEF StreamStep
  <1>2. CASE step.op = "close"
    <2>1. on \in DOMAIN st.connections /\ st.connections[on].until = None => StreamInv(users, J, owner, close(st, on))
      <3> HIDE DEF on
      <3> QED
        BY CloseKeeps
    <2> QED
      BY <1>2, <2>1 DEF StreamStep
  <1>3. CASE step.op = "start" \/ step.op = "remove"
    <2>1. on \in J
      BY <1>3 DEF StreamStepsOf
    <2>2. StreamInv(users, J, owner, runStarts(st, on, owner)) /\ StreamInv(users, J, owner, removeJob(st, on))
      <3> HIDE DEF on
      <3> QED
        BY <2>1, StartKeeps, RemoveKeeps
    <2> QED
      BY <1>3, <2>2 DEF StreamStep
  <1>4. CASE step.op = "target" \/ step.op = "badTarget"
    <2>1. GoesOn(st, on) => on \in DOMAIN st.runs
      BY DEF GoesOn
    <2>2. on \in DOMAIN st.runs => /\ StreamInv(users, J, owner, targetFinishes(st, on, TRUE, owner))
                                   /\ StreamInv(users, J, owner, targetFinishes(st, on, FALSE, owner))
      <3> HIDE DEF on
      <3> QED
        BY TargetKeeps
    <2> QED
      BY <1>4, <2>1, <2>2 DEF StreamStep
  <1>5. CASE step.op \in {"job-finished", "job-failed", "job-cancelled"}
    <2>1. GoesOn(st, on) => on \in DOMAIN st.runs
      BY DEF GoesOn
    <2>2. on \in DOMAIN st.runs => StreamInv(users, J, owner, runEnds(st, on, step.op, owner))
      <3> HIDE DEF on
      <3> QED
        BY <1>5, EndKeeps
    <2> QED
      BY <1>5, <2>1, <2>2 DEF StreamStep
  <1>6. step.op \in {"openJobs", "openMcp", "ask", "call", "stopped", "start", "remove", "close", "target", "badTarget",
                     "job-finished", "job-failed", "job-cancelled"}
    BY DEF StreamStepsOf
  <1> QED
    BY <1>1, <1>2, <1>3, <1>4, <1>5, <1>6

LEMMA NoStreamsKeeps ==
  ASSUME NEW users, NEW J, NEW owner, None \notin Nat
  PROVE  StreamInv(users, J, owner, NoStreams)
  <1> DEFINE E == EmittedOf(users, J)
  <1>1. NoStreams = StateOf(<<>>, <<>>, <<>>, <<>>, <<>>, {}, <<>>)
    BY DEF NoStreams, StateOf
  <1>2. /\ \A V : <<>> \in Seq(V)
        /\ Len(<<>>) = 0 /\ DOMAIN <<>> = {}
    OBVIOUS
  <1>3. <<>> \in [DOMAIN <<>> -> Nat]
    OBVIOUS
  <1>4. \A S : Sub(<<>>, S) = <<>>
    BY SubEmpty
  <1>5. Listening(<<>>, {}) /\ Mapping(<<>>, <<>>) /\ Buffering(users, J, <<>>, <<>>, <<>>, <<>>)
    BY <1>2, <1>4 DEF Listening, Mapping, Buffering
  <1>6. Serving(users, J, owner, <<>>, <<>>, <<>>, <<>>) /\ Open(users, <<>>, Len(<<>>))
    BY <1>2, <1>4 DEF Serving, Open
  <1>7. StreamParts(users, J, owner, <<>>, <<>>, <<>>, <<>>, <<>>, {}, <<>>)
    BY <1>2, <1>3, <1>5, <1>6 DEF StreamParts
  <1>8. StreamInv(users, J, owner, StateOf(<<>>, <<>>, <<>>, <<>>, <<>>, {}, <<>>))
    BY <1>7, PartsMake
  <1> QED
    BY <1>1, <1>8

LEMMA StreamedKeeps ==
  ASSUME NEW users, NEW J, NEW owner \in [J -> [user : users, recurring : BOOLEAN]],
         NEW s \in Seq(StreamStepsOf(users, J))
  PROVE  StreamInv(users, J, owner, Streamed(s, owner))
  <1> DEFINE X == {st \in StreamStates(users, J) : StreamInv(users, J, owner, st)}
             n == Len(s)
             next(k, x) == StreamStep(x, s[k], owner)
             step == [k \in 1..n |-> [x \in X |-> next(k, x)]]
             f == CHOOSE g : g = [k \in 0..n |-> IF k = 0 THEN NoStreams ELSE StreamStep(g[k - 1], s[k], owner)]
  <1>0. \A x : x \in X <=> StreamInv(users, J, owner, x)
    BY DEF StreamInv, StreamCore
  <1>1. \A k \in 1..n : \A x \in X : step[k][x] = next(k, x)
    OBVIOUS
  <1>2. \A k \in 1..n : \A x \in X : step[k][x] \in X
    <2>1. \A k \in 1..n : s[k] \in StreamStepsOf(users, J)
      OBVIOUS
    <2> HIDE DEF n, step, X
    <2>2. \A k \in 1..n : \A x \in X : next(k, x) \in X
      BY <1>0, <2>1, NoneIsNoNumber, StreamStepKeeps
    <2> QED
      BY <1>1, <2>2
  <1>3. NoStreams \in X /\ n \in Nat
    <2>1. StreamInv(users, J, owner, NoStreams)
      BY NoneIsNoNumber, NoStreamsKeeps
    <2> HIDE DEF X
    <2> QED
      BY <1>0, <2>1
  <1>4. /\ 0 \in 0..n
        /\ \A k \in 1..n : k \in 0..n /\ k # 0 /\ k - 1 \in 0..n
        /\ \A k \in 0..n : k # 0 => k \in 1..n
    OBVIOUS
  <1>5. PICK g \in [0..n -> X] : g[0] = NoStreams /\ \A k \in 1..n : g[k] = step[k][g[k - 1]]
    <2>1. StaysIn(X, n, step)
      BY <1>2 DEF StaysIn
    <2> HIDE DEF X, n, step
    <2>2. HasRecursion(X, NoStreams, n, step)
      BY <1>3, <2>1, RecursionExists
    <2> QED
      BY <2>2 DEF HasRecursion, Recurses
  <1>6. g = [k \in 0..n |-> IF k = 0 THEN NoStreams ELSE next(k, g[k - 1])]
    <2>1. /\ g = [k \in 0..n |-> g[k]]
          /\ \A k \in 0..n : k # 0 => g[k] = next(k, g[k - 1])
      BY <1>1, <1>4, <1>5
    <2>2. g[0] = NoStreams
      BY <1>5
    <2> HIDE DEF step, X, n, next
    <2> QED
      BY <2>1, <2>2
  <1>7. f = [k \in 0..n |-> IF k = 0 THEN NoStreams ELSE next(k, f[k - 1])]
    BY <1>6
  <1>8. Streamed(s, owner) = f[n]
    BY DEF Streamed
  <1> HIDE DEF f, n, next
  <1>9. f[0] = NoStreams /\ \A k \in 1..n : f[k] = next(k, f[k - 1])
    BY <1>4, <1>7, Zenon
  <1>10. g[0] = NoStreams /\ \A k \in 1..n : g[k] = next(k, g[k - 1])
    BY <1>4, <1>6, Zenon
  <1>11. \A k \in 0..n : f[k] = g[k]
    <2> HIDE DEF X, step
    <2>1. StepAlike(n, f, g)
      BY <1>9, <1>10 DEF StepAlike
    <2>2. AlikeUpTo(n, f, g)
      BY <1>3, <2>1, RecursionUnique
    <2> QED
      BY <2>2 DEF AlikeUpTo
  <1>12. f[n] \in X
    <2>1. n \in 0..n
      BY <1>3
    <2> HIDE DEF X
    <2> QED
      BY <1>5, <1>11, <2>1
  <1> HIDE DEF X
  <1> QED
    BY <1>0, <1>8, <1>12

LEMMA HeardAre ==
  ASSUME NEW users, NEW J, NEW c, NEW s \in Seq(EmittedOf(users, J))
  PROVE  Where(s, LAMBDA event : event.user = c.user /\ event.type \in TypesOf(c.kind))
           = Sub(s, HeardBy(users, J, c))
  <1> DEFINE E == EmittedOf(users, J)
             H == HeardBy(users, J, c)
  <1>1. \A e \in E : e.user = c.user /\ e.type \in TypesOf(c.kind) <=> e \in H
    BY DEF HeardBy
  <1>2. \A k \in DOMAIN s : s[k] \in E
    OBVIOUS
  <1> HIDE DEF E, H
  <1>3. {k \in DOMAIN s : s[k].user = c.user /\ s[k].type \in TypesOf(c.kind)} = {k \in DOMAIN s : s[k] \in H}
    BY <1>1, <1>2
  <1> QED
    BY <1>3 DEF Where, Sub, H

LEMMA TargetsAre ==
  ASSUME NEW users, NEW J, NEW s \in Seq(SentOf(users, J)), NEW r
  PROVE  Where(s, LAMBDA e : e.type = "job-target-finished" /\ e.run = r) = Sub(s, OfRun(users, J, r))
  <1> DEFINE W == SentOf(users, J)
             R == OfRun(users, J, r)
  <1>1. \A e \in W : e.type = "job-target-finished" /\ e.run = r <=> e \in R
    <2>1. \A e \in W : e \in TargetsOf(users, J) <=> e.type = "job-target-finished"
      BY EventsAre
    <2> HIDE DEF W
    <2> QED
      BY <2>1 DEF OfRun
  <1>2. \A k \in DOMAIN s : s[k] \in W
    OBVIOUS
  <1> HIDE DEF W, R
  <1>3. {k \in DOMAIN s : s[k].type = "job-target-finished" /\ s[k].run = r} = {k \in DOMAIN s : s[k] \in R}
    BY <1>1, <1>2
  <1> QED
    BY <1>3 DEF Where, Sub, R

\* Whatever the history, a stream was sent, each once and in order, the events of its kind and its
\* user that were emitted while it was open, and no others (addListener, emit and the listeners'
\* removal on close).
THEOREM StreamsAreExact ==
  ASSUME NEW users, NEW J, NEW owner \in [J -> [user : users, recurring : BOOLEAN]],
         NEW steps \in Seq(StreamStepsOf(users, J))
  PROVE  StreamIsFaithful(steps, owner)
  <1> DEFINE st == Streamed(steps, owner)
             W == SentOf(users, J)
  <1>1. StreamInv(users, J, owner, st)
    BY StreamedKeeps
  <1> HIDE DEF st
  <1>2. /\ st.connections \in Seq(ConnectionsOf(users, J)) /\ st.emitted \in Seq(EmittedOf(users, J))
        /\ Serving(users, J, owner, st.runs, st.running, st.connections, st.emitted)
    <2>1. st \in StreamStates(users, J) /\ StreamCore(users, J, owner, st)
      BY <1>1 DEF StreamInv, StreamCore
    <2> QED
      BY <2>1, StatesAre DEF StreamCore
  <1>3. ASSUME NEW i \in DOMAIN st.connections
        PROVE  LET c == st.connections[i]
                   while == SubSeq(st.emitted, c.after + 1, OrElse(c.until, Len(st.emitted)))
                   own == Where(while, LAMBDA event : event.user = c.user /\ event.type \in TypesOf(c.kind)) IN
               IsSuffix(own, c.sent) /\ (c.kind = "jobs" => Len(c.sent) = Len(own) + 1)
    <2> DEFINE c == st.connections[i]
               emitted == st.emitted
               while == While(c, emitted)
               own == Where(while, LAMBDA event : event.user = c.user /\ event.type \in TypesOf(c.kind))
    <2>1. c \in ConnectionsOf(users, J) /\ Sending(users, J, c, emitted) /\ emitted \in Seq(EmittedOf(users, J))
      BY <1>2 DEF Serving
    <2> HIDE DEF c, emitted
    <2>2. PICK snapshot \in Seq(W) : /\ c.sent = snapshot \o Sub(while, HeardBy(users, J, c))
                                     /\ c.kind = "jobs" => Len(snapshot) = 1
      BY <2>1 DEF Sending
    <2>3. c.after <= Len(emitted) /\ OrElse(c.until, Len(emitted)) <= Len(emitted)
      BY <2>1 DEF Sending
    <2>4. while \in Seq(EmittedOf(users, J)) /\ Sub(while, HeardBy(users, J, c)) \in Seq(W)
      BY <2>1, <2>3, NoneIsNoNumber, HeardIs
    <2> HIDE DEF while, W
    <2>5. own = Sub(while, HeardBy(users, J, c))
      BY <2>4, HeardAre
    <2> HIDE DEF own
    <2>6. own \in Seq(W) /\ c.sent = snapshot \o own
      BY <2>2, <2>4, <2>5
    <2>7. IsSuffix(own, snapshot \o own)
      BY <2>6, SecondPart
    <2>8. Len(snapshot \o own) = Len(snapshot) + Len(own) /\ Len(own) \in Nat
      BY <2>6
    <2>9. IsSuffix(own, c.sent) /\ (c.kind = "jobs" => Len(c.sent) = Len(own) + 1)
      <3>1. IsSuffix(own, c.sent)
        BY <2>6, <2>7, Zenon
      <3>2. Len(c.sent) = Len(snapshot) + Len(own)
        BY <2>6, <2>8, Zenon
      <3>3. c.kind = "jobs" => Len(snapshot) = 1
        BY <2>2
      <3>4. Len(own) \in Nat
        BY <2>8
      <3>5. c.kind = "jobs" => Len(c.sent) = Len(own) + 1
        <4> SUFFICES ASSUME c.kind = "jobs" PROVE Len(c.sent) = Len(own) + 1
          OBVIOUS
        <4>1. Len(c.sent) = 1 + Len(own)
          BY <3>2, <3>3, Zenon
        <4> DEFINE l == Len(own)
                   whole == Len(c.sent)
        <4>2. whole = 1 + l /\ l \in Nat
          BY <3>4, <4>1, Zenon
        <4> HIDE DEF l, whole
        <4>3. whole = l + 1
          BY <4>2
        <4> QED
          BY <4>3 DEF l, whole
      <3> QED
        BY <3>1, <3>5
    <2> QED
      BY <2>9 DEF own, while, While, c, emitted
  <1> QED
    BY <1>3 DEF StreamIsFaithful, st

\* Whatever the history, a client that connects in the middle of a run has seen each valid target of
\* the run the map names once, in the snapshot or after it, and each open ask of its user once
\* (streamJobs and streamMcp, between the snapshot and the listeners).
THEOREM StreamsAreCurrent ==
  ASSUME NEW users, NEW J, NEW owner \in [J -> [user : users, recurring : BOOLEAN]],
         NEW steps \in Seq(StreamStepsOf(users, J))
  PROVE  SnapshotIsCurrent(steps, owner)
  <1> DEFINE st == Streamed(steps, owner)
             W == SentOf(users, J)
             A == AsksOf(users)
             RunEvents(events, r) == Where(events, LAMBDA e : e.type = "job-target-finished" /\ e.run = r)
  <1>1. StreamInv(users, J, owner, st)
    BY StreamedKeeps
  <1> HIDE DEF st
  <1>2. /\ st.connections \in Seq(ConnectionsOf(users, J)) /\ st.emitted \in Seq(EmittedOf(users, J))
        /\ st.asks \in Seq(A) /\ DOMAIN st.running \in SUBSET J
        /\ Serving(users, J, owner, st.runs, st.running, st.connections, st.emitted)
        /\ AsksKept(users, st)
    <2>1. st \in StreamStates(users, J) /\ StreamCore(users, J, owner, st) /\ AsksKept(users, st)
      BY <1>1 DEF StreamInv, StreamCore
    <2>2. /\ st.connections \in Seq(ConnectionsOf(users, J)) /\ st.emitted \in Seq(EmittedOf(users, J))
          /\ st.asks \in Seq(AsksOf(users)) /\ DOMAIN st.running \in SUBSET J
      BY <2>1, StatesAre
    <2> QED
      BY <2>1, <2>2 DEF StreamCore
  <1>3. ASSUME NEW i \in DOMAIN st.connections, st.connections[i].until = None, st.connections[i].kind = "jobs",
               NEW job \in RunningOf(st, st.connections[i].user, owner)
        PROVE  LET c == st.connections[i]
                   r == st.running[job]
                   shown == c.sent[1].runningJobs
                   hydrated == IF job \in DOMAIN shown THEN shown[job] ELSE <<>> IN
               /\ RunEvents(hydrated, r) \o RunEvents(c.sent, r) = RunEvents(st.emitted, r)
               /\ \A other \in DOMAIN shown \ {job} : RunEvents(shown[other], r) = <<>>
    <2> DEFINE c == st.connections[i]
               r == st.running[job]
               shown == c.sent[1].runningJobs
               R == OfRun(users, J, r)
    <2>1. /\ c \in ConnectionsOf(users, J) /\ Hydrated(users, J, owner, st.runs, st.running, c, st.emitted)
          /\ c.until = None /\ c.kind = "jobs" /\ job \in DOMAIN st.running /\ owner[job].user = c.user
      BY <1>2, <1>3 DEF Serving, RunningOf
    <2> HIDE DEF c
    <2>2. /\ c.sent # <<>> /\ c.sent[1] \in SnapshotsOf(users, J)
          /\ Sub(ShownOf(c, job), R) \o Sub(c.sent, R) = Sub(st.emitted, R)
          /\ \A other \in J \ {job} : Sub(ShownOf(c, other), R) = <<>>
      BY <2>1 DEF Hydrated
    <2> HIDE DEF r
    <2>3. TargetsOf(users, J) \subseteq W /\ EmittedOf(users, J) \subseteq W
      BY DEF SentOf, EmittedOf
    <2>4. c.sent \in Seq(W) /\ st.emitted \in Seq(W) /\ \A other : ShownOf(c, other) \in Seq(W)
      <3>1. c.sent \in Seq(W)
        BY <2>1 DEF ConnectionsOf
      <3>2. \A other : ShownOf(c, other) \in Seq(TargetsOf(users, J))
        BY <2>2, ShownTyped
      <3> HIDE DEF W
      <3> QED
        BY <1>2, <2>3, <3>1, <3>2, WiderSequences
    <2>5. \A x \in Seq(W) : RunEvents(x, r) = Sub(x, R)
      BY TargetsAre
    <2> HIDE DEF RunEvents, W, R
    <2>6. RunEvents(ShownOf(c, job), r) \o RunEvents(c.sent, r) = RunEvents(st.emitted, r)
      BY <2>2, <2>4, <2>5
    <2>7. DOMAIN shown \in SUBSET J
      BY <2>2 DEF SnapshotsOf
    <2>8. ASSUME NEW other \in DOMAIN shown \ {job}
          PROVE  RunEvents(shown[other], r) = <<>>
      <3>1. ShownOf(c, other) = shown[other]
        BY <2>8 DEF ShownOf
      <3>2. other \in J \ {job}
        BY <2>7, <2>8
      <3> HIDE DEF shown
      <3> QED
        BY <2>2, <2>4, <2>5, <3>1, <3>2
    <2> QED
      BY <2>6, <2>8 DEF ShownOf, c, r
  <1>4. ASSUME NEW i \in DOMAIN st.connections, st.connections[i].until = None, st.connections[i].kind # "jobs",
               NEW n \in DOMAIN openPermissions(st, st.connections[i].user)
        PROVE  Cardinality({k \in DOMAIN st.connections[i].sent :
                              st.connections[i].sent[k] = openPermissions(st, st.connections[i].user)[n]}) = 1
    <2> DEFINE c == st.connections[i]
               s == c.sent
               U == ToldTo(A, c.user)
               v == openPermissions(st, c.user)[n]
               asks == st.asks
    <2>1. c \in ConnectionsOf(users, J) /\ AskHeard(users, c, asks, Len(st.emitted)) /\ c.until = None
      BY <1>2, <1>4 DEF AsksKept
    <2>2. c.kind = "mcp" /\ s \in Seq(W)
      BY <1>4, <2>1 DEF ConnectionsOf
    <2>3. openPermissions(st, c.user) = Sub(asks, U)
      BY <1>2, OpenPermissionsAre
    <2>4. asks \in Seq(A) /\ Sub(asks, U) \in Seq(A) /\ Sub(asks, U) \in Seq(A \cap U)
      <3>1. asks \in Seq(A)
        BY <1>2
      <3> HIDE DEF A, U, asks
      <3> QED
        BY <3>1, SubTyped, SubIsIn
    <2> DEFINE open_ == Sub(asks, U)
    <2>5. n \in DOMAIN open_ /\ v = open_[n]
      BY <1>4, <2>3
    <2> HIDE DEF v, open_, c, asks, A, U
    <2>6. v \in A /\ v \in U
      <3>1. \A k \in DOMAIN open_ : open_[k] \in A \cap U
        BY <2>4 DEF open_
      <3> QED
        BY <2>5, <3>1
    <2>7. v.user = c.user
      BY <2>6 DEF U, ToldTo
    <2>8. Sub(asks, {v}) # <<>>
      <3>1. Sub(open_, {v}) # <<>>
        <4>1. open_ \in Seq(A) /\ open_[n] \in {v}
          BY <2>4, <2>5 DEF open_
        <4> QED
          BY <2>5, <4>1, SubFinds
      <3>2. Sub(asks, {v}) = <<>> => Sub(open_, {v}) = <<>>
        BY <2>4, SubStaysEmpty DEF open_
      <3> QED
        BY <3>1, <3>2
    <2>9. Sub(s, {v}) = <<v>>
      BY <2>1, <2>2, <2>6, <2>7, <2>8 DEF AskHeard, A
    <2> HIDE DEF W, s
    <2>10. Cardinality({k \in DOMAIN s : s[k] = v}) = Len(Sub(s, {v}))
      BY <2>2, OccurrencesAre
    <2>11. Len(<<v>>) = 1
      OBVIOUS
    <2>12. Cardinality({k \in DOMAIN s : s[k] = v}) = 1
      BY <2>9, <2>10, <2>11
    <2> QED
      BY <2>12 DEF s, v, c
  <1> HIDE DEF RunEvents
  <1> QED
    BY <1>3, <1>4 DEF SnapshotIsCurrent, st, RunEvents

\* What is sent on the streams of the two users and their jobs is faithful and current.
THEOREM StreamsSound == PureSpec => []StreamsAreFaithful
  <1> DEFINE J == {"a", "b", "c"}
             C == StreamStepsOf(StoreUsers, J)
  <1>1. StreamOwner \in [J -> [user : StoreUsers, recurring : BOOLEAN]]
    BY DEF StreamOwner, StoreUsers
  <1>2. StreamSteps \subseteq C
    BY DEF StreamSteps, StreamStepsOf, StoreUsers
  <1>3. InputTyped => StreamsAreFaithful
    <2> SUFFICES ASSUME InputTyped, topic = "streams" PROVE StreamsAreFaithful
      BY DEF StreamsAreFaithful, EventsOfStreams, SnapshotOfStreams
    <2>1. data \in Seq(StreamSteps)
      BY DEF InputTyped, Alphabet
    <2>2. data \in Seq(C)
      BY <1>2, <2>1, WiderSequences
    <2>3. StreamIsFaithful(data, StreamOwner) /\ SnapshotIsCurrent(data, StreamOwner)
      <3> HIDE DEF J
      <3> QED
        BY <1>1, <2>2, StreamsAreExact, StreamsAreCurrent
    <2> QED
      BY <2>3 DEF StreamsAreFaithful, EventsOfStreams, SnapshotOfStreams
  <1> QED
    BY <1>3, InputsTyped, PTL

=============================================================================
