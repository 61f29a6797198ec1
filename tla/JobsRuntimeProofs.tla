--------------------------- MODULE JobsRuntimeProofs ---------------------------
(***************************************************************************)
(* Theorems about JobsRuntime, for any jobs, any bodies and any number of  *)
(* requests: what a restart attaches is what the owner saved, and, as long *)
(* as requests on one job do not overlap, so is what is attached at any    *)
(* other time, while timers fire, runs end and the process crashes.        *)
(***************************************************************************)
EXTENDS JobsRuntime, WellFoundedInduction, TLAPS

\* The schedules owners save, active or stopped.
Schedules ==
  {s \in SchedulePayload :
     \E p \in Payloads : s.type = p.type /\ s.startDate = p.startDate /\ s.endDate = p.endDate}

\* The documents that come from them.
Documents ==
  {d \in Document :
     /\ d.schedule \in Schedules \cup {None}
     /\ \E b \in Bodies : d.tools = b.tools}

\* An entry of the scheduler's map; after a restart its payload may be none of Payloads.
Entry ==
  [payload      : SchedulePayload,
   attachedAt   : Nat,
   status       : {"idle", "stopped"},
   startTimeout : Nat \cup {None},
   stopTimeout  : Nat \cup {None},
   cronSince    : Nat \cup {None}]

\* The handler writes its body: at its only call, or at the second one of a status change.
Writes(r) == r.kind \in {"create", "update"} \/ r.step = 2

RequestOK(r) ==
  /\ r \in Request
  /\ Writes(r) => r.body \in Documents
  /\ r.step = 2 => r.kind = "status" /\ r.body.schedule # None
  /\ r.seen \in Documents \cup {None}
  /\ r.seen # None => r.replied
  /\ Writes(r) /\ r.seen # None => r.seen = r.body

\* The types; and a process that is down holds no request.
Typed ==
  /\ now \in Nat /\ up \in BOOLEAN /\ created \subseteq Jobs
  /\ docs \in [Jobs -> Documents \cup {None}]
  /\ cronJobs \in [Jobs -> Entry \cup {None}]
  /\ pendingJobs \in [Jobs -> Delegations \cup {None}]
  /\ requests \in [Requests -> Request \cup {None}]
  /\ \A q \in Requests : requests[q] # None => RequestOK(requests[q]) /\ up

-----------------------------------------------------------------------------
\* Lemmas on documents and on what is attached for them

LEMMA ScheduleFacts ==
  ASSUME NEW s \in Schedules
  PROVE  /\ s \in SchedulePayload /\ s.startDate \in Nat /\ s.endDate \in Nat \cup {None}
         /\ s.type \in ScheduleTypes /\ s.isStopped \in BOOLEAN
  BY DEF Schedules, SchedulePayload

LEMMA DocumentFacts ==
  ASSUME NEW d \in Documents
  PROVE  /\ d # None /\ d.schedule \in Schedules \cup {None}
         /\ DelegationOf(d) \in Delegations
  <1>1. d \in Document /\ d.schedule \in Schedules \cup {None}
    BY DEF Documents
  <1>2. DelegationOf(d) \in Delegations
    BY <1>1, ScheduleFacts DEF Documents, DelegationOf, Delegations
  <1> QED
    BY <1>1, <1>2, JobsRuntimeAssumption

LEMMA BodyIsDocument == \A b \in Bodies : b \in Documents
  <1> SUFFICES ASSUME NEW b \in Bodies PROVE b \in Documents
    OBVIOUS
  <1>1. b \in [tools : Nat \ {0}, schedule : Payloads \cup {None}]
    BY JobsRuntimeAssumption
  <1>2. \A p \in Payloads : p \in Schedules
    BY CronAssumption DEF Schedules, ValidPayload
  <1> QED
    BY <1>1, <1>2 DEF Documents, Document, Schedules

LEMMA NewEntry ==
  ASSUME Typed, NEW s \in SchedulePayload
  PROVE  S!NewCronJob(s) \in Entry /\ S!NewCronJob(s).payload = s
  <1>1. s.startDate \in Nat /\ s.endDate \in Nat \cup {None} /\ now \in Nat
    BY DEF SchedulePayload, Typed
  <1>2. \A t \in Nat : now + S!NodeDelay(t - now) \in Nat
    BY <1>1, JobsRuntimeAssumption DEF S!NodeDelay
  <1>3. /\ S!NewCronJob(s).startTimeout \in Nat \cup {None}
        /\ S!NewCronJob(s).stopTimeout \in Nat \cup {None}
    BY <1>1, <1>2 DEF S!NewCronJob
  <1>4. /\ S!NewCronJob(s).payload = s /\ S!NewCronJob(s).attachedAt = now
        /\ S!NewCronJob(s).status \in {"idle", "stopped"}
        /\ S!NewCronJob(s).cronSince = None
    BY DEF S!NewCronJob
  <1> QED
    BY <1>1, <1>3, <1>4 DEF S!NewCronJob, Entry

\* What a step on job j leaves to the other jobs.
Elsewhere(j) ==
  \A k \in Jobs : k # j => cronJobs'[k] = cronJobs[k] /\ pendingJobs'[k] = pendingJobs[k]

RuntimeTyped ==
  cronJobs \in [Jobs -> Entry \cup {None}] /\ pendingJobs \in [Jobs -> Delegations \cup {None}]

LEMMA Detaching ==
  ASSUME Typed, NEW j \in Jobs, Detach(j)
  PROVE  /\ RuntimeTyped' /\ Elsewhere(j)
         /\ cronJobs'[j] = None /\ pendingJobs'[j] = None
  BY DEF Typed, Detach, S!Delete, D!RemoveJob, RuntimeTyped, Elsewhere

LEMMA AttachingDoc ==
  ASSUME Typed, NEW j \in Jobs, NEW d \in Documents, d.schedule # None, Attach(j, d)
  PROVE  /\ RuntimeTyped' /\ Elsewhere(j)
         /\ \/ cronJobs'[j].payload = d.schedule
            \/ cronJobs'[j] = None /\ pendingJobs'[j] = None
  <1>1. CASE S!Schedule(j, d.schedule) /\ D!Register(j, DelegationOf(d))
    <2>1. cronJobs' = [cronJobs EXCEPT ![j] = S!NewCronJob(d.schedule)]
          /\ pendingJobs' = [pendingJobs EXCEPT ![j] = DelegationOf(d)]
      BY <1>1 DEF S!Schedule, D!Register
    <2>2. S!NewCronJob(d.schedule) \in Entry /\ S!NewCronJob(d.schedule).payload = d.schedule
          /\ DelegationOf(d) \in Delegations
      BY DocumentFacts, ScheduleFacts, NewEntry
    <2> QED
      BY <2>1, <2>2 DEF Typed, RuntimeTyped, Elsewhere
  <1>2. CASE Detach(j)
    BY <1>2, Detaching
  <1> QED
    BY <1>1, <1>2 DEF Attach

\* A run of another job, or of this one, touches neither the map nor the registrations.
LEMMA Delegating ==
  ASSUME NEW j, NEW d, D!Delegate(j, d)
  PROVE  UNCHANGED pendingJobs
  BY DEF D!Delegate

-----------------------------------------------------------------------------
\* What the steps do, in the terms of the invariants

\* A request comes in.
Arrives(q, r) ==
  /\ up /\ requests[q] = None /\ requests' = [requests EXCEPT ![q] = r]
  /\ RequestOK(r) /\ ~r.replied /\ r.seen = None /\ r.step = 1
  /\ created' = created \cup {r.job}
  /\ r.kind = "create" => r.job \notin created
  /\ UNCHANGED <<now, cronJobs, pendingJobs, docs, up>>

\* A handler ends: the schedule of the document it saw is attached, or nothing is, or, unless
\* the handler is one that changes the schedule, it leaves the runtime as it was.
Completes(q) ==
  LET r == requests[q] IN
  /\ r # None /\ r.seen # None
  /\ requests' = [requests EXCEPT ![q] = None]
  /\ UNCHANGED <<now, docs, created, up>>
  /\ RuntimeTyped' /\ Elsewhere(r.job)
  /\ \/ r.kind # "delete" /\ r.seen.schedule # None /\ cronJobs'[r.job].payload = r.seen.schedule
     \/ cronJobs'[r.job] = None /\ pendingJobs'[r.job] = None
     \/ /\ UNCHANGED <<cronJobs, pendingJobs>>
        /\ r.kind \in {"create", "run", "stop", "status", "retry"} /\ r.step = 1

\* Between requests: entries keep their payload or go, registrations go.
Proceeds ==
  /\ now' \in Nat /\ UNCHANGED <<docs, created, requests, up>> /\ RuntimeTyped'
  /\ \A j \in Jobs :
       /\ \/ cronJobs'[j] = None
          \/ cronJobs[j] # None /\ cronJobs'[j].payload = cronJobs[j].payload
       /\ pendingJobs'[j] \in {pendingJobs[j], None}

LEMMA Accepts ==
  ASSUME Typed, NEW q \in Requests, NEW j \in Jobs, NEW wantStopped \in BOOLEAN,
         NEW kind \in {"create", "update", "run", "stop", "delete", "status", "retry"},
         NEW body \in Documents \cup {None}, Accept(q, Ask(kind, j, body, wantStopped)),
         kind \in {"create", "update"} => body # None,
         IF kind = "create" THEN j \notin created /\ created' = created \cup {j}
         ELSE j \in created /\ UNCHANGED created
  PROVE  \E r : Arrives(q, r)
  <1> DEFINE r == [kind |-> kind, job |-> j, body |-> body, wantStopped |-> wantStopped,
                   step |-> 1, replied |-> FALSE, seen |-> None]
  <1>1. body \in Document \cup {None}
    BY DEF Documents
  <1>2. r \in Request
    BY <1>1 DEF Request
  <1>3. RequestOK(r)
    BY <1>2 DEF RequestOK, Writes
  <1>4. requests' = [requests EXCEPT ![q] = r] /\ up /\ requests[q] = None
        /\ UNCHANGED <<now, cronJobs, pendingJobs, docs, up>>
    BY DEF Accept, Ask, schedulerVars, delegatorVars
  <1>5. created' = created \cup {r.job} /\ (r.kind = "create" => r.job \notin created)
    OBVIOUS
  <1>6. ~r.replied /\ r.seen = None /\ r.step = 1
    OBVIOUS
  <1> HIDE DEF r
  <1> QED
    BY <1>3, <1>4, <1>5, <1>6 DEF Arrives

\* The requests that come in.
LEMMA HandlersArrive ==
  ASSUME Typed, NEW q \in Requests, NEW j \in Jobs,
         \/ \E body \in Bodies : CreateJob(q, j, body) \/ UpdateJob(q, j, body)
         \/ RunJob(q, j) \/ StopJob(q, j) \/ DeleteJob(q, j) \/ RetryJobSchedule(q, j)
         \/ \E wantStopped \in BOOLEAN : ChangeJobScheduleStatus(q, j, wantStopped)
  PROVE  \E r : Arrives(q, r)
  <1>1. ASSUME NEW body \in Bodies, CreateJob(q, j, body) \/ UpdateJob(q, j, body)
        PROVE  \E r : Arrives(q, r)
    <2>1. body \in Documents /\ body # None
      BY BodyIsDocument, DocumentFacts
    <2>2. CASE CreateJob(q, j, body)
      BY <2>1, <2>2, Accepts DEF CreateJob
    <2>3. CASE UpdateJob(q, j, body)
      BY <2>1, <2>3, Accepts DEF UpdateJob
    <2> QED
      BY <1>1, <2>2, <2>3
  <1>2. CASE RunJob(q, j)
    BY <1>2, Accepts DEF RunJob
  <1>3. CASE StopJob(q, j)
    BY <1>3, Accepts DEF StopJob
  <1>4. CASE DeleteJob(q, j)
    BY <1>4, Accepts DEF DeleteJob
  <1>5. CASE RetryJobSchedule(q, j)
    BY <1>5, Accepts DEF RetryJobSchedule
  <1>6. ASSUME NEW wantStopped \in BOOLEAN, ChangeJobScheduleStatus(q, j, wantStopped)
        PROVE  \E r : Arrives(q, r)
    BY <1>6, Accepts DEF ChangeJobScheduleStatus
  <1> QED
    BY <1>1, <1>2, <1>3, <1>4, <1>5, <1>6

\* The request a handler resumes.
LEMMA Resumed ==
  ASSUME Typed, NEW q \in Requests, NEW kind, Resumes(q, kind)
  PROVE  /\ up /\ requests[q] # None /\ requests[q].kind = kind /\ RequestOK(requests[q])
         /\ requests[q].job \in Jobs /\ requests[q].seen \in Documents /\ requests[q].seen # None
         /\ UNCHANGED <<now, docs, created, up>>
         /\ requests[q].step \in {1, 2} /\ (kind # "status" => requests[q].step = 1)
  BY DEF Resumes, Typed, RequestOK, Request

LEMMA HandlersComplete ==
  ASSUME Typed, NEW q \in Requests,
         \/ CreateJobResumes(q) \/ UpdateJobResumes(q) \/ RunJobResumes(q) \/ StopJobResumes(q)
         \/ DeleteJobResumes(q) \/ ChangeStatusResumes(q) \/ RetryJobScheduleResumes(q)
         \/ ChangeStatusReads(q) /\ requests' = [requests EXCEPT ![q] = None]
  PROVE  Completes(q)
  <1> DEFINE r == requests[q]
  <1>1. CASE CreateJobResumes(q)
    <2>1. CASE r.seen.schedule # None
      BY <1>1, <2>1, Resumed, AttachingDoc DEF CreateJobResumes, Finish, Completes
    <2>2. CASE r.seen.schedule = None
      BY <1>1, <2>2, Resumed, Delegating
         DEF CreateJobResumes, Finish, Completes, Typed, RuntimeTyped, Elsewhere, schedulerVars
    <2> QED
      BY <2>1, <2>2
  <1>2. CASE UpdateJobResumes(q)
    BY <1>2, Resumed, AttachingDoc, Detaching DEF UpdateJobResumes, Finish, Completes
  <1>3. CASE RunJobResumes(q)
    BY <1>3, Resumed, Delegating
       DEF RunJobResumes, Finish, Completes, Typed, RuntimeTyped, Elsewhere, schedulerVars,
           delegatorVars
  <1>4. CASE StopJobResumes(q)
    BY <1>4, Resumed
       DEF StopJobResumes, Finish, Completes, Typed, RuntimeTyped, Elsewhere, schedulerVars,
           D!Cancel
  <1>5. CASE DeleteJobResumes(q)
    BY <1>5, Resumed, Detaching DEF DeleteJobResumes, Finish, Completes
  <1>6. CASE ChangeStatusResumes(q)
    BY <1>6, Resumed, AttachingDoc DEF ChangeStatusResumes, Finish, Completes, RequestOK, Writes
  <1>7. CASE RetryJobScheduleResumes(q)
    BY <1>7, Resumed, AttachingDoc
       DEF RetryJobScheduleResumes, Finish, Completes, Typed, RuntimeTyped, Elsewhere,
           schedulerVars, delegatorVars
  <1>8. CASE ChangeStatusReads(q) /\ requests' = [requests EXCEPT ![q] = None]
    BY <1>8, Resumed
       DEF ChangeStatusReads, Completes, Typed, RuntimeTyped, Elsewhere, schedulerVars,
           delegatorVars
  <1> QED
    BY <1>1, <1>2, <1>3, <1>4, <1>5, <1>6, <1>7, <1>8

\* A status change goes on to write the document it has read.
Rewrites(q, r) ==
  /\ requests[q] # None /\ up /\ requests' = [requests EXCEPT ![q] = r]
  /\ requests[q].kind = "status" /\ requests[q].step = 1
  /\ RequestOK(r) /\ r.kind = "status" /\ r.step = 2 /\ ~r.replied /\ r.seen = None
  /\ r.job = requests[q].job
  /\ UNCHANGED <<now, cronJobs, pendingJobs, docs, created, up>>

LEMMA StatusRewrites ==
  ASSUME Typed, NEW q \in Requests, ChangeStatusReads(q),
         requests' # [requests EXCEPT ![q] = None]
  PROVE  \E r : Rewrites(q, r)
  <1> DEFINE old  == requests[q]
             body == [old.seen EXCEPT !.schedule.isStopped = old.wantStopped]
             r    == [old EXCEPT !.step = 2, !.replied = FALSE, !.seen = None, !.body = body]
  <1>1. /\ up /\ old # None /\ RequestOK(old) /\ old.kind = "status" /\ old.step = 1
        /\ old.seen \in Documents
        /\ UNCHANGED <<now, cronJobs, pendingJobs, docs, created, up>>
    BY Resumed DEF ChangeStatusReads, schedulerVars, delegatorVars, Resumes
  <1>2. old.seen.schedule # None /\ requests' = [requests EXCEPT ![q] = r]
    BY DEF ChangeStatusReads, Finish
  <1>3. old \in Request /\ old.wantStopped \in BOOLEAN
    BY <1>1 DEF RequestOK, Request
  <1>4. body \in Documents /\ body.schedule # None
    <2> DEFINE s == [old.seen.schedule EXCEPT !.isStopped = old.wantStopped]
    <2>1. old.seen \in Document /\ old.seen.schedule \in Schedules
      BY <1>1, <1>2 DEF Documents
    <2>2. old.seen.schedule \in SchedulePayload
      BY <2>1 DEF Schedules
    <2>3. s \in SchedulePayload
      BY <2>2, <1>3 DEF SchedulePayload
    <2>4. s.type = old.seen.schedule.type /\ s.startDate = old.seen.schedule.startDate
          /\ s.endDate = old.seen.schedule.endDate
      BY <2>2 DEF SchedulePayload
    <2>5. s \in Schedules
      BY <2>1, <2>3, <2>4 DEF Schedules
    <2>6. body = [old.seen EXCEPT !.schedule = s]
      OBVIOUS
    <2> HIDE DEF s, body
    <2>7. body \in Document /\ body.schedule = s /\ body.tools = old.seen.tools
      BY <2>1, <2>3, <2>6 DEF Document
    <2>8. s # None
      BY <2>3, JobsRuntimeAssumption
    <2> QED
      BY <1>1, <2>5, <2>7, <2>8 DEF Documents
  <1> HIDE DEF body
  <1>5. r \in Request
    BY <1>3, <1>4 DEF Request, Documents
  <1>6. r.kind = "status" /\ r.step = 2 /\ ~r.replied /\ r.seen = None /\ r.job = old.job
        /\ r.body = body
    BY <1>1, <1>3 DEF Request
  <1> HIDE DEF r
  <1>7. RequestOK(r)
    BY <1>4, <1>5, <1>6 DEF RequestOK, Writes
  <1> QED
    BY <1>1, <1>2, <1>6, <1>7 DEF Rewrites

-----------------------------------------------------------------------------
\* Timers and runs

LEMMA CallbacksProceed ==
  ASSUME Typed, NEW j \in Jobs, CallbackFires(j)
  PROVE  Proceeds
  <1> DEFINE c == cronJobs[j]
  <1>1. UNCHANGED <<now, docs, created, requests, up>> /\ now \in Nat
    BY DEF CallbackFires, Typed
  <1>2. UNCHANGED pendingJobs
    BY Delegating DEF CallbackFires, D!DelegateScheduledJob, D!vars, delegatorVars
  <1>3. \A k \in Jobs : k # j => cronJobs'[k] = cronJobs[k]
    BY DEF CallbackFires, S!StartTimerOnce, S!CronTick, S!StartTimerRecurring, S!StopTimer, Typed
  <1>4. /\ cronJobs' \in [Jobs -> Entry \cup {None}]
        /\ cronJobs'[j] # None => c # None /\ cronJobs'[j].payload = c.payload
    <2>1. CASE S!StartTimerOnce(j)
      BY <2>1 DEF S!StartTimerOnce, Typed
    <2>2. CASE S!CronTick(j)
      <3>1. c \in Entry /\ c # None
        BY <2>2 DEF S!CronTick, S!CronTickDue, Typed
      <3>2. cronJobs' = [cronJobs EXCEPT ![j] = [c EXCEPT !.cronSince = now]]
        BY <2>2 DEF S!CronTick
      <3>3. [c EXCEPT !.cronSince = now] \in Entry
            /\ [c EXCEPT !.cronSince = now].payload = c.payload
        BY <1>1, <3>1 DEF Entry
      <3> QED
        BY <3>1, <3>2, <3>3 DEF Typed
    <2>3. CASE S!StartTimerRecurring(j)
      <3> DEFINE d == [c EXCEPT !.startTimeout = None, !.cronSince = now]
      <3>1. c \in Entry /\ c # None
        BY <2>3 DEF S!StartTimerRecurring, S!StartTimerDue, Typed
      <3>2. cronJobs' = [cronJobs EXCEPT ![j] = d]
        BY <2>3 DEF S!StartTimerRecurring
      <3>3. d \in Entry /\ d.payload = c.payload
        BY <1>1, <3>1 DEF Entry
      <3> HIDE DEF d
      <3> QED
        BY <3>1, <3>2, <3>3 DEF Typed
    <2>4. CASE S!StopTimer(j)
      <3> DEFINE d == [c EXCEPT !.stopTimeout = None, !.cronSince = None, !.status = "stopped"]
      <3>1. c \in Entry /\ c # None
        BY <2>4 DEF S!StopTimer, S!StopTimerDue, Typed
      <3>2. cronJobs' = [cronJobs EXCEPT ![j] = d]
        BY <2>4 DEF S!StopTimer
      <3>3. d \in Entry /\ d.payload = c.payload
        BY <3>1 DEF Entry
      <3> HIDE DEF d
      <3> QED
        BY <3>1, <3>2, <3>3 DEF Typed
    <2> QED
      BY <2>1, <2>2, <2>3, <2>4 DEF CallbackFires
  <1>5. pendingJobs' \in [Jobs -> Delegations \cup {None}]
    BY <1>2 DEF Typed
  <1> QED
    BY <1>1, <1>2, <1>3, <1>4, <1>5 DEF Proceeds, RuntimeTyped

LEMMA RunsProceed ==
  ASSUME Typed, NEW e \in Executions, RunProgresses(e)
  PROVE  Proceeds
  <1>1. /\ UNCHANGED <<now, cronJobs, docs, created, requests, up>>
        /\ now \in Nat /\ cronJobs \in [Jobs -> Entry \cup {None}]
    BY DEF RunProgresses, schedulerVars, Typed
  <1>2. pendingJobs' = pendingJobs \/ \E k : pendingJobs' = [pendingJobs EXCEPT ![k] = None]
    BY DEF RunProgresses, D!NextTool, D!LeaveTools, D!ToolThrows, D!PersistFails,
           D!PersistSucceeds, D!End
  <1>3. /\ pendingJobs' \in [Jobs -> Delegations \cup {None}]
        /\ \A k \in Jobs : pendingJobs'[k] \in {pendingJobs[k], None}
    BY <1>2 DEF Typed
  <1> QED
    BY <1>1, <1>3 DEF Proceeds, RuntimeTyped

LEMMA TicksProceed ==
  ASSUME Typed, Tick
  PROVE  Proceeds
  BY DEF Typed, Tick, S!Tick, delegatorVars, Proceeds, RuntimeTyped

\* A call that fails, or finds no document.
Rejects(q) ==
  /\ requests[q] # None /\ requests[q].seen = None
  /\ requests' = [requests EXCEPT ![q] = None]
  /\ UNCHANGED <<now, cronJobs, pendingJobs, docs, created, up>>

LEMMA CallsReject ==
  ASSUME Typed, NEW q \in Requests, DbRejects(q)
  PROVE  Rejects(q)
  BY DEF DbRejects, Finish, Rejects, Typed, RequestOK, schedulerVars, delegatorVars

\* A call that executes.
Executes(q, r) ==
  /\ requests[q] # None /\ requests[q].seen = None
  /\ docs' = [docs EXCEPT ![requests[q].job] = Written(requests[q], docs[requests[q].job])]
  /\ docs' \in [Jobs -> Documents \cup {None}]
  /\ requests' = [requests EXCEPT ![q] = r]
  /\ RequestOK(r) /\ r.kind = requests[q].kind /\ r.job = requests[q].job
  /\ r.seen = IF r.kind = "delete" THEN docs[r.job] ELSE docs'[r.job]
  /\ Writes(r) = Writes(requests[q])
  /\ UNCHANGED <<now, cronJobs, pendingJobs, created, up>>

LEMMA CallsExecute ==
  ASSUME Typed, NEW q \in Requests, DbExecutes(q)
  PROVE  \E r : Executes(q, r)
  <1> DEFINE old  == requests[q]
             doc  == Written(old, docs[old.job])
             seen == IF old.kind = "delete" THEN docs[old.job] ELSE doc
             r    == [old EXCEPT !.replied = TRUE, !.seen = seen]
  <1>1. /\ old # None /\ ~old.replied /\ RequestOK(old) /\ old \in Request /\ old.job \in Jobs
        /\ old.seen = None
        /\ UNCHANGED <<now, cronJobs, pendingJobs, created, up>>
    BY DEF DbExecutes, Typed, RequestOK, Request, schedulerVars, delegatorVars
  <1>2. docs' = [docs EXCEPT ![old.job] = doc] /\ requests' = [requests EXCEPT ![q] = r]
    BY DEF DbExecutes
  <1>3. doc \in Documents \cup {None} /\ seen \in Documents \cup {None}
        /\ (Writes(old) /\ seen # None => seen = old.body)
    <2>1. docs[old.job] \in Documents \cup {None}
      BY <1>1 DEF Typed
    <2>2. WritesBody(old) => Writes(old)
      BY DEF WritesBody, Writes
    <2>3. Writes(old) => old.kind = "create" \/ (WritesBody(old) /\ old.kind # "delete")
      BY <1>1 DEF WritesBody, Writes, RequestOK
    <2> QED
      BY <1>1, <2>1, <2>2, <2>3 DEF Written, Writes, RequestOK
  <1>4. docs' \in [Jobs -> Documents \cup {None}] /\ docs'[old.job] = doc
    BY <1>1, <1>2, <1>3 DEF Typed
  <1> HIDE DEF seen
  <1>5. r \in Request
    BY <1>1, <1>3 DEF Request, Documents
  <1>6. /\ r.kind = old.kind /\ r.job = old.job /\ r.body = old.body /\ r.step = old.step
        /\ r.replied /\ r.seen = seen
    BY <1>1 DEF Request
  <1> HIDE DEF r
  <1>7. RequestOK(r) /\ Writes(r) = Writes(old)
    BY <1>1, <1>3, <1>5, <1>6 DEF RequestOK, Writes
  <1> QED
    BY <1>1, <1>2, <1>4, <1>6, <1>7 DEF Executes, seen

-----------------------------------------------------------------------------
\* Arithmetic of rules: what getNextRunDate returns lies on the rule, and a rule that starts
\* there names the same instants

LEMMA LeastExists ==
  ASSUME NEW T, T \subseteq Nat, T # {}
  PROVE  \E m \in T : \A t \in T : m <= t
  <1> DEFINE R == OpToRel(<, Nat)
  <1>1. IsWellFoundedOn(R, Nat)
    BY NatLessThanWellFounded
  <1>2. \A x, y \in Nat : x < y => <<x, y>> \in R
    BY DEF OpToRel
  <1> HIDE DEF R
  <1>3. PICK m \in T : \A t \in T : <<t, m>> \notin R
    BY <1>1, WFMin
  <1>4. \A t \in T : ~(t < m)
    BY <1>2, <1>3
  <1>5. \A t \in T : m <= t
    BY <1>4
  <1> QED
    BY <1>5

LEMMA MinIsMember ==
  ASSUME NEW T, T \subseteq Nat, T # {}
  PROVE  Min(T) \in T
  BY LeastExists DEF Min

LEMMA Divides ==
  ASSUME NEW x \in Int, NEW d \in Nat, d > 0
  PROVE  /\ x % d = 0 => \E k \in Int : x = d * k
         /\ \A k \in Int : x = d * k => x % d = 0
  <1>1. x % d = 0 => \E k \in Int : x = d * k
    OBVIOUS
  <1>2. ASSUME NEW k \in Int, x = d * k
        PROVE  x % d = 0
    BY <1>2
  <1> QED
    BY <1>1, <1>2

LEMMA Rest ==
  ASSUME NEW x \in Int, NEW d \in Nat, d > 0
  PROVE  x % d \in 0..(d - 1) /\ \E k \in Int : x - (x % d) = d * k
  <1>1. x % d \in 0..(d - 1)
    OBVIOUS
  <1>2. \E k \in Int : x - (x % d) = d * k
    OBVIOUS
  <1> QED
    BY <1>1, <1>2

\* Instants of a rule of whole minutes are whole minutes.
LEMMA WholeMinutes ==
  ASSUME NEW m \in Nat, m > 0, NEW p \in Nat, p > 0, p % m = 0,
         NEW a \in Nat, NEW n \in Nat, (n - (a - (a % m))) % p = 0
  PROVE  n % m = 0
  <1>1. PICK k \in Int : p = m * k
    BY Divides
  <1>2. PICK i \in Int : a - (a % m) = m * i
    BY Rest
  <1>3. PICK l \in Int : n - (a - (a % m)) = p * l
    <2>1. n - (a - (a % m)) \in Int
      BY <1>2
    <2> QED
      BY <2>1, Divides
  <1>4. n = m * (i + k * l)
    BY <1>1, <1>2, <1>3
  <1> QED
    BY <1>4, Divides

LEMMA SameResidue ==
  ASSUME NEW p \in Nat, p > 0, NEW a \in Int, NEW n \in Int, (n - a) % p = 0
  PROVE  \A t \in Int : (t - n) % p = 0 <=> (t - a) % p = 0
  <1> TAKE t \in Int
  <1>1. PICK l \in Int : n - a = p * l
    BY Divides
  <1>2. ASSUME (t - n) % p = 0
        PROVE  (t - a) % p = 0
    <2>1. PICK k \in Int : t - n = p * k
      BY <1>2, Divides
    <2>2. t - a = p * (k + l)
      BY <1>1, <2>1
    <2> QED
      BY <2>2, Divides
  <1>3. ASSUME (t - a) % p = 0
        PROVE  (t - n) % p = 0
    <2>1. PICK k \in Int : t - a = p * k
      BY <1>3, Divides
    <2>2. t - n = p * (k - l)
      BY <1>1, <2>1
    <2> QED
      BY <2>2, Divides
  <1> QED
    BY <1>2, <1>3

LEMMA NextRunIsOnRule ==
  ASSUME NEW s \in SchedulePayload, s.type # "once", NEW t \in Nat, s.startDate <= t,
         NextRunDate(s, t) # None
  PROVE  /\ NextRunDate(s, t) \in CronInstants(s) /\ NextRunDate(s, t) \in 0..MaxTime
         /\ NextRunDate(s, t) > t
  <1> DEFINE instants == {u \in CronInstants(s) :
                            u > t /\ (s.endDate # None => u <= s.endDate)}
  <1>1. s.startDate \in Nat
    BY DEF SchedulePayload
  <1>2. NextRunDate(s, t) = IF instants = {} THEN None ELSE Min(instants)
    BY <1>1 DEF NextRunDate
  <1>3. instants \subseteq Nat
    BY CronAssumption DEF CronInstants
  <1>4. NextRunDate(s, t) \in instants
    BY <1>2, <1>3, MinIsMember
  <1> QED
    BY <1>4 DEF CronInstants

LEMMA TruncateIsInt ==
  ASSUME NEW x \in Nat
  PROVE  Truncate(x) = x - (x % Minute) /\ Truncate(x) \in Int
  <1>1. Minute \in Nat /\ Minute > 0
    BY CronAssumption
  <1>2. x - (x % Minute) \in Int
    BY <1>1
  <1> QED
    BY <1>1, <1>2 DEF Truncate

LEMMA ResumedRule ==
  ASSUME NEW s \in SchedulePayload, s.type # "once", NEW n \in CronInstants(s), n \in 0..MaxTime
  PROVE  CronInstants([s EXCEPT !.startDate = n]) = CronInstants(s)
  <1> DEFINE r == [s EXCEPT !.startDate = n]
             p == Period[s.type]
             a == Truncate(s.startDate)
  <1>1. /\ r.startDate = n /\ r.type = s.type
        /\ s.startDate \in Nat /\ s.type \in RecurringTypes
    BY DEF SchedulePayload, ScheduleTypes
  <1>2. /\ p \in Nat /\ p > 0 /\ p % Minute = 0 /\ Minute \in Nat /\ Minute > 0
        /\ MaxTime \in Nat /\ n \in Nat
    BY <1>1, CronAssumption
  <1>3. a = s.startDate - (s.startDate % Minute) /\ a \in Int
    BY <1>1, TruncateIsInt
  <1>4. (n - a) % p = 0
    BY DEF CronInstants
  <1> HIDE DEF r, p, a
  <1>5. n % Minute = 0
    <2>1. (n - (s.startDate - (s.startDate % Minute))) % p = 0
      BY <1>3, <1>4
    <2> HIDE DEF Truncate
    <2> QED
      BY <1>1, <1>2, <2>1, WholeMinutes
  <1>6. Truncate(n) = n
    BY <1>2, <1>5 DEF Truncate
  <1>7. \A t \in 0..MaxTime : (t - n) % p = 0 <=> (t - a) % p = 0
    <2>1. p \in Nat /\ p > 0 /\ n \in Int /\ a \in Int
      BY <1>2, <1>3
    <2>2. (n - a) % p = 0
      BY <1>4
    <2>3. \A t \in Int : (t - n) % p = 0 <=> (t - a) % p = 0
      BY <2>1, <2>2, SameResidue
    <2> QED
      BY <1>2, <2>3
  <1>8. CronInstants(r) = {t \in 0..MaxTime : (t - n) % p = 0}
    BY <1>1, <1>6 DEF CronInstants, p
  <1>9. CronInstants(s) = {t \in 0..MaxTime : (t - a) % p = 0}
    BY DEF CronInstants, p, a
  <1> QED
    BY <1>7, <1>8, <1>9 DEF r

\* The schedule a restart attaches names the owner's instants, keeps the owner's intent and
\* begins at the next of them.
LEMMA RestoredFacts ==
  ASSUME NEW d \in Documents, now \in Nat, RestoredSchedule(d) # None
  PROVE  /\ d.schedule \in SchedulePayload /\ d.schedule # None
         /\ RestoredSchedule(d) \in SchedulePayload
         /\ SameRule(RestoredSchedule(d), d.schedule)
         /\ RestoredSchedule(d).isStopped = d.schedule.isStopped
         /\ RestoredSchedule(d).startDate > now
         /\ RestoredSchedule(d).startDate =
              IF d.schedule.startDate > now THEN d.schedule.startDate
              ELSE NextRunDate(d.schedule, now)
         /\ d.schedule.startDate > now \/ RestoredSchedule(d).startDate \in 0..MaxTime
  <1> DEFINE s == d.schedule
             n == NextRunDate(s, now)
  <1>1. s \in Schedules /\ s # None /\ s \in SchedulePayload /\ s.startDate \in Nat
    BY DocumentFacts, ScheduleFacts DEF RestoredSchedule
  <1>2. CASE s.startDate > now
    <2>1. RestoredSchedule(d) = s
      BY <1>2 DEF RestoredSchedule
    <2> QED
      BY <1>1, <1>2, <2>1 DEF SameRule
  <1>3. CASE ~(s.startDate > now)
    <2>1. s.type # "once" /\ n # None /\ RestoredSchedule(d) = [s EXCEPT !.startDate = n]
      BY <1>3 DEF RestoredSchedule
    <2>2. n \in CronInstants(s) /\ n \in 0..MaxTime /\ n > now /\ n \in Nat
      BY <1>1, <1>3, <2>1, NextRunIsOnRule, CronAssumption
    <2>3. CronInstants([s EXCEPT !.startDate = n]) = CronInstants(s)
      BY <1>1, <2>1, <2>2, ResumedRule
    <2>4. /\ [s EXCEPT !.startDate = n] \in SchedulePayload
          /\ [s EXCEPT !.startDate = n].startDate = n
          /\ [s EXCEPT !.startDate = n].type = s.type
          /\ [s EXCEPT !.startDate = n].endDate = s.endDate
          /\ [s EXCEPT !.startDate = n].isStopped = s.isStopped
      BY <1>1, <2>2 DEF SchedulePayload
    <2> HIDE DEF n
    <2>5. SameRule([s EXCEPT !.startDate = n], s)
      BY <2>1, <2>3, <2>4 DEF SameRule
    <2> QED
      BY <1>1, <1>3, <2>1, <2>2, <2>4, <2>5 DEF n
  <1> QED
    BY <1>2, <1>3

-----------------------------------------------------------------------------
\* Crash and restart

Crashes ==
  /\ up' = FALSE
  /\ \A j \in Jobs : cronJobs'[j] = None /\ pendingJobs'[j] = None
  /\ \A q \in Requests : requests'[q] = None
  /\ requests' \in [Requests -> Request \cup {None}] /\ RuntimeTyped'
  /\ UNCHANGED <<now, docs, created>>

LEMMA CrashClears ==
  ASSUME Typed, Crash
  PROVE  Crashes
  <1>1. /\ cronJobs' = [j \in Jobs |-> None] /\ pendingJobs' = [j \in Jobs |-> None]
        /\ requests' = [q \in Requests |-> None]
        /\ up' = FALSE /\ UNCHANGED <<now, docs, created>>
    BY DEF Crash
  <1> QED
    BY <1>1 DEF Crashes, RuntimeTyped

Boots ==
  /\ ~up /\ up' = TRUE /\ RuntimeTyped'
  /\ \A j \in Jobs :
       IF Restored(j) THEN cronJobs'[j] = S!NewCronJob(RestoredSchedule(docs[j]))
       ELSE cronJobs'[j] = None /\ pendingJobs'[j] = None
  /\ UNCHANGED <<now, docs, created, requests>>

LEMMA BootRestores ==
  ASSUME Typed, Boot
  PROVE  Boots
  <1>1. /\ cronJobs' = [j \in Jobs |->
             IF Restored(j) THEN S!NewCronJob(RestoredSchedule(docs[j])) ELSE None]
        /\ pendingJobs' = [j \in Jobs |-> IF Restored(j) THEN DelegationOf(docs[j]) ELSE None]
        /\ ~up /\ up' = TRUE /\ UNCHANGED <<now, docs, created, requests>>
    BY DEF Boot
  <1>2. ASSUME NEW j \in Jobs, Restored(j)
        PROVE  S!NewCronJob(RestoredSchedule(docs[j])) \in Entry
               /\ DelegationOf(docs[j]) \in Delegations
    <2>1. docs[j] \in Documents /\ RestoredSchedule(docs[j]) # None /\ now \in Nat
      BY <1>2 DEF Typed, Restored
    <2>2. RestoredSchedule(docs[j]) \in SchedulePayload
      BY <2>1, RestoredFacts
    <2> QED
      BY <2>1, <2>2, NewEntry, DocumentFacts
  <1>3. RuntimeTyped'
    BY <1>1, <1>2 DEF RuntimeTyped
  <1> QED
    BY <1>1, <1>3 DEF Boots

-----------------------------------------------------------------------------
\* The types hold, for any requests at once

\* Every step is of one of these kinds.
LEMMA StepKinds ==
  ASSUME Typed, Next
  PROVE  \/ \E q \in Requests :
              \/ \E r : Arrives(q, r) \/ Rewrites(q, r) \/ Executes(q, r)
              \/ Completes(q) \/ Rejects(q)
         \/ Proceeds \/ Crashes \/ Boots
  <1>1. ASSUME NEW q \in Requests, Handler(q)
        PROVE  (\E r : Arrives(q, r) \/ Rewrites(q, r)) \/ Completes(q)
    <2>1. CASE \E j \in Jobs :
                 \/ \E body \in Bodies : CreateJob(q, j, body) \/ UpdateJob(q, j, body)
                 \/ RunJob(q, j) \/ StopJob(q, j) \/ DeleteJob(q, j) \/ RetryJobSchedule(q, j)
                 \/ \E wantStopped \in BOOLEAN : ChangeJobScheduleStatus(q, j, wantStopped)
      BY <2>1, HandlersArrive
    <2>2. CASE \/ CreateJobResumes(q) \/ UpdateJobResumes(q) \/ RunJobResumes(q)
               \/ StopJobResumes(q) \/ DeleteJobResumes(q) \/ ChangeStatusResumes(q)
               \/ RetryJobScheduleResumes(q)
      BY <2>2, HandlersComplete
    <2>3. CASE ChangeStatusReads(q)
      BY <2>3, HandlersComplete, StatusRewrites
    <2> QED
      BY <1>1, <2>1, <2>2, <2>3 DEF Handler
  <1>2. ASSUME NEW q \in Requests, DbExecutes(q)
        PROVE  \E r : Executes(q, r)
    BY <1>2, CallsExecute
  <1>3. ASSUME NEW q \in Requests, DbRejects(q)
        PROVE  Rejects(q)
    BY <1>3, CallsReject
  <1>4. ASSUME NEW j \in Jobs, CallbackFires(j)
        PROVE  Proceeds
    BY <1>4, CallbacksProceed
  <1>5. ASSUME NEW e \in Executions, RunProgresses(e)
        PROVE  Proceeds
    BY <1>5, RunsProceed
  <1> QED
    BY <1>1, <1>2, <1>3, <1>4, <1>5, TicksProceed, CrashClears, BootRestores DEF Next

LEMMA NextTyped ==
  ASSUME Typed, [Next]_vars
  PROVE  Typed'
  <1>1. ASSUME NEW q \in Requests, NEW r, Arrives(q, r)
        PROVE  Typed'
    <2>1. r \in Request /\ r.job \in Jobs
      BY <1>1 DEF Arrives, RequestOK, Request
    <2> QED
      BY <1>1, <2>1 DEF Arrives, Typed
  <1>2. ASSUME NEW q \in Requests, NEW r, Rewrites(q, r)
        PROVE  Typed'
    BY <1>2 DEF Rewrites, Typed, RequestOK
  <1>3. ASSUME NEW q \in Requests, NEW r, Executes(q, r)
        PROVE  Typed'
    BY <1>3 DEF Executes, Typed, RequestOK
  <1>4. ASSUME NEW q \in Requests, Completes(q)
        PROVE  Typed'
    BY <1>4 DEF Completes, Typed, RuntimeTyped
  <1>5. ASSUME NEW q \in Requests, Rejects(q)
        PROVE  Typed'
    BY <1>5 DEF Rejects, Typed
  <1>6. CASE Proceeds
    BY <1>6 DEF Proceeds, Typed, RuntimeTyped
  <1>7. CASE Crashes
    BY <1>7 DEF Crashes, Typed, RuntimeTyped
  <1>8. CASE Boots
    BY <1>8 DEF Boots, Typed, RuntimeTyped
  <1>9. CASE UNCHANGED vars
    BY <1>9 DEF vars, schedulerVars, delegatorVars, Typed, RequestOK, Writes
  <1> QED
    BY <1>1, <1>2, <1>3, <1>4, <1>5, <1>6, <1>7, <1>8, <1>9, StepKinds

LEMMA InitTyped == Init => Typed
  BY DEF Init, S!Init, D!Init, Typed

\* What the handlers, the runtime and the database hold has its type throughout, with any number
\* of requests in flight: a handler that writes a document attaches the one it wrote.
THEOREM TypesHold == Spec => []Typed
  BY InitTyped, NextTyped, PTL DEF Spec

-----------------------------------------------------------------------------
\* Restart

\* No start lies further ahead than setTimeout can wait.
StartsInReach == MaxTime <= MaxDelay /\ \A p \in Payloads : p.startDate <= MaxDelay

LEMMA BootResumes ==
  ASSUME Typed, Boots, StartsInReach, NEW j \in Jobs, cronJobs'[j] # None
  PROVE  LET s == docs[j].schedule IN
         /\ cronJobs'[j].status = IF s.isStopped THEN "stopped" ELSE "idle"
         /\ cronJobs'[j].startTimeout =
              IF s.isStopped THEN None
              ELSE IF s.startDate > now THEN s.startDate ELSE NextRunDate(s, now)
  <1> DEFINE s == docs[j].schedule
             t == RestoredSchedule(docs[j])
  <1>1. Restored(j) /\ cronJobs'[j] = S!NewCronJob(t)
    BY DEF Boots
  <1>2. docs[j] \in Documents /\ t # None /\ now \in Nat
    BY <1>1 DEF Typed, Restored
  <1>3. /\ t \in SchedulePayload /\ t.isStopped = s.isStopped /\ t.startDate > now
        /\ t.startDate = IF s.startDate > now THEN s.startDate ELSE NextRunDate(s, now)
        /\ s.startDate > now \/ t.startDate \in 0..MaxTime
        /\ s # None
    BY <1>2, RestoredFacts
  <1>4. /\ s.startDate \in Nat /\ s.startDate <= MaxDelay /\ MaxDelay \in Nat
        /\ MaxTime \in Nat /\ MaxTime <= MaxDelay
    <2>1. s \in Schedules
      BY <1>2, <1>3, DocumentFacts
    <2> QED
      BY <2>1, ScheduleFacts, JobsRuntimeAssumption, CronAssumption
         DEF Schedules, StartsInReach
  <1> HIDE DEF s, t
  <1>5. t.startDate \in Nat /\ t.startDate <= MaxDelay
    BY <1>3, <1>4 DEF SchedulePayload
  <1>6. now + S!NodeDelay(t.startDate - now) = t.startDate
    BY <1>2, <1>3, <1>4, <1>5 DEF S!NodeDelay
  <1>7. /\ cronJobs'[j].status = IF t.isStopped THEN "stopped" ELSE "idle"
        /\ cronJobs'[j].startTimeout = IF t.isStopped THEN None ELSE t.startDate
    BY <1>1, <1>6 DEF S!NewCronJob
  <1> QED
    BY <1>3, <1>7 DEF s

\* After a restart every schedule that initializeDatabase attaches is in the state its owner
\* left it in, and an active one starts next when it would have without the restart, whatever
\* else was in flight when the process died.
THEOREM RestartsResume ==
  ASSUME StartsInReach
  PROVE  Spec => RestartResumesSchedules
  <1>1. ASSUME Typed, [Next]_vars, ~up, up'
        PROVE  Boots
    <2>1. Next
      BY <1>1 DEF vars
    <2>2. up \in BOOLEAN
      BY <1>1 DEF Typed
    <2> QED
      BY <1>1, <2>1, <2>2, StepKinds DEF Arrives, Rewrites, Executes, Completes, Rejects, Proceeds,
         Crashes
  <1>2. ASSUME Typed, [Next]_vars
        PROVE  [~up /\ up' =>
                  \A j \in Jobs :
                    cronJobs'[j] # None =>
                      LET s == docs[j].schedule IN
                      /\ cronJobs'[j].status = IF s.isStopped THEN "stopped" ELSE "idle"
                      /\ cronJobs'[j].startTimeout =
                           IF s.isStopped THEN None
                           ELSE IF s.startDate > now THEN s.startDate
                           ELSE NextRunDate(s, now)]_vars
    BY <1>1, <1>2, BootResumes
  <1> QED
    BY <1>2, TypesHold, PTL DEF Spec, RestartResumesSchedules

-----------------------------------------------------------------------------
\* What is attached follows what is saved, as long as requests on one job do not overlap

\* Clients send one request at a time for a job.  Without this the properties are false: of two
\* updates the one that wrote last need not attach last.
OnePerJob ==
  \A q, r \in Requests :
    (requests[q] # None /\ requests[r] # None /\ requests[q].job = requests[r].job) => q = r

At(q, j) == requests[q] # None /\ requests[q].job = j

\* A handler that will write the runtime for a document that is already written, or gone.
Attaching(q, j) == At(q, j) /\ requests[q].seen # None /\ Writes(requests[q])
Deleting(q, j) == At(q, j) /\ requests[q].seen # None /\ requests[q].kind = "delete"

Detached(j) == cronJobs[j] = None /\ pendingJobs[j] = None

\* The entry of a job is that of its document.
Follows(j) ==
  /\ docs[j].schedule # None
  /\ SameRule(cronJobs[j].payload, docs[j].schedule)
  /\ cronJobs[j].payload.isStopped = docs[j].schedule.isStopped

\* What a request in flight knows of the job it works on.
AheadOK(r) ==
  /\ r.job \in created
  /\ r.kind = "create" => cronJobs[r.job] = None
  /\ r.seen # None /\ r.kind # "delete" => docs[r.job] = r.seen

\* A job is consistent but for the request that is about to make it so.
JobOK(j) ==
  /\ j \notin created => docs[j] = None
  /\ docs[j] = None => Detached(j) \/ \E q \in Requests : Deleting(q, j)
  /\ docs[j] # None /\ cronJobs[j] # None => Follows(j) \/ \E q \in Requests : Attaching(q, j)

Consistent ==
  /\ \A q \in Requests : requests[q] # None => AheadOK(requests[q])
  /\ \A j \in Jobs : JobOK(j)

LEMMA ArrivalConsistent ==
  ASSUME Typed, Consistent, NEW q \in Requests, NEW r, Arrives(q, r)
  PROVE  Consistent'
  <1>1. requests' = [requests EXCEPT ![q] = r] /\ r # None /\ r.job \in Jobs /\ r.seen = None
        /\ requests[q] = None /\ created' = created \cup {r.job}
        /\ UNCHANGED <<cronJobs, pendingJobs, docs>>
    BY JobsRuntimeAssumption DEF Arrives, RequestOK, Request
  <1>2. /\ requests'[q] = r
        /\ \A p \in Requests : p # q => requests'[p] = requests[p]
    BY <1>1 DEF Typed
  <1>3. r.kind = "create" => cronJobs[r.job] = None
    <2>1. SUFFICES ASSUME r.kind = "create" PROVE cronJobs[r.job] = None
      OBVIOUS
    <2>2. r.job \notin created
      BY <2>1 DEF Arrives
    <2>3. docs[r.job] = None /\ ~\E p \in Requests : Deleting(p, r.job)
      BY <1>1, <2>2 DEF Consistent, JobOK, AheadOK, Deleting, At
    <2> QED
      BY <1>1, <2>3 DEF Consistent, JobOK, Detached
  <1>4. AheadOK(r)'
    BY <1>1, <1>3 DEF AheadOK
  <1>5. \A p \in Requests : requests'[p] # None => AheadOK(requests[p])'
    BY <1>1, <1>2, <1>4 DEF Consistent, AheadOK
  <1>6. ASSUME NEW j \in Jobs
        PROVE  JobOK(j)'
    <2>1. \A p \in Requests : /\ Deleting(p, j) => Deleting(p, j)'
                              /\ Attaching(p, j) => Attaching(p, j)'
      BY <1>1, <1>2 DEF Deleting, Attaching, At
    <2>2. Detached(j)' = Detached(j) /\ Follows(j)' = Follows(j)
      BY <1>1 DEF Detached, Follows
    <2> QED
      BY <1>1, <2>1, <2>2 DEF Consistent, JobOK
  <1> QED
    BY <1>5, <1>6 DEF Consistent

\* Other requests are about other jobs.
LEMMA OthersElsewhere ==
  ASSUME OnePerJob, NEW q \in Requests, requests[q] # None
  PROVE  \A p \in Requests : p # q /\ requests[p] # None => requests[p].job # requests[q].job
  BY DEF OnePerJob

LEMMA RewriteConsistent ==
  ASSUME Typed, Consistent, NEW q \in Requests, NEW r, Rewrites(q, r)
  PROVE  Consistent'
  <1>1. requests' = [requests EXCEPT ![q] = r] /\ r.seen = None /\ r.kind = "status"
        /\ requests[q] # None /\ r.job = requests[q].job
        /\ UNCHANGED <<cronJobs, pendingJobs, docs, created>>
    BY DEF Rewrites
  <1>2. /\ requests'[q] = r
        /\ \A p \in Requests : p # q => requests'[p] = requests[p]
    BY <1>1 DEF Typed
  <1>3. \A p \in Requests : requests'[p] # None => AheadOK(requests[p])'
    BY <1>1, <1>2 DEF Consistent, AheadOK
  <1>4. ASSUME NEW j \in Jobs
        PROVE  JobOK(j)'
    <2>1. \A p \in Requests : /\ Deleting(p, j) => p # q
                              /\ Attaching(p, j) => p # q
      BY DEF Deleting, Attaching, Rewrites, Writes
    <2>2. \A p \in Requests : /\ Deleting(p, j) => Deleting(p, j)'
                              /\ Attaching(p, j) => Attaching(p, j)'
      BY <1>2, <2>1 DEF Deleting, Attaching, At
    <2>3. Detached(j)' = Detached(j) /\ Follows(j)' = Follows(j)
      BY <1>1 DEF Detached, Follows
    <2> QED
      BY <1>1, <2>2, <2>3 DEF Consistent, JobOK
  <1> QED
    BY <1>3, <1>4 DEF Consistent

LEMMA ExecutionConsistent ==
  ASSUME Typed, Typed', Consistent, OnePerJob, NEW q \in Requests, NEW r, Executes(q, r)
  PROVE  Consistent'
  <1> DEFINE old == requests[q]
  <1>0. PICK i \in Jobs : i = old.job
    BY DEF Executes, Typed, RequestOK, Request
  <1>1. /\ requests' = [requests EXCEPT ![q] = r] /\ old # None /\ old.seen = None
        /\ r.job = i /\ r.kind = old.kind /\ RequestOK(old) /\ r # None
        /\ Writes(r) = Writes(old)
        /\ r.seen = IF r.kind = "delete" THEN docs[i] ELSE docs'[i]
        /\ UNCHANGED <<cronJobs, pendingJobs, created>>
    BY <1>0, JobsRuntimeAssumption DEF Executes, Typed, RequestOK, Request
  <1>2. /\ requests'[q] = r
        /\ \A p \in Requests : p # q => requests'[p] = requests[p]
        /\ \A p \in Requests : p # q /\ requests[p] # None => requests[p].job # i
    BY <1>0, <1>1, OthersElsewhere DEF Typed
  <1>3. docs'[i] = Written(old, docs[i]) /\ \A j \in Jobs : j # i => docs'[j] = docs[j]
    BY <1>0, <1>1 DEF Executes, Typed
  <1>4. AheadOK(old)
    BY <1>1 DEF Consistent
  <1>5. ~\E p \in Requests : Deleting(p, i) \/ Attaching(p, i)
    BY <1>1, <1>2 DEF Deleting, Attaching, At
  <1>6. AheadOK(r)'
    BY <1>0, <1>1, <1>4 DEF AheadOK
  <1>7. \A p \in Requests : p # q /\ requests[p] # None => requests[p].job \in Jobs
    BY DEF Typed, RequestOK, Request
  <1> HIDE DEF old
  <1>8. \A p \in Requests : requests'[p] # None => AheadOK(requests[p])'
    BY <1>1, <1>2, <1>3, <1>6, <1>7 DEF Consistent, AheadOK
  <1>9. ASSUME NEW j \in Jobs, j # i
        PROVE  JobOK(j)'
    <2>1. \A p \in Requests : At(p, j) => p # q
      BY <1>0, <1>9 DEF At, old
    <2>2. \A p \in Requests : /\ Deleting(p, j) => Deleting(p, j)'
                              /\ Attaching(p, j) => Attaching(p, j)'
      BY <1>2, <2>1 DEF Deleting, Attaching, At
    <2>3. Detached(j)' = Detached(j) /\ Follows(j)' = Follows(j) /\ docs'[j] = docs[j]
      BY <1>1, <1>3, <1>9 DEF Detached, Follows
    <2> QED
      BY <1>1, <2>2, <2>3 DEF Consistent, JobOK
  <1>10. JobOK(i)'
    <2>1. i \in created' /\ Detached(i)' = Detached(i)
      BY <1>0, <1>1, <1>4 DEF AheadOK, Detached
    <2>2. docs'[i] = None => Detached(i)' \/ Deleting(q, i)'
      <3>1. CASE docs[i] = None
        BY <1>1, <1>5, <2>1, <3>1 DEF Consistent, JobOK
      <3>2. CASE docs[i] # None /\ docs'[i] = None
        <4>1. old.kind = "delete"
          <5>1. WritesBody(old) => Writes(old)
            BY DEF WritesBody, Writes
          <5>2. Writes(old) => old.body # None
            BY <1>1, DocumentFacts DEF RequestOK
          <5>3. old.kind = "create" => Writes(old)
            BY DEF Writes
          <5> QED
            BY <1>3, <3>2, <5>1, <5>2, <5>3 DEF Written
        <4> QED
          BY <1>1, <1>2, <3>2, <4>1 DEF Deleting, At
      <3> QED
        BY <3>1, <3>2
    <2>3. docs'[i] # None /\ cronJobs'[i] # None => Follows(i)' \/ Attaching(q, i)'
      <3>1. SUFFICES ASSUME docs'[i] # None, cronJobs'[i] # None
                     PROVE  Follows(i)' \/ Attaching(q, i)'
        OBVIOUS
      <3>2. old.kind # "create"
        BY <1>0, <1>1, <1>4, <3>1 DEF AheadOK
      <3>3. CASE Writes(old)
        <4>1. r.kind # "delete"
          BY <1>1, <3>3 DEF Writes, RequestOK
        <4> QED
          BY <1>1, <1>2, <3>1, <3>3, <4>1 DEF Attaching, At
      <3>4. CASE ~Writes(old)
        <4>1. ~WritesBody(old)
          BY <3>4 DEF WritesBody, Writes
        <4>2. docs'[i] = docs[i]
          BY <1>3, <3>1, <3>2, <4>1 DEF Written
        <4> QED
          BY <1>1, <1>5, <3>1, <4>2 DEF Consistent, JobOK, Follows
      <3> QED
        BY <3>3, <3>4
    <2> QED
      BY <2>1, <2>2, <2>3 DEF JobOK
  <1> QED
    BY <1>8, <1>9, <1>10 DEF Consistent

LEMMA CompletionConsistent ==
  ASSUME Typed, Consistent, OnePerJob, NEW q \in Requests, Completes(q)
  PROVE  Consistent'
  <1> DEFINE r == requests[q]
  <1>0. PICK i \in Jobs : i = r.job
    BY DEF Completes, Typed, RequestOK, Request
  <1>1. /\ r # None /\ r.seen # None /\ requests' = [requests EXCEPT ![q] = None]
        /\ RequestOK(r) /\ UNCHANGED <<docs, created>> /\ Elsewhere(i)
    BY <1>0 DEF Completes, Typed, RequestOK, Request
  <1>2. /\ requests'[q] = None
        /\ \A p \in Requests : p # q => requests'[p] = requests[p]
        /\ \A p \in Requests : p # q /\ requests[p] # None => requests[p].job # i
    BY <1>0, <1>1, OthersElsewhere DEF Typed
  <1>3. AheadOK(r)
    BY <1>1 DEF Consistent
  <1>4. \A p \in Requests : p # q /\ requests[p] # None => requests[p].job \in Jobs
    BY DEF Typed, RequestOK, Request
  <1>5. \/ r.kind # "delete" /\ r.seen.schedule # None /\ cronJobs'[i].payload = r.seen.schedule
        \/ cronJobs'[i] = None /\ pendingJobs'[i] = None
        \/ /\ UNCHANGED <<cronJobs, pendingJobs>>
           /\ r.kind \in {"create", "run", "stop", "status", "retry"} /\ r.step = 1
    BY <1>0 DEF Completes
  <1> HIDE DEF r
  <1>6. \A p \in Requests : requests'[p] # None => AheadOK(requests[p])'
    BY <1>1, <1>2, <1>4 DEF Consistent, AheadOK, Elsewhere
  <1>7. ASSUME NEW j \in Jobs, j # i
        PROVE  JobOK(j)'
    <2>1. \A p \in Requests : At(p, j) => p # q
      BY <1>0, <1>7 DEF At, r
    <2>2. \A p \in Requests : /\ Deleting(p, j) => Deleting(p, j)'
                              /\ Attaching(p, j) => Attaching(p, j)'
      BY <1>2, <2>1 DEF Deleting, Attaching, At
    <2>3. Detached(j)' = Detached(j) /\ Follows(j)' = Follows(j) /\ docs'[j] = docs[j]
          /\ cronJobs'[j] = cronJobs[j]
      BY <1>1, <1>7 DEF Detached, Follows, Elsewhere
    <2> QED
      BY <1>1, <2>2, <2>3 DEF Consistent, JobOK
  <1>8. JobOK(i)'
    <2>1. i \in created' /\ (r.kind # "delete" => docs[i] = r.seen)
      BY <1>0, <1>1, <1>3 DEF AheadOK
    <2>2. \A p \in Requests : At(p, i) => p = q
      BY <1>2 DEF At
    <2>3. CASE r.kind # "delete" /\ r.seen.schedule # None
               /\ cronJobs'[i].payload = r.seen.schedule
      <3>1. docs'[i] = r.seen
        BY <1>1, <2>1, <2>3
      <3>2. Follows(i)'
        BY <2>3, <3>1 DEF Follows, SameRule
      <3> QED
        BY <1>1, <2>1, <3>1, <3>2 DEF JobOK
    <2>4. CASE cronJobs'[i] = None /\ pendingJobs'[i] = None
      BY <1>1, <2>1, <2>4 DEF JobOK, Detached
    <2>5. CASE /\ UNCHANGED <<cronJobs, pendingJobs>>
               /\ r.kind \in {"create", "run", "stop", "status", "retry"} /\ r.step = 1
      <3>1. docs'[i] # None
        BY <1>1, <2>1, <2>5
      <3>2. cronJobs[i] # None => ~\E p \in Requests : Attaching(p, i)
        BY <1>0, <1>3, <2>2, <2>5 DEF Attaching, Writes, AheadOK, r
      <3>3. Follows(i)' = Follows(i)
        BY <1>1, <2>5 DEF Follows
      <3> QED
        BY <1>1, <2>1, <2>5, <3>1, <3>2, <3>3 DEF Consistent, JobOK
    <2> QED
      BY <1>5, <2>3, <2>4, <2>5
  <1> QED
    BY <1>6, <1>7, <1>8 DEF Consistent

LEMMA RejectionConsistent ==
  ASSUME Typed, Consistent, NEW q \in Requests, Rejects(q)
  PROVE  Consistent'
  <1>1. /\ requests' = [requests EXCEPT ![q] = None] /\ requests[q].seen = None
        /\ UNCHANGED <<cronJobs, pendingJobs, docs, created>>
    BY DEF Rejects
  <1>2. /\ requests'[q] = None
        /\ \A p \in Requests : p # q => requests'[p] = requests[p]
    BY <1>1 DEF Typed
  <1>3. \A p \in Requests : requests'[p] # None => AheadOK(requests[p])'
    BY <1>1, <1>2 DEF Consistent, AheadOK
  <1>4. ASSUME NEW j \in Jobs
        PROVE  JobOK(j)'
    <2>1. \A p \in Requests : /\ Deleting(p, j) => Deleting(p, j)'
                              /\ Attaching(p, j) => Attaching(p, j)'
      BY <1>1, <1>2 DEF Deleting, Attaching, At
    <2>2. Detached(j)' = Detached(j) /\ Follows(j)' = Follows(j)
      BY <1>1 DEF Detached, Follows
    <2> QED
      BY <1>1, <2>1, <2>2 DEF Consistent, JobOK
  <1> QED
    BY <1>3, <1>4 DEF Consistent

LEMMA ProgressConsistent ==
  ASSUME Typed, Consistent, Proceeds
  PROVE  Consistent'
  <1>1. /\ UNCHANGED <<docs, created, requests>>
        /\ \A j \in Jobs :
             /\ \/ cronJobs'[j] = None
                \/ cronJobs[j] # None /\ cronJobs'[j].payload = cronJobs[j].payload
             /\ pendingJobs'[j] \in {pendingJobs[j], None}
    BY DEF Proceeds
  <1>2. \A p \in Requests : requests[p] # None => requests[p].job \in Jobs
    BY DEF Typed, RequestOK, Request
  <1>3. \A p \in Requests : requests'[p] # None => AheadOK(requests[p])'
    BY <1>1, <1>2 DEF Consistent, AheadOK
  <1>4. ASSUME NEW j \in Jobs
        PROVE  JobOK(j)'
    <2>1. \A p \in Requests : /\ Deleting(p, j)' = Deleting(p, j)
                              /\ Attaching(p, j)' = Attaching(p, j)
      BY <1>1 DEF Deleting, Attaching, At, Writes
    <2>2. Detached(j) => Detached(j)'
      BY <1>1 DEF Detached
    <2>3. cronJobs'[j] # None => cronJobs[j] # None /\ Follows(j)' = Follows(j)
      BY <1>1 DEF Follows, SameRule
    <2> QED
      BY <1>1, <2>1, <2>2, <2>3 DEF Consistent, JobOK
  <1> QED
    BY <1>3, <1>4 DEF Consistent

LEMMA CrashConsistent ==
  ASSUME Typed, Consistent, Crashes
  PROVE  Consistent'
  BY DEF Crashes, Consistent, JobOK, Detached

LEMMA BootConsistent ==
  ASSUME Typed, Consistent, Boots
  PROVE  Consistent'
  <1>1. UNCHANGED <<now, docs, created>> /\ \A q \in Requests : requests'[q] = None
    BY DEF Boots, Typed
  <1>2. ASSUME NEW j \in Jobs
        PROVE  JobOK(j)'
    <2>1. j \notin created => docs[j] = None
      BY DEF Consistent, JobOK
    <2>2. CASE Restored(j)
      <3>1. docs[j] \in Documents /\ RestoredSchedule(docs[j]) # None /\ now \in Nat
            /\ docs[j] # None
        BY <2>2 DEF Restored, Typed
      <3>2. RestoredSchedule(docs[j]) \in SchedulePayload /\ docs[j].schedule # None
            /\ SameRule(RestoredSchedule(docs[j]), docs[j].schedule)
            /\ RestoredSchedule(docs[j]).isStopped = docs[j].schedule.isStopped
        BY <3>1, RestoredFacts
      <3>3. cronJobs'[j].payload = RestoredSchedule(docs[j])
        BY <2>2, <3>2, NewEntry DEF Boots
      <3>4. Follows(j)'
        BY <1>1, <3>2, <3>3 DEF Follows, SameRule
      <3> QED
        BY <1>1, <2>1, <3>1, <3>4 DEF JobOK
    <2>3. CASE ~Restored(j)
      BY <1>1, <2>1, <2>3 DEF Boots, JobOK, Detached
    <2> QED
      BY <2>2, <2>3
  <1> QED
    BY <1>1, <1>2 DEF Consistent

LEMMA NextConsistent ==
  ASSUME Typed, Typed', Consistent, OnePerJob, [Next]_vars
  PROVE  Consistent'
  <1>1. CASE Next
    BY <1>1, StepKinds, ArrivalConsistent, RewriteConsistent, ExecutionConsistent,
       CompletionConsistent, RejectionConsistent, ProgressConsistent, CrashConsistent,
       BootConsistent
  <1>2. CASE UNCHANGED vars
    <2>1. UNCHANGED <<cronJobs, pendingJobs, docs, created, requests>>
      BY <1>2 DEF vars, schedulerVars, delegatorVars
    <2>2. \A p \in Requests : requests'[p] # None => AheadOK(requests[p])'
      BY <2>1 DEF Consistent, AheadOK
    <2>3. \A j \in Jobs : JobOK(j)'
      BY <2>1 DEF Consistent, JobOK, Detached, Follows, Deleting, Attaching, At, Writes, SameRule
    <2> QED
      BY <2>2, <2>3 DEF Consistent
  <1> QED
    BY <1>1, <1>2

LEMMA InitConsistent == Init => Consistent
  BY DEF Init, S!Init, D!Init, Consistent, JobOK, Detached

\* Between requests on it, a job is consistent.
LEMMA SettledIsConsistent ==
  ASSUME Consistent, NEW j \in Jobs, Settled(j)
  PROVE  /\ docs[j] = None => Detached(j)
         /\ docs[j] # None /\ cronJobs[j] # None => Follows(j)
  BY DEF Settled, Consistent, JobOK, Deleting, Attaching, At

LEMMA AlwaysConsistent == Spec /\ []OnePerJob => []Consistent
  <1>1. Typed /\ Typed' /\ Consistent /\ OnePerJob /\ [Next]_vars => Consistent'
    BY NextConsistent
  <1> QED
    BY <1>1, InitConsistent, TypesHold, PTL DEF Spec

\* What is attached for a job is what its owner saved: the rule, the end and the active-or-stopped
\* intent, when no request on the job is in flight (FR-JOBS-SCH-008).
THEOREM RuntimeFollowsDocuments == Spec /\ []OnePerJob => []RuntimeFollowsIntent
  <1>1. Typed /\ Consistent => RuntimeFollowsIntent
    BY SettledIsConsistent DEF RuntimeFollowsIntent, Follows
  <1> QED
    BY <1>1, AlwaysConsistent, TypesHold, PTL

\* A deleted job, and one whose creation failed, has neither an entry nor a registration that
\* could start it (FR-JOBS-DEL-001).
THEOREM DeletedJobsAreDetached == Spec /\ []OnePerJob => []DeletedIsDetached
  <1>1. Typed /\ Consistent => DeletedIsDetached
    BY SettledIsConsistent DEF DeletedIsDetached, Typed, Detached
  <1> QED
    BY <1>1, AlwaysConsistent, TypesHold, PTL
=============================================================================
