--------------------------- MODULE SchedulerProofs ---------------------------
(***************************************************************************)
(* Theorems about Scheduler: for any schedules that setTimeout can wait    *)
(* for, any number of jobs and any clock bound, the timers start a job     *)
(* exactly when ScheduleContract says.                                     *)
(***************************************************************************)
EXTENDS Scheduler, TLAPS

Latest(s, t) == IF s > t THEN s ELSE t

\* What the timers of a cron job c, last started at l, remember about its
\* schedule: which of them are armed, for when, and which starts lie behind.
TimersOK(c, l) ==
  LET p == c.payload IN
  /\ c.attachedAt <= now
  /\ l # None => l >= p.startDate
  /\ p.isStopped => c.status = "stopped"
  /\ c.status = "stopped" => c.startTimeout = None /\ c.stopTimeout = None /\ c.cronSince = None
  /\ c.status = "idle" => (c.startTimeout = None <=> c.cronSince # None)
  /\ c.status = "idle" => (p.endDate = None <=> c.stopTimeout = None)
  /\ c.startTimeout # None =>
       c.startTimeout = Latest(p.startDate, c.attachedAt) /\ c.startTimeout >= now /\ l = None
  /\ c.stopTimeout # None =>
       c.stopTimeout = Latest(p.endDate, c.attachedAt) /\ c.stopTimeout >= now
  /\ c.cronSince # None =>
       /\ p.type # "once"
       /\ Latest(p.startDate, c.attachedAt) <= c.cronSince /\ c.cronSince <= now
       /\ l = IF c.cronSince > c.attachedAt THEN c.cronSince ELSE None
       /\ \A t \in CronInstants(p) : t > c.cronSince => t >= now
  /\ (c.status = "stopped" /\ ~p.isStopped) =>
       /\ p.endDate # None /\ now >= p.endDate
       /\ (p.startDate = p.endDate /\ p.startDate > c.attachedAt) => l = p.startDate

Inv == TypeOK /\ \A j \in Jobs : cronJobs[j] # None => TimersOK(cronJobs[j], lastStart[j])

-----------------------------------------------------------------------------
\* Schedules and timers

LEMMA PayloadType ==
  ASSUME NEW p \in Payloads
  PROVE  /\ p.startDate \in Nat /\ p.endDate \in Nat \cup {None} /\ p.isStopped \in BOOLEAN
         /\ p.endDate # None => p.type # "once" /\ p.startDate <= p.endDate
  BY CronAssumption DEF ValidPayload, SchedulePayload

LEMMA InstantsAreNat ==
  ASSUME NEW p \in Payloads, NEW t \in CronInstants(p)
  PROVE  t \in Nat
  BY CronAssumption DEF CronInstants

\* A timer fires at its date, or at once when the date has passed.
LEMMA Arming ==
  ASSUME NoOverflow, TypeOK, NEW t \in Nat, t <= MaxDelay
  PROVE  now + NodeDelay(t - now) = Latest(t, now)
  BY CronAssumption, SchedulerAssumption DEF TypeOK, NodeDelay, Latest

LEMMA NewCronJobOK ==
  ASSUME NoOverflow, TypeOK, NEW p \in Payloads
  PROVE  NewCronJob(p) \in CronJob /\ TimersOK(NewCronJob(p), None)
  <1>1. now \in Nat /\ None \notin Int
    BY CronAssumption DEF TypeOK
  <1>2. ~p.isStopped => NewCronJob(p).startTimeout = Latest(p.startDate, now)
    BY PayloadType, Arming DEF NewCronJob, NoOverflow
  <1>3. ~p.isStopped /\ p.endDate # None => NewCronJob(p).stopTimeout = Latest(p.endDate, now)
    BY PayloadType, Arming DEF NewCronJob, NoOverflow
  <1>4. /\ p.isStopped => NewCronJob(p).startTimeout = None
        /\ p.isStopped \/ p.endDate = None => NewCronJob(p).stopTimeout = None
        /\ NewCronJob(p).cronSince = None /\ NewCronJob(p).payload = p
        /\ NewCronJob(p).attachedAt = now
        /\ NewCronJob(p).status = IF p.isStopped THEN "stopped" ELSE "idle"
    BY DEF NewCronJob
  <1>5. NewCronJob(p) \in CronJob
    <2>1. NewCronJob(p).startTimeout \in Nat \cup {None}
      BY <1>1, <1>2, <1>4, PayloadType DEF Latest
    <2>2. NewCronJob(p).stopTimeout \in Nat \cup {None}
      BY <1>1, <1>3, <1>4, PayloadType DEF Latest
    <2> QED
      BY <1>1, <1>4, <2>1, <2>2 DEF NewCronJob, CronJob
  <1>6. TimersOK(NewCronJob(p), None)
    BY <1>1, <1>2, <1>3, <1>4, PayloadType DEF TimersOK, Latest
  <1> QED
    BY <1>5, <1>6

LEMMA InitInv == Init => Inv
  BY CronAssumption DEF Init, Inv, TypeOK

\* A step on one cron job, within a tick of the clock.
LEMMA OneJob ==
  ASSUME Inv, NEW j \in Jobs, NEW c \in CronJob \cup {None}, NEW l \in Nat \cup {None},
         c # None => TimersOK(c, l),
         cronJobs' = [cronJobs EXCEPT ![j] = c], lastStart' = [lastStart EXCEPT ![j] = l],
         DOMAIN scheduledEvent' = DOMAIN scheduledEvent, now' = now
  PROVE  Inv'
  <1>1. TypeOK'
    BY DEF Inv, TypeOK
  <1>2. ASSUME NEW k \in Jobs, cronJobs'[k] # None
        PROVE  TimersOK(cronJobs[k], lastStart[k])'
    <2>1. CASE k = j
      <3>1. cronJobs'[k] = c /\ lastStart'[k] = l
        BY <2>1 DEF Inv, TypeOK
      <3> QED
        BY <1>2, <3>1 DEF TimersOK
    <2>2. CASE k # j
      <3>1. cronJobs'[k] = cronJobs[k] /\ lastStart'[k] = lastStart[k]
        BY <2>2 DEF Inv, TypeOK
      <3> QED
        BY <1>2, <3>1 DEF Inv, TimersOK
    <2> QED
      BY <2>1, <2>2
  <1> QED
    BY <1>1, <1>2 DEF Inv

LEMMA EmitKeepsUsers ==
  ASSUME NEW u, EmitCronJobsForUser(u)
  PROVE  DOMAIN scheduledEvent' = DOMAIN scheduledEvent
  BY DEF EmitCronJobsForUser

-----------------------------------------------------------------------------
\* One lemma per action

LEMMA ScheduleInv ==
  ASSUME NoOverflow, Inv, NEW j \in Jobs, NEW p \in Payloads, Schedule(j, p), UNCHANGED now
  PROVE  Inv'
  <1>1. NewCronJob(p) \in CronJob /\ TimersOK(NewCronJob(p), None)
    BY NewCronJobOK DEF Inv
  <1>2. DOMAIN scheduledEvent' = DOMAIN scheduledEvent
    BY EmitKeepsUsers DEF Schedule
  <1> QED
    BY <1>1, <1>2, OneJob DEF Schedule

LEMMA DeleteInv ==
  ASSUME Inv, NEW j \in Jobs, Delete(j), UNCHANGED now
  PROVE  Inv'
  <1>1. DOMAIN scheduledEvent' = DOMAIN scheduledEvent
    BY EmitKeepsUsers DEF Delete
  <1> QED
    BY <1>1, OneJob DEF Delete

LEMMA StartTimerOnceInv ==
  ASSUME Inv, NEW j \in Jobs, StartTimerOnce(j), UNCHANGED now
  PROVE  Inv'
  <1>1. DOMAIN scheduledEvent' = DOMAIN scheduledEvent
    BY EmitKeepsUsers DEF StartTimerOnce
  <1>2. now \in Nat
    BY CronAssumption DEF Inv, TypeOK
  <1> QED
    BY <1>1, <1>2, OneJob DEF StartTimerOnce

\* What is known of a cron job in the map, in one place.
LEMMA CronJobFacts ==
  ASSUME Inv, NEW j \in Jobs, cronJobs[j] # None
  PROVE  /\ cronJobs[j] \in CronJob /\ TimersOK(cronJobs[j], lastStart[j])
         /\ cronJobs[j].payload \in Payloads /\ cronJobs[j].attachedAt \in Nat
         /\ cronJobs[j].startTimeout \in Nat \cup {None}
         /\ cronJobs[j].stopTimeout \in Nat \cup {None}
         /\ cronJobs[j].cronSince \in Nat \cup {None}
         /\ cronJobs[j].status \in {"idle", "stopped"}
         /\ lastStart[j] \in Nat \cup {None} /\ now \in Nat
  <1>1. cronJobs[j] \in CronJob
    BY DEF Inv, TypeOK
  <1> QED
    BY <1>1, CronAssumption DEF Inv, TypeOK, CronJob

LEMMA StartTimerRecurringInv ==
  ASSUME Inv, NEW j \in Jobs, StartTimerRecurring(j), UNCHANGED now
  PROVE  Inv'
  <1> DEFINE c == cronJobs[j]
             d == [c EXCEPT !.startTimeout = None, !.cronSince = now]
             l == IF StartWasInTheFuture(j) THEN now ELSE lastStart[j]
  <1>1. c # None /\ c.startTimeout = now /\ c.payload.type # "once"
    BY DEF StartTimerRecurring, StartTimerDue, IsOnce
  <1>2. c \in CronJob /\ TimersOK(c, lastStart[j]) /\ now \in Nat /\ None \notin Int
    BY <1>1, CronJobFacts, CronAssumption
  <1>3. d \in CronJob
    BY <1>2 DEF CronJob
  <1>4. /\ d.payload = c.payload /\ d.attachedAt = c.attachedAt /\ d.status = c.status
        /\ d.stopTimeout = c.stopTimeout /\ d.startTimeout = None /\ d.cronSince = now
    BY <1>2 DEF CronJob
  <1>5. cronJobs' = [cronJobs EXCEPT ![j] = d] /\ lastStart' = [lastStart EXCEPT ![j] = l]
    BY <1>2 DEF StartTimerRecurring, Inv, TypeOK, CronJob
  <1> HIDE DEF d
  <1>6. TimersOK(d, l)
    <2>1. c.payload.startDate \in Nat /\ c.attachedAt \in Nat
      BY <1>1, CronJobFacts, PayloadType
    <2>2. now = Latest(c.payload.startDate, c.attachedAt) /\ lastStart[j] = None
      BY <1>1, <1>2 DEF TimersOK
    <2>3. l = IF now > c.attachedAt THEN now ELSE None
      BY <2>1, <2>2, <1>2 DEF StartWasInTheFuture, Latest
    <2>4. \A t \in CronInstants(c.payload) : t > now => t >= now
      BY <1>1, <1>2, CronJobFacts, InstantsAreNat
    <2>5. c.status = "idle"
      BY <1>1, <1>2, CronJobFacts DEF TimersOK
    <2> HIDE DEF c, l
    <2> QED
      BY <1>1, <1>2, <1>4, <2>1, <2>2, <2>3, <2>4, <2>5 DEF TimersOK, Latest
  <1>7. l \in Nat \cup {None}
    BY <1>1, <1>2, CronJobFacts
  <1> QED
    BY <1>3, <1>5, <1>6, <1>7, OneJob DEF StartTimerRecurring

LEMMA StopTimerInv ==
  ASSUME Inv, NEW j \in Jobs, StopTimer(j), UNCHANGED now
  PROVE  Inv'
  <1> DEFINE c == cronJobs[j]
             p == c.payload
             d == [c EXCEPT !.stopTimeout = None, !.cronSince = None, !.status = "stopped"]
             l == lastStart[j]
  <1>1. c # None /\ c.stopTimeout = now /\ c.startTimeout # now
    BY DEF StopTimer, StopTimerDue
  <1>2. c \in CronJob /\ TimersOK(c, l) /\ now \in Nat /\ None \notin Int /\ p \in Payloads
        /\ c.attachedAt \in Nat /\ l \in Nat \cup {None}
    BY <1>1, CronJobFacts, CronAssumption
  <1>3. d \in CronJob
    BY <1>2 DEF CronJob
  <1>4. /\ d.payload = p /\ d.attachedAt = c.attachedAt /\ d.status = "stopped"
        /\ d.stopTimeout = None /\ d.startTimeout = c.startTimeout /\ d.cronSince = None
    BY <1>2 DEF CronJob
  <1>5. cronJobs' = [cronJobs EXCEPT ![j] = d] /\ lastStart' = [lastStart EXCEPT ![j] = l]
    BY <1>2 DEF StopTimer, Inv, TypeOK, CronJob
  <1>6. DOMAIN scheduledEvent' = DOMAIN scheduledEvent
    BY EmitKeepsUsers DEF StopTimer
  <1>7. /\ p.startDate \in Nat /\ p.endDate \in Nat /\ p.endDate # None
        /\ p.startDate <= p.endDate /\ p.type # "once" /\ c.status = "idle"
        /\ now = Latest(p.endDate, c.attachedAt) /\ ~p.isStopped
    <2>1. c.status = "idle"
      BY <1>1, <1>2, CronJobFacts DEF TimersOK
    <2> HIDE DEF c, p, l
    <2>2. p.endDate # None /\ now = Latest(p.endDate, c.attachedAt)
      BY <1>1, <1>2, <2>1 DEF TimersOK, p
    <2>3. ~p.isStopped
      BY <2>1, <1>2 DEF TimersOK, p
    <2> QED
      BY <2>1, <2>2, <2>3, <1>2, PayloadType
  <1> HIDE DEF c, p, d, l
  <1>8. c.startTimeout = None
    BY <1>1, <1>2, <1>7 DEF TimersOK, Latest, p, CronJob
  <1>9. c.cronSince # None /\ c.cronSince \in Nat
        /\ Latest(p.startDate, c.attachedAt) <= c.cronSince /\ c.cronSince <= now
        /\ l = IF c.cronSince > c.attachedAt THEN c.cronSince ELSE None
    BY <1>2, <1>7, <1>8 DEF TimersOK, p, CronJob
  <1>10. (p.startDate = p.endDate /\ p.startDate > c.attachedAt) => l = p.startDate
    BY <1>2, <1>7, <1>9 DEF Latest
  <1>11. TimersOK(d, l)
    BY <1>2, <1>4, <1>7, <1>8, <1>10 DEF TimersOK, Latest, p
  <1> QED
    BY <1>2, <1>3, <1>5, <1>6, <1>11, OneJob DEF StopTimer

LEMMA CronTickInv ==
  ASSUME Inv, NEW j \in Jobs, CronTick(j), UNCHANGED now
  PROVE  Inv'
  <1> DEFINE c == cronJobs[j]
             d == [c EXCEPT !.cronSince = now]
  <1>1. c # None /\ c.cronSince # None /\ c.cronSince < now
    BY DEF CronTick, CronTickDue
  <1>2. c \in CronJob /\ TimersOK(c, lastStart[j]) /\ now \in Nat /\ None \notin Int
        /\ c.payload \in Payloads /\ c.attachedAt \in Nat /\ c.cronSince \in Nat
    BY <1>1, CronJobFacts, CronAssumption
  <1>3. d \in CronJob
    BY <1>2 DEF CronJob
  <1>4. /\ d.payload = c.payload /\ d.attachedAt = c.attachedAt /\ d.status = c.status
        /\ d.stopTimeout = c.stopTimeout /\ d.startTimeout = c.startTimeout /\ d.cronSince = now
    BY <1>2 DEF CronJob
  <1>5. cronJobs' = [cronJobs EXCEPT ![j] = d] /\ lastStart' = [lastStart EXCEPT ![j] = now]
    BY <1>2 DEF CronTick, Inv, TypeOK, CronJob
  <1>6. c.status = "idle" /\ c.startTimeout = None
    BY <1>1, <1>2, CronJobFacts DEF TimersOK
  <1>7. c.payload.startDate \in Nat /\ \A t \in CronInstants(c.payload) : t \in Nat
    BY <1>2, PayloadType, InstantsAreNat
  <1> HIDE DEF c, d
  <1>8. TimersOK(d, now)
    BY <1>1, <1>2, <1>4, <1>6, <1>7 DEF TimersOK, Latest
  <1> QED
    BY <1>2, <1>3, <1>5, <1>8, OneJob DEF CronTick

LEMMA TickInv ==
  ASSUME Inv, Tick
  PROVE  Inv'
  <1>1. TypeOK'
    BY CronAssumption DEF Inv, TypeOK, Tick
  <1>2. ASSUME NEW j \in Jobs, cronJobs'[j] # None
        PROVE  TimersOK(cronJobs[j], lastStart[j])'
    <2> DEFINE c == cronJobs[j]
    <2>1. cronJobs' = cronJobs /\ lastStart' = lastStart /\ now' = now + 1 /\ c # None
      BY <1>2 DEF Tick
    <2>2. /\ TimersOK(c, lastStart[j]) /\ now \in Nat /\ None \notin Int
          /\ c.attachedAt \in Nat /\ c.startTimeout \in Nat \cup {None}
          /\ c.stopTimeout \in Nat \cup {None} /\ c.cronSince \in Nat \cup {None}
          /\ c.payload \in Payloads
      BY <2>1, CronJobFacts, CronAssumption
    <2>3. c.startTimeout # now /\ c.stopTimeout # now
      BY <2>1 DEF Tick, StartTimerDue, StopTimerDue
    <2>4. \A t \in CronInstants(c.payload) :
            t \in Nat /\ (c.cronSince # None /\ c.cronSince < now => t # now)
      BY <2>1, <2>2, InstantsAreNat DEF Tick, CronTickDue
    <2>5. c.payload.endDate \in Nat \cup {None}
      BY <2>2, PayloadType
    <2> HIDE DEF c
    <2>6. c.cronSince # None =>
            \A t \in CronInstants(c.payload) : t > c.cronSince => t >= now + 1
      BY <2>2, <2>4 DEF TimersOK
    <2>7. TimersOK(c, lastStart[j])'
      BY <2>1, <2>2, <2>3, <2>5, <2>6 DEF TimersOK, c
    <2> QED
      BY <2>7 DEF c
  <1> QED
    BY <1>1, <1>2 DEF Inv

LEMMA NextInv == NoOverflow /\ Inv /\ [Next]_vars => Inv'
  <1> SUFFICES ASSUME NoOverflow, Inv, [Next]_vars PROVE Inv'
    OBVIOUS
  <1>1. CASE UNCHANGED vars
    BY <1>1 DEF vars, Inv, TypeOK, TimersOK
  <1>2. CASE Tick
    BY <1>2, TickInv
  <1>3. ASSUME NEW j \in Jobs, UNCHANGED now,
               Callback(j) \/ Delete(j) \/ \E p \in Payloads : Schedule(j, p)
        PROVE  Inv'
    BY <1>3, StartTimerOnceInv, StartTimerRecurringInv, StopTimerInv, CronTickInv, DeleteInv,
       ScheduleInv DEF Callback
  <1> QED
    BY <1>1, <1>2, <1>3 DEF Next

-----------------------------------------------------------------------------
\* Safety

THEOREM Invariance ==
  ASSUME NoOverflow
  PROVE  Spec => []Inv
  BY InitInv, NextInv, NoOverflow, PTL DEF Spec

\* A cron job shown as stopped has neither an armed start timer nor a started
\* cron task, as long as no schedule lies further ahead than setTimeout can wait
\* (FR-JOBS-SSC-002, FR-JOBS-SCH-009): an end further ahead fires its timer at once.
THEOREM StoppedSchedulesAreSilent ==
  ASSUME NoOverflow
  PROVE  Spec => []StoppedIsSilent
  <1>1. Inv => StoppedIsSilent
    BY DEF Inv, StoppedIsSilent, TimersOK
  <1> QED
    BY <1>1, Invariance, PTL

\* Under the same assumption no start comes before the start date
\* (FR-JOBS-SCH-005; a longer delay makes the timer fire at once).
THEOREM NoStartIsEarly ==
  ASSUME NoOverflow
  PROVE  Spec => []NoEarlyStart
  <1>1. Inv => NoEarlyStart
    BY DEF Inv, NoEarlyStart, TimersOK, Latest
  <1> QED
    BY <1>1, Invariance, PTL

-----------------------------------------------------------------------------
\* Announced runs

LEMMA MinIs ==
  ASSUME NEW S \in SUBSET Int, NEW m \in S, \A t \in S : m <= t
  PROVE  Min(S) = m
  <1>1. \A x \in S : (\A t \in S : x <= t) => x = m
    OBVIOUS
  <1> QED
    BY <1>1 DEF Min

\* While the start lies ahead, both the announcement and the start timer name the start.
LEMMA AnnouncedStartIsReal ==
  ASSUME NoOverflow, Inv, NEW j \in Jobs, cronJobs[j] # None, cronJobs[j].startTimeout # None,
         ~StartTimerDue(j), cronJobs[j].payload.type # "once",
         Truncate(cronJobs[j].payload.startDate) = cronJobs[j].payload.startDate,
         cronJobs[j].payload.startDate <= MaxTime
  PROVE  NextRunDate(cronJobs[j].payload, now) = NextStart(cronJobs[j])
  <1> DEFINE c == cronJobs[j]
             p == c.payload
             runs == {u \in CronInstants(p) : u > p.startDate - 1 /\ (p.endDate # None => u <= p.endDate)}
  <1>1. /\ TimersOK(c, lastStart[j]) /\ now \in Nat /\ None \notin Int /\ p \in Payloads
        /\ c.attachedAt \in Nat /\ c.startTimeout \in Nat /\ c.stopTimeout \in Nat \cup {None}
        /\ c.status \in {"idle", "stopped"}
    BY CronJobFacts, CronAssumption
  <1>2. /\ p.startDate \in Nat /\ p.endDate \in Nat \cup {None} /\ p.type \in RecurringTypes
        /\ p.endDate # None => p.startDate <= p.endDate
    BY <1>1, CronAssumption DEF ValidPayload, SchedulePayload, ScheduleTypes
  <1>3. c.startTimeout = p.startDate /\ p.startDate > now /\ p.startDate > c.attachedAt
    BY <1>1, <1>2 DEF TimersOK, Latest, StartTimerDue
  <1>4. c.stopTimeout # None => p.startDate <= c.stopTimeout
    BY <1>1, <1>2, <1>3 DEF TimersOK, Latest
  <1>5. NextStart(c) = p.startDate
    <2>1. {t \in {c.startTimeout} : c.stopTimeout # None => t <= c.stopTimeout} = {p.startDate}
      BY <1>3, <1>4
    <2>2. Min({p.startDate}) = p.startDate
      <3> DEFINE S == {p.startDate}
      <3>1. S \in SUBSET Int /\ p.startDate \in S /\ \A t \in S : p.startDate <= t
        BY <1>2
      <3> HIDE DEF S, p
      <3>2. Min(S) = p.startDate
        BY <3>1, MinIs
      <3> QED
        BY <3>2 DEF S
    <2> QED
      BY <1>1, <1>3, <2>1, <2>2 DEF NextStart
  <1>6. p.startDate \in CronInstants(p)
    <2>1. (p.startDate - Truncate(p.startDate)) = 0 /\ Period[p.type] \in Nat \ {0}
      BY <1>2, CronAssumption
    <2>2. 0 % Period[p.type] = 0
      BY <2>1
    <2> QED
      BY <1>2, <2>1, <2>2, CronAssumption DEF CronInstants
  <1>7. Min(runs) = p.startDate
    <2>1. p.startDate \in runs /\ runs \in SUBSET Int
      BY <1>1, <1>2, <1>6, InstantsAreNat
    <2>2. \A t \in runs : p.startDate <= t
      BY <1>1, <1>2, InstantsAreNat
    <2> QED
      BY <2>1, <2>2, MinIs
  <1>8. runs # {}
    BY <1>2, <1>6
  <1>9. NextRunDate(p, now) = p.startDate
    BY <1>3, <1>7, <1>8 DEF NextRunDate
  <1> QED
    BY <1>5, <1>9

\* Once the cron task runs, both are the next instant of the rule until the end.
LEMMA AnnouncedTickIsReal ==
  ASSUME Inv, NEW j \in Jobs, cronJobs[j] # None, cronJobs[j].startTimeout = None,
         cronJobs[j].status = "idle", ~StopTimerDue(j)
  PROVE  NextRunDate(cronJobs[j].payload, now) = NextStart(cronJobs[j])
  <1> DEFINE c == cronJobs[j]
             p == c.payload
             inTime == {u \in CronInstants(p) : u > now /\ (p.endDate # None => u <= p.endDate)}
  <1>1. /\ TimersOK(c, lastStart[j]) /\ now \in Nat /\ None \notin Int /\ p \in Payloads
        /\ c.attachedAt \in Nat /\ c.stopTimeout \in Nat \cup {None}
        /\ c.cronSince \in Nat \cup {None}
    BY CronJobFacts, CronAssumption
  <1>2. p.startDate \in Nat /\ p.endDate \in Nat \cup {None}
    BY <1>1, PayloadType
  <1>3. p.startDate <= now
    BY <1>1, <1>2 DEF TimersOK, Latest
  <1>4. /\ c.stopTimeout = None <=> p.endDate = None
        /\ c.stopTimeout # None => c.stopTimeout = p.endDate
    BY <1>1, <1>2 DEF TimersOK, Latest, StopTimerDue
  <1>5. NextRunDate(p, now) = IF inTime = {} THEN None ELSE Min(inTime)
    BY <1>1, <1>2, <1>3 DEF NextRunDate
  <1>6. {t \in {t \in CronInstants(p) : t > now} : c.stopTimeout # None => t <= c.stopTimeout} = inTime
    BY <1>4
  <1>7. NextStart(c) = IF inTime = {} THEN None ELSE Min(inTime)
    BY <1>6 DEF NextStart
  <1> QED
    BY <1>5, <1>7

\* The next run the stream announces for an active recurring schedule is the one its
\* timers will make, whatever order they were armed, fired and replaced in, provided
\* that the clock's bound reaches the start dates (FR-JOBS-STR-003).
THEOREM AnnouncedRunsAreReal ==
  ASSUME NoOverflow, \A p \in Payloads : p.startDate <= MaxTime
  PROVE  Spec => []AnnouncedRunIsReal
  <1>1. ASSUME Inv, NEW j \in Jobs, cronJobs[j] # None, cronJobs[j].status = "idle", ~IsOnce(j),
               \/ now >= cronJobs[j].payload.startDate
               \/ Truncate(cronJobs[j].payload.startDate) = cronJobs[j].payload.startDate,
               ~StartTimerDue(j), ~StopTimerDue(j)
        PROVE  NextRunDate(cronJobs[j].payload, now) = NextStart(cronJobs[j])
    <2> DEFINE c == cronJobs[j]
    <2>1. /\ TimersOK(c, lastStart[j]) /\ now \in Nat /\ None \notin Int
          /\ c.payload \in Payloads /\ c.attachedAt \in Nat
          /\ c.startTimeout \in Nat \cup {None} /\ c.payload.startDate \in Nat
      BY <1>1, CronJobFacts, CronAssumption, PayloadType
    <2>2. c.startTimeout # None => c.payload.startDate > now
      BY <1>1, <2>1 DEF TimersOK, Latest, StartTimerDue
    <2>3. CASE c.startTimeout = None
      BY <1>1, <2>3, AnnouncedTickIsReal
    <2>4. CASE c.startTimeout # None
      <3>1. Truncate(c.payload.startDate) = c.payload.startDate
        BY <1>1, <2>1, <2>2, <2>4
      <3> QED
        BY <1>1, <2>1, <2>4, <3>1, AnnouncedStartIsReal, NoOverflow,
           \A p \in Payloads : p.startDate <= MaxTime DEF IsOnce
    <2> QED
      BY <2>3, <2>4
  <1>2. Inv => AnnouncedRunIsReal
    BY <1>1 DEF AnnouncedRunIsReal
  <1> QED
    BY <1>2, Invariance, NoOverflow, PTL

-----------------------------------------------------------------------------
\* The stream shows the map

\* A snapshot shows which of the user's jobs are attached, and their status.
LEMMA SameSnapshot ==
  ASSUME NEW a, NEW b, NEW u \in Users,
         \A k \in Jobs : OwnerOf[k] = u =>
           /\ a[k] = None <=> b[k] = None
           /\ a[k] # None => a[k].status = b[k].status
  PROVE  CronJobEvents(a, u) = CronJobEvents(b, u)
  BY DEF CronJobEvents

\* A change of one cron job that is followed by a snapshot for its owner.
LEMMA EmittedIsCurrent ==
  ASSUME TypeOK, SnapshotIsCurrent, NEW j \in Jobs, EmitCronJobsForUser(OwnerOf[j]),
         \A k \in Jobs \ {j} : cronJobs'[k] = cronJobs[k]
  PROVE  SnapshotIsCurrent'
  <1> SUFFICES ASSUME NEW u \in Users
               PROVE  scheduledEvent'[u] = CronJobEvents(cronJobs', u)
    BY DEF SnapshotIsCurrent, CronJobEvents
  <1>1. CASE u = OwnerOf[j]
    BY <1>1 DEF EmitCronJobsForUser, TypeOK
  <1>2. CASE u # OwnerOf[j]
    <2>1. scheduledEvent'[u] = CronJobEvents(cronJobs, u)
      BY <1>2 DEF EmitCronJobsForUser, TypeOK, SnapshotIsCurrent
    <2>2. CronJobEvents(cronJobs, u) = CronJobEvents(cronJobs', u)
      BY <1>2, SameSnapshot
    <2> QED
      BY <2>1, <2>2
  <1> QED
    BY <1>1, <1>2

\* A change no snapshot follows is none the snapshot would show.
LEMMA UnshownIsCurrent ==
  ASSUME TypeOK, SnapshotIsCurrent, NEW j \in Jobs,
         StartTimerRecurring(j) \/ CronTick(j)
  PROVE  SnapshotIsCurrent'
  <1>1. cronJobs[j] \in CronJob /\ cronJobs[j] # None
    BY DEF TypeOK, StartTimerRecurring, StartTimerDue, CronTick, CronTickDue
  <1>2. PICK c : /\ cronJobs' = [cronJobs EXCEPT ![j] = c]
                 /\ c # None /\ c.status = cronJobs[j].status
    <2>1. CASE StartTimerRecurring(j)
      <3> DEFINE c == [cronJobs[j] EXCEPT !.startTimeout = None, !.cronSince = now]
      <3>1. cronJobs' = [cronJobs EXCEPT ![j] = c]
        BY <2>1, <1>1 DEF StartTimerRecurring, TypeOK, CronJob
      <3> DEFINE fired == [cronJobs[j] EXCEPT !.startTimeout = None]
      <3>2. fired \in CronJob /\ fired.status = cronJobs[j].status
        BY <1>1 DEF CronJob
      <3>3. c = [fired EXCEPT !.cronSince = now]
        BY <1>1 DEF CronJob
      <3> HIDE DEF fired
      <3>4. [fired EXCEPT !.cronSince = now] \in CronJob
            /\ [fired EXCEPT !.cronSince = now].status = fired.status
        BY <3>2, CronAssumption DEF CronJob, TypeOK
      <3> QED
        BY <3>1, <3>2, <3>3, <3>4, NoneIsNoRecord
    <2>2. CASE CronTick(j)
      <3> DEFINE c == [cronJobs[j] EXCEPT !.cronSince = now]
      <3>1. cronJobs' = [cronJobs EXCEPT ![j] = c]
        BY <2>2, <1>1 DEF CronTick, TypeOK, CronJob
      <3>2. c \in CronJob /\ c.status = cronJobs[j].status
        BY <1>1, CronAssumption DEF CronJob, TypeOK
      <3> QED
        BY <3>1, <3>2, NoneIsNoRecord
    <2> QED
      BY <2>1, <2>2
  <1> SUFFICES ASSUME NEW u \in Users
               PROVE  scheduledEvent'[u] = CronJobEvents(cronJobs', u)
    BY DEF SnapshotIsCurrent, CronJobEvents
  <1>3. scheduledEvent'[u] = CronJobEvents(cronJobs, u)
    BY DEF StartTimerRecurring, CronTick, SnapshotIsCurrent
  <1>4. \A k \in Jobs : (cronJobs[k] = None <=> cronJobs'[k] = None)
                        /\ (cronJobs[k] # None => cronJobs[k].status = cronJobs'[k].status)
    BY <1>1, <1>2 DEF TypeOK
  <1>5. CronJobEvents(cronJobs, u) = CronJobEvents(cronJobs', u)
    BY <1>4, SameSnapshot
  <1> QED
    BY <1>3, <1>5

LEMMA NextSnapshot == TypeOK /\ SnapshotIsCurrent /\ [Next]_vars => SnapshotIsCurrent'
  <1> SUFFICES ASSUME TypeOK, SnapshotIsCurrent, [Next]_vars PROVE SnapshotIsCurrent'
    OBVIOUS
  <1>1. CASE UNCHANGED <<cronJobs, scheduledEvent>>
    BY <1>1 DEF SnapshotIsCurrent, CronJobEvents
  <1>2. ASSUME NEW j \in Jobs,
               StartTimerOnce(j) \/ StopTimer(j) \/ \E p \in Payloads : Schedule(j, p)
        PROVE  SnapshotIsCurrent'
    BY <1>2, EmittedIsCurrent DEF StartTimerOnce, StopTimer, Schedule, TypeOK
  <1>3. ASSUME NEW j \in Jobs, StartTimerRecurring(j) \/ CronTick(j)
        PROVE  SnapshotIsCurrent'
    BY <1>3, UnshownIsCurrent
  <1>4. ASSUME NEW j \in Jobs, Delete(j)
        PROVE  SnapshotIsCurrent'
    <2>1. CASE cronJobs[j] = None
      <3>1. UNCHANGED <<cronJobs, scheduledEvent>>
        BY <2>1, <1>4 DEF Delete, TypeOK
      <3> QED
        BY <3>1, <1>1
    <2>2. CASE cronJobs[j] # None
      BY <2>2, <1>4, EmittedIsCurrent DEF Delete, TypeOK
    <2> QED
      BY <2>1, <2>2
  <1> QED
    BY <1>1, <1>2, <1>3, <1>4 DEF Next, Callback, Tick, vars

\* Whatever is attached, replaced, fired or deleted, the last snapshot each user
\* was sent shows the cron jobs as they are, although two callbacks emit none.
THEOREM SnapshotsAreCurrent ==
  ASSUME NoOverflow
  PROVE  Spec => []SnapshotIsCurrent
  <1>1. Init => SnapshotIsCurrent
    BY DEF Init, SnapshotIsCurrent
  <1>2. Inv => TypeOK
    BY DEF Inv
  <1> QED
    BY <1>1, <1>2, NextSnapshot, Invariance, PTL DEF Spec

-----------------------------------------------------------------------------
\* The scheduler implements its contract

\* The contract's own copies of the definitions of Cron.
LEMMA SameInstants == \A p \in Payloads : Contract!CronInstants(p) = CronInstants(p)
  BY DEF Contract!CronInstants, CronInstants, Contract!Truncate, Truncate

LEMMA SameLater == \A s, t : Contract!Later(s, t) = Latest(s, t)
  BY DEF Contract!Later, Latest

\* An instant owed to an attached cron job, in terms of its timers.
LEMMA AttachedFacts ==
  ASSUME Inv, NEW j \in Jobs
  PROVE  /\ Attached[j] # None <=> cronJobs[j] # None
         /\ cronJobs[j] # None =>
              /\ Attached[j].payload = cronJobs[j].payload
              /\ Attached[j].since = cronJobs[j].attachedAt
  BY CronJobFacts, NoneIsNoRecord DEF Attached

LEMMA InitRefines == Init => Contract!Init
  BY DEF Init, Contract!Init, Attached

LEMMA ScheduleRefines ==
  ASSUME NoOverflow, Inv, NEW j \in Jobs, NEW p \in Payloads, Schedule(j, p), UNCHANGED now
  PROVE  Contract!Attach(j, p)
  <1>1. NewCronJob(p).payload = p /\ NewCronJob(p).attachedAt = now
    BY DEF NewCronJob
  <1>2. NewCronJob(p) # None
    BY NewCronJobOK, NoneIsNoRecord DEF Inv
  <1> QED
    BY <1>1, <1>2 DEF Schedule, Contract!Attach, Attached, Inv, TypeOK

LEMMA DeleteRefines ==
  ASSUME Inv, NEW j \in Jobs, Delete(j), UNCHANGED now
  PROVE  Contract!Detach(j)
  BY DEF Delete, Contract!Detach, Attached, Inv, TypeOK

\* A callback that starts no job leaves what the contract sees alone.
LEMMA SilentCallback ==
  ASSUME Inv, NEW j \in Jobs, NEW d \in CronJob, cronJobs[j] # None,
         cronJobs' = [cronJobs EXCEPT ![j] = d],
         d.payload = cronJobs[j].payload, d.attachedAt = cronJobs[j].attachedAt
  PROVE  Attached' = Attached
  BY NoneIsNoRecord DEF Attached, Inv, TypeOK

LEMMA StopTimerRefines ==
  ASSUME Inv, NEW j \in Jobs, StopTimer(j), UNCHANGED now
  PROVE  UNCHANGED Contract!vars
  <1> DEFINE d == [cronJobs[j] EXCEPT !.stopTimeout = None, !.cronSince = None,
                                      !.status = "stopped"]
  <1>1. cronJobs[j] \in CronJob /\ cronJobs[j] # None
    BY CronJobFacts DEF StopTimer, StopTimerDue
  <1>2. d \in CronJob /\ d.payload = cronJobs[j].payload /\ d.attachedAt = cronJobs[j].attachedAt
    BY <1>1 DEF CronJob
  <1>3. cronJobs' = [cronJobs EXCEPT ![j] = d]
    BY <1>1 DEF StopTimer, Inv, TypeOK, CronJob
  <1> HIDE DEF d
  <1> QED
    BY <1>1, <1>2, <1>3, SilentCallback DEF StopTimer, Contract!vars

\* What an attached cron job owes now, in terms of its timers.
LEMMA OwedNow ==
  ASSUME Inv, NEW j \in Jobs, cronJobs[j] # None
  PROVE  LET c == cronJobs[j]
             later == Latest(c.payload.startDate, c.attachedAt)
         IN  Contract!MayStart(Attached[j], now) <=>
               /\ ~c.payload.isStopped
               /\ c.payload.endDate # None => now <= c.payload.endDate
               /\ IF c.payload.type = "once" THEN now = later
                  ELSE \/ now \in CronInstants(c.payload) /\ now > later
                       \/ now = c.payload.startDate /\ now > c.attachedAt
  BY AttachedFacts, CronJobFacts, SameInstants, SameLater
     DEF Contract!MayStart, Contract!Owed

LEMMA StartTimerOnceRefines ==
  ASSUME Inv, NEW j \in Jobs, StartTimerOnce(j), UNCHANGED now
  PROVE  Contract!Start(j)
  <1> DEFINE c == cronJobs[j]
  <1>1. c # None /\ c.startTimeout = now /\ c.payload.type = "once"
    BY DEF StartTimerOnce, StartTimerDue, IsOnce
  <1>2. TimersOK(c, lastStart[j]) /\ now \in Nat /\ None \notin Int /\ c.payload \in Payloads
    BY <1>1, CronJobFacts, CronAssumption
  <1>3. ~c.payload.isStopped /\ c.payload.endDate = None
    BY <1>1, <1>2, PayloadType DEF TimersOK
  <1>4. now = Latest(c.payload.startDate, c.attachedAt) /\ lastStart[j] = None
    BY <1>1, <1>2 DEF TimersOK
  <1>5. Contract!MayStart(Attached[j], now)
    BY <1>1, <1>3, <1>4, OwedNow
  <1>6. Attached[j] # None /\ Attached[j].payload.type = "once"
    BY <1>1, AttachedFacts
  <1>7. Attached' = [Attached EXCEPT ![j] = None]
    BY DEF StartTimerOnce, Attached, Inv, TypeOK
  <1> QED
    BY <1>2, <1>4, <1>5, <1>6, <1>7 DEF Contract!Start, StartTimerOnce, Attached

LEMMA StartTimerRecurringRefines ==
  ASSUME Inv, NEW j \in Jobs, StartTimerRecurring(j), UNCHANGED now
  PROVE  Contract!Start(j) \/ UNCHANGED Contract!vars
  <1> DEFINE c == cronJobs[j]
             d == [c EXCEPT !.startTimeout = None, !.cronSince = now]
  <1>1. c # None /\ c.startTimeout = now /\ c.payload.type # "once"
    BY DEF StartTimerRecurring, StartTimerDue, IsOnce
  <1>2. /\ c \in CronJob /\ TimersOK(c, lastStart[j]) /\ now \in Nat /\ None \notin Int
        /\ c.payload \in Payloads /\ c.attachedAt \in Nat
    BY <1>1, CronJobFacts, CronAssumption
  <1>3. d \in CronJob /\ d.payload = c.payload /\ d.attachedAt = c.attachedAt
    BY <1>2 DEF CronJob
  <1>4. cronJobs' = [cronJobs EXCEPT ![j] = d]
    BY <1>2 DEF StartTimerRecurring, Inv, TypeOK, CronJob
  <1> HIDE DEF d
  <1>5. Attached' = Attached
    BY <1>1, <1>3, <1>4, SilentCallback
  <1>6. CASE ~StartWasInTheFuture(j)
    BY <1>5, <1>6 DEF StartTimerRecurring, Contract!vars
  <1>7. CASE StartWasInTheFuture(j)
    <2>1. c.payload.startDate \in Nat /\ c.payload.endDate \in Nat \cup {None}
          /\ (c.payload.endDate # None => c.payload.startDate <= c.payload.endDate)
      BY <1>2, PayloadType
    <2>2. now = c.payload.startDate /\ now > c.attachedAt /\ lastStart[j] = None
      BY <1>1, <1>2, <1>7, <2>1 DEF TimersOK, Latest, StartWasInTheFuture
    <2>3. ~c.payload.isStopped
      BY <1>1, <1>2 DEF TimersOK
    <2>4. Contract!MayStart(Attached[j], now)
      BY <1>1, <2>1, <2>2, <2>3, OwedNow
    <2>5. Attached[j] # None /\ Attached[j].payload.type # "once"
      BY <1>1, AttachedFacts
    <2>6. [Attached EXCEPT ![j] = IF @.payload.type = "once" THEN None ELSE @] = Attached
      BY <2>5 DEF Attached
    <2>7. lastStart[j] # now /\ lastStart' = [lastStart EXCEPT ![j] = now] /\ now' = now
      BY <1>2, <1>7, <2>2 DEF StartTimerRecurring
    <2> QED
      BY <1>5, <2>4, <2>5, <2>6, <2>7 DEF Contract!Start
  <1> QED
    BY <1>6, <1>7

LEMMA CronTickRefines ==
  ASSUME Inv, NEW j \in Jobs, CronTick(j), UNCHANGED now
  PROVE  Contract!Start(j)
  <1> DEFINE c == cronJobs[j]
             d == [c EXCEPT !.cronSince = now]
  <1>1. c # None /\ c.cronSince # None /\ c.cronSince < now /\ now \in CronInstants(c.payload)
    BY DEF CronTick, CronTickDue
  <1>2. /\ c \in CronJob /\ TimersOK(c, lastStart[j]) /\ now \in Nat /\ None \notin Int
        /\ c.payload \in Payloads /\ c.attachedAt \in Nat /\ c.cronSince \in Nat
        /\ c.stopTimeout \in Nat \cup {None} /\ c.status \in {"idle", "stopped"}
    BY <1>1, CronJobFacts, CronAssumption
  <1>3. d \in CronJob /\ d.payload = c.payload /\ d.attachedAt = c.attachedAt
    BY <1>2 DEF CronJob
  <1>4. cronJobs' = [cronJobs EXCEPT ![j] = d]
    BY <1>2 DEF CronTick, Inv, TypeOK, CronJob
  <1> HIDE DEF d
  <1>5. Attached' = Attached
    BY <1>1, <1>3, <1>4, SilentCallback
  <1>6. c.payload.startDate \in Nat /\ c.payload.endDate \in Nat \cup {None}
    BY <1>2, PayloadType
  <1>7. c.status = "idle" /\ c.payload.type # "once" /\ ~c.payload.isStopped
    BY <1>1, <1>2 DEF TimersOK
  <1>8. now > Latest(c.payload.startDate, c.attachedAt) /\ lastStart[j] # now
    BY <1>1, <1>2, <1>6 DEF TimersOK, Latest
  <1>9. c.payload.endDate # None => now <= c.payload.endDate
    BY <1>1, <1>2, <1>6, <1>7 DEF TimersOK, Latest
  <1>10. Contract!MayStart(Attached[j], now)
    BY <1>1, <1>7, <1>8, <1>9, OwedNow
  <1>11. Attached[j] # None /\ Attached[j].payload.type # "once"
    BY <1>1, <1>7, AttachedFacts
  <1> QED
    BY <1>5, <1>8, <1>10, <1>11 DEF Contract!Start, CronTick, Attached

\* Nothing is owed when no timer and no cron task is due.
LEMMA TickRefines ==
  ASSUME Inv, Tick
  PROVE  Contract!Tick
  <1>1. ASSUME NEW j \in Jobs, Attached[j] # None, Contract!MustStart(Attached[j], now)
        PROVE  lastStart[j] = now
    <2> DEFINE c == cronJobs[j]
    <2>1. c # None /\ Attached[j].payload = c.payload
      BY <1>1, AttachedFacts
    <2>2. /\ TimersOK(c, lastStart[j]) /\ now \in Nat /\ None \notin Int
          /\ c.payload \in Payloads /\ c.attachedAt \in Nat /\ c.status \in {"idle", "stopped"}
          /\ c.startTimeout \in Nat \cup {None} /\ c.cronSince \in Nat \cup {None}
      BY <2>1, CronJobFacts, CronAssumption
    <2>3. c.payload.startDate \in Nat /\ c.payload.endDate \in Nat \cup {None}
      BY <2>2, PayloadType
    <2>4. /\ ~c.payload.isStopped
          /\ c.payload.endDate # None => now <= c.payload.endDate
          /\ now = c.payload.endDate => now = c.payload.startDate
      BY <1>1, <2>1, OwedNow DEF Contract!MustStart
    <2>5. IF c.payload.type = "once" THEN now = Latest(c.payload.startDate, c.attachedAt)
          ELSE \/ now \in CronInstants(c.payload)
                  /\ now > Latest(c.payload.startDate, c.attachedAt)
               \/ now = c.payload.startDate /\ now > c.attachedAt
      BY <1>1, <2>1, OwedNow DEF Contract!MustStart
    <2>6. c.startTimeout # now
      BY <2>1 DEF Tick, StartTimerDue
    <2>7. c.cronSince # None /\ now \in CronInstants(c.payload) => ~(c.cronSince < now)
      BY <2>1 DEF Tick, CronTickDue
    <2> HIDE DEF c
    <2>8. CASE c.status = "stopped"
      <3>1. now = c.payload.endDate /\ now = c.payload.startDate
        BY <2>2, <2>3, <2>4, <2>8 DEF TimersOK
      <3>2. c.payload.type # "once"
        <4>1. c.payload.endDate # None
          BY <2>2, <3>1
        <4> QED
          BY <2>2, <4>1, PayloadType
      <3>3. now > c.attachedAt
        BY <2>2, <2>3, <2>5, <3>2 DEF Latest
      <3> QED
        BY <2>2, <2>4, <2>8, <3>1, <3>3 DEF TimersOK
    <2>9. CASE c.status = "idle"
      <3>1. c.startTimeout = None
        BY <2>2, <2>3, <2>5, <2>6 DEF TimersOK, Latest
      <3>2. c.cronSince # None /\ c.payload.type # "once"
        BY <2>2, <2>9, <3>1 DEF TimersOK
      <3>3. c.cronSince = now /\ now > c.attachedAt
        BY <2>2, <2>3, <2>5, <2>7, <3>2 DEF TimersOK, Latest
      <3> QED
        BY <2>2, <3>3 DEF TimersOK
    <2> QED
      BY <2>2, <2>8, <2>9
  <1>2. Attached' = Attached /\ now' = now + 1 /\ lastStart' = lastStart
    BY DEF Tick, Attached
  <1> QED
    BY <1>1, <1>2 DEF Contract!Tick

LEMMA NextRefines == NoOverflow /\ Inv /\ [Next]_vars => [Contract!Next]_(Contract!vars)
  <1> SUFFICES ASSUME NoOverflow, Inv, [Next]_vars
               PROVE  Contract!Next \/ UNCHANGED Contract!vars
    OBVIOUS
  <1>1. CASE UNCHANGED vars
    BY <1>1 DEF vars, Contract!vars, Attached
  <1>2. CASE Tick
    BY <1>2, TickRefines DEF Contract!Next
  <1>3. ASSUME NEW j \in Jobs, UNCHANGED now, Callback(j)
        PROVE  Contract!Next \/ UNCHANGED Contract!vars
    BY <1>3, StartTimerOnceRefines, StartTimerRecurringRefines, StopTimerRefines,
       CronTickRefines DEF Callback, Contract!Next
  <1>4. ASSUME NEW j \in Jobs, UNCHANGED now, Delete(j)
        PROVE  Contract!Next
    BY <1>4, DeleteRefines DEF Contract!Next
  <1>5. ASSUME NEW j \in Jobs, NEW p \in Payloads, UNCHANGED now, Schedule(j, p)
        PROVE  Contract!Next
    BY <1>5, ScheduleRefines DEF Contract!Next
  <1> QED
    BY <1>1, <1>2, <1>3, <1>4, <1>5 DEF Next

\* For every set of jobs and schedules that setTimeout can wait for, the
\* scheduler starts each job exactly when the contract says: at no instant its
\* schedule does not name, at every one it names, and never twice at one.
THEOREM SchedulerImplementsContract ==
  ASSUME NoOverflow
  PROVE  Spec => ImplementsContract
  BY InitRefines, NextRefines, Invariance, NoOverflow, PTL
     DEF Spec, ImplementsContract, Contract!Spec

=============================================================================
