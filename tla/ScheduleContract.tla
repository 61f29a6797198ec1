-------------------------- MODULE ScheduleContract --------------------------
(***************************************************************************)
(* What the scheduler promises about WHEN a job runs, with no timer in     *)
(* sight: from the moment a schedule is attached, the job is started once  *)
(* at every instant the schedule names, at no other instant, and time does *)
(* not move past an instant at which a start is still owed                 *)
(* (FR-JOBS-SCH-004, FR-JOBS-SCH-005, FR-JOBS-SSC-002, FR-JOBS-SCH-009).   *)
(***************************************************************************)
EXTENDS Cron

CONSTANT Jobs

VARIABLES
  now,        \* the clock
  attached,   \* job -> [payload, since], or None
  lastStart   \* job -> instant of its last start under the current attachment, or None

vars == <<now, attached, lastStart>>

\* The later of two instants.
Later(s, t) == IF s > t THEN s ELSE t

\* The instants owed to an attachment: the start if it still lay ahead, then
\* every cron instant after it; no catch-up for what passed before.
Owed(a) ==
  LET p == a.payload IN
  IF p.type = "once"
  THEN {Later(p.startDate, a.since)}
  ELSE {t \in CronInstants(p) : t > Later(p.startDate, a.since)}
         \cup {t \in {p.startDate} : t > a.since}

MayStart(a, t) ==
  /\ ~a.payload.isStopped
  /\ t \in Owed(a)
  /\ a.payload.endDate # None => t <= a.payload.endDate

\* An occurrence at the very end of the schedule races the end: it may go
\* either way, unless it is also the start.
MustStart(a, t) ==
  /\ MayStart(a, t)
  /\ t = a.payload.endDate => t = a.payload.startDate

Init ==
  /\ now = 0
  /\ attached = [j \in Jobs |-> None]
  /\ lastStart = [j \in Jobs |-> None]

Attach(j, p) ==
  /\ attached' = [attached EXCEPT ![j] = [payload |-> p, since |-> now]]
  /\ lastStart' = [lastStart EXCEPT ![j] = None]
  /\ UNCHANGED now

Detach(j) ==
  /\ attached' = [attached EXCEPT ![j] = None]
  /\ lastStart' = [lastStart EXCEPT ![j] = None]
  /\ UNCHANGED now

\* A once schedule is spent by its start.
Start(j) ==
  /\ attached[j] # None
  /\ MayStart(attached[j], now)
  /\ lastStart[j] # now
  /\ lastStart' = [lastStart EXCEPT ![j] = now]
  /\ attached' = [attached EXCEPT ![j] = IF @.payload.type = "once" THEN None ELSE @]
  /\ UNCHANGED now

Tick ==
  /\ \A j \in Jobs :
       attached[j] # None /\ MustStart(attached[j], now) => lastStart[j] = now
  /\ now' = now + 1
  /\ UNCHANGED <<attached, lastStart>>

Next ==
  \/ \E j \in Jobs : \E p \in Payloads : Attach(j, p)
  \/ \E j \in Jobs : Detach(j) \/ Start(j)
  \/ Tick

Spec == Init /\ [][Next]_vars

=============================================================================
