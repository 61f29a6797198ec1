-------------------------------- MODULE Cron --------------------------------
(***************************************************************************)
(* Schedules and the instants they name.  A schedule is what an owner      *)
(* saves: a type, a start, an optional end; an attach payload is a         *)
(* schedule plus the owner's "stopped" intent.  Time is counted in ticks   *)
(* of half a minute (Minute = 2), so that a start that is not on a minute  *)
(* boundary can be told from the cron instant it is truncated to.          *)
(***************************************************************************)
EXTENDS Integers, FiniteSetsExt

CONSTANTS
  None,      \* the code's null / undefined
  Payloads,  \* the schedules owners use
  Minute,    \* ticks in a minute, the resolution of a five-field cron rule
  Period,    \* recurring type -> ticks between two occurrences
  MaxTime    \* bound: the last instant the clock reaches

RecurringTypes == DOMAIN Period
ScheduleTypes  == {"once"} \cup RecurringTypes

\* Instants 0..MaxTime can be reached; dates may lie beyond them.
SchedulePayload ==
  [type : ScheduleTypes, startDate : Nat, endDate : Nat \cup {None}, isStopped : BOOLEAN]

\* What the request validators let through: a once schedule has no end
\* (FR-JOBS-ONCE-001), and an end is not before the start.
ValidPayload(p) ==
  /\ p \in SchedulePayload
  /\ p.endDate # None => p.type # "once" /\ p.startDate <= p.endDate

\* Period is given with its recurring types only, each a positive number of whole minutes.
ASSUME CronAssumption ==
  /\ None \notin Int
  /\ MaxTime \in Nat
  /\ Minute \in Nat \ {0}
  /\ "once" \notin RecurringTypes
  /\ Period \in [RecurringTypes -> Nat \ {0}]
  /\ \A type \in RecurringTypes : Period[type] % Minute = 0
  /\ \A p \in Payloads : ValidPayload(p)

\* formatCronExpression keeps the minute and drops what is finer.
Truncate(t) == t - (t % Minute)

\* The instants matched by the cron expression of a recurring payload.
CronInstants(p) ==
  {t \in 0..MaxTime : (t - Truncate(p.startDate)) % Period[p.type] = 0}

\* Mutant: current date set to the start itself, so that the start is skipped.
NextRunDateSkipsStart(p, t) ==
  LET runs == {u \in CronInstants(p) :
                 u > t /\ u > p.startDate /\ (p.endDate # None => u <= p.endDate)}
  IN  IF runs = {} THEN None ELSE Min(runs)

\* getNextRunDate: the first match after t, the start itself counting while
\* it lies ahead, none past the end; null when there is none.
NextRunDate(p, t) ==
  LET after == IF t < p.startDate THEN p.startDate - 1 ELSE t
      runs  == {u \in CronInstants(p) : u > after /\ (p.endDate # None => u <= p.endDate)}
  IN  IF runs = {} THEN None ELSE Min(runs)

=============================================================================
