------------------------------- MODULE JobForm -------------------------------
(***************************************************************************)
(* The way of a job from its form (jobFormSheet: the form, its tool dialog, *)
(* the payloads it sends) to what the backend saves (backend/src/modules/  *)
(* jobs: schemas, validators, mappers).  The state of the form changes by  *)
(* the event handlers below, each a function of the state.                 *)
(*                                                                         *)
(* A tool is [type, toolId, targets, ...] with keywords and maxPages for a *)
(* scraper, subject and body for an e-mail; None is a missing field, "" a  *)
(* blank text.  Dates are days and times are moments of a day (None when   *)
(* blank), an instant is their sum; an id is a tuple.                      *)
(***************************************************************************)
EXTENDS Absent

CONSTANT DayLength   \* moments of a day: the times of the form are 0..DayLength - 1

ASSUME DayHasMoments == DayLength \in Nat \ {0}

-----------------------------------------------------------------------------
\* What the backend holds a payload to, and the ids it draws

\* The zod schemas: keyword lists are not empty, page limits not negative.
schemaAccepts(tool) ==
  tool.type = "scraper" =>
    \A part \in {tool} \cup Range(tool.targets) :
      part.keywords # <<>> /\ (part.maxPages # None => part.maxPages >= 0)

\* Each target of a tool has the setting, or the tool has it.
Covered(tool, setting, missing) ==
  \A i \in DOMAIN tool.targets : tool[setting] \notin missing \/ tool.targets[i][setting] \notin missing

validateToolsSchema(tools) ==
  \A i \in DOMAIN tools :
    IF tools[i].type = "scraper"
    THEN /\ Covered(tools[i], "keywords", {None, <<>>})
         /\ Covered(tools[i], "maxPages", {None})
    ELSE /\ Covered(tools[i], "subject", {None, ""})
         /\ Covered(tools[i], "body", {None, ""})

validateJobSchedule(schedule, now) ==
  schedule # None =>
    /\ schedule.startDate >= now
    /\ schedule.endDate # None =>
         /\ schedule.startDate <= schedule.endDate /\ schedule.endDate >= now
         /\ schedule.type # "once"

\* The schemas of a tool in a request: a new job's tools lose the ids they are sent with,
\* an update's keep them.
createJobToolSchema(tool) ==
  [tool EXCEPT !.toolId = None, !.targets = Mapped(LAMBDA t : [t EXCEPT !.targetId = None], @)]

updateJobToolSchema(tool) == tool

createJobInputSchema(payload) == [payload EXCEPT !.tools = Mapped(createJobToolSchema, @)]

updateJobInputSchema(payload) == [payload EXCEPT !.tools = Mapped(updateJobToolSchema, @)]

\* The checks of the middleware, in any order: each refuses with the same answer.
validateCreateOrUpdateJobPayload(payload, now) ==
  /\ payload.tools # <<>>
  /\ \A i \in DOMAIN payload.tools : schemaAccepts(payload.tools[i])
  /\ validateToolsSchema(payload.tools)
  /\ validateJobSchedule(payload.schedule, now)

\* Mutant: every save draws new ids.
mapToIdsAnew(tool, fresh) ==
  [tool EXCEPT !.toolId = <<fresh>>,
     !.targets = [i \in DOMAIN @ |-> [@[i] EXCEPT !.targetId = <<fresh, i>>]]]

\* randomUUID() draws an id no other tool or target has: <<fresh>>, <<fresh, i>>.
mapToIds(tool, fresh) ==
  LET withId(target, i) == [target EXCEPT !.targetId = OrElse(@, <<fresh, i>>)] IN
  [tool EXCEPT !.toolId = OrElse(@, <<fresh>>), !.targets = [i \in DOMAIN @ |-> withId(@[i], i)]]

\* The handlers of both requests.
Saved(tools) == [i \in DOMAIN tools |-> mapToIds(tools[i], i)]

-----------------------------------------------------------------------------
\* The form sheet

emptyForm ==
  [name |-> "", scheduleType |-> "", scheduleStatus |-> "idle", startDate |-> None,
   startTime |-> None, endDate |-> None, endTime |-> None, tools |-> <<>>, isEditing |-> FALSE]

onScheduleTypeChange(state, type) ==
  LET typed == [state EXCEPT !.scheduleType = type]
      ended == IF type \in {"", "once"} THEN [typed EXCEPT !.endDate = None, !.endTime = None] ELSE typed
  IN IF type = "" THEN [ended EXCEPT !.startDate = None, !.startTime = None] ELSE ended

onFieldChange(state, field, value) == [state EXCEPT ![field] = value]

onDateChange(state, field, date) == [state EXCEPT ![field] = date]

onScheduleStatusChange(state, status) == [state EXCEPT !.scheduleStatus = status]

onToolAdd(state, tool) == [state EXCEPT !.tools = Append(@, tool)]

\* Every tool with the same id is replaced; tools not saved yet have none.
onToolEdit(state, tool) ==
  [state EXCEPT !.tools = Mapped(LAMBDA t : IF t.toolId = tool.toolId THEN tool ELSE t, @)]

onToolRemove(state, index) == [state EXCEPT !.tools = RemoveAt(@, index)]

\* The form of a saved tool: a missing setting becomes an empty one.
mapToJobFormTool(tool) ==
  LET part(p) ==
        IF tool.type = "scraper"
        THEN [p EXCEPT !.keywords = OrElse(@, <<>>), !.maxPages = OrElse(@, 0)]
        ELSE [p EXCEPT !.subject = OrElse(@, ""), !.body = OrElse(@, "")]
  IN [part(tool) EXCEPT !.targets = Mapped(part, @)]

mapToJobFormTools(tools) == Mapped(mapToJobFormTool, tools)

DateOf(instant) == IF instant = None THEN None ELSE instant \div DayLength
TimeOf(instant) == IF instant = None THEN None ELSE instant % DayLength

\* The effect of [isOpen, job] while the sheet is open; job is None for a new one.  It
\* runs again whenever the page replaces the job it shows.
populate(state, job) ==
  IF job = None THEN [emptyForm EXCEPT !.isEditing = FALSE]
  ELSE LET s == job.schedule IN
       [name |-> job.name, tools |-> mapToJobFormTools(job.tools), isEditing |-> TRUE,
        scheduleType |-> IF s = None THEN "" ELSE s.type,
        scheduleStatus |-> IF s = None THEN "idle" ELSE s.status,
        startDate |-> IF s = None THEN None ELSE DateOf(s.startDate),
        startTime |-> IF s = None THEN None ELSE TimeOf(s.startDate),
        endDate |-> IF s = None THEN None ELSE DateOf(s.endDate),
        endTime |-> IF s = None THEN None ELSE TimeOf(s.endDate)]

\* The fields the browser insists on before the submit handler is called.
requiredFieldsFilled(state) ==
  state.name # "" /\ (state.scheduleType # "" => state.startDate # None /\ state.startTime # None)

-----------------------------------------------------------------------------
\* The tool dialog

initialScraperTool ==
  [type |-> "scraper", toolId |-> None, keywords |-> <<>>, maxPages |-> 0, targets |-> <<>>]

initialEmailTool ==
  [type |-> "email", toolId |-> None, subject |-> "", body |-> "", targets |-> <<>>]

onToolTypeChange(type) ==
  CASE type = "scraper" -> initialScraperTool
    [] type = "email" -> initialEmailTool
    [] OTHER -> None

onToolMaxPagesChange(tool, maxPages) == [tool EXCEPT !.maxPages = maxPages]

onTargetChange(tool, target) ==
  [tool EXCEPT !.targets =
     Append(@, [target |-> target, targetId |-> None, keywords |-> <<>>, maxPages |-> 0])]

\* By Enter or by the button, when the draft is not blank.
onKeywordAdd(tool, keyword) == [tool EXCEPT !.keywords = Append(@, keyword)]

onKeywordRemove(tool, index) == [tool EXCEPT !.keywords = RemoveAt(@, index)]

onTargetKeywordAdd(tool, i, keyword) == [tool EXCEPT !.targets[i].keywords = Append(@, keyword)]

onTargetKeywordRemove(tool, i, index) == [tool EXCEPT !.targets[i].keywords = RemoveAt(@, index)]

onTargetMaxPagesChange(tool, i, maxPages) == [tool EXCEPT !.targets[i].maxPages = maxPages]

onTargetRemove(tool, i) == [tool EXCEPT !.targets = RemoveAt(@, i)]

\* The keyword fields are valid: setCustomValidity() of the tool's and of the targets'.
keywordsValid(tool) ==
  \/ tool.keywords # <<>>
  \/ tool.targets # <<>> /\ \A i \in DOMAIN tool.targets : tool.targets[i].keywords # <<>>

\* The dialog can be submitted.
canSubmitTool(tool) == tool # None /\ tool.targets # <<>> /\ (tool.type = "scraper" => keywordsValid(tool))

-----------------------------------------------------------------------------
\* Payloads

Instant(date, time) == date * DayLength + time

InvalidTime == [throws |-> TRUE]

\* None is null; InvalidTime when a date has no time, in the submit handler's try block.
mapToSchedule(state) ==
  CASE state.scheduleType = "" -> None
    [] state.scheduleType # ""
       /\ (state.startDate = None \/ state.startTime = None \/ (state.endDate # None /\ state.endTime = None)) ->
         InvalidTime
    [] OTHER ->
         [type |-> state.scheduleType, status |-> state.scheduleStatus,
          startDate |-> Instant(state.startDate, state.startTime),
          endDate |-> IF state.endDate = None THEN None ELSE Instant(state.endDate, state.endTime)]

KeywordsOrNone(part) == [part EXCEPT !.keywords = IF @ = <<>> THEN None ELSE @]

scraperPayload(tool) == [KeywordsOrNone(tool) EXCEPT !.targets = Mapped(KeywordsOrNone, @)]

\* An update of an e-mail tool sends no body of the tool.
mapToUpdateJobTool(tool) ==
  IF tool.type = "scraper" THEN scraperPayload(tool) ELSE [tool EXCEPT !.body = None]

\* A new job's tool is sent without its id, its targets with theirs.
mapToCreateJobTool(tool) ==
  LET sent == IF tool.type = "scraper" THEN scraperPayload(tool) ELSE tool
  IN [sent EXCEPT !.toolId = None]

mapToUpdateJobPayload(state) ==
  [name |-> state.name, tools |-> Mapped(mapToUpdateJobTool, state.tools), schedule |-> mapToSchedule(state)]

mapToCreateJobPayload(state) ==
  [name |-> state.name, tools |-> Mapped(mapToCreateJobTool, state.tools), schedule |-> mapToSchedule(state)]

onFormSubmit(state) ==
  IF state.isEditing THEN mapToUpdateJobPayload(state) ELSE mapToCreateJobPayload(state)

-----------------------------------------------------------------------------
\* Properties

HasNegativeLimit(tool) == \E part \in {tool} \cup Range(tool.targets) : part.maxPages < 0

\* The form and the request have the same rules (FR-JOBS-TLR-003, 004) but for one: a scraper
\* the dialog lets the user add or save, in a new job or in an old one, is refused by the
\* backend exactly when one of its page limits is negative, which the field does not prevent.
RefusedOnlyIfNegative(tool) ==
  (tool # None /\ tool.type = "scraper" /\ canSubmitTool(tool)) =>
    \A payload \in {mapToCreateJobTool(tool), mapToUpdateJobTool(tool)} :
      validateCreateOrUpdateJobPayload([tools |-> <<payload>>, schedule |-> None], 0)
        <=> ~HasNegativeLimit(tool)

\* The schedule a form sends is whole: no type without a start, no once schedule with an
\* end, none at all without a type (FR-JOBS-ONCE-001); the one case in which nothing is
\* sent is an end date without its time.
ScheduleIsWhole(state) ==
  LET schedule == mapToSchedule(state) IN
  requiredFieldsFilled(state) =>
    /\ schedule = InvalidTime <=> (state.scheduleType # "" /\ state.endDate # None /\ state.endTime = None)
    /\ (schedule = None) <=> (state.scheduleType = "")
    /\ (schedule \notin {None, InvalidTime} /\ schedule.type = "once") => schedule.endDate = None

\* Tools and targets keep their identity across an edit, new ones get their own
\* (FR-JOBS-TLR-006): what is saved has distinct ids, and after an edit those the form shows.
IdsAreStable(state) ==
  LET payload == onFormSubmit(state)
      validated == IF state.isEditing THEN updateJobInputSchema(payload) ELSE createJobInputSchema(payload)
      saved == Saved(validated.tools)
      shown(i) == state.tools[i].toolId
      targetIds(tool) == Mapped(LAMBDA t : t.targetId, tool.targets)
  IN /\ state.isEditing =>
          \A i \in DOMAIN saved :
            /\ shown(i) # None => saved[i].toolId = shown(i)
            /\ \A k \in DOMAIN saved[i].targets :
                 state.tools[i].targets[k].targetId \in {None, saved[i].targets[k].targetId}
     /\ \A i \in DOMAIN saved : IsInjective(targetIds(saved[i]))
     /\ IsInjective(Mapped(LAMBDA tool : tool.toolId, saved))

=============================================================================
