# Fullstack dashboard: a TLA+ model

The repository is a dashboard whose users keep *jobs* (scrapers, e-mails) that run on a
schedule or on demand, and *conversations* in which a model answers prompts with the tools of
an MCP server. `backend/` is an Express process on one Node event loop over MongoDB;
`mcp-backend/` is the MCP server; `frontend/` is a React client that calls the HTTP API and
listens to two event streams (jobs and MCP).

This directory models what decides *when something runs, who learns of it and what a user may
rely on*, in all three programs. TLC checks small instances; TLAPS proves what matters most of them
for every instance: of the scheduler, the delegator, the jobs handlers with their restarts, the
scraper, the runner of prompts, the life of the two servers, the browser's session and the jobs
page; and of what the backend and the MCP server answer to a request, a history of calls or an
environment, whatever it is.

What is hard here is not parallelism (each process has one thread) but what happens *between two
awaits*: timers firing while a handler waits for the database, a stop racing a reply, runs of one
job that overlap, streams that break, state rebuilt after a crash, React effects that run twice.

## Inventory

| Part | State | Operations | Interacts with | Correct when |
| --- | --- | --- | --- | --- |
| Scheduler (`aop/scheduler`) | `cronJobs`: per job a start timer, an end timer, a cron task, a status | `schedule`, `delete`, timer and cron callbacks | calls the Delegator; emits `jobs-scheduled` | a job starts at exactly the instants its schedule names; a stopped schedule is silent; what the stream announces will happen |
| Delegator (`aop/delegator`) | `pendingJobs`, `runningJobs`; per run an aborter and its progress | `register`, `delegate`, `delegateScheduledJob`, `cancel`, `removeJob` | tools, MongoDB (with retries), Emitter | the queues speak of runs that exist; a stop starts no further tool; a run ends, and is recorded before it is announced |
| Jobs handlers (`modules/jobs`) | locals across awaits | create, update, run, stop, delete, change status, retry, read, stream | MongoDB, Scheduler, Delegator | what is attached follows what was saved; what is deleted is gone |
| Restart (`server/server-initialize-db.ts`) | none | one pass over the saved jobs | Scheduler, Delegator | schedules resume at the right instant |
| Repositories (`aop/db/mongo/repository`) | documents | create, update, list, read, delete, append | MongoDB | users are kept apart; pages make up the list |
| Scraper (`delegator/tools/scraper`) | a browser and a page per target, results so far | `execute` with an abort signal; per target launch, list, open, read, close | two job sites | no target is announced before its browser was asked to close; every vacancy is accounted for; an abort is no fault of the site |
| Prompt runner (`aop/mcp/runner`) | `activePrompts`, `activePromptByConversation`, `finishedPrompts`; per prompt a `PromptRun` | `start`, `permit`, `refuse`, `stop`, the step loop | MCP client, model gateway, conversations, Emitter | one prompt at a time holds a conversation; nothing runs without permission or after a stop; each prompt ends; an answer is a saved turn |
| MCP client, model gateway | map of resource addresses | list, call, read; build the catalogue, read the completion | external services | a name leads to one listed item; every failure has a cause |
| Emitter and streams | buffered target events; open connections | emit, subscribe, replay on connect | all of the above, the frontend | a stream is sent its user's events and no others, from its snapshot to its end |
| HTTP pipeline (`server`, `middleware`) | rate counters | limit, parse, authenticate, validate, handle, map errors | every router, the client | a handler runs on a valid, authenticated request; the caller learns what became of it |
| Authentication (`modules/auth`) | the cookie in the browser, two token lives | register, log in, renew, log out | users repository | a renewal is of the session the browser is in |
| Mongo client, boot, shutdown | one client, one handle, indexes; one flag, one timer | connect, configure, disconnect; signals | process, HTTP server | one client; configured indexes; the database outlives the work; a stop ends |
| MCP server process (`mcp-backend`) | health flags, shutdown sequence | boot, serve, drain, exit | orchestrator, client | calls in progress are finished; what boot checks holds for every request |
| Configuration | environment variables | parse, default, refuse | every process | a process that starts can run on its values |
| Session of the page (`layout/authenticate`) | store token, expiry timer, dialog, requests in flight | restore, renew, count down, log in, log out, navigate | auth routes | the dashboard has a user; an expired token is prompted for |
| Jobs page (`pages/jobs`) | fetched jobs, overlays of live events, a stream | mount, fetch, connect, apply events, reconnect, create, update, delete | jobs routes and stream | one stream; marks that follow the server; no target lost |
| Job form, cards, registration form | drafts and verdicts | edit tools, dates, schedules, passwords; map to payloads | jobs routes | what is sent is what is shown, and is accepted |

## Modules

A module that holds state follows the code's awaits: an action goes from one await (timer,
callback, message) to the next and makes every change the code makes in between, in its order. A
module of pure operators translates functions; its properties quantify over an input, and
`MCPure` enumerates the inputs.

| Module | Models | Checked by |
| --- | --- | --- |
| `Cron`, `Scheduler` | schedules, the instants of a rule, `aop/scheduler/index.ts` | `MCScheduler`, `SchedulerProofs` |
| `ScheduleContract` | abstract: when a job runs | refined by `Scheduler` |
| `Delegator` | `aop/delegator/index.ts` with its retries | `MCDelegator`, `DelegatorProofs` |
| `JobsRuntime` | the jobs handlers, MongoDB, crash and restart, composing `Scheduler` and `Delegator` by `INSTANCE` | `MCJobsRuntime`, `JobsRuntimeProofs` |
| `TargetRun`, `JobsChTarget`, `JobIchTarget`, `ScraperTool` | what targets share; the two sites; `execute()` over concurrent targets | `MCScraper`, `ScraperProofs` |
| `ToolContract` | abstract: what the delegator relies on in a tool | refined by `ScraperTool` |
| `ScraperParsing` | the parsing of a vacancy, its screening and summary, the table that shows them | `MCPure`, `MCScraper` |
| `PromptRunner` | `aop/mcp/runner/index.ts` with the conversation repository | `MCPromptRunner`, `MCPromptTurns`, `PromptRunnerProofs` |
| `PromptContract` | abstract: what a user of a conversation may rely on | refined by `PromptRunner` |
| `PromptContext`, `PromptEvents` | what the model is sent; the events of a prompt and the schemas that drop some | `MCPure` |
| `McpClient`, `ModelGateway` | `aop/mcp/client`, `aop/mcp/gateway` | `MCPure` |
| `EventStreams` | the emitter, `streamJobs`, `streamMcp` | `MCPure`, `DelegatorProofs` |
| `UserData`, `Accounts` | the repositories; registration, login, renewal, logout and the registration form | `MCPure`, `PureProofs`; the form: `JobsPageProofs` |
| `Requests` | the server's middleware, routers, error mapping; `rest.ts` | `MCPure`, `PureProofs` |
| `Environment` | both `config` directories, the host lists | `MCPure`, `PureProofs` |
| `MongoManager`, `BackendProcess`, `McpProcess`, `Lifecycle` | the client manager; the life of each process; both side by side | `MCLifecycle`, `LifecycleProofs` |
| `ShutdownContract` | abstract: what a graceful shutdown promises | refined by both processes |
| `McpModules` | the modules `mcp-backend` serves, their chats and traces | `MCPure`, `PureProofs` |
| `JobsOverlay`, `JobsPage` | what the page derives from events; its effect, fetch and stream against the runs of the backend | `MCPure`; `MCJobsPage`, `MCJobsPageTwice`; `JobsPageProofs` (both) |
| `JobForm` | the job form, its mappers, and the schemas and ids it meets in the backend | `MCPure`, `JobsPageProofs` |
| `Session` | the browser's session | `MCSession`, `MCSessionPrompt`, `PureProofs` |
| `Absent` | `null`, `undefined` and list helpers the others share | through them |

### Scheduler, Delegator, JobsRuntime

Time is a counter of half minutes (`Minute = 2`), so that a start off the minute differs from the
cron instant it is truncated to. A rule is a period: "daily" is every two minutes in the instances.
Month lengths and daylight saving are abstracted. Each entry of `cronJobs` holds the instants its
timers fire at and the instant since which its task runs. `schedule()` is one action with the
tear-down of the previous attachment and the snapshot it emits; each callback is an action. `Tick`
moves the clock only when nothing is due, so a callback runs within the instant it is due in, but
*within* it callbacks and calls interleave freely. The one order kept is Node's: of two timers of
one entry due together, the one armed first fires first. `NodeDelay` is what Node does with a delay
it cannot represent. The throws of `schedule()` (`scheduler/index.ts:256`) are left out: every type and date the
schemas admit makes a valid cron expression. `lastStart` is a history variable, set where the code calls
`delegateScheduledJob`.

A record of `runs` in `Delegator` is one call of `delegate()`: its locals, its aborter and the await
it is at. `End` is the `finally` block; it clears the queues and the buffered target events *by
job*, as the code does. Tools resolve, reject and report targets; each attempt to save succeeds,
fails before or fails after it took effect. Any caller may call any operation at any time.

A handler in `JobsRuntime` is two actions (three for a status change): up to its database call, and
from the reply on. `DbExecutes` applies the call at any moment in between; `DbRejects` makes it
fail. `requests` holds what the handler keeps across the await. `Attach` is the block the handlers
share: `schedule()` then `register()`, or, if either throws, both wiped. `CallbackFires` joins the
scheduler's callback and what the delegator does synchronously in it. `Crash` forgets everything
but `docs`; `Boot` is `initializeDatabase`. Job ids are never reused. The database scopes calls to
the owner, so one owner is enough here; `UserData` has several.

### Scraper

`run[t].at` names the await a target is at; `browser[t]` the state of its browser. Any call of
Playwright may fail, a `close()` too: that of the abort listener leaves the browser open (`ListenerFails`), the last one, in
the `finally` block, leaves it `"stuck"`, with nobody to close it again. Once the listener has begun to close the browser, a
call that was waiting may still succeed or fail. A site is the sequence of pages it answers with: pages without
vacancies, pages that repeat one. Attempts, page limits and the ends of a listing are the code's.
`ScraperTool` announces a target once it is screened, which is `ScraperParsing`'s `buildScreen`.
The delegator sees `ToolContract` only: the last property of `MCScraper` is that this is enough.

### Prompts

A record of `runs` in `PromptRunner` is a `PromptRun`; `at` is the await its loop waits at. `permit`
and `refuse` resolve a promise the loop continues from in a microtask, so they are one action with
what the loop does next; `stop` sets the phase and frees the conversation, and the loop finds out at
its next resumption. `appendTurn` takes no signal: `AppendTurn` is the database, `TurnIsSaved` and
`SaveFails` the reply. Contents, arguments and catalogues are left to `PromptContext`,
`ModelGateway` and `McpClient`, which are pure, and the events and their schemas to `PromptEvents`.
A restart, which forgets all prompts, is not modelled.

### Processes

`BackendProcess` is the boot with its retries, requests, streams and job runs in progress, and the
shutdown manager with its forced exit; `McpProcess` the boot, the drain and the exit of the MCP
server. Both are placed side by side in `Lifecycle`, each mapped to `ShutdownContract`. A request ends with its connection, which is what `server.close()` waits for; a handler whose client has gone
away goes on unseen, and nothing waits for it. Several
callers of `connect()` meet in `MongoManager` at its awaits, over collections whose indexes may be
in conflict, legacy, or configured as not unique, which the code never recognises (`Recognised`).

### The pages

A mount of the jobs page is one run of its effect, twice under `StrictMode`; a connection carries
its events in order or breaks and loses them, and reconnects to a new snapshot. Runs of own and
foreign jobs go on behind it. `Session` is the store, the components and the requests they leave
behind: an unmounted component does not take its requests with it, and a request is answered by the
cookie it was sent with.

`EventStreams`, `UserData`, `Accounts` and the forms keep state too, but nothing of them suspends:
they are functions over a sequence of calls (one step repeated), and the sequence is the input.

## What the runs show

| Run | Instance | Shows |
| --- | --- | --- |
| `MCScheduler` | 2 jobs of 1 user, 8 schedules (once, daily, weekly; starts passed, ahead and off the minute; ends on, between and at the start; stopped), 14 ticks | `StoppedIsSilent`, `AnnouncedRunIsReal`, `SnapshotIsCurrent`, refinement of `ScheduleContract` |
| `MCDelegator` | 1 job, 2 overlapping runs, 2 tools, 2 attempts, fairness | `QueuesAreLive`, `OutcomeFollowsRecord`, `NoToolAfterCancel`, `RunsEnd` |
| `MCJobsRuntime` | 1 job, 1 request at a time, crashes, 4 ticks | `RuntimeFollowsIntent`, `DeletedIsDetached`, `RestartResumesSchedules` |
| `MCScraper` | a target of each site beside an unknown one and one without keywords; 3 pages, 2 rows, 2 attempts; an abort at any point, fairness | `NoBrowserForgotten`, `EveryVacancyAccounted`, `CancelIsNotBlamed`, `ExecuteResolves`, refinement of `ToolContract` |
| `MCPromptRunner` | 2 prompts, 2 calls of `start()`, 1 conversation, 2 selections of the model, 1 remembered prompt, fairness | `PromptsAreTracked`, `OpenAskIsReplayed`, `StopIsFinal`, `PromptsEnd`, refinement of `PromptContract` |
| `MCPure` | 28 topics, each a small alphabet of inputs and a length | the pure modules: `VacanciesAreRead`, `PromptsAreFaithful`, `PagesAreFaithful`, `RequestsAreJudged`, `UsersAreApart`, `StreamsAreFaithful`, `ServersStartSound` |
| `MCJobsPage` | 1 own and 1 foreign job, 2 runs of 1 target, 2 effects, 2 events in flight, 2 turns of the user and the network, fairness | `OneStream`, `OverlayFollowsServer`, `NoTargetLost`, `RunningIsTemporary` |
| `MCLifecycle` | 3 callers of `connect()`, 3 collections, 2 retries, 2 requests and 2 calls, fairness | `ConnectionOK`, `IndexesAreConfigured`, `WorkIsDrained`, refinement of `ShutdownContract` by both processes |
| `MCSession` | a countdown of 2, 3 requests in flight, 2 moves, fairness | `DashboardHasUser`, `ExpiredIsPrompted`, `WaitsEnd` |

Each property of `MCPure` is the conjunction of the properties of its subject, named in that module
after what they are about; each speaks of one topic.

Three runs end in a violation, a disagreement between the code and a line of the repository quoted
in `PROJECT.json`:

| Run | What happens |
| --- | --- |
| `MCPromptTurns` | a prompt sent while another finishes misses the turn just saved |
| `MCSessionPrompt` | the countdown of the second dialog of a page stands still: its reset is cancelled by the cleanup of the countdown's own effect |
| `MCJobsPageTwice` | a stream that reconnects during a run replays the targets onto the execution the page already shows |

`NoTargetLost` and `NoTargetTwice` are the two halves of "each target is shown once"; the first
holds, the second does not.

### Bounds

`MaxTime` bounds the clock; the instances span several occurrences of each rule, its end and the
time after it. `Executions` bounds the runs remembered at once: two are needed for an overlap, and a
finished one is forgotten to make room. `Requests` bounds the handlers in flight. `MaxDbRetries`,
`TotalAttempts`, `MaxRetries`, `FinishedPromptLimit`, `LogoutTimeout` are the code's own limits, made
small: two tell a first failure from a last one. `MaxSteps` bounds the model's selections for a
prompt, after each of which the loop is in the same state. `SitePages` is one more than the page
limit of the limited target, so that both the limit and an exhausted site end a listing.
`MaxEffects` is what `StrictMode` runs; `MaxInFlight`, `MaxTurns`, `MaxMoves` and `MaxRequests` let each
asynchronous step happen twice, so that a first answer meets a second question. `MaxCalls` is three
in `MCSession`: a renewal, a logout and a login can be on their way together. `Collections` are
the code's three: one with a legacy index between two without, so a rotation can fail half way, and the last with an index
that is not unique, so it is rotated at every initialisation. In `MCPure` lengths are
chosen per topic: what is paired or merged is met at least twice, what is positional has a gap
before and after; a label has a blank value, and a page limit is negative. `matchesSchema` follows a value three levels deep, one more than the alphabet nests.

Execution ids are interchangeable, which is what the symmetry set of `MCJobsRuntime` says; symmetry
is not used where liveness is checked. Deadlock checking is off where a behaviour may really end: a
page that is closed, a process that has exited, a tool that has resolved, inputs that are full.

### Fairness

Safety needs none. `RunsEnd` assumes that tools and database calls come back: targets bound their
navigations, and the driver its calls; `ExecuteResolves` shows it for the scraper from the browser's
calls coming back, and that an abort is never needed for it. `PromptsEnd` assumes that requests to the
model, the MCP server and the database come back; the user need never answer an ask nor stop a
prompt, and the property lets an open ask hold a prompt up. `RunningIsTemporary` assumes that runs
end, the client retries and the network delivers. `ProcessesShutDown` assumes only the timers of
the two shutdowns: no request, stream or disconnect need end.
`WaitsEnd` assumes the browser's timers and that requests are answered or fail; the user need do
nothing.

## What is proved

`SchedulerProofs`, for every number of jobs, users, schedules and periods:

- `Invariance`: `Spec => []Inv`, where `Inv` is `TypeOK` and, for each attached job, `TimersOK`:
  the armed timers fire at the dates of the schedule or at the instant of attachment, none is
  overdue, the cron task runs only from the start on and has missed no instant, and the last start
  is the latest the schedule owed. `TypeOK` and the properties are not inductive: that a stop timer
  never fires before the start timer of its entry, for instance, needs the two dates compared.
- `StoppedSchedulesAreSilent`, and `NoStartIsEarly`, which no run checks because the contract
  implies it.
- `SnapshotsAreCurrent`: a callback that emits no snapshot changes nothing a snapshot shows, and a
  change of one job reaches its owner's snapshot only.
- `SchedulerImplementsContract`: `Spec => Contract!Spec`. Each callback maps to a start or a
  stutter; `Tick` needs `Inv` to show that no start is still owed when time passes.

- `AnnouncedRunsAreReal`: the run that `getNextRunDate` announces is the earliest instant the armed
  timer or the cron task owes. The two are computed apart, from the rule and from the entry, and meet
  only through `Inv`.

Each assumes `NoOverflow`, which says that no date of a schedule exceeds the longest delay. It cannot
be dropped: a delay beyond 2^31 - 1 ms makes a timer fire at once. `AnnouncedRunsAreReal` assumes also
that starts lie within `MaxTime`, beyond which the model's rules name no instant.

`DelegatorProofs`, for every number of jobs, executions and retries:

- `Invariance`, `TypeCorrect`, and `QueuesStayLive`. The conjunction of `TypeOK` and `QueuesAreLive` is
  inductive, the property is not without the types: a step either keeps every active run active
  with its job (`SameRuns`) and touches the queues of one job, or ends a run or removes a job and only
  shrinks the queues (`Shrinking`), by job, which is what makes overlapping runs delicate.
- `OutcomesFollowRecords`, by `RecordInv`: attempts stay below their limit and a run in flight has
  no outcome yet; and `CancelledRunsStartNoTool`, an action property.

The same module has what the streams tell of the runs, from the lemmas on sequences and recursion of `PureProofs`:

- `StreamsAreExact` and `StreamsAreCurrent`, for every history of runs, asks, decisions, connections and disconnects of any
  users and jobs; `StreamsSound` concludes `StreamsAreFaithful`. The inductive invariant is `StreamInv`. `Listening`: the
  listeners are those of the types of the open connections. `Sending`: a connection was sent a snapshot and then what it
  heard, up to its end. `Mapping` and `Buffering`: `runningJobs` leads from a job to a run of this job, the buffer holds of
  that run exactly what was emitted of it, and nothing was emitted of runs to come. `Hydrated`: snapshot and events
  of an open stream together are what was emitted of a run. `AsksKept`: an open ask is open once, and each prompt stream of
  its user heard it once. Neither property says what the buffer holds, which is what the next snapshot is made of.
  Every event goes through one lemma (`EmitSafe`), and a step that changes the maps as well is followed by the fields of
  the state (`StreamParts`).

`JobsRuntimeProofs`, for every number of jobs, of requests in flight and of schedules:

- `TypesHold`: what a handler keeps across its await is what it needs after it.
- `RestartsResume`, an action property: `initializeDatabase` attaches a schedule at the instant it is to
  start next, or as stopped. It assumes `StartsInReach`, that starts and the clock lie within the
  longest delay, for the reason given above.
- `RuntimeFollowsDocuments` and `DeletedJobsAreDetached`, from `Consistent`: a job whose entry disagrees
  with its document has a handler in flight that is about to write the entry (`Attaching`), one
  without document that is still attached has one about to wipe it (`Deleting`), and a handler that
  has its reply holds the document that is saved (`AheadOK`). The properties speak of settled
  jobs only and say nothing of the way there.

Both are proved as `Spec /\ []OnePerJob => []...`: no two requests *on one job* are in flight together,
while those on different jobs, callbacks, runs and crashes interleave freely. Without that premise the
code does not keep them (see "Where code and documents disagree"). The run has one request at a time.

`ScraperProofs`, for any targets of both sites, keywords, pages, rows, attempts and limits:

- `Invariance`, with `RunOK` for each run, by the await it is at: before the items are known there are
  neither items nor listings, at an item the listings account for those before it, at an Escape the
  open item's listing is the last one, and at the end they account for all items or, after an abort,
  for the first few. `TargetOK` adds that a target is announced exactly when its run is over, with its
  browser asked to close by then. None of the three properties says how far a loop has come.
- Every step of a run but the launch, the opening of a page and the end has one shape (`StepOf`):
  the loops go on, or leave with what they have. Each loop's helper (`ToItem`, `ToMore`, `ToPage`, `Retry`,
  `Leave`) has a lemma, each action is one case.
- The set of links is a fold over the documents of a page. That it repeats none (`FoundIsASet`)
  is an induction, made with the least-number principle: `Found` is a choice of the function the fold
  defines, and the least prefix for which it failed would have a smaller one.
- `BrowsersAreNotForgotten` and `VacanciesAreAccounted` follow from the invariant, `CancelBlamesNoSite` from it and
  each step. `ToolKeepsContract` is `Spec => Contract!Spec`: `execute()` settles all targets it knows to be
  unknown or without keywords in its first step, each other in one step of its own.

`PromptRunnerProofs`, for every number of prompts, conversations, requests, steps and remembered
prompts:

- `Invariance`, with `Inv == TypeOK /\ RunsOK /\ MapsOK /\ MemoryOK`. `RunsOK` says what the await a loop
  is at tells of its run: the last event, the open ask, the phase, and that the terminal event is
  sent exactly when the loop is over. Without it, that a stop never finds an ended prompt active
  cannot be shown. `MapsOK` gives each answering prompt its own conversation, `MemoryOK` bounds the
  memory, which `FinishedIsRemembered` needs and does not say. An action on one prompt either keeps
  it as it was, answering or not (`KeptInv`), or ends or stops it (`ClaimedInv`), and is one of the two.
- `PromptsStayTracked` and `OpenAsksAreReplayed` follow from `Inv`; `StopsAreFinal` from `Inv` and each
  action (the only ones a stopped prompt can take are the end of its save and `emitStopped`).
- `RunnerImplementsContract`: `Spec => Contract!Spec`. `StageFacts` reads the stage off the await; two
  steps of the loop and everything before the reservation are stutters.

`LifecycleProofs`, for every number of callers of `connect()`, collections, retries, requests and calls:

- `Invariance`, with `Inv == BackendInv /\ McpInv`. `OneClient` says that a client that is not closed is
  the manager's; `Configured` that up to its first return `connect()` is the boot's alone, that the boot has
  configured each collection it has passed, and that from then on all are, but for those a repetition rotates: as a run
  initialises anew only after the disconnect (`Undisturbed`), and rotates only what is not unique (`RotationSpares`), the
  unique indexes stay, and while the server takes or drains requests all do. `Phases`
  what each phase of the process says of the connection. `McpFlags` and `McpWork` say where the teardown of the
  MCP server stands, from its flags and from the calls left.
- `ConnectionsAreOK`, `HandlesAreConfigured` and `WorkStaysDrained` follow. None is inductive: that an index is
  right when a handle is cached needs how far the loop over collections has come.
- `ProcessesShutDownSafely`: both processes take only the steps of `ShutdownContract`. That a shutdown ends is
  the other half of `ProcessesShutDown`, and stays with TLC.

`JobsPageProofs`, for every number of jobs, of users, runs, targets, mounts, breaks and requests:

- `PageFollowsStream`: `Spec => []Inv`. None of the three properties is inductive, for each speaks of a page to which
  everything has come. `OverlayOK` says instead what an open stream *will have made* of the overlay: the last event
  queued that decides on a job shows it as running (`WillShow`) exactly as far as the server demands. An event that is
  sent is a case of `Append` then, and one that is delivered of `Tail` (`ShowAppend`, `ShowTail`).
- `TargetsOK`: every target wanted is shown or coming, and until the snapshot is delivered it is coming, at the head of
  the queue. That is why a fetch that answers after the stream opened loses none; after the snapshot it would,
  which is the case `NoTargetLost` leaves out by `overwritten`.
- `ServerOK`: a job the backend lists, or has buffered events of, is in progress. A run that starts while a detached
  run of its job goes on would otherwise make the events of that one wanted.
- `StreamsOK`: the effects the cleanup has not reached are at most one, of the component that is shown.
- What an event does to the page is one lemma per handler (`HandledOK`, `EventIsHandled`): no job is gone, no target
  shown is lost, and what the event carries is shown. `replay` and `filter()` are folds: their recursion is
  followed position by position with the least-number principle (`UpTo`, `Steps`, `ReplayShows`, `AmongKeeps`).
- `PageHasOneStream`, `OverlayIsFaithful` and `TargetsAreShown` follow.

`JobsPageProofs` goes on, past what depends on interleavings, with what the pages show, offer and send. It extends
`PureProofs` for the lemmas on histories. `PagesSound` states what `MCPure` checks of its alphabets (`PagesAreFaithful`);
it follows from theorems on the inputs themselves:

- `DialogToolsAreJudged`, for any keywords, websites and ids and any integers as page limits: `canSubmitTool`, the two
  mappers and the schema of the backend are compared on the tool as the mappers leave it. They agree but for a negative
  limit, which the dialog lets through and the backend refuses.
- `SchedulesAreWhole` and `IdsStay`, for every state in `Forms`. `FormsStay` shows that no event of the form
  leaves it. Neither theorem holds of every record of fields: without a type or with a
  once schedule a form has no end (`HasItsEnd`), and the tools and targets the backend has given ids have
  distinct ones (`ToolsApart`).
- `RegistrationsAreOffered`, for any passwords their text tells apart (`ArePasswords`) and any history of the form.
  `Registrations` and `FreshRegistrations` are its inductive invariants: the mounted validator has reported a password that
  meets the policy, and until the user has been to the login form `isPasswordValid` is what it last reported.
- `RunsAreMerged`, for any runs, tools and targets in any order. `RunsFollow` and `ToolsFollow` say of the overlay
  after each event that it has the runs and tools named so far, each once, and under each tool the targets of its
  events in their order; what one more event does is a case for a new run, a new tool and a known one. `KeysCount` makes "no key twice" of
  "as many entries as keys".
- `OffersAreAccepted` and `CardsAgree`, for any schedule, stream entry and instant, by cases on the status of a card.

`PureProofs`, for every input of the modules that keep no state between two awaits. `RequestsJudged`,
`UsersApart` and `ServersSound` state what `MCPure` checks of its alphabets; each follows from theorems that
quantify over the input itself, of any length and over any values:

- `HandlersAreGuarded`, `ServerErrorsAreOwn`, `IssuesNeedToken`, `CallersAreTold`, for every request (`IsRequest` says what a
  request may be). The stages of a route are a sequence, and the first that refuses answers, so each lemma on a
  refusal says what the stages before it have let through (`PassedAll`); `ErrorIsAnswered` tells the answer from the
  error. `FrontendFindsHandlers` goes through the routes in the order of `server/index.ts`, where an earlier one that
  matches would take the call.
- `OthersUnseen`: for any users and any history, a user is answered as by the history of that user alone. It is
  not inductive, for it speaks of answers only; `IsUserPart` says that the documents of the user in the common store are
  the store of the user's own history, and so are its answers. A call of somebody else changes neither side, a call of the
  user both alike (one lemma per operation).
- `PagesComplete`: for pages of any size, from `PagesJoin`, which puts a page onto the pages before it, and
  `JobsOfCalls`, that a history makes no more jobs than it has calls.
- `SessionsAreKept`: for any browsers, addresses and token lives. A cookie and the session the history left are
  compared call by call; that addresses are distinct (`UsersAreDistinct`) is what makes the answer of `login` one
  account.
- `BackendsRunOnTheirConfig` and `HostsOfServersAreListed`, for any environment; `ServedModulesAreTaken` for any modules, by
  following the registrations to the first address met twice; `ServedChatsAgree` for any chats; `TracesAreJoined`
  for any metadata of a message.
- A history is a recursive function (`Replayed`, `AccountsAfter`, `Streamed` of `EventStreams`). `RecursionExists` shows, with the least-number
  principle, that what such a definition chooses solves its equation, and `UpTo` goes from one prefix to the next;
  `AtSolves`, `ReplayedSolves`, `AccountsSolve`, `FlattenSolves` and `StreamedKeeps` are the instances.

`PureProofs` ends with `Session`, for every countdown, number of requests in flight and of moves:

- `DashboardAlwaysHasUser` and `ExpiredTokensArePrompted`, from `Invariance` with
  `SessionInv == SessionTypeOK /\ DashboardHasUser /\ TimerOrDialog`. That an expired token has its timer to fire or
  its dialog open is not inductive: the timer *toggles* the dialog. `TimerOrDialog` says that the
  two exclude each other, and that a fresh token has its timer, which is what makes the toggle an
  opening. Every page shown goes through `ShowPrivate`, `ShowLogin` or `ChangeUser`, and each has one
  lemma; a request's answer is then one of the three.

The proofs assume only the hypotheses named above and the assumptions on constants that TLC evaluates
in the runs: `CronAssumption` (a period is a number of whole minutes, the finest a cron expression
expresses), `SchedulerAssumption`, `DelegatorAssumption`, `JobsRuntimeAssumption`, `DocumentsAssumption` and
`RowsAssumption` (what a site answers is a finite list), `PromptRunnerAssumption`, `MongoAssumption`,
`BackendAssumption`, `McpAssumption`, `SessionConstants`, `PageAssumption` (a user has finitely many jobs),
`LivesAreNumbers`, `NoneIsNoNumber`, `NoneIsNoEndpoint`, `NoneIsNoError`, `NoneIsNoAccount`, `NoneIsNoTrace`, `NoneIsNoChat`,
`NoneIsNoValue`, `DayHasMoments` (a day has a moment to end in); each gives a bound its type, or says that `None` is
none of the values it stands beside.

`NoTargetTwice`, that no target is shown twice, is neither proved nor checked: `MCJobsPageTwice` refutes it.

Only model-checked:

- Liveness, which rests on fairness and `ENABLED`: `RunsEnd`, `PromptsEnd`, `ExecuteResolves`, `WaitsEnd`,
  `RunningIsTemporary`, and that shutdowns end.
- `VacanciesAreRead` and `PromptsAreFaithful`. Each is a conjunction over several
  subjects, and some of those compare what two or three folds make of the same data: the lines of a page with the
  summary and the table made of them, a schema with the fields made of it. What a
  fold computes for every input is an induction; the library's induction theorems take an operator as a parameter,
  which the provers cannot instantiate. `PureProofs` makes them with `UpTo`, where there is one recursion to follow.

## Where code and documents disagree

Besides the three runs above. None of these is a property that a passing run hides: each is either
a condition stated in the property that leaves it out, or a state the instance has and no property
speaks of.

### Jobs

- A start more than 2^31 - 1 ms ahead makes `setTimeout` fire at once, weeks early; an end that far
  shows the schedule as stopped at once, and it never ends (`scheduler/index.ts:287`).
- For a start with seconds that still lies ahead, the announced next run is a whole minute, the
  start timer runs the job at the second (`AnnouncedRunIsReal` excludes exactly that case).
- `delegate()` does not look at `runningJobs`: a timer that fires during a run starts a second run,
  against FR-JOBS-RUN-004. The end of one takes the job out of
  `runningJobs` and clears the queue and the buffered events of both. The snapshot part of `StreamsAreFaithful`
  speaks of the runs `runningJobs` names, overlapping ones included; the one that goes on after the other's end is
  named no more, and a client that connects then is not told what it has done.
- A run stopped during its last tool is recorded as cancelled, announced as finished
  (`delegator/index.ts:201`); a cancelled scraper run with some listings is announced like a finished
  one.
- Running a once job on demand before its start deletes its registration; the scheduled start finds
  nothing to delegate (`:241`). An unscheduled or once run that ends after the job became recurring
  deletes the new registration (`:231`). This is why `RuntimeFollowsIntent` speaks of what is
  attached while no run overlaps a change.
- With two requests in flight, an update that resumes after a deletion attaches a job that is gone
  (`jobs-controller.ts:171`), and a status change undoes an update saved between its read and its
  write (`:497`). With one, `DeletedIsDetached` holds.
- A scheduled start between the check of `deleteJob` and its deletion leaves a run without document. A
  stopped schedule that has run out is skipped at a restart instead of attached as stopped.
- A document that fails its schema refuses the owner's whole list, and the boot for everyone. The
  list has no sort, so pages are only as stable as the store's order; `limit` and `offset` are parsed
  without a check.

### Scraper

- A browser that fails to launch, or a page that cannot be opened, rejects `run()`: the target is
  announced by nobody (`ToolContract` calls it lost), and in the second case its browser stays open.
- If the Escape after a vacancy fails, its listing is added a second time, as an error
  (`job-ich/index.ts:381`); a detail pane that does not detach in time may be read for the next one.
- A rejected `close()` is only logged (`jobs-ch/index.ts:458`, `job-ich/index.ts:430`), and the target is announced all
  the same: its browser may go on running. `NoBrowserForgotten` says that it was asked to close, not that it did.
- A label of jobs.ch whose value is blank is read as a value without label (`jobs-ch/index.ts:138`).
- Retry delays ignore the signal; an abort during the launch is never heard by the listener, as it is
  attached later; an abort while the source is read leaves a good listing with a placeholder address.
- The e-mail tool only logs.

### Prompts and MCP

- A prompt stopped during its save ends with `stopped` and keeps its turn.
- An event that fails its schema is dropped after a log line (`emitter/index.ts:47`). A tool with a
  blank property name in its input schema makes the terminal event one of those, so that its user
  waits for ever; a blank address in a resource hides that a call succeeded. `IsPrompt` leaves both out.
- A stream after an expired token is refused for good: `stream.ts:28` captures the token once.
- Two modules may share a resource address: boot checks names and the addresses within a module only.
- A request whose trace flags are other than `01` is not sampled; trace and baggage may come from
  different places of the message; an empty root value hides the one in the parameters.

### HTTP, authentication, configuration

- `rest.ts:40` parses `error` of a response whose envelope has none, and a plain-text 429 throws. A
  malformed or too large body, and a malformed job id, are answered 500; a malformed conversation id
  404. `ErrorSanitizer` is used by nothing.
- A renewal of the access token relies on the schema dropping `exp` of the old one. It does not prolong
  the cookie. The limiter of 15 renewals per 5 minutes can send a user to the login page.
- `PORT` of the MCP server has no maximum, a blank sample rate is 0, its shutdown timeout unbounded.

### Processes

- The index of the conversations is configured with `unique: false` (`mongo/config/index.ts:31`). MongoDB lists `unique` only
  where it is true, so the comparison in `client/index.ts:214` fails, and each initialisation drops the index and creates
  it again; the doc comment says "skips creation (idempotent)" (`:160`). While the handlers are served there is no second
  initialisation; after the disconnect there can be one, under a handle that is cached.
- A legacy index that cannot be dropped is only a warning (`:194`) and stays.
- A failed `connect()` keeps its client, although it never connected; a run that persists after the
  disconnect makes a second one; a second caller during the first finds no handle.
- An open stream makes a shutdown end by its timer, with code 1; a run in progress can lose its
  record. A second SIGTERM kills the MCP process.

### Pages

- An end announced while the stream is down is not repaired; a cancelled or failed run never shows
  its end. The answer to a create or an update replaces the job, with its live executions. Marks of
  foreign jobs stay. A failed fetch leaves the page loading (`Jobs.tsx:416`).
- `onToolEdit` replaces every tool without an id yet (`JobFormSheet.tsx:87`); the effect of
  `[isOpen, job]` (`:154`) overwrites edits when an event replaces the job. An update drops the body of an
  e-mail tool. A target's page limit starts at 0 and hides the tool's (`ScraperTool.tsx:45`). The field 'Max pages' has no minimum
  (`ScraperTool.tsx:24`, `:123`): a negative limit passes the dialog and the backend refuses the save
  (`schemas-tools-scraper.ts:24`, `:37`); `RefusedOnlyIfNegative` says that this is the only such case. An end
  date without a time is silently not sent. A recurring schedule that has ended is shown as missing,
  with a retry the backend refuses: `OfferedActionIsAccepted` leaves that card out. The registration
  form keeps a verdict on a password it no longer shows.
- A renewal answered after a logout signs the user in again; one in flight when the countdown ends is
  overtaken by the logout; the top bar's logout without a cookie is only logged.

## Not modelled

- Rendering: the assistant's views, the component library, toasts, confirmation dialogs, sorting and
  filtering of lists. They keep no state that outlives a render, beyond what the modules above have.
- Playwright, sites, the model, the MCP transport, MongoDB's driver, hashing and signing: external,
  present as the answers they may give.
- The calendar (months, daylight saving), the heartbeat of the streams, log lines, traces beyond their
  parentage.
- OpenAPI registries, deployment, fixtures and tests: nothing of them runs in the program.
- A restart in the middle of a prompt, which forgets it; a jobs write whose reply is lost, in the
  handlers (it is in `Delegator` and `PromptRunner`); several replicas of a process, which the code does
  not support.
