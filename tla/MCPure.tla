-------------------------------- MODULE MCPure --------------------------------
(***************************************************************************)
(* The pure functions checked over bounded inputs: a topic names a         *)
(* function, and its input, a sequence, grows by one element of the        *)
(* topic's alphabet until the topic's bound.  Every state is an input.     *)
(***************************************************************************)
EXTENDS ScraperParsing, McpModules, PromptEvents, JobForm, JobsOverlay, Requests, Environment,
        UserData, Accounts, EventStreams, TLC

VARIABLES topic, data

inputs == <<topic, data>>

-----------------------------------------------------------------------------
\* Alphabets

Lines == [text : {"a", "b"}, short : BOOLEAN] \cup {[text |-> "", short |-> TRUE]}

Span(text, isTitle, plain, inItem) ==
  [text |-> text, isTitle |-> isTitle, plain |-> plain, inItem |-> inItem]

DetailSpans == {Span("", TRUE, FALSE, FALSE), Span("t", TRUE, FALSE, FALSE),
                Span("p", FALSE, TRUE, FALSE), Span("i", FALSE, FALSE, TRUE)}

Children == {<<>>} \cup {<<s>> : s \in DetailSpans} \cup DetailSpans \X DetailSpans

Infos == [label : {"", "Field", "Company"}, value : {"", "x", "y"}]

BlockSpans == [text : {"", "x"}, class : {"plain", "strong", "source"}]

Texts == [length : {0, 30}, words : SUBSET {"k1"}]

Listings == [ok : BOOLEAN, title : Texts, text : Texts]

Failures == [aborted : BOOLEAN, message : {"", "refused"}]

Replies ==
  [transport : {None} \cup Failures, status : {200, 500}, json : BOOLEAN,
   response : {"error"}, id : {1, 2}, result : {"", "e"}]
  \cup [transport : {None}, status : {200, 500}, json : BOOLEAN, response : {"success", "other"},
        id : {1, 2}, result : [valid : BOOLEAN, value : {"r"}]]

TurnIds == {"t1", "t2", "t3", "unknown"}

Turns == <<[turnId |-> "t1", prompt |-> "p1", answer |-> "a1"],
           [turnId |-> "t2", prompt |-> "p2", answer |-> "a2"],
           [turnId |-> "t3", prompt |-> "p3", answer |-> "a3"]>>

Parts == {None, "", "x"}

Uses == [domain : {"d1", "d2"}, name : {"n1", "n2"}, kind : {"tool", "resource"}]

\* Domain and name collapse when they are sanitised: d1/n-2 and d1/n_2 get one name.
MCSafeName(source, domain, name) ==
  <<source, domain, IF name = "n_2" THEN "n-2" ELSE name>>

String(id) == [kind |-> "string", id |-> id, parts |-> <<>>]

Number(id) == [kind |-> "integer", id |-> id, parts |-> <<>>]

Object(parts) == [kind |-> "object", id |-> "", parts |-> parts]

Arguments == {Object(parts) : parts \in
                UNION {[names -> {String("s"), Number("1")}] : names \in SUBSET {"v", "w"}}}

Expressions == [operator : {"", "?", "+"}, variables : {<<"v">>, <<"v", "w">>, <<"w">>}]

Schemas == {Schema(type, properties, required, additional) :
              type \in {None, {"object"}, {"object", "null"}},
              properties \in {None, "v" :> OfType("string"),
                              ("v" :> OfType("string")) @@ ("w" :> OfType("integer"))},
              required \in {None, {}, {"v"}}, additional \in {None, Forbidden}}

ListedItem(source, name, schema, template) ==
  [source |-> source, domain |-> "d1", name |-> name, schema |-> schema, template |-> template]

Items == {ListedItem("tool", name, schema, None) : name \in {"n1", "n-2", "n_2"},
            schema \in {None, Schema({"object"}, "v" :> OfType("string"), {"v"}, None)}}
         \cup {ListedItem("resource", name, None, None) : name \in {"n1", "n-2"}}
         \cup {ListedItem("template", name, None, <<[operator |-> "", variables |-> <<"v">>]>>) :
                 name \in {"n1", "n-2"}}

\* Completions that call one of the items, by its function name.
Completions(items) ==
  [calls : {<<[function |-> functionName(items[i]), arguments |-> arguments]>> :
              i \in DOMAIN items, arguments \in {None} \cup Arguments}, content : {""}]

Resources == {[domain |-> "d1", name |-> "n1", uri |-> uri] : uri \in {"u1", "u2"}}
             \cup {[domain |-> "d1", name |-> "n2", uri |-> "u1"]}

ListOutcomes == {ServerFailure("e")} \cup {Value(rs) : rs \in (Resources \X Resources \cup {<<>>} \cup {<<r>> : r \in Resources})}

StreamEvents == [executionId : {"e1", "e2"}, toolId : {"t1", "t2"}, target : {"a", "b"}]

\* Dates around the current instant, 5; a once schedule has no end.
Cards ==
  [schedule : {None} \cup [type : {"once"}, status : {"idle", "stopped"}, startDate : {4, 5, 6}, endDate : {None}]
              \cup [type : {"daily"}, status : {"idle", "stopped"}, startDate : {4, 5}, endDate : {None, 5, 7}],
   stream : {None} \cup [status : {"idle", "stopped"}, nextRun : {None, 6}, lastRun : {None, 4}],
   isRunning : BOOLEAN]

\* The events of the tool dialog: an operation, and the target it is about.
ToolEvents ==
  [op : {"target", "keyword", "keywordRemove"}, at : {0}, pages : {0}]
  \cup [op : {"maxPages"}, at : {0}, pages : {-1, 2}]
  \cup [op : {"targetKeyword", "targetKeywordRemove", "targetRemove"}, at : {1, 2}, pages : {0}]
  \cup [op : {"targetMaxPages"}, at : {1, 2}, pages : {-1, 3}]

ToolStep(tool, event) ==
  LET i == event.at IN
  CASE event.op = "target" -> onTargetChange(tool, "jobs-ch")
    [] event.op = "keyword" -> onKeywordAdd(tool, "k")
    [] event.op = "keywordRemove" /\ tool.keywords # <<>> -> onKeywordRemove(tool, 1)
    [] event.op = "maxPages" -> onToolMaxPagesChange(tool, event.pages)
    [] event.op = "targetKeyword" /\ i \in DOMAIN tool.targets -> onTargetKeywordAdd(tool, i, "k")
    [] event.op = "targetKeywordRemove" /\ i \in DOMAIN tool.targets /\ tool.targets[i].keywords # <<>> ->
         onTargetKeywordRemove(tool, i, 1)
    [] event.op = "targetMaxPages" /\ i \in DOMAIN tool.targets -> onTargetMaxPagesChange(tool, i, event.pages)
    [] event.op = "targetRemove" /\ i \in DOMAIN tool.targets -> onTargetRemove(tool, i)
    [] OTHER -> tool

ToolAfter(events) == FoldLeft(ToolStep, onToolTypeChange("scraper"), events)

\* The events of the form: what is opened or changed, and its value.
SavedTool(n) ==
  [type |-> "scraper", toolId |-> <<0, n>>, keywords |-> <<"k">>, maxPages |-> 1,
   targets |-> <<[target |-> "jobs-ch", targetId |-> <<0, n, 1>>, keywords |-> None, maxPages |-> None]>>]

SavedEmail ==
  [type |-> "email", toolId |-> <<0, 9>>, subject |-> "s", body |-> "b",
   targets |-> <<[target |-> "address", targetId |-> <<0, 9, 1>>, subject |-> None, body |-> None]>>]

ScraperJob == [name |-> "n", tools |-> <<SavedTool(1), SavedTool(2)>>, schedule |-> None]

EmailJob ==
  [name |-> "n", tools |-> <<SavedEmail>>,
   schedule |-> [type |-> "daily", status |-> "idle", startDate |-> 3, endDate |-> 7]]

FormEvents ==
  {"openScraperJob", "openEmailJob", "typeNone", "typeOnce", "typeDaily", "startDate", "startTime",
   "endDate", "endTime", "stopped", "addTool", "editFirst", "editSecond", "removeFirst"}

EditTool(state, i) ==
  IF i \in DOMAIN state.tools /\ state.tools[i].type = "scraper"
  THEN onToolEdit(state, onTargetChange(state.tools[i], "job-ich")) ELSE state

\* The schedule's fields are disabled without a type.
FormStep(state, event) ==
  CASE event = "openScraperJob" -> populate(state, ScraperJob)
    [] event = "openEmailJob" -> populate(state, EmailJob)
    [] event = "typeNone" -> onScheduleTypeChange(state, "")
    [] event = "typeOnce" -> onScheduleTypeChange(state, "once")
    [] event = "typeDaily" -> onScheduleTypeChange(state, "daily")
    [] event = "startDate" /\ state.scheduleType # "" -> onDateChange(state, "startDate", 1)
    [] event = "startTime" /\ state.scheduleType # "" -> onFieldChange(state, "startTime", 1)
    [] event = "endDate" /\ state.scheduleType \notin {"", "once"} -> onDateChange(state, "endDate", 4)
    [] event = "endTime" /\ state.scheduleType \notin {"", "once"} -> onFieldChange(state, "endTime", 0)
    [] event = "stopped" /\ state.scheduleType # "" -> onScheduleStatusChange(state, "stopped")
    [] event = "addTool" -> onToolAdd(state, onTargetChange(initialScraperTool, "jobs-ch"))
    [] event = "editFirst" -> EditTool(state, 1)
    [] event = "editSecond" -> EditTool(state, 2)
    [] event = "removeFirst" /\ state.tools # <<>> -> onToolRemove(state, 1)
    [] OTHER -> state

FormAfter(events) == FoldLeft(FormStep, onFieldChange(emptyForm, "name", "n"), events)

\* The schedules a form can send; None is no number, list or schedule.
FormSchedules ==
  [type : {"once", "daily"}, status : {"idle", "stopped"}, startDate : Nat, endDate : Nat \cup {None}]

ASSUME NoneIsNoValue == None \notin Int \cup Seq({"k"}) \cup FormSchedules \cup {InvalidTime}

\* Every route, with an id where it has one, and a path without a route.
RouteCalls ==
  LET Filled(pattern, id) == [i \in DOMAIN pattern |-> IF pattern[i] = ":id" THEN id ELSE pattern[i]] IN
  {[method |-> route.method, path |-> Filled(route.pattern, id)] :
     route \in ToSet(PublicRoutes \o PrivateRoutes), id \in {"id", "malformed"}}
  \cup {[method |-> "GET", path |-> <<"nowhere">>]}

Faults == {None, "MongoError", "MongoDuplicate", "SchemaValidationException",
           "UnauthorizedException", "ResourceNotFoundException", "BusinessLogicException"}

Bodies == {None, "unparsable", "tooLarge", "notObject", "html", "invalid", "valid"}

RequestOf(call, world) ==
  [method |-> call.method, path |-> call.path, header |-> world.header, cookie |-> world.cookie,
   body |-> world.body, query |-> world.query, overLimit |-> world.overLimit, dbUp |-> world.dbUp,
   registration |-> world.registration, failure |-> world.failure]

PublicCalls == {call \in RouteCalls : routed(PublicRoutes, call) # None}

PublicWorlds ==
  [header : {None}, cookie : {None, "forged", "nameless", "valid"}, body : Bodies, query : {"valid"},
   overLimit : BOOLEAN, dbUp : BOOLEAN, registration : BOOLEAN, failure : Faults]

PrivateWorlds ==
  [header : {None, "notBearer", "forged", "nameless", "valid"}, cookie : {None}, body : Bodies,
   query : {"valid", "repeated"}, overLimit : {FALSE}, dbUp : BOOLEAN, registration : {TRUE}, failure : Faults]

RequestSet ==
  {RequestOf(call, world) : call \in PublicCalls, world \in PublicWorlds}
  \cup {RequestOf(call, world) : call \in RouteCalls \ PublicCalls, world \in PrivateWorlds}

\* A backend that starts, and what may stand in its place in a variable.
GoodBackend ==
  [v \in Required \cup Urls \cup Flags \cup {"MAX_DB_RETRIES", "DB_RETRY_DELAY_MS", "PORT"} |->
     IF v \in Urls THEN Raw("url") ELSE IF v \in Flags THEN FlagRaw(TRUE)
     ELSE IF v \in Required THEN Raw("text") ELSE NumberRaw(5)]

RawValues == {Raw("unset"), Raw("blank"), Raw("text"), Raw("url"), Raw("fraction"), FlagRaw(FALSE),
              NumberRaw(0), NumberRaw(1), NumberRaw(MaxPort), NumberRaw(MaxPort + 1)}

GoodMcp ==
  [v \in {"PORT", "MCP_ALLOWED_HOSTS", "SENTRY_DSN", "SENTRY_TRACES_SAMPLE_RATE", "SHUTDOWN_TIMEOUT_MS"} |->
     IF v \in {"PORT", "SHUTDOWN_TIMEOUT_MS"} THEN NumberRaw(5) ELSE Raw("unset")]

HostLists == {ListRaw(parts) : parts \in {<<"">>, <<"", "">>, <<"a">>, <<"a", "">>, <<"", "b">>}}

\* The last override of a variable counts.
Override(env, overrides) ==
  [v \in DOMAIN env |->
     LET of == {i \in DOMAIN overrides : overrides[i].variable = v} IN
     IF of = {} THEN env[v] ELSE overrides[Max(of)].raw]

Passwords == {NoPassword, [text |-> "weak", has |-> {"lowercase", "length"}],
              [text |-> "strong", has |-> Requirements], [text |-> "other", has |-> Requirements]}

RegistrationEvents ==
  [field : {"password", "confirmation"}, value : Passwords] \cup [field : {"switch"}, value : {NoPassword}]

ResourceLists == {<<>>, <<[name |-> "r", uri |-> "u"]>>, <<[name |-> "s", uri |-> "u"]>>,
                  <<[name |-> "r", uri |-> "u"], [name |-> "r", uri |-> "v"]>>}

ModuleSet == [name : {"m1", "m2"}, toolNames : {<<>>} \cup {<<t>> : t \in {"t1", "t2"}} \cup {"t1", "t2"} \X {"t1", "t2"},
              resources : ResourceLists]

TraceIds == {"", "a", "b"}

Baggages == {None, "x", "y"}

Metas ==
  {None} \cup [traceparent : {None, [w3c |-> FALSE, id |-> "", flags |-> ""]}
                 \cup [w3c : BOOLEAN, id : {"a", "b"}, flags : {"01", "00", "03"}],
               baggage : Baggages]

ASSUME NoneIsNoTrace == None \notin BOOLEAN \cup JoinedTraces(TraceIds, Baggages)

Chats == [id : {"c1", "c2"}, uri : {"u1", "u2", "c1"}]

ASSUME NoneIsNoChat == None \notin Chats

\* What the client and the runner let happen: a list of one item, and two calls.
FieldSchemas == {None} \cup {Schema({"object"}, name :> OfType(type), None, None) : name \in {"", "v"}, type \in {"", "string"}}

PromptItems ==
  {None, <<>>, <<ListedItem("resource", "n", None, None)>>} \cup {<<ListedItem("tool", "n", s, None)>> : s \in FieldSchemas}

PromptParts ==
  {<<>>} \cup {<<[type |-> type, uri |-> uri, text |-> None]>> : type \in {"", "text"}, uri \in {"", "u"}}

PromptCalls ==
  [kind : {"tool", "resource"}, decision : {"permit"}, outcome : {"ok", "isError", "throws", "stopped"}, parts : PromptParts]
  \cup [kind : {"tool", "resource"}, decision : {"refuse", "stop"}, outcome : {"ok"}, parts : {<<>>}]

Prompts ==
  {prompt \in [items : PromptItems, calls : {<<>>} \cup {<<c>> : c \in PromptCalls} \cup PromptCalls \X PromptCalls,
                end : {"answer", "error", "stopped"}] : IsPrompt(prompt)}

\* A user asks for the first documents of both users, another one writes; an operation without an id has n = 0.
StoreUsers == {"own", "other"}

WithId == {"getConversation", "deleteConversation", "appendTurn", "updateJob", "getJob", "deleteJob"}

StoreCalls ==
  [user : {"own"}, op : WithId, owner : StoreUsers, n : {1}]
  \cup [user : {"own"}, op : Operations \ WithId, owner : {"own"}, n : {0}]
  \cup [user : {"other"}, op : {"deleteConversation", "appendTurn", "updateJob", "deleteJob"}, owner : {"own"}, n : {1}]
  \cup [user : {"other"}, op : {"createConversation", "createJob"}, owner : {"other"}, n : {0}]

\* Two browsers and two emails, one with a wrong password.
Browsers == {"b1", "b2"}

Emails == {"e1", "e2"}

AccountCalls ==
  [browser : Browsers, op : {"register"}, email : Emails, password : {"p"}]
  \cup [browser : {"b1"}, op : {"login"}, email : Emails, password : {"p", "wrong"}]
  \cup [browser : {"b1"}, op : {"logout"}, email : {None}, password : {None}]
  \cup [browser : {None}, op : {"wait"}, email : {None}, password : {None}]

ASSUME NoneIsNoAccount == NoneIsDistinct(Emails, {"p", "wrong"})

\* Two jobs of one user and one of another, in the middle of whose runs streams come and go.
StreamOwner == [job \in {"a", "b", "c"} |-> [user |-> IF job = "c" THEN "other" ELSE "own", recurring |-> job = "a"]]

StreamSteps ==
  [op : {"openJobs"}, on : StoreUsers] \cup [op : {"openMcp", "call", "stopped"}, on : {"own"}]
  \cup [op : {"ask"}, on : StoreUsers] \cup [op : {"close"}, on : {1, 2}]
  \cup [op : {"start"}, on : {"a", "b", "c"}] \cup [op : {"target", "job-finished"}, on : {1, 2}]
  \cup [op : {"badTarget", "job-cancelled", "job-failed"}, on : {1}] \cup [op : {"remove"}, on : {"a"}]

-----------------------------------------------------------------------------
\* Topics

Alphabet ==
  [lines |-> Lines, children |-> Children, infos |-> Infos, block |-> BlockSpans,
   listings |-> Listings, reply |-> Replies, turnIds |-> TurnIds, parts |-> Parts,
   uses |-> Uses, template |-> Expressions, schema |-> Schemas, items |-> Items,
   uris |-> ListOutcomes, events |-> StreamEvents, card |-> Cards, tool |-> ToolEvents,
   form |-> FormEvents, request |-> RequestSet,
   env |-> [variable : DOMAIN GoodBackend, raw : RawValues],
   mcpEnv |-> [variable : DOMAIN GoodMcp, raw : RawValues \cup HostLists],
   registration |-> RegistrationEvents, modules |-> ModuleSet,
   chats |-> Chats,
   trace |-> [parsed : BOOLEAN, root : Metas, params : Metas], store |-> StoreCalls, prompt |-> Prompts,
   streams |-> StreamSteps, accounts |-> AccountCalls]

Longest ==
  [lines |-> 5, children |-> 3, infos |-> 4, block |-> 4, listings |-> 2, reply |-> 1,
   turnIds |-> 4, parts |-> 3, uses |-> 4, template |-> 2, schema |-> 1, items |-> 3,
   uris |-> 3, events |-> 4, card |-> 1, tool |-> 4, form |-> 4,
   request |-> 1, env |-> 2, mcpEnv |-> 2, registration |-> 5, modules |-> 2, chats |-> 3, trace |-> 1, store |-> 4, prompt |-> 1,
   streams |-> 4, accounts |-> 4]

Topics == DOMAIN Alphabet

PureInit == topic \in Topics /\ data = <<>>

PureNext ==
  /\ Len(data) < Longest[topic]
  /\ \E x \in Alphabet[topic] : data' = Append(data, x)
  /\ UNCHANGED topic

PureSpec == PureInit /\ [][PureNext]_inputs

-----------------------------------------------------------------------------
\* Properties.  Each says of its topic what the definition it names says of one input.

\* groupDescriptionLines loses, reorders and misplaces no line.
DescriptionLines == topic = "lines" => LinesAreKept(data)

\* formatListingBodyFromSections reads as the page, up to the cap.
BodyOfListing == topic = "lines" => \A maxChars \in {2, 9} : BodyReadsAsPage(data, <<"info">>, maxChars)

\* parseDescriptionSections loses, reorders and misplaces no span.
DescriptionSpans == topic = "children" => SpansAreKept(data)

\* informationsToFields overwrites no value.
FieldsOfInfos == topic = "infos" => NoFieldIsOverwritten(data)

\* scrapeDetailListing reads what it is shown, and the company.
DetailsOfListing ==
  topic = "infos" => \A link, logo \in {None, "", "x", "y"} : DetailsAreRead(data, link, logo)

\* extractInfoBlock keeps the labels at their positions.
LabelsOfBlock == topic = "block" => LabelsKeepTheirPlace(data)

\* buildScreen and buildSummary account for every listing.
SummaryOfListings == topic = "listings" => SummaryAddsUp(data, <<"k1", "k2">>, 20)

\* A stop and a failure of the server are told apart by what post() throws.
StopsAndFailures == (topic = "reply" /\ data # <<>>) => StopIsNoFailure(data[1], 1)

\* Every failed request has a context, and only its own response is believed.
FailuresAreExplained == (topic = "reply" /\ data # <<>>) => FailureIsExplained(data[1], 1)

\* The context of a prompt is the turns it names, in the saved order.
ContextOfPrompt ==
  topic = "turnIds" =>
    ContextIsFaithful(Turns, data, "new") /\ ContextIsFaithful(Turns, None, "new")

\* A call always adds something to the messages of the model.
MessagesOfCalls == topic = "parts" => \A failed \in BOOLEAN : ModelIsTold(data, failed)

\* The answer names what ran.
DomainsOfAnswer == topic = "uses" => DomainsAreWhatRan(data)

\* A template's accepted arguments expand.
TemplatesExpand ==
  topic = "template" => \A arguments \in Arguments : AcceptedArgumentsExpand(data, arguments)

\* Required argument fields are insisted on.
FieldsOfSchema ==
  (topic = "schema" /\ data # <<>>) =>
    \A arguments \in Arguments : RequiredFieldsAreInsistedOn(data[1], arguments)

\* The user is asked about one listed item.
SelectionsOfCatalog ==
  topic = "items" => \A completion \in Completions(data) : SelectionIsUnambiguous(data, completion)

\* A resource's name leads to the address of the latest good listing.
AddressesOfResources == topic = "uris" => LatestListingWins(data)

\* Stream events are merged by run and tool.
ExecutionsOfEvents == topic = "events" => EventsAreMerged(data)

\* The card offers an action the backend accepts.
ActionOfCard ==
  (topic = "card" /\ data # <<>>) =>
    OfferedActionIsAccepted(data[1].schedule, data[1].stream, data[1].isRunning, 5)

\* The mappers of a card agree.
DatesOfCard ==
  (topic = "card" /\ data # <<>>) => CardAgrees(data[1].schedule, data[1].stream, None, 4, 5)

\* A tool the dialog lets through is accepted, unless a page limit is negative.
ToolsOfDialog == topic = "tool" => RefusedOnlyIfNegative(ToolAfter(data))

\* A form sends a whole schedule.
ScheduleOfForm == topic = "form" => ScheduleIsWhole(FormAfter(data))

\* Tools keep their ids across edits.
IdsOfTools == topic = "form" => IdsAreStable(FormAfter(data))

\* A handler runs on a database, for a user, over a body its schema accepted.
GuardsOfHandlers == (topic = "request" /\ data # <<>>) => HandlerIsGuarded(data[1])

\* A server error is the server's.
ErrorsOfServer == (topic = "request" /\ data # <<>>) => ServerErrorsAreTheServers(data[1])

\* A payload's issues are told to users.
IssuesOfPayload == (topic = "request" /\ data # <<>>) => IssuesAreForUsers(data[1])

\* The frontend's calls reach their handlers, and the caller knows whether one finished.
AnswersOfRequest ==
  topic = "request" => IF data = <<>> THEN CallsFindHandlers ELSE CallerIsTold(data[1])

\* The backend starts with values it can run on.
ConfigOfBackend ==
  topic = "env" => \A nodeEnv, other \in {"development", "production", "test"} :
    BackendRunsOnItsConfig(nodeEnv, Override(GoodBackend, data), other)

\* The MCP server listens with a list of hosts.
HostsOfMcp ==
  topic = "mcpEnv" => \A host \in {"", "localhost", "::1", "0.0.0.0"} :
    HostsAreListed(host, Override(GoodMcp, data))

\* A valid registration is offered.
OfferOfRegistration == topic = "registration" => ValidRegistrationIsOffered(data)

\* What boot checks holds for every request, and the client takes what is served.
ServiceOfModules == topic = "modules" => BootGuardsRequests(data)

\* The chats listed are the chats served.
ChatsOfWhatsapp == topic = "chats" => ChatsAgree(data)

\* A request joins its caller's trace.
TraceOfRequest == (topic = "trace" /\ data # <<>>) => TraceIsJoined(data[1])

\* The documents of others make no difference.
AnswersOfStore == topic = "store" => OthersAreUnseen(StoreUsers, data)

\* The pages of a user's jobs are the list.
PagesOfStore == topic = "store" => PagesAreTheList(StoreUsers, data, 1..3)

\* The end of a prompt reaches its streams.
EventsOfPrompt == (topic = "prompt" /\ data # <<>>) => EndIsDelivered(data[1])

\* No call stays open.
CallsOfPrompt == (topic = "prompt" /\ data # <<>>) => CallsAreClosed(data[1])

\* A refresh is of the browser's session.
SessionsOfBrowsers ==
  topic = "accounts" => \A domain \in {"localhost", "app"} : RefreshIsOfSession(Browsers, data, domain)

\* A stream is sent its user's events while it is open.
EventsOfStreams == topic = "streams" => StreamIsFaithful(data, StreamOwner)

\* A stream is told of what was going on when it was opened.
SnapshotOfStreams == topic = "streams" => SnapshotIsCurrent(data, StreamOwner)

\* The table of a target agrees with its summary.
TableOfTarget == topic = "listings" => TableMatchesSummary(data, <<"k1", "k2">>, 20)

-----------------------------------------------------------------------------
\* What the run checks: the properties of each subject together.

\* Nothing a site showed of a vacancy is lost, moved or overwritten between its page and
\* the table of results (targets/jobs-ch, targets/job-ich, ScraperTarget.tsx).
VacanciesAreRead ==
  /\ DescriptionLines /\ DescriptionSpans /\ BodyOfListing
  /\ DetailsOfListing /\ FieldsOfInfos /\ LabelsOfBlock
  /\ SummaryOfListings /\ TableOfTarget

\* The model is told what happened, the user is asked about what will be called, and
\* every failure and end is announced (aop/mcp/runner, gateway and client).
PromptsAreFaithful ==
  /\ ContextOfPrompt /\ MessagesOfCalls /\ DomainsOfAnswer
  /\ TemplatesExpand /\ FieldsOfSchema /\ SelectionsOfCatalog
  /\ StopsAndFailures /\ FailuresAreExplained /\ AddressesOfResources
  /\ EventsOfPrompt /\ CallsOfPrompt

\* What the pages show, offer and send is what the backend has and accepts
\* (jobFormSheet, jobsList, Authentication.tsx).
PagesAreFaithful ==
  /\ ToolsOfDialog /\ ScheduleOfForm /\ IdsOfTools /\ OfferOfRegistration
  /\ ExecutionsOfEvents /\ ActionOfCard /\ DatesOfCard

\* A request reaches its handler only in order, and its caller learns what became of it
\* (server/index.ts, the routers and rest.ts).
RequestsAreJudged ==
  GuardsOfHandlers /\ ErrorsOfServer /\ IssuesOfPayload /\ AnswersOfRequest

\* Users are kept apart, in what they store, list and are logged in as (the repositories
\* and auth-controller.ts).
UsersAreApart == AnswersOfStore /\ PagesOfStore /\ SessionsOfBrowsers

\* A stream is sent all of its user's events and none else, from its snapshot to its end
\* (streamJobs and streamMcp).
StreamsAreFaithful == EventsOfStreams /\ SnapshotOfStreams

\* What the processes start with holds for all they serve afterwards (both config
\* directories, mcp-backend's modules and monitor).
ServersStartSound ==
  ConfigOfBackend /\ HostsOfMcp /\ ServiceOfModules /\ ChatsOfWhatsapp /\ TraceOfRequest

=============================================================================
