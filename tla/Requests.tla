------------------------------ MODULE Requests ------------------------------
(***************************************************************************)
(* The way of a request through the backend (server/index.ts, the context  *)
(* and payload middlewares, the three routers, the exception classes and   *)
(* middleware) and back to the caller (frontend/src/api/service).          *)
(*                                                                         *)
(* A request carries the world it meets: [method, path, header, cookie,    *)
(* body, query, overLimit, dbUp, registration, failure].  path is the      *)
(* sequence of segments after /api; an id is "id" or "malformed"; body is  *)
(* what it is to the endpoint's schema; failure is what a call of the      *)
(* handler throws, if the handler makes such a call.                       *)
(***************************************************************************)
EXTENDS Absent

Route(method, pattern, endpoint) ==
  [method |-> method, pattern |-> pattern, endpoint |-> endpoint]

PublicRoutes ==
  <<Route("GET", <<"docs", "openapi">>, "openapi"),
    Route("POST", <<"auth", "login">>, "login"),
    Route("POST", <<"auth", "register">>, "register"),
    Route("POST", <<"auth", "logout">>, "logout"),
    Route("GET", <<"auth", "refresh">>, "refresh")>>

JobsRoutes ==
  <<Route("POST", <<"jobs", "create">>, "createJob"),
    Route("GET", <<"jobs", "get-all">>, "getAllJobs"),
    Route("GET", <<"jobs", "get", ":id">>, "getJob"),
    Route("PUT", <<"jobs", "update", ":id">>, "updateJob"),
    Route("PUT", <<"jobs", "change-schedule-status", ":id">>, "changeJobScheduleStatus"),
    Route("POST", <<"jobs", "retry-schedule", ":id">>, "retryJobSchedule"),
    Route("POST", <<"jobs", "run", ":id">>, "runJob"),
    Route("POST", <<"jobs", "stop", ":id">>, "stopJob"),
    Route("DELETE", <<"jobs", "delete", ":id">>, "deleteJob"),
    Route("GET", <<"jobs", "stream-all">>, "streamJobs")>>

McpRoutes ==
  <<Route("GET", <<"mcp", "stream">>, "streamMcp"),
    Route("POST", <<"mcp", "conversations">>, "createConversation"),
    Route("GET", <<"mcp", "conversations">>, "listConversations"),
    Route("GET", <<"mcp", "conversations", ":id">>, "getConversation"),
    Route("DELETE", <<"mcp", "conversations", ":id">>, "deleteConversation"),
    Route("POST", <<"mcp", "prompt">>, "startPrompt"),
    Route("POST", <<"mcp", "prompt", ":id", "permit">>, "permitPrompt"),
    Route("POST", <<"mcp", "prompt", ":id", "refuse">>, "refusePrompt"),
    Route("POST", <<"mcp", "prompt", ":id", "stop">>, "stopPrompt")>>

PrivateRoutes == JobsRoutes \o McpRoutes

\* Express tries the routes in the order they were mounted in.
Matches(route, request) ==
  /\ route.method = request.method
  /\ Len(route.pattern) = Len(request.path)
  /\ \A i \in DOMAIN route.pattern : route.pattern[i] \in {":id", request.path[i]}

routed(routes, request) ==
  LET matching == {i \in DOMAIN routes : Matches(routes[i], request)} IN
  IF matching = {} THEN None ELSE routes[Min(matching)].endpoint

endpointOf(request) == routed(PublicRoutes \o PrivateRoutes, request)

JobById == {"getJob", "updateJob", "changeJobScheduleStatus", "retryJobSchedule",
            "runJob", "stopJob", "deleteJob"}
ConversationById == {"getConversation", "deleteConversation"}
PromptById == {"permitPrompt", "refusePrompt", "stopPrompt"}
Streams == {"streamJobs", "streamMcp"}

PublicEndpoints == {"openapi", "login", "register", "logout", "refresh"}

PrivateEndpoints ==
  {"createJob", "getAllJobs", "createConversation", "listConversations", "startPrompt"}
    \cup JobById \cup ConversationById \cup PromptById \cup Streams

ASSUME NoneIsNoEndpoint == None \notin PublicEndpoints \cup PrivateEndpoints

-----------------------------------------------------------------------------
\* The stages before a handler, in the routers' order.

publicStages(endpoint) ==
  CASE endpoint \in {"login", "register"} -> <<"limiter", "userInput", "authenticationInput">>
    [] endpoint = "logout" -> <<"refreshToken">>
    [] endpoint = "refresh" -> <<"limiter", "refreshToken">>
    [] OTHER -> <<>>

\* An id is a segment of the path, a non-empty string, which is all its schema asks.

\* Mutant: the route that changes a status checks its id only.
jobsStagesIdOnly(endpoint) ==
  CASE endpoint \in {"createJob", "updateJob"} -> <<"jobPayload">>
    [] endpoint = "getAllJobs" -> <<"pagination">>
    [] OTHER -> <<>>

jobsStages(endpoint) ==
  CASE endpoint \in {"createJob", "updateJob", "changeJobScheduleStatus"} -> <<"jobPayload">>
    [] endpoint = "getAllJobs" -> <<"pagination">>
    [] OTHER -> <<>>

mcpStages(endpoint) ==
  IF endpoint \in {"startPrompt", "permitPrompt", "refusePrompt"} THEN <<"promptPayload">> ELSE <<>>

privateStages(endpoint) == jobsStages(endpoint) \o mcpStages(endpoint)

\* What server.use() mounts: a path no public route has needs a token first.
stages(request) ==
  LET endpoint == routed(PublicRoutes, request) IN
  <<"bodyParsers", "resources">>
    \o IF endpoint # None THEN publicStages(endpoint)
       ELSE <<"authenticate">> \o privateStages(endpointOf(request))

\* What the stages and the handlers throw.
Errors ==
  {"Error", "MongoError", "MongoDuplicate", "RateLimit", "JsonWebTokenError", "BSONError",
   "InputValidationException", "InvalidPayload", "ForbiddenException", "TokenException",
   "SchemaValidationException", "UnauthorizedException", "ResourceNotFoundException",
   "BusinessLogicException"}

ASSUME NoneIsNoError == None \notin Errors

\* A JWT of a header or cookie: verify() refuses it, or its claims do not name a user.
tokenError(token) ==
  CASE token = "forged" -> "JsonWebTokenError"
    [] token = "nameless" -> "TokenException"
    [] OTHER -> None

\* What each stage throws, or None if it calls next().

bodyParsers(request) == IF request.body \in {"unparsable", "tooLarge"} THEN "Error" ELSE None

\* connect() finds the client connected, or tries again.
dbContext(request) == IF request.dbUp THEN None ELSE "MongoError"

authenticateContext(request) ==
  IF request.header \in {None, "notBearer"} THEN "InputValidationException" ELSE tokenError(request.header)

limiter(request) == IF request.overLimit THEN "RateLimit" ELSE None

\* No body, a body that is no object, or one with markup in a field.
validateUserInput(request) ==
  IF request.body \in {None, "notObject", "html"} THEN "InputValidationException" ELSE None

validateRequestPayload(accepted) == IF accepted THEN None ELSE "InvalidPayload"

validateAuthenticationInput(request) ==
  IF endpointOf(request) = "register" /\ ~request.registration THEN "ForbiddenException"
  ELSE validateRequestPayload(request.body = "valid")

validateRefreshToken(request) == IF request.cookie = None THEN "TokenException" ELSE None

\* A job's input or status.
validateJobPayload(request) == validateRequestPayload(request.body = "valid")

\* A prompt, or the item a permission is for.
validatePromptPayload(request) == validateRequestPayload(request.body = "valid")

validatePaginationQueryParams(request) == validateRequestPayload(request.query # "repeated")

refusal(stage, request) ==
  CASE stage = "bodyParsers" -> bodyParsers(request)
    [] stage = "resources" -> dbContext(request)
    [] stage = "authenticate" -> authenticateContext(request)
    [] stage = "limiter" -> limiter(request)
    [] stage = "userInput" -> validateUserInput(request)
    [] stage = "authenticationInput" -> validateAuthenticationInput(request)
    [] stage = "refreshToken" -> validateRefreshToken(request)
    [] stage = "jobPayload" -> validateJobPayload(request)
    [] stage = "promptPayload" -> validatePromptPayload(request)
    [] stage = "pagination" -> validatePaginationQueryParams(request)

\* What the first stage that refuses a request throws, or None if it gets to its handler.
refused(request) ==
  LET passed == stages(request)
      refusing == {i \in DOMAIN passed : refusal(passed[i], request) # None} IN
  IF refusing = {} THEN None ELSE refusal(passed[Min(refusing)], request)

-----------------------------------------------------------------------------
\* Handlers

Stores == {"register", "login", "createJob", "getAllJobs", "createConversation",
           "listConversations", "startPrompt"} \cup JobById \cup ConversationById

\* The failures of the handlers: of the users' store and the password, of the jobs', and of
\* the conversations' and the prompt runner's.
authFails(endpoint, failure) ==
  \/ failure = "MongoDuplicate" /\ endpoint = "register"
  \/ failure \in {"SchemaValidationException", "UnauthorizedException"} /\ endpoint = "login"

jobsFails(endpoint, failure) ==
  \/ failure = "MongoDuplicate" /\ endpoint \in {"createJob", "updateJob"}
  \/ failure = "SchemaValidationException"
       /\ endpoint \in {"createJob", "getAllJobs"} \cup (JobById \ {"deleteJob"})
  \/ failure = "ResourceNotFoundException" /\ endpoint \in JobById
  \/ failure = "BusinessLogicException" /\ endpoint \in JobById \ {"getJob"}

mcpFails(endpoint, failure) ==
  \/ failure = "SchemaValidationException"
       /\ endpoint \in {"listConversations", "startPrompt", "getConversation"}
  \/ failure = "ResourceNotFoundException"
       /\ endpoint \in {"startPrompt"} \cup ConversationById \cup PromptById
  \/ failure = "BusinessLogicException" /\ endpoint \in {"startPrompt"} \cup PromptById

Fails(endpoint, failure) ==
  \/ failure = "MongoError" /\ endpoint \in Stores
  \/ authFails(endpoint, failure) \/ jobsFails(endpoint, failure) \/ mcpFails(endpoint, failure)

\* new ObjectId() of a job's id throws; a conversation's id is tested first.
handlerError(endpoint, request) ==
  LET malformed == \E i \in DOMAIN request.path : request.path[i] = "malformed" IN
  CASE endpoint = "refresh" -> tokenError(request.cookie)
    [] malformed /\ endpoint \in JobById -> "BSONError"
    [] malformed /\ endpoint \in ConversationById \cup PromptById -> "ResourceNotFoundException"
    [] OTHER -> IF Fails(endpoint, request.failure) THEN request.failure ELSE None

-----------------------------------------------------------------------------
\* Answers

authentication ==
  [UnauthorizedException |-> 404, TokenException |-> 401, ForbiddenException |-> 403]

\* InvalidPayload is the InputValidationException that carries issues.
validation ==
  [InputValidationException |-> 400, InvalidPayload |-> 400, SchemaValidationException |-> 500]

resource ==
  [ConflictException |-> 409, ResourceNotFoundException |-> 404, BusinessLogicException |-> 422]

database == [DatabaseException |-> 500]

system == [InternalException |-> 500]

Status ==
  [class \in UNION {DOMAIN authentication, DOMAIN validation, DOMAIN resource, DOMAIN database, DOMAIN system} |->
     CASE class \in DOMAIN authentication -> authentication[class]
       [] class \in DOMAIN validation -> validation[class]
       [] class \in DOMAIN resource -> resource[class]
       [] class \in DOMAIN database -> database[class]
       [] class \in DOMAIN system -> system[class]]

\* handle()
applicationException(error) ==
  CASE error \in DOMAIN Status -> error
    [] error = "MongoDuplicate" -> "ConflictException"
    [] error = "MongoError" -> "DatabaseException"
    [] error = "JsonWebTokenError" -> "TokenException"
    [] OTHER -> "InternalException"

Envelope(class) ==
  [status |-> Status[class], body |-> "json", fields |-> {"success", "code", "timestamp"}
     \cup IF class \in {"InvalidPayload", "SchemaValidationException"} THEN {"issues"} ELSE {}]

\* The limiter and Express's final handler answer by themselves.
Plain(status, body) == [status |-> status, body |-> body, fields |-> {}]

errorResponse(error) ==
  IF error = "RateLimit" THEN Plain(429, "text") ELSE Envelope(applicationException(error))

handled(endpoint, request) ==
  LET error == handlerError(endpoint, request) IN
  CASE endpoint = None -> Plain(404, "html")
    [] endpoint # None /\ error # None -> errorResponse(error)
    [] endpoint \in Streams -> Plain(200, "events")
    [] OTHER -> [status |-> IF endpoint = "createJob" THEN 201 ELSE 200, body |-> "json",
                 fields |-> {"success", "data", "meta"}]

response(request) ==
  IF refused(request) # None THEN errorResponse(refused(request))
  ELSE handled(endpointOf(request), request)

ok(answer) == answer.status \in 200..299

\* rest.ts _fetch(): json() rejects on a body that is not JSON; the error schema is
\* looked for under a field of the envelope, error, and its issues under that.
rest(answer) ==
  CASE answer.body # "json" -> [type |-> "SyntaxError", issues |-> FALSE]
    [] answer.body = "json" /\ ok(answer) -> [type |-> "data", issues |-> FALSE]
    [] OTHER -> [type |-> "CustomError", issues |-> "error" \in answer.fields]

\* stream.ts onopen(): whether the connection is given up, tried again or open.
opened(answer) ==
  CASE ok(answer) /\ answer.body = "events" -> "open"
    [] answer.status \in 400..499 /\ answer.status # 429 -> "fatal"
    [] OTHER -> "retry"

-----------------------------------------------------------------------------
\* The calls of the frontend, as its api modules build them.

AuthenticationCalls ==
  [login |-> [method |-> "POST", path |-> <<"auth", "login">>],
   register |-> [method |-> "POST", path |-> <<"auth", "register">>],
   logout |-> [method |-> "POST", path |-> <<"auth", "logout">>],
   refresh |-> [method |-> "GET", path |-> <<"auth", "refresh">>]]

JobsCalls(id) ==
  [createJob |-> [method |-> "POST", path |-> <<"jobs", "create">>],
   updateJob |-> [method |-> "PUT", path |-> <<"jobs", "update", id>>],
   stopJob |-> [method |-> "POST", path |-> <<"jobs", "stop", id>>],
   runJob |-> [method |-> "POST", path |-> <<"jobs", "run", id>>],
   changeJobScheduleStatus |-> [method |-> "PUT", path |-> <<"jobs", "change-schedule-status", id>>],
   retryJobSchedule |-> [method |-> "POST", path |-> <<"jobs", "retry-schedule", id>>],
   getJob |-> [method |-> "GET", path |-> <<"jobs", "get", id>>],
   getAllJobs |-> [method |-> "GET", path |-> <<"jobs", "get-all">>],
   deleteJob |-> [method |-> "DELETE", path |-> <<"jobs", "delete", id>>],
   streamJobs |-> [method |-> "GET", path |-> <<"jobs", "stream-all">>]]

-----------------------------------------------------------------------------
\* Properties of one request

\* What the handlers read without checking it: req.context.user, req.body, req.query.
ReadsBody(endpoint) ==
  endpoint \in {"login", "register", "createJob", "updateJob", "changeJobScheduleStatus",
                "startPrompt", "permitPrompt", "refusePrompt"}

IsPrivate(request) == routed(PublicRoutes, request) = None

\* A handler runs only on a connected database, for a user the token names, and over a
\* body its schema accepted, however the request is built; what it reads is in place.
HandlerIsGuarded(request) ==
  refused(request) = None =>
    /\ request.dbUp
    /\ IsPrivate(request) => request.header = "valid"
    /\ ReadsBody(endpointOf(request)) => request.body = "valid"
    /\ endpointOf(request) \in {"logout", "refresh"} => request.cookie # None

\* A server error is one: a broken database, a document that fails its schema, or one of
\* the two mistakes of the caller that the exceptions do not know, a body the parsers
\* give up on and a job id that is no ObjectId.
ServerErrorsAreTheServers(request) ==
  response(request).status >= 500 =>
    \/ ~request.dbUp
    \/ request.failure \in {"MongoError", "SchemaValidationException"}
    \/ request.body \in {"unparsable", "tooLarge"}
    \/ endpointOf(request) \in JobById /\ Last(request.path) = "malformed"

\* The issues of a payload are told only to a caller who proved who they are, or where
\* there is nobody to prove yet.
IssuesAreForUsers(request) ==
  ("issues" \in response(request).fields /\ IsPrivate(request)) => request.header = "valid"

\* The caller has data exactly when the handler finished; any other answer is an
\* exception, one about the body itself for a limiter's refusal and an unknown path.
CallerIsTold(request) ==
  LET endpoint == endpointOf(request)
      finished == /\ refused(request) = None
                  /\ endpoint # None /\ handlerError(endpoint, request) = None
      told == rest(response(request)) IN
  /\ endpoint \notin Streams => (told.type = "data" <=> finished)
  /\ ~finished => (told.type = "SyntaxError" <=>
       response(request).status = 429 \/ (refused(request) = None /\ endpoint = None))
  /\ endpoint \in Streams => (opened(response(request)) = "open" <=> finished)

\* A call of the frontend finds the route of the handler it is for.
CallsFindHandlers ==
  /\ \A call \in DOMAIN AuthenticationCalls : endpointOf(AuthenticationCalls[call]) = call
  /\ \A id \in {"id", "malformed"} : \A call \in DOMAIN JobsCalls(id) :
       endpointOf(JobsCalls(id)[call]) = call

=============================================================================
