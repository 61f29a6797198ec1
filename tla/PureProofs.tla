------------------------------ MODULE PureProofs ------------------------------
(***************************************************************************)
(* What holds of every input of the pure modules, and of every session of  *)
(* the browser.                                                            *)
(*                                                                         *)
(* Requests, UserData, Accounts, Environment, McpModules and the catalogue *)
(* are operators over an input: a request, a history of calls, an          *)
(* environment, a list of modules.  The theorems quantify over the input,  *)
(* and RequestsJudged, UsersApart and ServersSound conclude from them what *)
(* MCPure checks.  The last part is the state machine Session.             *)
(***************************************************************************)
EXTENDS MCPure, Session, FiniteSetTheorems, WellFoundedInduction, TLAPS

\* Min() of a set of natural numbers is the element that exceeds no other.
LEMMA MinIn ==
  ASSUME NEW S \in SUBSET Nat, S # {}
  PROVE  Min(S) \in S /\ \A t \in S : Min(S) <= t
  <1> DEFINE R == OpToRel(<, Nat)
  <1>1. IsWellFoundedOn(R, Nat)
    BY NatLessThanWellFounded
  <1>2. \A x, y \in Nat : x < y => <<x, y>> \in R
    BY DEF OpToRel
  <1> HIDE DEF R
  <1>3. PICK k \in S : \A j \in S : <<j, k>> \notin R
    BY <1>1, WFMin
  <1>4. \A j \in S : k <= j
    <2>1. k \in Nat /\ \A j \in S : j \in Nat /\ ~(j < k)
      BY <1>2, <1>3
    <2> QED
      BY <2>1
  <1>5. \E x \in S : \A t \in S : x <= t
    BY <1>4
  <1> QED
    BY <1>5 DEF Min

-----------------------------------------------------------------------------
\* Requests

\* A request whose header, cookie, body and query are one of the kinds the stages tell
\* apart, whatever its method and its path.
IsRequest(request) ==
  /\ request.path \in Seq(ToSet(request.path))
  /\ request.header \in {None, "notBearer", "forged", "nameless", "valid"}
  /\ request.cookie \in {None, "forged", "nameless", "valid"}
  /\ request.body \in Bodies /\ request.query \in {"valid", "repeated"}
  /\ {request.overLimit, request.dbUp, request.registration} \subseteq BOOLEAN
  /\ request.failure \in Faults

\* The first route that matches is the one a request is routed by.
LEMMA RoutedByFirst ==
  ASSUME NEW n \in Nat, NEW routes, DOMAIN routes = 1..n, NEW request
  PROVE  \/ /\ routed(routes, request) = None
            /\ \A i \in 1..n : ~Matches(routes[i], request)
         \/ \E i \in 1..n : /\ Matches(routes[i], request)
                            /\ routed(routes, request) = routes[i].endpoint
                            /\ \A j \in 1..(i - 1) : ~Matches(routes[j], request)
  <1> DEFINE matching == {i \in 1..n : Matches(routes[i], request)}
  <1>1. routed(routes, request) = IF matching = {} THEN None ELSE routes[Min(matching)].endpoint
    BY DEF routed
  <1>2. CASE matching = {}
    BY <1>1, <1>2
  <1>3. CASE matching # {}
    <2>1. Min(matching) \in matching /\ \A t \in matching : Min(matching) <= t
      BY <1>3, MinIn
    <2>2. \A j \in 1..(Min(matching) - 1) : j \in 1..n /\ ~(Min(matching) <= j)
      BY <2>1
    <2>3. \A j \in 1..(Min(matching) - 1) : ~Matches(routes[j], request)
      BY <2>1, <2>2
    <2> QED
      BY <1>1, <1>3, <2>1, <2>3
  <1> QED
    BY <1>2, <1>3

AllRoutes == PublicRoutes \o PrivateRoutes

\* The routes by position.
LEMMA PublicRoutesAre ==
  /\ PublicRoutes \in Seq(ToSet(PublicRoutes)) /\ Len(PublicRoutes) = 5
  /\ PublicRoutes[1] = Route("GET", <<"docs", "openapi">>, "openapi")
  /\ PublicRoutes[2] = Route("POST", <<"auth", "login">>, "login")
  /\ PublicRoutes[3] = Route("POST", <<"auth", "register">>, "register")
  /\ PublicRoutes[4] = Route("POST", <<"auth", "logout">>, "logout")
  /\ PublicRoutes[5] = Route("GET", <<"auth", "refresh">>, "refresh")
  <1>1. /\ Len(PublicRoutes) = 5 /\ DOMAIN PublicRoutes = 1..5
        /\ PublicRoutes = [i \in 1..5 |-> PublicRoutes[i]]
    BY DEF PublicRoutes
  <1>2. \A i \in 1..5 : PublicRoutes[i] \in ToSet(PublicRoutes)
    BY <1>1 DEF ToSet
  <1> QED
    BY <1>1, <1>2 DEF PublicRoutes

LEMMA JobsRoutesAre ==
  /\ JobsRoutes \in Seq(ToSet(JobsRoutes)) /\ Len(JobsRoutes) = 10
  /\ JobsRoutes[1] = Route("POST", <<"jobs", "create">>, "createJob")
  /\ JobsRoutes[2] = Route("GET", <<"jobs", "get-all">>, "getAllJobs")
  /\ JobsRoutes[3] = Route("GET", <<"jobs", "get", ":id">>, "getJob")
  /\ JobsRoutes[4] = Route("PUT", <<"jobs", "update", ":id">>, "updateJob")
  /\ JobsRoutes[5] = Route("PUT", <<"jobs", "change-schedule-status", ":id">>, "changeJobScheduleStatus")
  /\ JobsRoutes[6] = Route("POST", <<"jobs", "retry-schedule", ":id">>, "retryJobSchedule")
  /\ JobsRoutes[7] = Route("POST", <<"jobs", "run", ":id">>, "runJob")
  /\ JobsRoutes[8] = Route("POST", <<"jobs", "stop", ":id">>, "stopJob")
  /\ JobsRoutes[9] = Route("DELETE", <<"jobs", "delete", ":id">>, "deleteJob")
  /\ JobsRoutes[10] = Route("GET", <<"jobs", "stream-all">>, "streamJobs")
  <1>1. /\ Len(JobsRoutes) = 10 /\ DOMAIN JobsRoutes = 1..10
        /\ JobsRoutes = [i \in 1..10 |-> JobsRoutes[i]]
    BY DEF JobsRoutes
  <1>2. \A i \in 1..10 : JobsRoutes[i] \in ToSet(JobsRoutes)
    BY <1>1 DEF ToSet
  <1> QED
    BY <1>1, <1>2 DEF JobsRoutes

LEMMA McpRoutesAre ==
  /\ McpRoutes \in Seq(ToSet(McpRoutes)) /\ Len(McpRoutes) = 9
  /\ McpRoutes[1] = Route("GET", <<"mcp", "stream">>, "streamMcp")
  /\ McpRoutes[2] = Route("POST", <<"mcp", "conversations">>, "createConversation")
  /\ McpRoutes[3] = Route("GET", <<"mcp", "conversations">>, "listConversations")
  /\ McpRoutes[4] = Route("GET", <<"mcp", "conversations", ":id">>, "getConversation")
  /\ McpRoutes[5] = Route("DELETE", <<"mcp", "conversations", ":id">>, "deleteConversation")
  /\ McpRoutes[6] = Route("POST", <<"mcp", "prompt">>, "startPrompt")
  /\ McpRoutes[7] = Route("POST", <<"mcp", "prompt", ":id", "permit">>, "permitPrompt")
  /\ McpRoutes[8] = Route("POST", <<"mcp", "prompt", ":id", "refuse">>, "refusePrompt")
  /\ McpRoutes[9] = Route("POST", <<"mcp", "prompt", ":id", "stop">>, "stopPrompt")
  <1>1. /\ Len(McpRoutes) = 9 /\ DOMAIN McpRoutes = 1..9
        /\ McpRoutes = [i \in 1..9 |-> McpRoutes[i]]
    BY DEF McpRoutes
  <1>2. \A i \in 1..9 : McpRoutes[i] \in ToSet(McpRoutes)
    BY <1>1 DEF ToSet
  <1> QED
    BY <1>1, <1>2 DEF McpRoutes

\* Two sequences after each other, by position.
LEMMA ConcatAt ==
  ASSUME NEW V, NEW s \in Seq(V), NEW t \in Seq(V), NEW u, u = s \o t
  PROVE  /\ u \in Seq(V) /\ Len(u) = Len(s) + Len(t)
         /\ \A i \in 1..Len(s) : u[i] = s[i]
         /\ \A i \in 1..Len(t) : u[Len(s) + i] = t[i]
  OBVIOUS

LEMMA AllRoutesAre ==
  /\ DOMAIN AllRoutes = 1..24
  /\ AllRoutes[1] = Route("GET", <<"docs", "openapi">>, "openapi")
  /\ AllRoutes[2] = Route("POST", <<"auth", "login">>, "login")
  /\ AllRoutes[3] = Route("POST", <<"auth", "register">>, "register")
  /\ AllRoutes[4] = Route("POST", <<"auth", "logout">>, "logout")
  /\ AllRoutes[5] = Route("GET", <<"auth", "refresh">>, "refresh")
  /\ AllRoutes[6] = Route("POST", <<"jobs", "create">>, "createJob")
  /\ AllRoutes[7] = Route("GET", <<"jobs", "get-all">>, "getAllJobs")
  /\ AllRoutes[8] = Route("GET", <<"jobs", "get", ":id">>, "getJob")
  /\ AllRoutes[9] = Route("PUT", <<"jobs", "update", ":id">>, "updateJob")
  /\ AllRoutes[10] = Route("PUT", <<"jobs", "change-schedule-status", ":id">>, "changeJobScheduleStatus")
  /\ AllRoutes[11] = Route("POST", <<"jobs", "retry-schedule", ":id">>, "retryJobSchedule")
  /\ AllRoutes[12] = Route("POST", <<"jobs", "run", ":id">>, "runJob")
  /\ AllRoutes[13] = Route("POST", <<"jobs", "stop", ":id">>, "stopJob")
  /\ AllRoutes[14] = Route("DELETE", <<"jobs", "delete", ":id">>, "deleteJob")
  /\ AllRoutes[15] = Route("GET", <<"jobs", "stream-all">>, "streamJobs")
  /\ AllRoutes[16] = Route("GET", <<"mcp", "stream">>, "streamMcp")
  /\ AllRoutes[17] = Route("POST", <<"mcp", "conversations">>, "createConversation")
  /\ AllRoutes[18] = Route("GET", <<"mcp", "conversations">>, "listConversations")
  /\ AllRoutes[19] = Route("GET", <<"mcp", "conversations", ":id">>, "getConversation")
  /\ AllRoutes[20] = Route("DELETE", <<"mcp", "conversations", ":id">>, "deleteConversation")
  /\ AllRoutes[21] = Route("POST", <<"mcp", "prompt">>, "startPrompt")
  /\ AllRoutes[22] = Route("POST", <<"mcp", "prompt", ":id", "permit">>, "permitPrompt")
  /\ AllRoutes[23] = Route("POST", <<"mcp", "prompt", ":id", "refuse">>, "refusePrompt")
  /\ AllRoutes[24] = Route("POST", <<"mcp", "prompt", ":id", "stop">>, "stopPrompt")
  <1>1. /\ PrivateRoutes \in Seq(ToSet(JobsRoutes) \cup ToSet(McpRoutes))
        /\ Len(PrivateRoutes) = 19
        /\ \A i \in 1..10 : PrivateRoutes[i] = JobsRoutes[i]
        /\ \A i \in 1..9 : PrivateRoutes[10 + i] = McpRoutes[i]
    <2> DEFINE V == ToSet(JobsRoutes) \cup ToSet(McpRoutes)
    <2>1. JobsRoutes \in Seq(V) /\ McpRoutes \in Seq(V)
      BY JobsRoutesAre, McpRoutesAre
    <2> HIDE DEF V
    <2>2. PrivateRoutes = JobsRoutes \o McpRoutes
      BY DEF PrivateRoutes
    <2>3. /\ PrivateRoutes \in Seq(V) /\ Len(PrivateRoutes) = Len(JobsRoutes) + Len(McpRoutes)
          /\ \A i \in 1..Len(JobsRoutes) : PrivateRoutes[i] = JobsRoutes[i]
          /\ \A i \in 1..Len(McpRoutes) : PrivateRoutes[Len(JobsRoutes) + i] = McpRoutes[i]
      BY <2>1, <2>2, ConcatAt
    <2> QED
      BY <2>3, JobsRoutesAre, McpRoutesAre DEF V
  <1>2. /\ DOMAIN AllRoutes = 1..24
        /\ \A i \in 1..5 : AllRoutes[i] = PublicRoutes[i]
        /\ \A i \in 1..19 : AllRoutes[5 + i] = PrivateRoutes[i]
    <2> DEFINE V == ToSet(PublicRoutes) \cup (ToSet(JobsRoutes) \cup ToSet(McpRoutes))
    <2>1. PublicRoutes \in Seq(V) /\ PrivateRoutes \in Seq(V)
      BY <1>1, PublicRoutesAre, SMTT(30)
    <2> HIDE DEF V
    <2>2. AllRoutes = PublicRoutes \o PrivateRoutes
      BY DEF AllRoutes
    <2>3. /\ AllRoutes \in Seq(V) /\ Len(AllRoutes) = Len(PublicRoutes) + Len(PrivateRoutes)
          /\ \A i \in 1..Len(PublicRoutes) : AllRoutes[i] = PublicRoutes[i]
          /\ \A i \in 1..Len(PrivateRoutes) : AllRoutes[Len(PublicRoutes) + i] = PrivateRoutes[i]
      BY <2>1, <2>2, ConcatAt
    <2> QED
      BY <1>1, <2>3, PublicRoutesAre
  <1>3. /\ \A i \in 1..10 : AllRoutes[5 + i] = JobsRoutes[i]
        /\ \A i \in 1..9 : AllRoutes[15 + i] = McpRoutes[i]
    BY <1>1, <1>2
  <1> QED
    BY <1>2, <1>3, PublicRoutesAre, JobsRoutesAre, McpRoutesAre

\* What it takes to match a route, segment by segment.
LEMMA MatchesSegments ==
  ASSUME NEW request, NEW Segments, request.path \in Seq(Segments), NEW m, NEW a, NEW b, NEW c,
         NEW d, NEW e
  PROVE  /\ Matches(Route(m, <<a, b>>, e), request) <=>
              /\ m = request.method /\ Len(request.path) = 2
              /\ a \in {":id", request.path[1]} /\ b \in {":id", request.path[2]}
         /\ Matches(Route(m, <<a, b, c>>, e), request) <=>
              /\ m = request.method /\ Len(request.path) = 3
              /\ a \in {":id", request.path[1]} /\ b \in {":id", request.path[2]}
              /\ c \in {":id", request.path[3]}
         /\ Matches(Route(m, <<a, b, c, d>>, e), request) <=>
              /\ m = request.method /\ Len(request.path) = 4
              /\ a \in {":id", request.path[1]} /\ b \in {":id", request.path[2]}
              /\ c \in {":id", request.path[3]} /\ d \in {":id", request.path[4]}
  <1>1. \A i : (i \in 1..2 <=> i = 1 \/ i = 2) /\ (i \in 1..3 <=> i = 1 \/ i = 2 \/ i = 3)
               /\ (i \in 1..4 <=> i = 1 \/ i = 2 \/ i = 3 \/ i = 4)
    OBVIOUS
  <1>2. Matches(Route(m, <<a, b>>, e), request) <=>
              /\ m = request.method /\ Len(request.path) = 2
              /\ a \in {":id", request.path[1]} /\ b \in {":id", request.path[2]}
    BY <1>1 DEF Matches, Route
  <1>3. Matches(Route(m, <<a, b, c>>, e), request) <=>
              /\ m = request.method /\ Len(request.path) = 3
              /\ a \in {":id", request.path[1]} /\ b \in {":id", request.path[2]}
              /\ c \in {":id", request.path[3]}
    BY <1>1 DEF Matches, Route
  <1>4. Matches(Route(m, <<a, b, c, d>>, e), request) <=>
              /\ m = request.method /\ Len(request.path) = 4
              /\ a \in {":id", request.path[1]} /\ b \in {":id", request.path[2]}
              /\ c \in {":id", request.path[3]} /\ d \in {":id", request.path[4]}
    BY <1>1 DEF Matches, Route
  <1> QED
    BY <1>2, <1>3, <1>4

\* The endpoint of a request is that of the first of all routes that matches.
LEMMA EndpointByFirst ==
  ASSUME NEW request
  PROVE  \/ /\ endpointOf(request) = None
            /\ \A i \in 1..24 : ~Matches(AllRoutes[i], request)
         \/ \E i \in 1..24 : /\ Matches(AllRoutes[i], request)
                             /\ endpointOf(request) = AllRoutes[i].endpoint
                             /\ \A j \in 1..(i - 1) : ~Matches(AllRoutes[j], request)
  <1> DEFINE n == 24
  <1>1. n \in Nat /\ DOMAIN AllRoutes = 1..n
    BY AllRoutesAre
  <1>2. endpointOf(request) = routed(AllRoutes, request)
    BY DEF endpointOf, AllRoutes
  <1> HIDE DEF n
  <1>3. \/ /\ routed(AllRoutes, request) = None
           /\ \A i \in 1..n : ~Matches(AllRoutes[i], request)
        \/ \E i \in 1..n : /\ Matches(AllRoutes[i], request)
                           /\ routed(AllRoutes, request) = AllRoutes[i].endpoint
                           /\ \A j \in 1..(i - 1) : ~Matches(AllRoutes[j], request)
    BY <1>1, RoutedByFirst, Zenon
  <1>4. \/ /\ endpointOf(request) = None
           /\ \A i \in 1..n : ~Matches(AllRoutes[i], request)
        \/ \E i \in 1..n : /\ Matches(AllRoutes[i], request)
                           /\ endpointOf(request) = AllRoutes[i].endpoint
                           /\ \A j \in 1..(i - 1) : ~Matches(AllRoutes[j], request)
    BY <1>2, <1>3
  <1> QED
    BY <1>4, SMTT(60) DEF n

LEMMA EndpointsOfRoutes ==
  /\ \A i \in 1..5 : AllRoutes[i] = PublicRoutes[i]
  /\ \A i \in 1..5 : AllRoutes[i].endpoint \in PublicEndpoints
  /\ \A i \in 6..24 : AllRoutes[i].endpoint \in PrivateEndpoints
  <1>1. \A i \in 1..5 : AllRoutes[i] = PublicRoutes[i]
    <2>1. /\ AllRoutes[1] = PublicRoutes[1]
          /\ AllRoutes[2] = PublicRoutes[2]
          /\ AllRoutes[3] = PublicRoutes[3]
          /\ AllRoutes[4] = PublicRoutes[4]
          /\ AllRoutes[5] = PublicRoutes[5]
      BY AllRoutesAre, PublicRoutesAre, Zenon
    <2> QED
      BY <2>1
  <1>2. \A i \in 1..5 : AllRoutes[i].endpoint \in PublicEndpoints
    BY AllRoutesAre DEF Route, PublicEndpoints
  <1>3. \A i \in 6..24 : AllRoutes[i].endpoint \in PrivateEndpoints
    BY AllRoutesAre 
    DEF Route, PrivateEndpoints, JobById, ConversationById, PromptById, Streams
  <1> QED
    BY <1>1, <1>2, <1>3

\* The endpoints do not depend on how the public and the private routes are told apart.
LEMMA EndpointKinds ==
  ASSUME NEW request
  PROVE  /\ ~IsPrivate(request) => /\ endpointOf(request) \in PublicEndpoints
                                   /\ routed(PublicRoutes, request) = endpointOf(request)
         /\ IsPrivate(request) => endpointOf(request) \in {None} \cup PrivateEndpoints
  <1>1. DOMAIN PublicRoutes = 1..5
    BY PublicRoutesAre
  <1>2. CASE IsPrivate(request)
    <2>1. \A i \in 1..5 : ~Matches(PublicRoutes[i], request)
      <3>1. ASSUME NEW i \in 1..5, Matches(PublicRoutes[i], request),
                   routed(PublicRoutes, request) = PublicRoutes[i].endpoint
            PROVE  FALSE
        <4>1. PublicRoutes[i].endpoint # None
          BY EndpointsOfRoutes, NoneIsNoEndpoint
        <4> QED
          BY <1>2, <3>1, <4>1 DEF IsPrivate
      <3>2. 5 \in Nat
        OBVIOUS
      <3> QED
        BY <1>1, <3>1, <3>2, RoutedByFirst, Zenon
    <2>2. CASE endpointOf(request) = None
      BY <1>2, <2>2
    <2>3. CASE endpointOf(request) # None
      <3>1. PICK i \in 1..24 : Matches(AllRoutes[i], request) /\ endpointOf(request) = AllRoutes[i].endpoint
        BY <2>3, EndpointByFirst
      <3>2. i \in 6..24
        BY <2>1, <3>1, EndpointsOfRoutes
      <3> QED
        BY <1>2, <3>1, <3>2, EndpointsOfRoutes
    <2> QED
      BY <2>2, <2>3
  <1>3. CASE ~IsPrivate(request)
    <2>1. PICK i \in 1..5 : /\ Matches(PublicRoutes[i], request)
                            /\ routed(PublicRoutes, request) = PublicRoutes[i].endpoint
                            /\ \A j \in 1..(i - 1) : ~Matches(PublicRoutes[j], request)
      BY <1>1, <1>3, RoutedByFirst DEF IsPrivate
    <2>2. PICK k \in 1..24 : /\ Matches(AllRoutes[k], request)
                             /\ endpointOf(request) = AllRoutes[k].endpoint
                             /\ \A j \in 1..(k - 1) : ~Matches(AllRoutes[j], request)
      BY <2>1, EndpointByFirst, EndpointsOfRoutes
    <2>3. ~(i < k) /\ ~(k < i)
      BY <2>1, <2>2, EndpointsOfRoutes
    <2> QED
      BY <1>3, <2>1, <2>2, <2>3, EndpointsOfRoutes
  <1> QED
    BY <1>2, <1>3

\* The endpoints by position.
LEMMA EndpointsAre ==
  /\ AllRoutes[1].endpoint = "openapi" /\ AllRoutes[2].endpoint = "login"
  /\ AllRoutes[3].endpoint = "register" /\ AllRoutes[4].endpoint = "logout"
  /\ AllRoutes[5].endpoint = "refresh" /\ AllRoutes[6].endpoint = "createJob"
  /\ AllRoutes[7].endpoint = "getAllJobs" /\ AllRoutes[8].endpoint = "getJob"
  /\ AllRoutes[9].endpoint = "updateJob" /\ AllRoutes[10].endpoint = "changeJobScheduleStatus"
  /\ AllRoutes[11].endpoint = "retryJobSchedule" /\ AllRoutes[12].endpoint = "runJob"
  /\ AllRoutes[13].endpoint = "stopJob" /\ AllRoutes[14].endpoint = "deleteJob"
  /\ AllRoutes[15].endpoint = "streamJobs" /\ AllRoutes[16].endpoint = "streamMcp"
  /\ AllRoutes[17].endpoint = "createConversation" /\ AllRoutes[18].endpoint = "listConversations"
  /\ AllRoutes[19].endpoint = "getConversation" /\ AllRoutes[20].endpoint = "deleteConversation"
  /\ AllRoutes[21].endpoint = "startPrompt" /\ AllRoutes[22].endpoint = "permitPrompt"
  /\ AllRoutes[23].endpoint = "refusePrompt" /\ AllRoutes[24].endpoint = "stopPrompt"
  BY AllRoutesAre DEF Route

IsJobRoute(entry) ==
  \E m, b, e : entry = Route(m, <<"jobs", b, ":id">>, e) /\ b \notin {":id", "malformed"}

LEMMA JobRouteIs ==
  ASSUME NEW m, NEW b, NEW e, b \notin {":id", "malformed"}
  PROVE  IsJobRoute(Route(m, <<"jobs", b, ":id">>, e))
  BY DEF IsJobRoute

LEMMA JobRoutesByPosition ==
  /\ IsJobRoute(AllRoutes[8])
  /\ IsJobRoute(AllRoutes[9])
  /\ IsJobRoute(AllRoutes[10])
  /\ IsJobRoute(AllRoutes[11])
  /\ IsJobRoute(AllRoutes[12])
  /\ IsJobRoute(AllRoutes[13])
  /\ IsJobRoute(AllRoutes[14])
  <1>1. IsJobRoute(AllRoutes[8])
    <2>1. AllRoutes[8] = Route("GET", <<"jobs", "get", ":id">>, "getJob")
      BY AllRoutesAre
    <2>2.  "get" \notin {":id", "malformed"}
      OBVIOUS
    <2> QED
      BY <2>1, <2>2, JobRouteIs, Zenon
  <1>2. IsJobRoute(AllRoutes[9])
    <2>1. AllRoutes[9] = Route("PUT", <<"jobs", "update", ":id">>, "updateJob")
      BY AllRoutesAre
    <2>2.  "update" \notin {":id", "malformed"}
      OBVIOUS
    <2> QED
      BY <2>1, <2>2, JobRouteIs, Zenon
  <1>3. IsJobRoute(AllRoutes[10])
    <2>1. AllRoutes[10] = Route("PUT", <<"jobs", "change-schedule-status", ":id">>, "changeJobScheduleStatus")
      BY AllRoutesAre
    <2>2.  "change-schedule-status" \notin {":id", "malformed"}
      OBVIOUS
    <2> QED
      BY <2>1, <2>2, JobRouteIs, Zenon
  <1>4. IsJobRoute(AllRoutes[11])
    <2>1. AllRoutes[11] = Route("POST", <<"jobs", "retry-schedule", ":id">>, "retryJobSchedule")
      BY AllRoutesAre
    <2>2.  "retry-schedule" \notin {":id", "malformed"}
      OBVIOUS
    <2> QED
      BY <2>1, <2>2, JobRouteIs, Zenon
  <1>5. IsJobRoute(AllRoutes[12])
    <2>1. AllRoutes[12] = Route("POST", <<"jobs", "run", ":id">>, "runJob")
      BY AllRoutesAre
    <2>2.  "run" \notin {":id", "malformed"}
      OBVIOUS
    <2> QED
      BY <2>1, <2>2, JobRouteIs, Zenon
  <1>6. IsJobRoute(AllRoutes[13])
    <2>1. AllRoutes[13] = Route("POST", <<"jobs", "stop", ":id">>, "stopJob")
      BY AllRoutesAre
    <2>2.  "stop" \notin {":id", "malformed"}
      OBVIOUS
    <2> QED
      BY <2>1, <2>2, JobRouteIs, Zenon
  <1>7. IsJobRoute(AllRoutes[14])
    <2>1. AllRoutes[14] = Route("DELETE", <<"jobs", "delete", ":id">>, "deleteJob")
      BY AllRoutesAre
    <2>2.  "delete" \notin {":id", "malformed"}
      OBVIOUS
    <2> QED
      BY <2>1, <2>2, JobRouteIs, Zenon
  <1> QED
    BY <1>1, <1>2, <1>3, <1>4, <1>5, <1>6, <1>7

\* A job is called by an id at the end of its path.
LEMMA JobPaths ==
  ASSUME NEW request, NEW Segments, request.path \in Seq(Segments), endpointOf(request) \in JobById
  PROVE  /\ Len(request.path) = 3
         /\ request.path[1] # "malformed" /\ request.path[2] # "malformed"
  <1>1. endpointOf(request) # None
    BY NoneIsNoEndpoint DEF PrivateEndpoints
  <1>2. PICK i \in 1..24 : Matches(AllRoutes[i], request) /\ endpointOf(request) = AllRoutes[i].endpoint
    BY <1>1, EndpointByFirst
  <1>3. \A k \in 1..24 : k \in {8, 9, 10, 11, 12, 13, 14} \/ AllRoutes[k].endpoint \notin JobById
    <2> SUFFICES ASSUME NEW k \in 1..24, k \notin {8, 9, 10, 11, 12, 13, 14}
                 PROVE  AllRoutes[k].endpoint \notin JobById
      OBVIOUS
    <2>1. k \in {1, 2, 3, 4, 5, 6, 7} \/ k \in {15, 16, 17, 18, 19, 20, 21, 22, 23, 24}
      OBVIOUS
    <2>2. CASE k \in {1, 2, 3, 4, 5, 6, 7}
      BY <2>2, EndpointsAre DEF JobById
    <2>3. CASE k \in {15, 16, 17, 18, 19, 20, 21, 22, 23, 24}
      BY <2>3, EndpointsAre DEF JobById
    <2> QED
      BY <2>1, <2>2, <2>3
  <1>4. i \in {8, 9, 10, 11, 12, 13, 14}
    BY <1>2, <1>3
  <1>5. IsJobRoute(AllRoutes[i])
    BY <1>4, JobRoutesByPosition
  <1>6. PICK m, b, e : /\ AllRoutes[i] = Route(m, <<"jobs", b, ":id">>, e)
                       /\ b \notin {":id", "malformed"}
    BY <1>5 DEF IsJobRoute
  <1>7. Matches(Route(m, <<"jobs", b, ":id">>, e), request)
    BY <1>2, <1>6
  <1>8. /\ Len(request.path) = 3
        /\ "jobs" \in {":id", request.path[1]} /\ b \in {":id", request.path[2]}
    BY <1>7, MatchesSegments
  <1> QED
    BY <1>6, <1>8

\* What tells most routes apart: the method, the length and the first two segments.
HasShape(entry, m, n, a, b) ==
  /\ entry.method = m /\ Len(entry.pattern) = n
  /\ entry.pattern[1] = a /\ entry.pattern[2] = b
  /\ DOMAIN entry.pattern = 1..n
  /\ n \in {2, 3, 4} /\ a # ":id" /\ b # ":id"

LEMMA ShapeIs ==
  ASSUME NEW m, NEW a, NEW b, NEW c, NEW d, NEW e, a # ":id", b # ":id"
  PROVE  /\ HasShape(Route(m, <<a, b>>, e), m, 2, a, b)
         /\ HasShape(Route(m, <<a, b, c>>, e), m, 3, a, b)
         /\ HasShape(Route(m, <<a, b, c, d>>, e), m, 4, a, b)
  BY DEF HasShape, Route

LEMMA ShapesByPosition ==
  /\ HasShape(AllRoutes[1], "GET", 2, "docs", "openapi")
  /\ HasShape(AllRoutes[2], "POST", 2, "auth", "login")
  /\ HasShape(AllRoutes[3], "POST", 2, "auth", "register")
  /\ HasShape(AllRoutes[4], "POST", 2, "auth", "logout")
  /\ HasShape(AllRoutes[5], "GET", 2, "auth", "refresh")
  /\ HasShape(AllRoutes[6], "POST", 2, "jobs", "create")
  /\ HasShape(AllRoutes[7], "GET", 2, "jobs", "get-all")
  /\ HasShape(AllRoutes[8], "GET", 3, "jobs", "get")
  /\ HasShape(AllRoutes[9], "PUT", 3, "jobs", "update")
  /\ HasShape(AllRoutes[10], "PUT", 3, "jobs", "change-schedule-status")
  /\ HasShape(AllRoutes[11], "POST", 3, "jobs", "retry-schedule")
  /\ HasShape(AllRoutes[12], "POST", 3, "jobs", "run")
  /\ HasShape(AllRoutes[13], "POST", 3, "jobs", "stop")
  /\ HasShape(AllRoutes[14], "DELETE", 3, "jobs", "delete")
  /\ HasShape(AllRoutes[15], "GET", 2, "jobs", "stream-all")
  /\ HasShape(AllRoutes[16], "GET", 2, "mcp", "stream")
  /\ HasShape(AllRoutes[17], "POST", 2, "mcp", "conversations")
  /\ HasShape(AllRoutes[18], "GET", 2, "mcp", "conversations")
  /\ HasShape(AllRoutes[19], "GET", 3, "mcp", "conversations")
  /\ HasShape(AllRoutes[20], "DELETE", 3, "mcp", "conversations")
  /\ HasShape(AllRoutes[21], "POST", 2, "mcp", "prompt")
  /\ HasShape(AllRoutes[22], "POST", 4, "mcp", "prompt")
  /\ HasShape(AllRoutes[23], "POST", 4, "mcp", "prompt")
  /\ HasShape(AllRoutes[24], "POST", 4, "mcp", "prompt")
  <1>1. HasShape(AllRoutes[1], "GET", 2, "docs", "openapi")
    <2>1. AllRoutes[1] = Route("GET", <<"docs", "openapi">>, "openapi")
      BY AllRoutesAre
    <2>2. "docs" # ":id" /\ "openapi" # ":id"
      OBVIOUS
    <2> QED
      BY <2>1, <2>2, ShapeIs, Zenon
  <1>2. HasShape(AllRoutes[2], "POST", 2, "auth", "login")
    <2>1. AllRoutes[2] = Route("POST", <<"auth", "login">>, "login")
      BY AllRoutesAre
    <2>2. "auth" # ":id" /\ "login" # ":id"
      OBVIOUS
    <2> QED
      BY <2>1, <2>2, ShapeIs, Zenon
  <1>3. HasShape(AllRoutes[3], "POST", 2, "auth", "register")
    <2>1. AllRoutes[3] = Route("POST", <<"auth", "register">>, "register")
      BY AllRoutesAre
    <2>2. "auth" # ":id" /\ "register" # ":id"
      OBVIOUS
    <2> QED
      BY <2>1, <2>2, ShapeIs, Zenon
  <1>4. HasShape(AllRoutes[4], "POST", 2, "auth", "logout")
    <2>1. AllRoutes[4] = Route("POST", <<"auth", "logout">>, "logout")
      BY AllRoutesAre
    <2>2. "auth" # ":id" /\ "logout" # ":id"
      OBVIOUS
    <2> QED
      BY <2>1, <2>2, ShapeIs, Zenon
  <1>5. HasShape(AllRoutes[5], "GET", 2, "auth", "refresh")
    <2>1. AllRoutes[5] = Route("GET", <<"auth", "refresh">>, "refresh")
      BY AllRoutesAre
    <2>2. "auth" # ":id" /\ "refresh" # ":id"
      OBVIOUS
    <2> QED
      BY <2>1, <2>2, ShapeIs, Zenon
  <1>6. HasShape(AllRoutes[6], "POST", 2, "jobs", "create")
    <2>1. AllRoutes[6] = Route("POST", <<"jobs", "create">>, "createJob")
      BY AllRoutesAre
    <2>2. "jobs" # ":id" /\ "create" # ":id"
      OBVIOUS
    <2> QED
      BY <2>1, <2>2, ShapeIs, Zenon
  <1>7. HasShape(AllRoutes[7], "GET", 2, "jobs", "get-all")
    <2>1. AllRoutes[7] = Route("GET", <<"jobs", "get-all">>, "getAllJobs")
      BY AllRoutesAre
    <2>2. "jobs" # ":id" /\ "get-all" # ":id"
      OBVIOUS
    <2> QED
      BY <2>1, <2>2, ShapeIs, Zenon
  <1>8. HasShape(AllRoutes[8], "GET", 3, "jobs", "get")
    <2>1. AllRoutes[8] = Route("GET", <<"jobs", "get", ":id">>, "getJob")
      BY AllRoutesAre
    <2>2. "jobs" # ":id" /\ "get" # ":id"
      OBVIOUS
    <2> QED
      BY <2>1, <2>2, ShapeIs, Zenon
  <1>9. HasShape(AllRoutes[9], "PUT", 3, "jobs", "update")
    <2>1. AllRoutes[9] = Route("PUT", <<"jobs", "update", ":id">>, "updateJob")
      BY AllRoutesAre
    <2>2. "jobs" # ":id" /\ "update" # ":id"
      OBVIOUS
    <2> QED
      BY <2>1, <2>2, ShapeIs, Zenon
  <1>10. HasShape(AllRoutes[10], "PUT", 3, "jobs", "change-schedule-status")
    <2>1. AllRoutes[10] = Route("PUT", <<"jobs", "change-schedule-status", ":id">>, "changeJobScheduleStatus")
      BY AllRoutesAre
    <2>2. "jobs" # ":id" /\ "change-schedule-status" # ":id"
      OBVIOUS
    <2> QED
      BY <2>1, <2>2, ShapeIs, Zenon
  <1>11. HasShape(AllRoutes[11], "POST", 3, "jobs", "retry-schedule")
    <2>1. AllRoutes[11] = Route("POST", <<"jobs", "retry-schedule", ":id">>, "retryJobSchedule")
      BY AllRoutesAre
    <2>2. "jobs" # ":id" /\ "retry-schedule" # ":id"
      OBVIOUS
    <2> QED
      BY <2>1, <2>2, ShapeIs, Zenon
  <1>12. HasShape(AllRoutes[12], "POST", 3, "jobs", "run")
    <2>1. AllRoutes[12] = Route("POST", <<"jobs", "run", ":id">>, "runJob")
      BY AllRoutesAre
    <2>2. "jobs" # ":id" /\ "run" # ":id"
      OBVIOUS
    <2> QED
      BY <2>1, <2>2, ShapeIs, Zenon
  <1>13. HasShape(AllRoutes[13], "POST", 3, "jobs", "stop")
    <2>1. AllRoutes[13] = Route("POST", <<"jobs", "stop", ":id">>, "stopJob")
      BY AllRoutesAre
    <2>2. "jobs" # ":id" /\ "stop" # ":id"
      OBVIOUS
    <2> QED
      BY <2>1, <2>2, ShapeIs, Zenon
  <1>14. HasShape(AllRoutes[14], "DELETE", 3, "jobs", "delete")
    <2>1. AllRoutes[14] = Route("DELETE", <<"jobs", "delete", ":id">>, "deleteJob")
      BY AllRoutesAre
    <2>2. "jobs" # ":id" /\ "delete" # ":id"
      OBVIOUS
    <2> QED
      BY <2>1, <2>2, ShapeIs, Zenon
  <1>15. HasShape(AllRoutes[15], "GET", 2, "jobs", "stream-all")
    <2>1. AllRoutes[15] = Route("GET", <<"jobs", "stream-all">>, "streamJobs")
      BY AllRoutesAre
    <2>2. "jobs" # ":id" /\ "stream-all" # ":id"
      OBVIOUS
    <2> QED
      BY <2>1, <2>2, ShapeIs, Zenon
  <1>16. HasShape(AllRoutes[16], "GET", 2, "mcp", "stream")
    <2>1. AllRoutes[16] = Route("GET", <<"mcp", "stream">>, "streamMcp")
      BY AllRoutesAre
    <2>2. "mcp" # ":id" /\ "stream" # ":id"
      OBVIOUS
    <2> QED
      BY <2>1, <2>2, ShapeIs, Zenon
  <1>17. HasShape(AllRoutes[17], "POST", 2, "mcp", "conversations")
    <2>1. AllRoutes[17] = Route("POST", <<"mcp", "conversations">>, "createConversation")
      BY AllRoutesAre
    <2>2. "mcp" # ":id" /\ "conversations" # ":id"
      OBVIOUS
    <2> QED
      BY <2>1, <2>2, ShapeIs, Zenon
  <1>18. HasShape(AllRoutes[18], "GET", 2, "mcp", "conversations")
    <2>1. AllRoutes[18] = Route("GET", <<"mcp", "conversations">>, "listConversations")
      BY AllRoutesAre
    <2>2. "mcp" # ":id" /\ "conversations" # ":id"
      OBVIOUS
    <2> QED
      BY <2>1, <2>2, ShapeIs, Zenon
  <1>19. HasShape(AllRoutes[19], "GET", 3, "mcp", "conversations")
    <2>1. AllRoutes[19] = Route("GET", <<"mcp", "conversations", ":id">>, "getConversation")
      BY AllRoutesAre
    <2>2. "mcp" # ":id" /\ "conversations" # ":id"
      OBVIOUS
    <2> QED
      BY <2>1, <2>2, ShapeIs, Zenon
  <1>20. HasShape(AllRoutes[20], "DELETE", 3, "mcp", "conversations")
    <2>1. AllRoutes[20] = Route("DELETE", <<"mcp", "conversations", ":id">>, "deleteConversation")
      BY AllRoutesAre
    <2>2. "mcp" # ":id" /\ "conversations" # ":id"
      OBVIOUS
    <2> QED
      BY <2>1, <2>2, ShapeIs, Zenon
  <1>21. HasShape(AllRoutes[21], "POST", 2, "mcp", "prompt")
    <2>1. AllRoutes[21] = Route("POST", <<"mcp", "prompt">>, "startPrompt")
      BY AllRoutesAre
    <2>2. "mcp" # ":id" /\ "prompt" # ":id"
      OBVIOUS
    <2> QED
      BY <2>1, <2>2, ShapeIs, Zenon
  <1>22. HasShape(AllRoutes[22], "POST", 4, "mcp", "prompt")
    <2>1. AllRoutes[22] = Route("POST", <<"mcp", "prompt", ":id", "permit">>, "permitPrompt")
      BY AllRoutesAre
    <2>2. "mcp" # ":id" /\ "prompt" # ":id"
      OBVIOUS
    <2> QED
      BY <2>1, <2>2, ShapeIs, Zenon
  <1>23. HasShape(AllRoutes[23], "POST", 4, "mcp", "prompt")
    <2>1. AllRoutes[23] = Route("POST", <<"mcp", "prompt", ":id", "refuse">>, "refusePrompt")
      BY AllRoutesAre
    <2>2. "mcp" # ":id" /\ "prompt" # ":id"
      OBVIOUS
    <2> QED
      BY <2>1, <2>2, ShapeIs, Zenon
  <1>24. HasShape(AllRoutes[24], "POST", 4, "mcp", "prompt")
    <2>1. AllRoutes[24] = Route("POST", <<"mcp", "prompt", ":id", "stop">>, "stopPrompt")
      BY AllRoutesAre
    <2>2. "mcp" # ":id" /\ "prompt" # ":id"
      OBVIOUS
    <2> QED
      BY <2>1, <2>2, ShapeIs, Zenon
  <1> QED
    BY <1>1, <1>2, <1>3, <1>4, <1>5, <1>6, <1>7, <1>8, <1>9, <1>10, <1>11, <1>12,
       <1>13, <1>14, <1>15, <1>16, <1>17, <1>18, <1>19, <1>20, <1>21, <1>22, <1>23, <1>24

LEMMA MatchHasShape ==
  ASSUME NEW request, NEW entry, NEW m, NEW n, NEW a, NEW b, HasShape(entry, m, n, a, b),
         Matches(entry, request)
  PROVE  /\ m = request.method /\ n = Len(request.path)
         /\ a = request.path[1] /\ b = request.path[2]
  <1>1. 1 \in DOMAIN entry.pattern /\ 2 \in DOMAIN entry.pattern
    BY DEF HasShape
  <1> QED
    BY <1>1 DEF HasShape, Matches

\* The first 15 routes have a shape of their own.
LEMMA ShapesDiffer ==
  ASSUME NEW k \in 1..15, NEW i \in 1..24, NEW m, NEW n, NEW a, NEW b,
         HasShape(AllRoutes[k], m, n, a, b), HasShape(AllRoutes[i], m, n, a, b)
  PROVE  i = k
  <1> DEFINE M(x) == AllRoutes[x].method
             N(x) == Len(AllRoutes[x].pattern)
             A(x) == AllRoutes[x].pattern[1]
             B(x) == AllRoutes[x].pattern[2]
  <1>1. M(k) = M(i) /\ N(k) = N(i) /\ A(k) = A(i) /\ B(k) = B(i)
    BY DEF HasShape
  <1>2. /\ M(1) = "GET" /\ N(1) = 2 /\ A(1) = "docs" /\ B(1) = "openapi"
        /\ M(2) = "POST" /\ N(2) = 2 /\ A(2) = "auth" /\ B(2) = "login"
        /\ M(3) = "POST" /\ N(3) = 2 /\ A(3) = "auth" /\ B(3) = "register"
        /\ M(4) = "POST" /\ N(4) = 2 /\ A(4) = "auth" /\ B(4) = "logout"
        /\ M(5) = "GET" /\ N(5) = 2 /\ A(5) = "auth" /\ B(5) = "refresh"
        /\ M(6) = "POST" /\ N(6) = 2 /\ A(6) = "jobs" /\ B(6) = "create"
        /\ M(7) = "GET" /\ N(7) = 2 /\ A(7) = "jobs" /\ B(7) = "get-all"
        /\ M(8) = "GET" /\ N(8) = 3 /\ A(8) = "jobs" /\ B(8) = "get"
        /\ M(9) = "PUT" /\ N(9) = 3 /\ A(9) = "jobs" /\ B(9) = "update"
        /\ M(10) = "PUT" /\ N(10) = 3 /\ A(10) = "jobs" /\ B(10) = "change-schedule-status"
        /\ M(11) = "POST" /\ N(11) = 3 /\ A(11) = "jobs" /\ B(11) = "retry-schedule"
        /\ M(12) = "POST" /\ N(12) = 3 /\ A(12) = "jobs" /\ B(12) = "run"
        /\ M(13) = "POST" /\ N(13) = 3 /\ A(13) = "jobs" /\ B(13) = "stop"
        /\ M(14) = "DELETE" /\ N(14) = 3 /\ A(14) = "jobs" /\ B(14) = "delete"
        /\ M(15) = "GET" /\ N(15) = 2 /\ A(15) = "jobs" /\ B(15) = "stream-all"
        /\ M(16) = "GET" /\ N(16) = 2 /\ A(16) = "mcp" /\ B(16) = "stream"
        /\ M(17) = "POST" /\ N(17) = 2 /\ A(17) = "mcp" /\ B(17) = "conversations"
        /\ M(18) = "GET" /\ N(18) = 2 /\ A(18) = "mcp" /\ B(18) = "conversations"
        /\ M(19) = "GET" /\ N(19) = 3 /\ A(19) = "mcp" /\ B(19) = "conversations"
        /\ M(20) = "DELETE" /\ N(20) = 3 /\ A(20) = "mcp" /\ B(20) = "conversations"
        /\ M(21) = "POST" /\ N(21) = 2 /\ A(21) = "mcp" /\ B(21) = "prompt"
        /\ M(22) = "POST" /\ N(22) = 4 /\ A(22) = "mcp" /\ B(22) = "prompt"
        /\ M(23) = "POST" /\ N(23) = 4 /\ A(23) = "mcp" /\ B(23) = "prompt"
        /\ M(24) = "POST" /\ N(24) = 4 /\ A(24) = "mcp" /\ B(24) = "prompt"
    BY ShapesByPosition DEF HasShape
  <1> HIDE DEF M, N, A, B
  <1> QED
    BY <1>1, <1>2

LEMMA RouteHasShape ==
  ASSUME NEW i \in 1..24
  PROVE  \E m, n, a, b : HasShape(AllRoutes[i], m, n, a, b)
  <1> DEFINE S(x) == \E m, n, a, b : HasShape(AllRoutes[x], m, n, a, b)
  <1>1. /\ S(1) /\ S(2) /\ S(3) /\ S(4) /\ S(5) /\ S(6) /\ S(7) /\ S(8) /\ S(9) /\ S(10) /\ S(11) /\ S(12)
        /\ S(13) /\ S(14) /\ S(15) /\ S(16) /\ S(17) /\ S(18) /\ S(19) /\ S(20) /\ S(21) /\ S(22) /\ S(23)
        /\ S(24)
    BY ShapesByPosition, Zenon
  <1> HIDE DEF S
  <1>2. S(i)
    BY <1>1
  <1> QED
    BY <1>2 DEF S

\* A call that matches one of the first 15 routes is for its endpoint.
LEMMA MatchIsFound ==
  ASSUME NEW request, NEW k \in 1..15, Matches(AllRoutes[k], request)
  PROVE  endpointOf(request) = AllRoutes[k].endpoint
  <1>1. PICK i \in 1..24 : Matches(AllRoutes[i], request) /\ endpointOf(request) = AllRoutes[i].endpoint
    BY EndpointByFirst
  <1>2. PICK m, n, a, b : HasShape(AllRoutes[k], m, n, a, b)
    BY RouteHasShape
  <1>3. PICK o, p, c, d : HasShape(AllRoutes[i], o, p, c, d)
    BY RouteHasShape
  <1>4. o = m /\ p = n /\ c = a /\ d = b
    BY <1>1, <1>2, <1>3, MatchHasShape
  <1>5. i = k
    BY <1>2, <1>3, <1>4, ShapesDiffer
  <1> QED
    BY <1>1, <1>5

\* Every call of the frontend's api modules finds the route of its handler.
THEOREM FrontendFindsHandlers == CallsFindHandlers
  <1>1. \A call \in DOMAIN AuthenticationCalls : endpointOf(AuthenticationCalls[call]) = call
    <2>1. endpointOf(AuthenticationCalls.login) = "login"
      <3>1. AllRoutes[2] = Route("POST", <<"auth", "login">>, "login") /\ 2 \in 1..15
        BY AllRoutesAre
      <3>2. AuthenticationCalls.login = [method |-> "POST", path |-> <<"auth", "login">>]
        BY DEF AuthenticationCalls
      <3>3. Matches(AllRoutes[2], AuthenticationCalls.login) /\ AllRoutes[2].endpoint = "login"
        BY <3>1, <3>2 DEF Matches, Route
      <3> QED
        BY <3>1, <3>3, MatchIsFound
    <2>2. endpointOf(AuthenticationCalls.register) = "register"
      <3>1. AllRoutes[3] = Route("POST", <<"auth", "register">>, "register") /\ 3 \in 1..15
        BY AllRoutesAre
      <3>2. AuthenticationCalls.register = [method |-> "POST", path |-> <<"auth", "register">>]
        BY DEF AuthenticationCalls
      <3>3. Matches(AllRoutes[3], AuthenticationCalls.register) /\ AllRoutes[3].endpoint = "register"
        BY <3>1, <3>2 DEF Matches, Route
      <3> QED
        BY <3>1, <3>3, MatchIsFound
    <2>3. endpointOf(AuthenticationCalls.logout) = "logout"
      <3>1. AllRoutes[4] = Route("POST", <<"auth", "logout">>, "logout") /\ 4 \in 1..15
        BY AllRoutesAre
      <3>2. AuthenticationCalls.logout = [method |-> "POST", path |-> <<"auth", "logout">>]
        BY DEF AuthenticationCalls
      <3>3. Matches(AllRoutes[4], AuthenticationCalls.logout) /\ AllRoutes[4].endpoint = "logout"
        BY <3>1, <3>2 DEF Matches, Route
      <3> QED
        BY <3>1, <3>3, MatchIsFound
    <2>4. endpointOf(AuthenticationCalls.refresh) = "refresh"
      <3>1. AllRoutes[5] = Route("GET", <<"auth", "refresh">>, "refresh") /\ 5 \in 1..15
        BY AllRoutesAre
      <3>2. AuthenticationCalls.refresh = [method |-> "GET", path |-> <<"auth", "refresh">>]
        BY DEF AuthenticationCalls
      <3>3. Matches(AllRoutes[5], AuthenticationCalls.refresh) /\ AllRoutes[5].endpoint = "refresh"
        BY <3>1, <3>2 DEF Matches, Route
      <3> QED
        BY <3>1, <3>3, MatchIsFound
    <2>5. DOMAIN AuthenticationCalls = {"login", "register", "logout", "refresh"}
      BY DEF AuthenticationCalls
    <2> QED
      BY <2>1, <2>2, <2>3, <2>4, <2>5
  <1>2. ASSUME NEW id
        PROVE  \A call \in DOMAIN JobsCalls(id) : endpointOf(JobsCalls(id)[call]) = call
    <2>1. endpointOf(JobsCalls(id).createJob) = "createJob"
      <3>1. AllRoutes[6] = Route("POST", <<"jobs", "create">>, "createJob") /\ 6 \in 1..15
        BY AllRoutesAre
      <3>2. JobsCalls(id).createJob = [method |-> "POST", path |-> <<"jobs", "create">>]
        BY DEF JobsCalls
      <3>3. Matches(AllRoutes[6], JobsCalls(id).createJob) /\ AllRoutes[6].endpoint = "createJob"
        BY <3>1, <3>2 DEF Matches, Route
      <3> QED
        BY <3>1, <3>3, MatchIsFound
    <2>2. endpointOf(JobsCalls(id).getAllJobs) = "getAllJobs"
      <3>1. AllRoutes[7] = Route("GET", <<"jobs", "get-all">>, "getAllJobs") /\ 7 \in 1..15
        BY AllRoutesAre
      <3>2. JobsCalls(id).getAllJobs = [method |-> "GET", path |-> <<"jobs", "get-all">>]
        BY DEF JobsCalls
      <3>3. Matches(AllRoutes[7], JobsCalls(id).getAllJobs) /\ AllRoutes[7].endpoint = "getAllJobs"
        BY <3>1, <3>2 DEF Matches, Route
      <3> QED
        BY <3>1, <3>3, MatchIsFound
    <2>3. endpointOf(JobsCalls(id).getJob) = "getJob"
      <3>1. AllRoutes[8] = Route("GET", <<"jobs", "get", ":id">>, "getJob") /\ 8 \in 1..15
        BY AllRoutesAre
      <3>2. JobsCalls(id).getJob = [method |-> "GET", path |-> <<"jobs", "get", id>>]
        BY DEF JobsCalls
      <3>3. Matches(AllRoutes[8], JobsCalls(id).getJob) /\ AllRoutes[8].endpoint = "getJob"
        BY <3>1, <3>2 DEF Matches, Route
      <3> QED
        BY <3>1, <3>3, MatchIsFound
    <2>4. endpointOf(JobsCalls(id).updateJob) = "updateJob"
      <3>1. AllRoutes[9] = Route("PUT", <<"jobs", "update", ":id">>, "updateJob") /\ 9 \in 1..15
        BY AllRoutesAre
      <3>2. JobsCalls(id).updateJob = [method |-> "PUT", path |-> <<"jobs", "update", id>>]
        BY DEF JobsCalls
      <3>3. Matches(AllRoutes[9], JobsCalls(id).updateJob) /\ AllRoutes[9].endpoint = "updateJob"
        BY <3>1, <3>2 DEF Matches, Route
      <3> QED
        BY <3>1, <3>3, MatchIsFound
    <2>5. endpointOf(JobsCalls(id).changeJobScheduleStatus) = "changeJobScheduleStatus"
      <3>1. AllRoutes[10] = Route("PUT", <<"jobs", "change-schedule-status", ":id">>, "changeJobScheduleStatus") /\ 10 \in 1..15
        BY AllRoutesAre
      <3>2. JobsCalls(id).changeJobScheduleStatus = [method |-> "PUT", path |-> <<"jobs", "change-schedule-status", id>>]
        BY DEF JobsCalls
      <3>3. Matches(AllRoutes[10], JobsCalls(id).changeJobScheduleStatus) /\ AllRoutes[10].endpoint = "changeJobScheduleStatus"
        BY <3>1, <3>2 DEF Matches, Route
      <3> QED
        BY <3>1, <3>3, MatchIsFound
    <2>6. endpointOf(JobsCalls(id).retryJobSchedule) = "retryJobSchedule"
      <3>1. AllRoutes[11] = Route("POST", <<"jobs", "retry-schedule", ":id">>, "retryJobSchedule") /\ 11 \in 1..15
        BY AllRoutesAre
      <3>2. JobsCalls(id).retryJobSchedule = [method |-> "POST", path |-> <<"jobs", "retry-schedule", id>>]
        BY DEF JobsCalls
      <3>3. Matches(AllRoutes[11], JobsCalls(id).retryJobSchedule) /\ AllRoutes[11].endpoint = "retryJobSchedule"
        BY <3>1, <3>2 DEF Matches, Route
      <3> QED
        BY <3>1, <3>3, MatchIsFound
    <2>7. endpointOf(JobsCalls(id).runJob) = "runJob"
      <3>1. AllRoutes[12] = Route("POST", <<"jobs", "run", ":id">>, "runJob") /\ 12 \in 1..15
        BY AllRoutesAre
      <3>2. JobsCalls(id).runJob = [method |-> "POST", path |-> <<"jobs", "run", id>>]
        BY DEF JobsCalls
      <3>3. Matches(AllRoutes[12], JobsCalls(id).runJob) /\ AllRoutes[12].endpoint = "runJob"
        BY <3>1, <3>2 DEF Matches, Route
      <3> QED
        BY <3>1, <3>3, MatchIsFound
    <2>8. endpointOf(JobsCalls(id).stopJob) = "stopJob"
      <3>1. AllRoutes[13] = Route("POST", <<"jobs", "stop", ":id">>, "stopJob") /\ 13 \in 1..15
        BY AllRoutesAre
      <3>2. JobsCalls(id).stopJob = [method |-> "POST", path |-> <<"jobs", "stop", id>>]
        BY DEF JobsCalls
      <3>3. Matches(AllRoutes[13], JobsCalls(id).stopJob) /\ AllRoutes[13].endpoint = "stopJob"
        BY <3>1, <3>2 DEF Matches, Route
      <3> QED
        BY <3>1, <3>3, MatchIsFound
    <2>9. endpointOf(JobsCalls(id).deleteJob) = "deleteJob"
      <3>1. AllRoutes[14] = Route("DELETE", <<"jobs", "delete", ":id">>, "deleteJob") /\ 14 \in 1..15
        BY AllRoutesAre
      <3>2. JobsCalls(id).deleteJob = [method |-> "DELETE", path |-> <<"jobs", "delete", id>>]
        BY DEF JobsCalls
      <3>3. Matches(AllRoutes[14], JobsCalls(id).deleteJob) /\ AllRoutes[14].endpoint = "deleteJob"
        BY <3>1, <3>2 DEF Matches, Route
      <3> QED
        BY <3>1, <3>3, MatchIsFound
    <2>10. endpointOf(JobsCalls(id).streamJobs) = "streamJobs"
      <3>1. AllRoutes[15] = Route("GET", <<"jobs", "stream-all">>, "streamJobs") /\ 15 \in 1..15
        BY AllRoutesAre
      <3>2. JobsCalls(id).streamJobs = [method |-> "GET", path |-> <<"jobs", "stream-all">>]
        BY DEF JobsCalls
      <3>3. Matches(AllRoutes[15], JobsCalls(id).streamJobs) /\ AllRoutes[15].endpoint = "streamJobs"
        BY <3>1, <3>2 DEF Matches, Route
      <3> QED
        BY <3>1, <3>3, MatchIsFound
    <2>11. DOMAIN JobsCalls(id) = {"createJob", "getAllJobs", "getJob", "updateJob", "changeJobScheduleStatus", "retryJobSchedule", "runJob", "stopJob", "deleteJob", "streamJobs"}
      BY DEF JobsCalls
    <2> QED
      BY <2>1, <2>2, <2>3, <2>4, <2>5, <2>6, <2>7, <2>8, <2>9, <2>10, <2>11
  <1> QED
    BY <1>1, <1>2 DEF CallsFindHandlers

-----------------------------------------------------------------------------
\* Answers

LEMMA StatusAre ==
  /\ DOMAIN Status = {"UnauthorizedException", "TokenException", "ForbiddenException",
       "InputValidationException", "InvalidPayload", "SchemaValidationException", "ConflictException",
       "ResourceNotFoundException", "BusinessLogicException", "DatabaseException", "InternalException"}
  /\ Status["UnauthorizedException"] = 404 /\ Status["TokenException"] = 401
  /\ Status["ForbiddenException"] = 403 /\ Status["InputValidationException"] = 400
  /\ Status["InvalidPayload"] = 400 /\ Status["SchemaValidationException"] = 500
  /\ Status["ConflictException"] = 409 /\ Status["ResourceNotFoundException"] = 404
  /\ Status["BusinessLogicException"] = 422 /\ Status["DatabaseException"] = 500
  /\ Status["InternalException"] = 500
  BY DEF Status, authentication, validation, resource, database, system

\* The exception and the status that an error becomes.
LEMMA ExceptionOf ==
  ASSUME NEW error \in Errors \ {"RateLimit"}
  PROVE  /\ applicationException(error) \in DOMAIN Status
         /\ Status[applicationException(error)] \in 400..500
         /\ Status[applicationException(error)] # 429
         /\ Status[applicationException(error)] >= 500 =>
              error \in {"Error", "MongoError", "BSONError", "SchemaValidationException"}
         /\ applicationException(error) \in {"InvalidPayload", "SchemaValidationException"} =>
              error \in {"InvalidPayload", "SchemaValidationException"}
  BY StatusAre DEF applicationException, Errors

\* What is answered to an error.
LEMMA ErrorIsAnswered ==
  ASSUME NEW error \in Errors
  PROVE  /\ errorResponse(error).status \in 400..500
         /\ errorResponse(error).status >= 500 =>
              error \in {"Error", "MongoError", "BSONError", "SchemaValidationException"}
         /\ "issues" \in errorResponse(error).fields =>
              error \in {"InvalidPayload", "SchemaValidationException"}
         /\ errorResponse(error).body # "json" <=> error = "RateLimit"
         /\ errorResponse(error).status = 429 <=> error = "RateLimit"
         /\ errorResponse(error).body # "events"
  <1>1. CASE error = "RateLimit"
    BY <1>1 DEF errorResponse, Plain
  <1>2. CASE error # "RateLimit"
    <2>1. errorResponse(error) = Envelope(applicationException(error))
      BY <1>2 DEF errorResponse
    <2>2. /\ Envelope(applicationException(error)).status = Status[applicationException(error)]
          /\ Envelope(applicationException(error)).body = "json"
          /\ "issues" \in Envelope(applicationException(error)).fields =>
               applicationException(error) \in {"InvalidPayload", "SchemaValidationException"}
      BY DEF Envelope
    <2> QED
      BY <1>2, <2>1, <2>2, ExceptionOf
  <1> QED
    BY <1>1, <1>2

-----------------------------------------------------------------------------
\* Stages

\* A request that is not refused has passed every stage.
LEMMA PassedAll ==
  ASSUME NEW request, NEW n \in Nat, DOMAIN stages(request) = 1..n, refused(request) = None,
         NEW i \in 1..n
  PROVE  refusal(stages(request)[i], request) = None
  <1> DEFINE refusing == {k \in 1..n : refusal(stages(request)[k], request) # None}
  <1>1. refused(request) = IF refusing = {} THEN None ELSE refusal(stages(request)[Min(refusing)], request)
    BY DEF refused
  <1>2. refusing # {} => Min(refusing) \in refusing
    BY MinIn
  <1> QED
    BY <1>1, <1>2

\* One that is refused is refused by the first stage that throws.
LEMMA RefusedByFirst ==
  ASSUME NEW request, NEW n \in Nat, DOMAIN stages(request) = 1..n, refused(request) # None
  PROVE  \E i \in 1..n : /\ refused(request) = refusal(stages(request)[i], request)
                         /\ \A j \in 1..(i - 1) : refusal(stages(request)[j], request) = None
  <1> DEFINE refusing == {k \in 1..n : refusal(stages(request)[k], request) # None}
  <1>1. refused(request) = IF refusing = {} THEN None ELSE refusal(stages(request)[Min(refusing)], request)
    BY DEF refused
  <1>2. refusing # {}
    BY <1>1
  <1>3. Min(refusing) \in refusing /\ \A t \in refusing : Min(refusing) <= t
    BY <1>2, MinIn
  <1>4. \A j \in 1..(Min(refusing) - 1) : j \in 1..n /\ ~(Min(refusing) <= j)
    BY <1>3
  <1>5. \A j \in 1..(Min(refusing) - 1) : refusal(stages(request)[j], request) = None
    BY <1>3, <1>4
  <1> QED
    BY <1>1, <1>2, <1>3, <1>5

\* A sequence after two elements, and after one.
LEMMA AfterTwo ==
  ASSUME NEW V, NEW a \in V, NEW b \in V, NEW t \in Seq(V), NEW u, u = <<a, b>> \o t
  PROVE  /\ u \in Seq(V) /\ Len(u) = 2 + Len(t) /\ u[1] = a /\ u[2] = b
         /\ \A i \in 1..Len(t) : u[2 + i] = t[i]
  <1>1. PICK s : s = <<a, b>>
    OBVIOUS
  <1>2. s \in Seq(V) /\ Len(s) = 2 /\ s[1] = a /\ s[2] = b
    BY <1>1
  <1>3. u = s \o t
    BY <1>1
  <1>4. s \in Seq(V)
    BY <1>2
  <1>5. /\ u \in Seq(V) /\ Len(u) = Len(s) + Len(t)
        /\ \A i \in 1..Len(s) : u[i] = s[i]
        /\ \A j \in 1..Len(t) : u[Len(s) + j] = t[j]
    BY <1>3, <1>4, ConcatAt
  <1> QED
    BY <1>2, <1>5

LEMMA AfterOne ==
  ASSUME NEW V, NEW a \in V, NEW t \in Seq(V), NEW u, u = <<a>> \o t
  PROVE  /\ u \in Seq(V) /\ Len(u) = 1 + Len(t) /\ u[1] = a
         /\ \A i \in 1..Len(t) : u[1 + i] = t[i]
  <1>1. PICK s : s = <<a>>
    OBVIOUS
  <1>2. s \in Seq(V) /\ Len(s) = 1 /\ s[1] = a
    BY <1>1
  <1>3. u = s \o t
    BY <1>1
  <1>4. s \in Seq(V)
    BY <1>2
  <1>5. /\ u \in Seq(V) /\ Len(u) = Len(s) + Len(t)
        /\ \A i \in 1..Len(s) : u[i] = s[i]
        /\ \A j \in 1..Len(t) : u[Len(s) + j] = t[j]
    BY <1>3, <1>4, ConcatAt
  <1> QED
    BY <1>2, <1>5

LEMMA ConcatEmpty ==
  ASSUME NEW V, NEW t \in Seq(V)
  PROVE  t \o <<>> = t /\ <<>> \o t = t
  OBVIOUS

StageNames ==
  {"bodyParsers", "resources", "authenticate", "limiter", "userInput", "authenticationInput",
   "refreshToken", "jobPayload", "promptPayload", "pagination"}

LEMMA StageSeqs ==
  /\ <<>> \in Seq(StageNames)
  /\ \A a, b, c \in StageNames : /\ <<a>> \in Seq(StageNames) /\ <<a, b>> \in Seq(StageNames)
                                 /\ <<a, b, c>> \in Seq(StageNames)
  OBVIOUS

\* The stages of a public route, after the body parsers and the database.
LEMMA PublicStagesAre ==
  ASSUME NEW request, ~IsPrivate(request)
  PROVE  LET s == stages(request)
             endpoint == endpointOf(request) IN
         /\ s[1] = "bodyParsers" /\ s[2] = "resources"
         /\ endpoint \in {"login", "register"} =>
              DOMAIN s = 1..5 /\ s[3] = "limiter" /\ s[4] = "userInput" /\ s[5] = "authenticationInput"
         /\ endpoint = "logout" => DOMAIN s = 1..3 /\ s[3] = "refreshToken"
         /\ endpoint = "refresh" => DOMAIN s = 1..4 /\ s[3] = "limiter" /\ s[4] = "refreshToken"
         /\ endpoint = "openapi" => DOMAIN s = 1..2
  <1> DEFINE t == publicStages(endpointOf(request))
             s == stages(request)
  <1>1. endpointOf(request) # None
    BY EndpointKinds, NoneIsNoEndpoint
  <1>2. s = <<"bodyParsers", "resources">> \o t
    BY <1>1, EndpointKinds DEF stages, IsPrivate
  <1>3. /\ endpointOf(request) \in {"login", "register"} => t = <<"limiter", "userInput", "authenticationInput">>
        /\ endpointOf(request) = "logout" => t = <<"refreshToken">>
        /\ endpointOf(request) = "refresh" => t = <<"limiter", "refreshToken">>
        /\ endpointOf(request) = "openapi" => t = <<>>
    BY DEF publicStages
  <1>4. t \in Seq(StageNames) /\ "bodyParsers" \in StageNames /\ "resources" \in StageNames
    <2>1. /\ t \in {<<"limiter", "userInput", "authenticationInput">>, <<"refreshToken">>, <<"limiter", "refreshToken">>, <<>>}
          /\ {"bodyParsers", "resources", "limiter", "userInput", "authenticationInput", "refreshToken"} \subseteq StageNames
      BY EndpointKinds, <1>3 DEF PublicEndpoints, StageNames
    <2> HIDE DEF t
    <2> QED
      BY <2>1, StageSeqs
  <1> HIDE DEF s, t
  <1>5. /\ s \in Seq(StageNames) /\ Len(s) = 2 + Len(t) /\ s[1] = "bodyParsers" /\ s[2] = "resources"
        /\ \A i \in 1..Len(t) : s[2 + i] = t[i]
    BY <1>2, <1>4, AfterTwo
  <1>6. s[1] = "bodyParsers" /\ s[2] = "resources"
    BY <1>5
  <1>7. ASSUME endpointOf(request) \in {"login", "register"}
        PROVE  DOMAIN s = 1..5 /\ s[3] = "limiter" /\ s[4] = "userInput" /\ s[5] = "authenticationInput"
    <2>1. Len(t) = 3 /\ t[1] = "limiter" /\ t[2] = "userInput" /\ t[3] = "authenticationInput"
      BY <1>3, <1>7
    <2> QED
      BY <1>5, <2>1
  <1>8. ASSUME endpointOf(request) = "logout"
        PROVE  DOMAIN s = 1..3 /\ s[3] = "refreshToken"
    <2>1. Len(t) = 1 /\ t[1] = "refreshToken"
      BY <1>3, <1>8
    <2> QED
      BY <1>5, <2>1
  <1>9. ASSUME endpointOf(request) = "refresh"
        PROVE  DOMAIN s = 1..4 /\ s[3] = "limiter" /\ s[4] = "refreshToken"
    <2>1. Len(t) = 2 /\ t[1] = "limiter" /\ t[2] = "refreshToken"
      BY <1>3, <1>9
    <2> QED
      BY <1>5, <2>1
  <1>10. ASSUME endpointOf(request) = "openapi"
         PROVE  DOMAIN s = 1..2
    <2>1. Len(t) = 0
      BY <1>3, <1>10
    <2> QED
      BY <1>5, <2>1
  <1> QED
    BY <1>6, <1>7, <1>8, <1>9, <1>10 DEF s

JobPayloads == {"createJob", "updateJob", "changeJobScheduleStatus"}
PromptPayloads == {"startPrompt", "permitPrompt", "refusePrompt"}

\* The stages of any other path: after the token comes the payload, if the handler reads one.
LEMMA PrivateStagesAre ==
  ASSUME NEW request, IsPrivate(request)
  PROVE  LET s == stages(request)
             endpoint == endpointOf(request) IN
         /\ s[1] = "bodyParsers" /\ s[2] = "resources" /\ s[3] = "authenticate"
         /\ endpoint \in JobPayloads => DOMAIN s = 1..4 /\ s[4] = "jobPayload"
         /\ endpoint = "getAllJobs" => DOMAIN s = 1..4 /\ s[4] = "pagination"
         /\ endpoint \in PromptPayloads => DOMAIN s = 1..4 /\ s[4] = "promptPayload"
         /\ endpoint \notin JobPayloads \cup {"getAllJobs"} \cup PromptPayloads => DOMAIN s = 1..3
  <1> DEFINE t == privateStages(endpointOf(request))
             s == stages(request)
             endpoint == endpointOf(request)
  <1>1. s = <<"bodyParsers", "resources">> \o (<<"authenticate">> \o t)
    BY DEF stages, IsPrivate
  <1>2. /\ endpoint \in JobPayloads => t = <<"jobPayload">>
        /\ endpoint = "getAllJobs" => t = <<"pagination">>
        /\ endpoint \in PromptPayloads => t = <<"promptPayload">>
        /\ endpoint \notin JobPayloads \cup {"getAllJobs"} \cup PromptPayloads => t = <<>>
    <2>1. t = jobsStages(endpoint) \o mcpStages(endpoint)
      BY DEF privateStages
    <2>2. \A a \in StageNames : <<a>> \o <<>> = <<a>> /\ <<>> \o <<a>> = <<a>>
      BY StageSeqs, ConcatEmpty
    <2>3. <<>> \o <<>> = <<>>
      BY StageSeqs, ConcatEmpty
    <2>4. /\ endpoint \in JobPayloads => jobsStages(endpoint) = <<"jobPayload">> /\ mcpStages(endpoint) = <<>>
          /\ endpoint = "getAllJobs" => jobsStages(endpoint) = <<"pagination">> /\ mcpStages(endpoint) = <<>>
          /\ endpoint \in PromptPayloads => jobsStages(endpoint) = <<>> /\ mcpStages(endpoint) = <<"promptPayload">>
          /\ endpoint \notin JobPayloads \cup {"getAllJobs"} \cup PromptPayloads =>
               jobsStages(endpoint) = <<>> /\ mcpStages(endpoint) = <<>>
      BY DEF jobsStages, mcpStages, JobPayloads, PromptPayloads
    <2>5. {"jobPayload", "pagination", "promptPayload"} \subseteq StageNames
      BY DEF StageNames
    <2> QED
      BY <2>1, <2>2, <2>3, <2>4, <2>5
  <1>3. t \in Seq(StageNames) /\ {"bodyParsers", "resources", "authenticate"} \subseteq StageNames
    <2>1. /\ t \in {<<"jobPayload">>, <<"pagination">>, <<"promptPayload">>, <<>>}
          /\ {"bodyParsers", "resources", "authenticate", "jobPayload", "pagination", "promptPayload"} \subseteq StageNames
      BY <1>2 DEF StageNames
    <2> HIDE DEF t
    <2> QED
      BY <2>1, StageSeqs
  <1> HIDE DEF s, t
  <1>4. PICK u : u = <<"authenticate">> \o t
    OBVIOUS
  <1>5. /\ u \in Seq(StageNames) /\ Len(u) = 1 + Len(t) /\ u[1] = "authenticate"
        /\ \A i \in 1..Len(t) : u[1 + i] = t[i]
    BY <1>3, <1>4, AfterOne
  <1>6. /\ s \in Seq(StageNames) /\ Len(s) = 2 + Len(u) /\ s[1] = "bodyParsers" /\ s[2] = "resources"
        /\ \A i \in 1..Len(u) : s[2 + i] = u[i]
    BY <1>1, <1>3, <1>4, <1>5, AfterTwo
  <1>7. Len(t) \in Nat
    BY <1>3
  <1>8. s[3] = "authenticate" /\ DOMAIN s = 1..(3 + Len(t)) /\ (Len(t) = 1 => s[4] = t[1])
    BY <1>5, <1>6, <1>7
  <1>9. ASSUME NEW a, t = <<a>>
        PROVE  DOMAIN s = 1..4 /\ s[4] = a
    <2>1. Len(t) = 1 /\ t[1] = a
      BY <1>9
    <2> QED
      BY <1>8, <2>1
  <1>10. ASSUME t = <<>>
         PROVE  DOMAIN s = 1..3
    <2>1. Len(t) = 0
      BY <1>10
    <2> QED
      BY <1>8, <2>1
  <1> QED
    BY <1>2, <1>6, <1>8, <1>9, <1>10 DEF s

\* What a stage throws.
LEMMA RefusalIs ==
  ASSUME NEW request
  PROVE  /\ refusal("bodyParsers", request) = bodyParsers(request)
         /\ refusal("resources", request) = dbContext(request)
         /\ refusal("authenticate", request) = authenticateContext(request)
         /\ refusal("limiter", request) = limiter(request)
         /\ refusal("userInput", request) = validateUserInput(request)
         /\ refusal("authenticationInput", request) = validateAuthenticationInput(request)
         /\ refusal("refreshToken", request) = validateRefreshToken(request)
         /\ refusal("jobPayload", request) = validateJobPayload(request)
         /\ refusal("promptPayload", request) = validatePromptPayload(request)
         /\ refusal("pagination", request) = validatePaginationQueryParams(request)
  BY DEF refusal

\* What it takes to pass a stage.
LEMMA PassingTakes ==
  ASSUME NEW request, IsRequest(request)
  PROVE  /\ dbContext(request) = None => request.dbUp
         /\ authenticateContext(request) = None => request.header = "valid"
         /\ validateAuthenticationInput(request) = None => request.body = "valid"
         /\ validateRefreshToken(request) = None => request.cookie # None
         /\ validateJobPayload(request) = None => request.body = "valid"
         /\ validatePromptPayload(request) = None => request.body = "valid"
  BY NoneIsNoError DEF Errors, IsRequest, dbContext, authenticateContext, tokenError,
     validateAuthenticationInput, validateRequestPayload, validateRefreshToken, validateJobPayload,
     validatePromptPayload

\* A handler runs only on a connected database, for a user the token names and over a body
\* its schema accepted, for every request: the routers' stages in their order.
THEOREM HandlersAreGuarded ==
  ASSUME NEW request, IsRequest(request)
  PROVE  HandlerIsGuarded(request)
  <1> SUFFICES ASSUME refused(request) = None
               PROVE  /\ request.dbUp
                      /\ IsPrivate(request) => request.header = "valid"
                      /\ ReadsBody(endpointOf(request)) => request.body = "valid"
                      /\ endpointOf(request) \in {"logout", "refresh"} => request.cookie # None
    BY DEF HandlerIsGuarded
  <1> DEFINE s == stages(request)
             endpoint == endpointOf(request)
  <1>1. ASSUME NEW n \in Nat, DOMAIN s = 1..n, NEW i \in 1..n
        PROVE  refusal(s[i], request) = None
    BY <1>1, PassedAll
  <1>2. CASE ~IsPrivate(request)
    <2>1. endpoint \in PublicEndpoints
      BY <1>2, EndpointKinds
    <2>2. CASE endpoint \in {"login", "register"}
      <3>1. 5 \in Nat /\ 2 \in 1..5 /\ 5 \in 1..5
        OBVIOUS
      <3>2. refusal("resources", request) = None /\ refusal("authenticationInput", request) = None
        BY <1>1, <1>2, <2>2, <3>1, PublicStagesAre, Zenon
      <3> QED
        BY <1>2, <2>2, <3>2, RefusalIs, PassingTakes
    <2>3. CASE endpoint = "logout"
      <3>1. 3 \in Nat /\ 2 \in 1..3 /\ 3 \in 1..3
        OBVIOUS
      <3>2. refusal("resources", request) = None /\ refusal("refreshToken", request) = None
        BY <1>1, <1>2, <2>3, <3>1, PublicStagesAre, Zenon
      <3> QED
        BY <1>2, <2>3, <3>2, RefusalIs, PassingTakes DEF ReadsBody
    <2>4. CASE endpoint = "refresh"
      <3>1. 4 \in Nat /\ 2 \in 1..4 /\ 4 \in 1..4
        OBVIOUS
      <3>2. refusal("resources", request) = None /\ refusal("refreshToken", request) = None
        BY <1>1, <1>2, <2>4, <3>1, PublicStagesAre, Zenon
      <3> QED
        BY <1>2, <2>4, <3>2, RefusalIs, PassingTakes DEF ReadsBody
    <2>5. CASE endpoint = "openapi"
      <3>1. 2 \in Nat /\ 2 \in 1..2
        OBVIOUS
      <3>2. refusal("resources", request) = None
        BY <1>1, <1>2, <2>5, <3>1, PublicStagesAre, Zenon
      <3> QED
        BY <1>2, <2>5, <3>2, RefusalIs, PassingTakes DEF ReadsBody
    <2> QED
      BY <2>1, <2>2, <2>3, <2>4, <2>5 DEF PublicEndpoints
  <1>3. CASE IsPrivate(request)
    <2>1. \E n \in {3, 4} : DOMAIN s = 1..n
      BY <1>3, PrivateStagesAre
    <2>2. PICK n \in {3, 4} : DOMAIN s = 1..n
      BY <2>1
    <2>3. n \in Nat /\ 2 \in 1..n /\ 3 \in 1..n
      OBVIOUS
    <2>4. refusal("resources", request) = None /\ refusal("authenticate", request) = None
      BY <1>1, <1>3, <2>2, <2>3, PrivateStagesAre, Zenon
    <2>5. request.dbUp /\ request.header = "valid"
      BY <2>4, RefusalIs, PassingTakes
    <2>6. endpoint \notin {"login", "register", "logout", "refresh"}
      BY <1>3, EndpointKinds, NoneIsNoEndpoint
         DEF PublicEndpoints, PrivateEndpoints, JobById, ConversationById, PromptById, Streams
    <2>7. ASSUME ReadsBody(endpoint)
          PROVE  request.body = "valid"
      <3>1. endpoint \in JobPayloads \/ endpoint \in PromptPayloads
        BY <2>6, <2>7 DEF ReadsBody, JobPayloads, PromptPayloads
      <3>2. 4 \in Nat /\ 4 \in 1..4
        OBVIOUS
      <3>3. refusal("jobPayload", request) = None \/ refusal("promptPayload", request) = None
        BY <1>1, <1>3, <3>1, <3>2, PrivateStagesAre, Zenon
      <3> QED
        BY <3>3, RefusalIs, PassingTakes
    <2> QED
      BY <2>5, <2>6, <2>7
  <1> QED
    BY <1>2, <1>3

-----------------------------------------------------------------------------
\* Refusals and failures

PayloadErrors == {"InvalidPayload", "SchemaValidationException"}
ServerErrors == {"Error", "MongoError", "BSONError", "SchemaValidationException"}

\* What the stages throw, and what it says of the request.
LEMMA StageThrows ==
  ASSUME NEW request, IsRequest(request)
  PROVE  /\ bodyParsers(request) \in {None, "Error"}
         /\ bodyParsers(request) = "Error" => request.body \in {"unparsable", "tooLarge"}
         /\ dbContext(request) \in {None, "MongoError"} /\ (dbContext(request) = "MongoError" => ~request.dbUp)
         /\ authenticateContext(request) \in
              {None, "InputValidationException", "JsonWebTokenError", "TokenException"}
         /\ request.header # "valid" => authenticateContext(request) # None
         /\ limiter(request) \in {None, "RateLimit"}
         /\ {validateUserInput(request), validateAuthenticationInput(request), validateRefreshToken(request),
             validateJobPayload(request), validatePromptPayload(request), validatePaginationQueryParams(request)}
              \subseteq {None, "InputValidationException", "InvalidPayload", "ForbiddenException", "TokenException"}
  BY NoneIsNoError DEF Errors, IsRequest, bodyParsers, dbContext, authenticateContext, tokenError,
     limiter,
     validateUserInput, validateAuthenticationInput, validateRequestPayload, validateRefreshToken,
     validateJobPayload, validatePromptPayload, validatePaginationQueryParams

LEMMA RefusalThrows ==
  ASSUME NEW request, IsRequest(request), NEW stage \in StageNames
  PROVE  LET error == refusal(stage, request) IN
         /\ error \in {None} \cup (Errors \ {"BSONError", "SchemaValidationException"})
         /\ error \in ServerErrors => ~request.dbUp \/ request.body \in {"unparsable", "tooLarge"}
         /\ stage \in {"bodyParsers", "resources", "authenticate"} => error \notin PayloadErrors
  <1>1. refusal(stage, request) \in
          {bodyParsers(request), dbContext(request), authenticateContext(request), limiter(request),
           validateUserInput(request), validateAuthenticationInput(request), validateRefreshToken(request),
           validateJobPayload(request), validatePromptPayload(request), validatePaginationQueryParams(request)}
    BY RefusalIs DEF StageNames
  <1>2. stage \in {"bodyParsers", "resources", "authenticate"} =>
          refusal(stage, request) \in {bodyParsers(request), dbContext(request), authenticateContext(request)}
    BY RefusalIs
  <1>3. None \notin ServerErrors \cup PayloadErrors
    BY NoneIsNoError DEF ServerErrors, PayloadErrors, Errors
  <1>4. refusal(stage, request) \in {None} \cup (Errors \ {"BSONError", "SchemaValidationException"})
    BY <1>1, StageThrows DEF Errors
  <1>5. ASSUME refusal(stage, request) \in ServerErrors
        PROVE  ~request.dbUp \/ request.body \in {"unparsable", "tooLarge"}
    BY <1>1, <1>3, <1>5, StageThrows DEF ServerErrors
  <1>6. ASSUME stage \in {"bodyParsers", "resources", "authenticate"}
        PROVE  refusal(stage, request) \notin PayloadErrors
    BY <1>2, <1>3, <1>6, StageThrows DEF PayloadErrors
  <1> QED
    BY <1>4, <1>5, <1>6

LEMMA StagesTyped ==
  ASSUME NEW request
  PROVE  \E n \in 2..5 : DOMAIN stages(request) = 1..n /\ \A i \in 1..n : stages(request)[i] \in StageNames
  <1> DEFINE s == stages(request)
             endpoint == endpointOf(request)
  <1>1. ASSUME DOMAIN s = 1..2, {s[1], s[2]} \subseteq StageNames
        PROVE  \E n \in 2..5 : DOMAIN s = 1..n /\ \A i \in 1..n : s[i] \in StageNames
    <2>1. \A i \in 1..2 : i = 1 \/ i = 2
      OBVIOUS
    <2>2. 2 \in 2..5 /\ \A i \in 1..2 : s[i] \in StageNames
      BY <1>1, <2>1
    <2> QED
      BY <1>1, <2>2
  <1>2. ASSUME DOMAIN s = 1..3, {s[1], s[2], s[3]} \subseteq StageNames
        PROVE  \E n \in 2..5 : DOMAIN s = 1..n /\ \A i \in 1..n : s[i] \in StageNames
    <2>1. \A i \in 1..3 : i = 1 \/ i = 2 \/ i = 3
      OBVIOUS
    <2>2. 3 \in 2..5 /\ \A i \in 1..3 : s[i] \in StageNames
      BY <1>2, <2>1
    <2> QED
      BY <1>2, <2>2
  <1>3. ASSUME DOMAIN s = 1..4, {s[1], s[2], s[3], s[4]} \subseteq StageNames
        PROVE  \E n \in 2..5 : DOMAIN s = 1..n /\ \A i \in 1..n : s[i] \in StageNames
    <2>1. \A i \in 1..4 : i = 1 \/ i = 2 \/ i = 3 \/ i = 4
      OBVIOUS
    <2>2. 4 \in 2..5 /\ \A i \in 1..4 : s[i] \in StageNames
      BY <1>3, <2>1
    <2> QED
      BY <1>3, <2>2
  <1>4. ASSUME DOMAIN s = 1..5, {s[1], s[2], s[3], s[4], s[5]} \subseteq StageNames
        PROVE  \E n \in 2..5 : DOMAIN s = 1..n /\ \A i \in 1..n : s[i] \in StageNames
    <2>1. \A i \in 1..5 : i = 1 \/ i = 2 \/ i = 3 \/ i = 4 \/ i = 5
      OBVIOUS
    <2>2. 5 \in 2..5 /\ \A i \in 1..5 : s[i] \in StageNames
      BY <1>4, <2>1
    <2> QED
      BY <1>4, <2>2
  <1> HIDE DEF s, endpoint
  <1>5. CASE ~IsPrivate(request)
    <2>1. endpoint \in PublicEndpoints
      BY <1>5, EndpointKinds DEF endpoint
    <2>2. \/ DOMAIN s = 1..5 /\ {s[1], s[2], s[3], s[4], s[5]} \subseteq StageNames
          \/ DOMAIN s = 1..4 /\ {s[1], s[2], s[3], s[4]} \subseteq StageNames
          \/ DOMAIN s = 1..3 /\ {s[1], s[2], s[3]} \subseteq StageNames
          \/ DOMAIN s = 1..2 /\ {s[1], s[2]} \subseteq StageNames
      BY <1>5, <2>1, PublicStagesAre DEF s, endpoint, PublicEndpoints, StageNames
    <2> QED
      BY <1>1, <1>2, <1>3, <1>4, <2>2 DEF s
  <1>6. CASE IsPrivate(request)
    <2>1. \/ DOMAIN s = 1..4 /\ {s[1], s[2], s[3], s[4]} \subseteq StageNames
          \/ DOMAIN s = 1..3 /\ {s[1], s[2], s[3]} \subseteq StageNames
      BY <1>6, PrivateStagesAre DEF s, StageNames
    <2> QED
      BY <1>2, <1>3, <2>1 DEF s
  <1> QED
    BY <1>5, <1>6

\* What a request is refused with.
LEMMA RefusedWith ==
  ASSUME NEW request, IsRequest(request), refused(request) # None
  PROVE  /\ refused(request) \in Errors
         /\ refused(request) \in ServerErrors => ~request.dbUp \/ request.body \in {"unparsable", "tooLarge"}
         /\ (refused(request) \in PayloadErrors /\ IsPrivate(request)) => request.header = "valid"
  <1> DEFINE s == stages(request)
  <1>1. PICK n \in 2..5 : DOMAIN s = 1..n /\ \A i \in 1..n : s[i] \in StageNames
    BY StagesTyped
  <1>2. n \in Nat
    OBVIOUS
  <1>3. PICK i \in 1..n : /\ refused(request) = refusal(s[i], request)
                          /\ \A j \in 1..(i - 1) : refusal(s[j], request) = None
    BY <1>1, <1>2, RefusedByFirst
  <1>4. s[i] \in StageNames
    BY <1>1
  <1>5. /\ refused(request) \in Errors
        /\ refused(request) \in ServerErrors => ~request.dbUp \/ request.body \in {"unparsable", "tooLarge"}
    BY <1>3, <1>4, RefusalThrows
  <1>6. ASSUME refused(request) \in PayloadErrors, IsPrivate(request), request.header # "valid"
        PROVE  FALSE
    <2>1. s[1] = "bodyParsers" /\ s[2] = "resources" /\ s[3] = "authenticate"
      BY <1>6, PrivateStagesAre
    <2>2. refusal(s[3], request) # None
      BY <1>6, <2>1, RefusalIs, StageThrows
    <2>3. ~(3 \in 1..(i - 1))
      BY <1>3, <2>2
    <2>4. i = 1 \/ i = 2 \/ i = 3
      BY <2>3
    <2>5. s[i] \in {"bodyParsers", "resources", "authenticate"}
      BY <2>1, <2>4
    <2> QED
      BY <1>3, <1>4, <1>6, <2>5, RefusalThrows
  <1> QED
    BY <1>5, <1>6

\* What a handler throws.
LEMMA HandlerThrows ==
  ASSUME NEW request, IsRequest(request), refused(request) = None, NEW error,
         error = handlerError(endpointOf(request), request)
  PROVE  /\ error \in {None} \cup (Errors \ {"RateLimit", "InvalidPayload", "Error"})
         /\ error \in ServerErrors =>
              \/ request.failure \in {"MongoError", "SchemaValidationException"}
              \/ endpointOf(request) \in JobById /\ Last(request.path) = "malformed"
         /\ error \in PayloadErrors => error = request.failure /\ endpointOf(request) # "refresh"
  <1> DEFINE endpoint == endpointOf(request)
             malformed == \E i \in DOMAIN request.path : request.path[i] = "malformed"
  <1>1. None \notin ServerErrors \cup PayloadErrors
    BY NoneIsNoError DEF ServerErrors, PayloadErrors, Errors
  <1>2. CASE endpoint = "refresh"
    <2>1. error \in {None, "JsonWebTokenError", "TokenException"}
      BY <1>2 DEF handlerError, tokenError, JobById, ConversationById, PromptById
    <2> QED
      BY <1>1, <2>1 DEF Errors, ServerErrors, PayloadErrors
  <1>3. CASE malformed /\ endpoint \in JobById
    <2>1. endpoint # "refresh"
      BY <1>3 DEF JobById
    <2>2. error = "BSONError"
      BY <1>3, <2>1 DEF handlerError, JobById, ConversationById, PromptById
    <2>3. Len(request.path) = 3 /\ request.path[1] # "malformed" /\ request.path[2] # "malformed"
      BY <1>3, JobPaths DEF IsRequest
    <2>4. request.path[3] = "malformed"
      <3>1. PICK i \in DOMAIN request.path : request.path[i] = "malformed"
        BY <1>3
      <3>2. i \in 1..Len(request.path)
        BY DEF IsRequest
      <3>3. i = 1 \/ i = 2 \/ i = 3
        BY <2>3, <3>2
      <3> QED
        BY <2>3, <3>1, <3>3
    <2>5. Last(request.path) = "malformed"
      BY <2>3, <2>4 DEF Last
    <2> QED
      BY <1>3, <2>2, <2>5 DEF Errors, PayloadErrors
  <1>4. CASE endpoint # "refresh" /\ ~(malformed /\ endpoint \in JobById)
    <2>1. error \in {"ResourceNotFoundException", None} \/ error = request.failure
      BY <1>4 DEF handlerError
    <2>2. request.failure \in Faults
      BY DEF IsRequest
    <2> QED
      BY <1>1, <1>4, <2>1, <2>2 DEF Errors, ServerErrors, PayloadErrors, Faults
  <1> QED
    BY <1>2, <1>3, <1>4

-----------------------------------------------------------------------------
\* The answers of whole requests

\* The answer to a request that was not refused.
LEMMA HandledIs ==
  ASSUME NEW request, IsRequest(request), refused(request) = None
  PROVE  LET endpoint == endpointOf(request)
             error == handlerError(endpoint, request)
             answer == response(request) IN
         /\ answer = handled(endpoint, request)
         /\ endpoint = None => answer = Plain(404, "html")
         /\ endpoint # None /\ error # None =>
              error \in Errors \ {"RateLimit", "InvalidPayload", "Error"} /\ answer = errorResponse(error)
         /\ endpoint # None /\ error = None =>
              /\ endpoint \in Streams => answer = Plain(200, "events")
              /\ endpoint \notin Streams => /\ answer.status \in {200, 201} /\ answer.body = "json"
                                            /\ "issues" \notin answer.fields
  <1> DEFINE endpoint == endpointOf(request)
             error == handlerError(endpoint, request)
             answer == response(request)
  <1>1. answer = handled(endpoint, request)
    BY DEF response
  <1>2. endpoint = None => answer = Plain(404, "html")
    BY <1>1, NoneIsNoEndpoint DEF handled, PrivateEndpoints, Streams
  <1>3. ASSUME endpoint # None, error # None
        PROVE  error \in Errors \ {"RateLimit", "InvalidPayload", "Error"} /\ answer = errorResponse(error)
    <2>1. error \in Errors \ {"RateLimit", "InvalidPayload", "Error"}
      BY <1>3, HandlerThrows
    <2>2. endpoint \in Streams => error = None
      BY DEF handlerError, Fails, authFails, jobsFails, mcpFails, Stores, Streams, JobById,
         ConversationById,
             PromptById
    <2> QED
      BY <1>1, <1>3, <2>1, <2>2 DEF handled
  <1>4. ASSUME endpoint # None, error = None
        PROVE  /\ endpoint \in Streams => answer = Plain(200, "events")
               /\ endpoint \notin Streams => /\ answer.status \in {200, 201} /\ answer.body = "json"
                                             /\ "issues" \notin answer.fields
    BY <1>1, <1>4 DEF handled
  <1> QED
    BY <1>1, <1>2, <1>3, <1>4

\* A server error is the server's, or one of the two mistakes of a caller the exceptions do
\* not know, for every request.
THEOREM ServerErrorsAreOwn ==
  ASSUME NEW request, IsRequest(request)
  PROVE  ServerErrorsAreTheServers(request)
  <1> SUFFICES ASSUME response(request).status >= 500
               PROVE  \/ ~request.dbUp
                      \/ request.failure \in {"MongoError", "SchemaValidationException"}
                      \/ request.body \in {"unparsable", "tooLarge"}
                      \/ endpointOf(request) \in JobById /\ Last(request.path) = "malformed"
    BY DEF ServerErrorsAreTheServers
  <1>1. CASE refused(request) # None
    <2>1. response(request) = errorResponse(refused(request))
      BY <1>1 DEF response
    <2> QED
      BY <1>1, <2>1, RefusedWith, ErrorIsAnswered DEF ServerErrors
  <1>2. CASE refused(request) = None
    <2> DEFINE endpoint == endpointOf(request)
               error == handlerError(endpoint, request)
    <2>1. ~(endpoint = None)
      BY <1>2, HandledIs DEF Plain
    <2>2. ~(error = None)
      BY <1>2, <2>1, HandledIs DEF Plain
    <2>3. error \in Errors /\ response(request) = errorResponse(error)
      BY <1>2, <2>1, <2>2, HandledIs
    <2>4. error \in ServerErrors
      BY <2>3, ErrorIsAnswered DEF ServerErrors
    <2> QED
      BY <1>2, <2>4, HandlerThrows
  <1> QED
    BY <1>1, <1>2

\* The issues of a payload are told only to a caller who proved who they are, or where
\* there is nobody to prove yet, for every request.
THEOREM IssuesNeedToken ==
  ASSUME NEW request, IsRequest(request)
  PROVE  IssuesAreForUsers(request)
  <1> SUFFICES ASSUME "issues" \in response(request).fields, IsPrivate(request)
               PROVE  request.header = "valid"
    BY DEF IssuesAreForUsers
  <1>1. CASE refused(request) # None
    <2>1. response(request) = errorResponse(refused(request))
      BY <1>1 DEF response
    <2> QED
      BY <1>1, <2>1, RefusedWith, ErrorIsAnswered DEF PayloadErrors
  <1>2. CASE refused(request) = None
    BY <1>2, HandlersAreGuarded DEF HandlerIsGuarded
  <1> QED
    BY <1>1, <1>2

\* The caller has data exactly when the handler finished, and any other answer is told from
\* it, for every request: rest.ts and stream.ts over the answers of the server.
THEOREM CallersAreTold ==
  ASSUME NEW request, IsRequest(request)
  PROVE  CallerIsTold(request)
  <1> DEFINE endpoint == endpointOf(request)
             error == handlerError(endpoint, request)
             finished == refused(request) = None /\ endpoint # None /\ error = None
             answer == response(request)
             told == rest(answer)
  <1> SUFFICES /\ endpoint \notin Streams => (told.type = "data" <=> finished)
               /\ ~finished => (told.type = "SyntaxError" <=>
                    answer.status = 429 \/ (refused(request) = None /\ endpoint = None))
               /\ endpoint \in Streams => (opened(answer) = "open" <=> finished)
    BY DEF CallerIsTold
  <1>1. ASSUME NEW e \in Errors, answer = errorResponse(e), ~finished,
               ~(refused(request) = None /\ endpoint = None)
        PROVE  /\ told.type # "data" /\ opened(answer) # "open"
               /\ told.type = "SyntaxError" <=> answer.status = 429
    <2>1. /\ answer.status \in 400..500 /\ answer.body # "events"
          /\ answer.body # "json" <=> answer.status = 429
      BY <1>1, ErrorIsAnswered
    <2>2. ~ok(answer)
      BY <2>1 DEF ok
    <2>3. told.type = IF answer.body # "json" THEN "SyntaxError" ELSE "CustomError"
      BY <2>2 DEF rest
    <2>4. opened(answer) # "open"
      BY <2>1, <2>2 DEF opened
    <2> QED
      BY <2>1, <2>3, <2>4
  <1>2. CASE refused(request) # None
    <2>1. refused(request) \in Errors /\ answer = errorResponse(refused(request))
      BY <1>2, RefusedWith DEF response
    <2> QED
      BY <1>1, <1>2, <2>1
  <1>3. CASE refused(request) = None /\ endpoint = None
    <2>1. answer = Plain(404, "html")
      BY <1>3, HandledIs
    <2>2. told.type = "SyntaxError"
      BY <2>1 DEF rest, Plain
    <2>3. endpoint \notin Streams
      BY <1>3, NoneIsNoEndpoint DEF PrivateEndpoints
    <2> QED
      BY <1>3, <2>2, <2>3
  <1>4. CASE refused(request) = None /\ endpoint # None /\ error # None
    <2>1. error \in Errors /\ answer = errorResponse(error)
      BY <1>4, HandledIs
    <2> QED
      BY <1>1, <1>4, <2>1
  <1>5. CASE finished
    <2>1. CASE endpoint \in Streams
      <3>1. answer = Plain(200, "events")
        BY <1>5, <2>1, HandledIs
      <3>2. opened(answer) = "open"
        BY <3>1 DEF opened, Plain, ok
      <3> QED
        BY <1>5, <2>1, <3>2
    <2>2. CASE endpoint \notin Streams
      <3>1. answer.status \in {200, 201} /\ answer.body = "json"
        BY <1>5, <2>2, HandledIs
      <3>2. told.type = "data"
        BY <3>1 DEF rest, ok
      <3> QED
        BY <1>5, <2>2, <3>2
    <2> QED
      BY <2>1, <2>2
  <1> QED
    BY <1>2, <1>3, <1>4, <1>5

-----------------------------------------------------------------------------
\* The run: every state of MCPure is an input of its topic.

InputTyped == topic \in Topics /\ data \in Seq(Alphabet[topic])

LEMMA InputsTyped == PureSpec => []InputTyped
  <1>1. PureInit => InputTyped
    BY DEF PureInit, InputTyped
  <1>2. InputTyped /\ [PureNext]_inputs => InputTyped'
    <2> SUFFICES ASSUME InputTyped, [PureNext]_inputs PROVE InputTyped'
      OBVIOUS
    <2>1. CASE UNCHANGED inputs
      BY <2>1 DEF InputTyped, inputs
    <2>2. CASE PureNext
      <3>1. PICK x \in Alphabet[topic] : data' = Append(data, x)
        BY <2>2 DEF PureNext
      <3>2. topic' = topic
        BY <2>2 DEF PureNext
      <3> QED
        BY <3>1, <3>2 DEF InputTyped
    <2> QED
      BY <2>1, <2>2
  <1> QED
    BY <1>1, <1>2, PTL DEF PureSpec

\* The first element of an input is of its topic's alphabet.
LEMMA FirstInput ==
  ASSUME InputTyped, data # <<>>
  PROVE  data[1] \in Alphabet[topic]
  BY DEF InputTyped

LEMMA CallsArePaths ==
  ASSUME NEW call \in RouteCalls
  PROVE  call.path \in Seq(ToSet(call.path))
  <1>1. ASSUME NEW n \in Nat, NEW p, p = [i \in 1..n |-> p[i]]
        PROVE  p \in Seq(ToSet(p))
    <2>1. \A i \in 1..n : p[i] \in ToSet(p)
      BY <1>1 DEF ToSet
    <2> QED
      BY <1>1, <2>1
  <1> DEFINE Filled(pattern, id) == [i \in DOMAIN pattern |-> IF pattern[i] = ":id" THEN id ELSE pattern[i]]
  <1>2. CASE call = [method |-> "GET", path |-> <<"nowhere">>]
    <2>1. call.path = [i \in 1..1 |-> call.path[i]]
      BY <1>2
    <2> QED
      BY <1>1, <2>1
  <1>3. CASE \E entry \in ToSet(AllRoutes), id \in {"id", "malformed"} :
               call = [method |-> entry.method, path |-> Filled(entry.pattern, id)]
    <2>1. PICK entry \in ToSet(AllRoutes), id \in {"id", "malformed"} :
               call = [method |-> entry.method, path |-> Filled(entry.pattern, id)]
      BY <1>3
    <2>2. PICK i \in 1..24 : entry = AllRoutes[i]
      BY AllRoutesAre DEF ToSet
    <2>3. \E n \in {2, 3, 4} : DOMAIN entry.pattern = 1..n
      BY <2>2, RouteHasShape DEF HasShape
    <2>4. PICK n \in {2, 3, 4} : DOMAIN entry.pattern = 1..n
      BY <2>3
    <2>5. call.path = Filled(entry.pattern, id)
      BY <2>1
    <2>6. call.path = [k \in 1..n |-> call.path[k]]
      BY <2>4, <2>5
    <2> QED
      BY <1>1, <2>6
  <1> QED
    BY <1>2, <1>3 DEF RouteCalls, AllRoutes

LEMMA RequestSetIs ==
  ASSUME NEW request \in RequestSet
  PROVE  IsRequest(request)
  <1>1. \E call \in RouteCalls, world \in PublicWorlds \cup PrivateWorlds : request = RequestOf(call, world)
    BY DEF RequestSet, PublicCalls
  <1>2. PICK call \in RouteCalls, world \in PublicWorlds \cup PrivateWorlds : request = RequestOf(call, world)
    BY <1>1
  <1> QED
    BY <1>2, CallsArePaths DEF RequestOf, IsRequest, PublicWorlds, PrivateWorlds

\* A request reaches its handler only in order, and its caller learns what became of it:
\* every input of the run is a request the theorems speak of.
THEOREM RequestsJudged == PureSpec => []RequestsAreJudged
  <1>1. InputTyped => RequestsAreJudged
    <2> SUFFICES ASSUME InputTyped, topic = "request" PROVE RequestsAreJudged
      BY DEF RequestsAreJudged, GuardsOfHandlers, ErrorsOfServer, IssuesOfPayload, AnswersOfRequest
    <2>1. data # <<>> => IsRequest(data[1])
      <3>1. Alphabet["request"] = RequestSet
        BY DEF Alphabet
      <3> QED
        BY <3>1, FirstInput, RequestSetIs
    <2> QED
      BY <2>1, HandlersAreGuarded, ServerErrorsAreOwn, IssuesNeedToken, CallersAreTold,
         FrontendFindsHandlers
         DEF RequestsAreJudged, GuardsOfHandlers, ErrorsOfServer, IssuesOfPayload, AnswersOfRequest
  <1> QED
    BY <1>1, InputsTyped, PTL

-----------------------------------------------------------------------------
\* Recursion up to a number, and filters of sequences

\* Induction up to a number, of which P holds those that are reached.
LEMMA UpTo ==
  ASSUME NEW n \in Nat, NEW P, 0 \in P,
         \A j, k \in 0..n : k = j + 1 /\ j \in P => k \in P
  PROVE  n \in P
  <1> DEFINE T == {k \in 0..n : k \notin P}
  <1>1. SUFFICES ASSUME n \notin P PROVE FALSE
    OBVIOUS
  <1>2. T \in SUBSET Nat /\ T # {}
    BY <1>1
  <1>3. Min(T) \in T /\ \A t \in T : Min(T) <= t
    BY <1>2, MinIn
  <1>4. PICK k \in T : \A t \in T : k <= t
    BY <1>3
  <1>5. k \in 0..n /\ k \notin P /\ k # 0
    BY <1>4
  <1>6. k - 1 \in 0..n /\ k = (k - 1) + 1 /\ ~(k <= k - 1)
    BY <1>5
  <1>7. k - 1 \notin T
    BY <1>4, <1>6
  <1>8. k - 1 \in P
    BY <1>6, <1>7
  <1> QED
    BY <1>5, <1>6, <1>8

StaysIn(X, n, step) == \A k \in 1..n : \A x \in X : step[k][x] \in X

\* g begins with base and goes on by the steps.
Recurses(g, base, n, step) == g[0] = base /\ \A k \in 1..n : g[k] = step[k][g[k - 1]]

HasRecursion(X, base, n, step) == \E g \in [0..n -> X] : Recurses(g, base, n, step)

\* A recursion over the numbers up to n has a solution, whose values stay in a set that the
\* steps do not leave.
LEMMA RecursionExists ==
  ASSUME NEW X, NEW base \in X, NEW n \in Nat, NEW step, StaysIn(X, n, step)
  PROVE  HasRecursion(X, base, n, step)
  <1> USE DEF StaysIn
  <1> DEFINE Solves(m, g) == /\ g = [k \in 0..m |-> IF k = 0 THEN base ELSE step[k][g[k - 1]]]
                             /\ \A k \in 0..m : g[k] \in X
             P == {m \in 0..n : \E g : Solves(m, g)}
  <1>1. 0 \in P
    <2>1. Solves(0, [k \in 0..0 |-> base])
      <3> DEFINE g == [k \in 0..0 |-> base]
      <3>1. \A k \in 0..0 : k = 0
        OBVIOUS
      <3>2. g = [k \in 0..0 |-> IF k = 0 THEN base ELSE step[k][g[k - 1]]]
        BY <3>1
      <3> QED
        BY <3>2
    <2>2. \E g : Solves(0, g)
      BY <2>1
    <2>3. 0 \in 0..n
      OBVIOUS
    <2> HIDE DEF Solves
    <2> QED
      BY <2>2, <2>3
  <1>2. ASSUME NEW j \in 0..n, NEW m \in 0..n, m = j + 1, j \in P
        PROVE  m \in P
    <2>1. PICK g : Solves(j, g)
      BY <1>2
    <2> DEFINE h == [k \in 0..m |-> IF k = m THEN step[m][g[j]] ELSE g[k]]
    <2>2. /\ \A k \in 0..j : k \in 0..m /\ k # m
          /\ \A k \in 0..m : k # 0 /\ k # m => k \in 0..j /\ k - 1 \in 0..j /\ k - 1 # m
          /\ m # 0 /\ m - 1 = j /\ j \in 0..m /\ j # m /\ m \in 1..n
      BY <1>2
    <2>3. \A k \in 0..j : h[k] = g[k]
      BY <2>2
    <2>4. ASSUME NEW k \in 0..m
          PROVE  h[k] = (IF k = 0 THEN base ELSE step[k][h[k - 1]])
      <3>1. CASE k = m
        BY <2>2, <2>3, <3>1
      <3>2. CASE k = 0
        BY <2>1, <2>2, <3>2
      <3>3. CASE k # 0 /\ k # m
        <4>1. g[k] = step[k][g[k - 1]]
          BY <2>1, <2>2, <3>3
        <4> QED
          BY <2>2, <2>3, <3>3, <4>1
      <3> QED
        BY <3>1, <3>2, <3>3
    <2>5. h = [k \in 0..m |-> IF k = 0 THEN base ELSE step[k][h[k - 1]]]
      BY <2>4
    <2>6. \A k \in 0..m : h[k] \in X
      BY <2>1, <2>2
    <2>7. Solves(m, h)
      BY <2>5, <2>6
    <2> QED
      BY <2>7
  <1> HIDE DEF P
  <1>3. n \in P
    BY <1>1, <1>2, UpTo
  <1>4. PICK g : Solves(n, g)
    BY <1>3 DEF P
  <1>5. /\ 0 \in 0..n
        /\ \A k \in 1..n : k \in 0..n /\ k # 0
    OBVIOUS
  <1>6. g \in [0..n -> X] /\ Recurses(g, base, n, step)
    BY <1>4, <1>5 DEF Recurses
  <1> QED
    BY <1>6 DEF HasRecursion

\* Every sequence is the empty one or one that grew by an element.
LEMMA AppendInduction ==
  ASSUME NEW V, NEW P, <<>> \in P,
         \A s \in Seq(V) : \A v \in V : s \in P => Append(s, v) \in P
  PROVE  \A s \in Seq(V) : s \in P
  <1> SUFFICES ASSUME NEW s \in Seq(V) PROVE s \in P
    OBVIOUS
  <1> DEFINE Q == {k \in 0..Len(s) : SubSeq(s, 1, k) \in P}
  <1>1. 0 \in Q
    <2>1. SubSeq(s, 1, 0) = <<>>
      BY SMT
    <2>2. SubSeq(s, 1, 0) \in P
      BY <2>1, Zenon
    <2>3. 0 \in 0..Len(s)
      OBVIOUS
    <2> QED
      BY <2>2, <2>3
  <1>2. ASSUME NEW j \in 0..Len(s), NEW k \in 0..Len(s), k = j + 1, j \in Q
        PROVE  k \in Q
    <2>1. /\ SubSeq(s, 1, j) \in Seq(V) /\ s[k] \in V
          /\ SubSeq(s, 1, k) = Append(SubSeq(s, 1, j), s[k])
      BY <1>2
    <2> QED
      BY <1>2, <2>1
  <1> HIDE DEF Q
  <1>3. Len(s) \in Q
    BY <1>1, <1>2, UpTo
  <1>4. SubSeq(s, 1, Len(s)) = s
    OBVIOUS
  <1> QED
    BY <1>3, <1>4 DEF Q

-----------------------------------------------------------------------------
\* Two recursions begin and go on alike; they are alike up to n.
StepAlike(n, g, h) == g[0] = h[0] /\ \A k \in 1..n : g[k - 1] = h[k - 1] => g[k] = h[k]

AlikeUpTo(n, g, h) == \A k \in 0..n : g[k] = h[k]

LEMMA RecursionUnique ==
  ASSUME NEW n \in Nat, NEW g, NEW h, StepAlike(n, g, h)
  PROVE  AlikeUpTo(n, g, h)
  <1> DEFINE P(m) == {k \in 0..m : g[k] = h[k]}
  <1> SUFFICES ASSUME NEW m \in 0..n PROVE m \in P(m)
    BY DEF AlikeUpTo
  <1>0. g[0] = h[0] /\ \A k \in 1..n : g[k - 1] = h[k - 1] => g[k] = h[k]
    BY DEF StepAlike
  <1>1. m \in Nat /\ 0 \in 0..m /\ 0 \in P(m)
    BY <1>0
  <1>2. ASSUME NEW j \in 0..m, NEW k \in 0..m, k = j + 1, j \in P(m)
        PROVE  k \in P(m)
    <2>1. k \in 1..n /\ k - 1 = j
      BY <1>2
    <2> QED
      BY <1>0, <1>2, <2>1
  <1> HIDE DEF P
  <1> QED
    BY <1>1, <1>2, UpTo

\* g collects the elements of s at the positions P.
Collects(g, s, P) ==
  /\ g[0] = <<>>
  /\ \A k \in 1..Len(s) : g[k] = IF k \in P THEN Append(g[k - 1], s[k]) ELSE g[k - 1]
  /\ At(s, P) = g[Len(s)]

IsCollected(V, s, P) == \E g : Collects(g, s, P) /\ \A k \in 0..Len(s) : g[k] \in Seq(V)

\* At by its steps.
LEMMA AtSolves ==
  ASSUME NEW V, NEW s \in Seq(V), NEW P
  PROVE  IsCollected(V, s, P)
  <1> DEFINE X == Seq(V)
             n == Len(s)
             next(k, x) == IF k \in P THEN Append(x, s[k]) ELSE x
             step == [k \in 1..n |-> [x \in X |-> next(k, x)]]
             f == CHOOSE g : g = [k \in 0..n |-> IF k = 0 THEN <<>> ELSE IF k \in P THEN Append(g[k - 1], s[k]) ELSE g[k - 1]]
  <1>1. \A k \in 1..n : \A x \in X : step[k][x] = next(k, x)
    OBVIOUS
  <1>2. \A k \in 1..n : \A x \in X : step[k][x] \in X
    OBVIOUS
  <1>3. <<>> \in X /\ n \in Nat
    OBVIOUS
  <1>4. /\ 0 \in 0..n
        /\ \A k \in 1..n : k \in 0..n /\ k # 0 /\ k - 1 \in 0..n
        /\ \A k \in 0..n : k # 0 => k \in 1..n
    OBVIOUS
  <1>5. PICK g \in [0..n -> X] : g[0] = <<>> /\ \A k \in 1..n : g[k] = step[k][g[k - 1]]
    <2>1. StaysIn(X, n, step)
      BY <1>2 DEF StaysIn
    <2> HIDE DEF X, n, step
    <2>2. HasRecursion(X, <<>>, n, step)
      BY <1>3, <2>1, RecursionExists
    <2> QED
      BY <2>2 DEF HasRecursion, Recurses
  <1>6. g = [k \in 0..n |-> IF k = 0 THEN <<>> ELSE IF k \in P THEN Append(g[k - 1], s[k]) ELSE g[k - 1]]
    <2>1. /\ g = [k \in 0..n |-> g[k]]
          /\ \A k \in 0..n : k # 0 => g[k] = next(k, g[k - 1])
      BY <1>1, <1>4, <1>5
    <2> HIDE DEF step, X
    <2> QED
      BY <1>5, <2>1
  <1>7. f = [k \in 0..n |-> IF k = 0 THEN <<>> ELSE IF k \in P THEN Append(f[k - 1], s[k]) ELSE f[k - 1]]
    BY <1>6
  <1>8. At(s, P) = f[n]
    BY DEF At
  <1> HIDE DEF f, n
  <1>9. /\ f[0] = <<>>
        /\ \A k \in 1..n : f[k] = IF k \in P THEN Append(f[k - 1], s[k]) ELSE f[k - 1]
    BY <1>4, <1>7, Zenon
  <1>10. /\ g[0] = <<>>
         /\ \A k \in 1..n : g[k] = IF k \in P THEN Append(g[k - 1], s[k]) ELSE g[k - 1]
    BY <1>4, <1>6, Zenon
  <1>11. \A k \in 0..n : f[k] = g[k]
    <2>1. StepAlike(n, f, g)
      BY <1>9, <1>10 DEF StepAlike
    <2>2. AlikeUpTo(n, f, g)
      BY <1>3, <2>1, RecursionUnique
    <2> QED
      BY <2>2 DEF AlikeUpTo
  <1>12. \A k \in 0..n : f[k] \in X
    BY <1>5, <1>11
  <1> QED
    BY <1>8, <1>9, <1>12 DEF n, Collects, IsCollected

\* The elements of s that are in S, in their order.
Sub(s, S) == At(s, {i \in DOMAIN s : s[i] \in S})

\* The image of s under a function.
Image(s, f) == [i \in DOMAIN s |-> f[s[i]]]

LEMMA SubEmpty ==
  ASSUME NEW S
  PROVE  Sub(<<>>, S) = <<>>
  <1> DEFINE P == {i \in DOMAIN <<>> : <<>>[i] \in S}
  <1>1. <<>> \in Seq({}) /\ Len(<<>>) = 0
    OBVIOUS
  <1>2. IsCollected({}, <<>>, P)
    BY <1>1, AtSolves
  <1>3. At(<<>>, P) = <<>>
    BY <1>1, <1>2 DEF IsCollected, Collects
  <1> QED
    BY <1>3 DEF Sub

LEMMA SubTyped ==
  ASSUME NEW V, NEW s \in Seq(V), NEW S
  PROVE  Sub(s, S) \in Seq(V)
  <1> DEFINE P == {i \in DOMAIN s : s[i] \in S}
  <1>1. Len(s) \in 0..Len(s)
    OBVIOUS
  <1>2. IsCollected(V, s, P)
    BY AtSolves
  <1>3. At(s, P) \in Seq(V)
    BY <1>1, <1>2 DEF IsCollected, Collects
  <1> QED
    BY <1>3 DEF Sub

LEMMA SubAppend ==
  ASSUME NEW V, NEW s \in Seq(V), NEW v \in V, NEW S
  PROVE  Sub(Append(s, v), S) = IF v \in S THEN Append(Sub(s, S), v) ELSE Sub(s, S)
  <1> DEFINE t == Append(s, v)
             P == {i \in DOMAIN s : s[i] \in S}
             Q == {i \in DOMAIN t : t[i] \in S}
             n == Len(s)
  <1>1. t \in Seq(V) /\ n \in Nat /\ Len(t) = n + 1 /\ t[n + 1] = v /\ n + 1 \in DOMAIN t
    OBVIOUS
  <1>2. \A k \in 1..n : k \in 1..Len(t) /\ t[k] = s[k] /\ (k \in P <=> k \in Q)
    OBVIOUS
  <1>3. n + 1 \in Q <=> v \in S
    BY <1>1
  <1> HIDE DEF t, P, Q
  <1>a. IsCollected(V, s, P) /\ IsCollected(V, t, Q)
    BY <1>1, AtSolves
  <1>4. PICK g : /\ g[0] = <<>>
                 /\ \A k \in 1..n : g[k] = IF k \in P THEN Append(g[k - 1], s[k]) ELSE g[k - 1]
                 /\ At(s, P) = g[n]
    BY <1>a DEF IsCollected, Collects
  <1>5. PICK h : /\ h[0] = <<>>
                 /\ \A k \in 1..Len(t) : h[k] = IF k \in Q THEN Append(h[k - 1], t[k]) ELSE h[k - 1]
                 /\ At(t, Q) = h[Len(t)]
    BY <1>a DEF IsCollected, Collects
  <1> HIDE DEF n
  <1>6. StepAlike(n, g, h)
    BY <1>2, <1>4, <1>5 DEF StepAlike
  <1>7. \A k \in 0..n : g[k] = h[k]
    BY <1>1, <1>6, RecursionUnique DEF AlikeUpTo
  <1>8. n \in 0..n /\ n + 1 \in 1..Len(t) /\ (n + 1) - 1 = n
    BY <1>1
  <1>9. h[n + 1] = IF n + 1 \in Q THEN Append(h[n], v) ELSE h[n]
    BY <1>1, <1>5, <1>8
  <1>10. At(t, Q) = IF v \in S THEN Append(At(s, P), v) ELSE At(s, P)
    BY <1>1, <1>3, <1>4, <1>5, <1>7, <1>8, <1>9
  <1> QED
    BY <1>10 DEF Sub, t, P, Q

LEMMA SubTaken ==
  ASSUME NEW V, NEW s \in Seq(V), NEW v \in V, NEW S, v \in S
  PROVE  Sub(Append(s, v), S) = Append(Sub(s, S), v)
  BY SubAppend

LEMMA SubDropped ==
  ASSUME NEW V, NEW s \in Seq(V), NEW v \in V, NEW S, v \notin S
  PROVE  Sub(Append(s, v), S) = Sub(s, S)
  BY SubAppend

\* A sequence of elements of S is its own subsequence in S, and a subsequence is one of S.
LEMMA SubIsIn ==
  ASSUME NEW V, NEW s \in Seq(V), NEW S
  PROVE  Sub(s, S) \in Seq(V \cap S)
  <1> DEFINE P == {u \in Seq(V) : Sub(u, S) \in Seq(V \cap S)}
  <1>1. <<>> \in P
    <2>1. Sub(<<>>, S) = <<>>
      BY SubEmpty
    <2>2. <<>> \in Seq(V) /\ <<>> \in Seq(V \cap S)
      OBVIOUS
    <2> QED
      BY <2>1, <2>2, Zenon
  <1>2. ASSUME NEW u \in Seq(V), NEW v \in V, u \in P
        PROVE  Append(u, v) \in P
    <2>1. Append(u, v) \in Seq(V) /\ Sub(u, S) \in Seq(V \cap S)
      BY <1>2
    <2>2. CASE v \in S
      <3>1. Sub(Append(u, v), S) = Append(Sub(u, S), v)
        BY <2>2, SubTaken
      <3>2. Append(Sub(u, S), v) \in Seq(V \cap S)
        BY <2>1, <2>2
      <3> QED
        BY <2>1, <3>1, <3>2
    <2>3. CASE v \notin S
      BY <2>1, <2>3, SubDropped
    <2> QED
      BY <2>2, <2>3
  <1> HIDE DEF P
  <1>3. s \in P
    BY <1>1, <1>2, AppendInduction
  <1> QED
    BY <1>3 DEF P

LEMMA SubAll ==
  ASSUME NEW V, NEW S, V \subseteq S, NEW s \in Seq(V)
  PROVE  Sub(s, S) = s
  <1> DEFINE P == {u \in Seq(V) : Sub(u, S) = u}
  <1>1. <<>> \in P
    BY SubEmpty
  <1>2. ASSUME NEW u \in Seq(V), NEW v \in V, u \in P
        PROVE  Append(u, v) \in P
    BY <1>2, SubTaken, SubDropped
  <1> HIDE DEF P
  <1>3. s \in P
    BY <1>1, <1>2, AppendInduction
  <1> QED
    BY <1>3 DEF P

LEMMA SubOfSub ==
  ASSUME NEW V, NEW s \in Seq(V), NEW S, NEW T
  PROVE  Sub(Sub(s, S), T) = Sub(s, S \cap T)
  <1> DEFINE P == {u \in Seq(V) : Sub(Sub(u, S), T) = Sub(u, S \cap T)}
  <1>1. <<>> \in P
    BY SubEmpty
  <1>2. ASSUME NEW u \in Seq(V), NEW v \in V, u \in P
        PROVE  Append(u, v) \in P
    <2>1. Sub(u, S) \in Seq(V) /\ Append(u, v) \in Seq(V)
      BY SubTyped
    <2>2. CASE v \in S
      <3>1. Sub(Append(u, v), S) = Append(Sub(u, S), v)
        BY <2>2, SubTaken
      <3>2. CASE v \in T
        <4>1. v \in S \cap T
          BY <2>2, <3>2
        <4>2. Sub(Append(Sub(u, S), v), T) = Append(Sub(Sub(u, S), T), v)
          BY <2>1, <3>2, SubTaken
        <4>3. Sub(Append(u, v), S \cap T) = Append(Sub(u, S \cap T), v)
          BY <4>1, SubTaken
        <4> QED
          BY <1>2, <2>1, <3>1, <4>2, <4>3
      <3>3. CASE v \notin T
        <4>1. v \notin S \cap T
          BY <3>3
        <4>2. Sub(Append(Sub(u, S), v), T) = Sub(Sub(u, S), T)
          BY <2>1, <3>3, SubDropped
        <4>3. Sub(Append(u, v), S \cap T) = Sub(u, S \cap T)
          BY <4>1, SubDropped
        <4> QED
          BY <1>2, <2>1, <3>1, <4>2, <4>3
      <3> QED
        BY <3>2, <3>3
    <2>3. CASE v \notin S
      BY <1>2, <2>1, <2>3, SubTaken, SubDropped
    <2> QED
      BY <2>2, <2>3
  <1> HIDE DEF P
  <1>3. s \in P
    BY <1>1, <1>2, AppendInduction
  <1> QED
    BY <1>3 DEF P

\* Only what the elements of V decide about S matters.
LEMMA SubSame ==
  ASSUME NEW V, NEW s \in Seq(V), NEW S, NEW T, \A v \in V : v \in S <=> v \in T
  PROVE  Sub(s, S) = Sub(s, T)
  <1>1. \A i \in DOMAIN s : s[i] \in V
    OBVIOUS
  <1>2. {i \in DOMAIN s : s[i] \in S} = {i \in DOMAIN s : s[i] \in T}
    BY <1>1
  <1> QED
    BY <1>2 DEF Sub

LEMMA ImageTyped ==
  ASSUME NEW V, NEW W, NEW f, \A v \in V : f[v] \in W, NEW s \in Seq(V)
  PROVE  Image(s, f) \in Seq(W) /\ Len(Image(s, f)) = Len(s)
  BY DEF Image

LEMMA ImageAppend ==
  ASSUME NEW V, NEW f, NEW s \in Seq(V), NEW v \in V
  PROVE  Image(Append(s, v), f) = Append(Image(s, f), f[v])
  BY DEF Image

\* Images and subsequences commute, when f leaves every element on its side of S.
LEMMA ImageOfSub ==
  ASSUME NEW V, NEW S, NEW f, NEW s \in Seq(V), \A v \in V : f[v] \in V /\ (f[v] \in S <=> v \in S)
  PROVE  Sub(Image(s, f), S) = Image(Sub(s, S), f)
  <1> DEFINE P == {u \in Seq(V) : Sub(Image(u, f), S) = Image(Sub(u, S), f)}
  <1>1. <<>> \in P
    <2>1. Image(<<>>, f) = <<>>
      BY DEF Image
    <2> QED
      BY <2>1, SubEmpty
  <1>2. ASSUME NEW u \in Seq(V), NEW v \in V, u \in P
        PROVE  Append(u, v) \in P
    <2>a. Sub(u, S) \in Seq(V) /\ Append(u, v) \in Seq(V) /\ f[v] \in V
      BY SubTyped
    <2>b. Image(u, f) \in Seq(V)
      BY DEF Image
    <2>1. Sub(u, S) \in Seq(V) /\ Append(u, v) \in Seq(V) /\ Image(u, f) \in Seq(V) /\ f[v] \in V
      BY <2>a, <2>b
    <2>2. Image(Append(u, v), f) = Append(Image(u, f), f[v])
      BY ImageAppend
    <2>3. CASE v \in S
      <3>1. Sub(Append(u, v), S) = Append(Sub(u, S), v) /\ f[v] \in S
        BY <2>3, SubTaken, SubDropped
      <3>2. Image(Append(Sub(u, S), v), f) = Append(Image(Sub(u, S), f), f[v])
        BY <2>1, ImageAppend
      <3>3. Sub(Append(Image(u, f), f[v]), S) = Append(Sub(Image(u, f), S), f[v])
        <4> DEFINE image == Image(u, f)
                   w == f[v]
        <4>1. image \in Seq(V) /\ w \in V /\ w \in S
          BY <2>1, <3>1
        <4> HIDE DEF image, w
        <4>2. Sub(Append(image, w), S) = Append(Sub(image, S), w)
          BY <4>1, SubTaken
        <4> QED
          BY <4>2 DEF image, w
      <3> QED
        BY <1>2, <2>1, <2>2, <3>1, <3>2, <3>3
    <2>4. CASE v \notin S
      <3>1. Sub(Append(u, v), S) = Sub(u, S) /\ f[v] \notin S
        BY <2>4, SubTaken, SubDropped
      <3>2. Sub(Append(Image(u, f), f[v]), S) = Sub(Image(u, f), S)
        BY <2>1, <3>1, SubDropped
      <3> QED
        BY <1>2, <2>1, <2>2, <3>1, <3>2
    <2> QED
      BY <2>3, <2>4
  <1> HIDE DEF P
  <1>3. s \in P
    BY <1>1, <1>2, AppendInduction
  <1> QED
    BY <1>3 DEF P

\* An image under a function that keeps every element is the sequence.
LEMMA ImageSame ==
  ASSUME NEW V, NEW f, \A v \in V : f[v] = v, NEW s \in Seq(V)
  PROVE  Image(s, f) = s
  <1>1. \A i \in DOMAIN s : s[i] \in V
    OBVIOUS
  <1> QED
    BY <1>1 DEF Image

-----------------------------------------------------------------------------
\* Searches

\* s has an element in S, and the first of them.
HasIn(s, S) == \E i \in DOMAIN s : s[i] \in S

FirstIn(s, S) ==
  LET found == {i \in DOMAIN s : s[i] \in S} IN IF found = {} THEN None ELSE s[Min(found)]

LEMMA FirstHasNone ==
  ASSUME NEW s, NEW S, ~HasIn(s, S)
  PROVE  FirstIn(s, S) = None
  BY DEF HasIn, FirstIn

\* What the first is: an element in S before which there is none.
LEMMA FirstIs ==
  ASSUME NEW V, NEW s \in Seq(V), NEW S, NEW i \in DOMAIN s, s[i] \in S,
         \A j \in DOMAIN s : s[j] \in S => i <= j
  PROVE  FirstIn(s, S) = s[i]
  <1> DEFINE found == {j \in DOMAIN s : s[j] \in S}
  <1>1. found \in SUBSET Nat /\ i \in found /\ i \in Nat /\ \A j \in found : i <= j
    OBVIOUS
  <1>2. Min(found) \in found /\ \A j \in found : Min(found) <= j
    BY <1>1, MinIn
  <1>3. Min(found) = i
    <2>1. Min(found) \in Nat /\ Min(found) <= i /\ i <= Min(found)
      BY <1>1, <1>2
    <2> QED
      BY <1>1, <2>1
  <1> QED
    BY <1>1, <1>3 DEF FirstIn

LEMMA FirstExists ==
  ASSUME NEW V, NEW s \in Seq(V), NEW S, HasIn(s, S)
  PROVE  \E i \in DOMAIN s : s[i] \in S /\ \A j \in DOMAIN s : s[j] \in S => i <= j
  <1> DEFINE found == {j \in DOMAIN s : s[j] \in S}
  <1>1. found \in SUBSET Nat /\ found # {}
    BY DEF HasIn
  <1>2. Min(found) \in found /\ \A j \in found : Min(found) <= j
    BY <1>1, MinIn
  <1> QED
    BY <1>2

LEMMA FirstTyped ==
  ASSUME NEW V, NEW s \in Seq(V), NEW S, HasIn(s, S)
  PROVE  FirstIn(s, S) \in V /\ FirstIn(s, S) \in S
  <1>1. PICK i \in DOMAIN s : s[i] \in S /\ \A j \in DOMAIN s : s[j] \in S => i <= j
    BY FirstExists
  <1>2. FirstIn(s, S) = s[i]
    BY <1>1, FirstIs
  <1> QED
    BY <1>1, <1>2

LEMMA HasAppend ==
  ASSUME NEW V, NEW s \in Seq(V), NEW v \in V, NEW S
  PROVE  HasIn(Append(s, v), S) <=> HasIn(s, S) \/ v \in S
  <1> DEFINE t == Append(s, v)
  <1>1. /\ \A i \in DOMAIN s : i \in DOMAIN t /\ t[i] = s[i]
        /\ \A i \in DOMAIN t : i \in DOMAIN s \/ i = Len(s) + 1
        /\ Len(s) + 1 \in DOMAIN t /\ t[Len(s) + 1] = v
    OBVIOUS
  <1> HIDE DEF t
  <1>2. HasIn(t, S) <=> HasIn(s, S) \/ v \in S
    BY <1>1 DEF HasIn
  <1> QED
    BY <1>2 DEF t

LEMMA FirstAppendOld ==
  ASSUME NEW V, NEW s \in Seq(V), NEW v \in V, NEW S, HasIn(s, S)
  PROVE  FirstIn(Append(s, v), S) = FirstIn(s, S)
  <1> DEFINE t == Append(s, v)
  <1>1. PICK i \in DOMAIN s : s[i] \in S /\ \A j \in DOMAIN s : s[j] \in S => i <= j
    BY FirstExists
  <1>2. /\ i \in DOMAIN t /\ t[i] = s[i] /\ t \in Seq(V)
        /\ \A j \in DOMAIN t : (j \in DOMAIN s /\ t[j] = s[j]) \/ i <= j
    OBVIOUS
  <1>3. \A j \in DOMAIN t : t[j] \in S => i <= j
    BY <1>1, <1>2
  <1>4. FirstIn(s, S) = s[i]
    BY <1>1, FirstIs
  <1> HIDE DEF t
  <1>5. FirstIn(t, S) = t[i]
    BY <1>1, <1>2, <1>3, FirstIs
  <1> QED
    BY <1>2, <1>4, <1>5 DEF t

LEMMA FirstAppendNew ==
  ASSUME NEW V, NEW s \in Seq(V), NEW v \in V, NEW S, ~HasIn(s, S), v \in S
  PROVE  FirstIn(Append(s, v), S) = v
  <1> DEFINE t == Append(s, v)
             i == Len(s) + 1
  <1>1. /\ t \in Seq(V) /\ i \in DOMAIN t /\ t[i] = v
        /\ \A j \in DOMAIN t : (j \in DOMAIN s /\ t[j] = s[j]) \/ i <= j
    OBVIOUS
  <1> HIDE DEF t, i
  <1>2. \A j \in DOMAIN t : t[j] \in S => i <= j
    BY <1>1 DEF HasIn
  <1>3. FirstIn(t, S) = t[i]
    BY <1>1, <1>2, FirstIs
  <1> QED
    BY <1>1, <1>3 DEF t

LEMMA HasEmpty ==
  ASSUME NEW S
  PROVE  ~HasIn(<<>>, S)
  BY DEF HasIn

\* A search for what is in T finds the same among the elements of T.
LEMMA FirstOfSub ==
  ASSUME NEW V, NEW S, NEW T, \A v \in V : v \in S => v \in T, NEW s \in Seq(V)
  PROVE  /\ HasIn(Sub(s, T), S) <=> HasIn(s, S)
         /\ FirstIn(Sub(s, T), S) = FirstIn(s, S)
  <1> DEFINE P == {u \in Seq(V) : /\ HasIn(Sub(u, T), S) <=> HasIn(u, S)
                                  /\ FirstIn(Sub(u, T), S) = FirstIn(u, S)}
  <1>1. <<>> \in P
    <2>1. Sub(<<>>, T) = <<>> /\ <<>> \in Seq(V)
      BY SubEmpty
    <2> QED
      BY <2>1
  <1>2. ASSUME NEW u \in Seq(V), NEW v \in V, u \in P
        PROVE  Append(u, v) \in P
    <2>1. Sub(u, T) \in Seq(V) /\ Append(u, v) \in Seq(V)
      BY SubTyped
    <2>2. /\ HasIn(Sub(u, T), S) <=> HasIn(u, S)
          /\ FirstIn(Sub(u, T), S) = FirstIn(u, S)
      BY <1>2
    <2>3. HasIn(Append(u, v), S) <=> HasIn(u, S) \/ v \in S
      BY HasAppend
    <2>4. CASE v \notin T
      <3>1. Sub(Append(u, v), T) = Sub(u, T) /\ v \notin S
        BY <2>4, SubDropped
      <3>2. CASE HasIn(u, S)
        <4>1. FirstIn(Append(u, v), S) = FirstIn(u, S)
          BY <3>2, FirstAppendOld
        <4> QED
          BY <2>1, <2>2, <2>3, <3>1, <4>1
      <3>3. CASE ~HasIn(u, S)
        <4>1. FirstIn(Append(u, v), S) = None /\ FirstIn(u, S) = None
          BY <2>3, <3>1, <3>3, FirstHasNone
        <4> QED
          BY <2>1, <2>2, <2>3, <3>1, <4>1
      <3> QED
        BY <3>2, <3>3
    <2>5. CASE v \in T
      <3>1. Sub(Append(u, v), T) = Append(Sub(u, T), v)
        BY <2>5, SubTaken
      <3>2. HasIn(Append(Sub(u, T), v), S) <=> HasIn(Sub(u, T), S) \/ v \in S
        BY <2>1, HasAppend
      <3>3. CASE HasIn(u, S)
        <4>1. FirstIn(Append(u, v), S) = FirstIn(u, S)
          BY <3>3, FirstAppendOld
        <4>2. FirstIn(Append(Sub(u, T), v), S) = FirstIn(Sub(u, T), S)
          BY <2>1, <2>2, <3>3, FirstAppendOld
        <4> QED
          BY <2>1, <2>2, <2>3, <3>1, <3>2, <4>1, <4>2
      <3>4. CASE ~HasIn(u, S) /\ v \in S
        <4>1. FirstIn(Append(u, v), S) = v
          BY <3>4, FirstAppendNew
        <4>2. FirstIn(Append(Sub(u, T), v), S) = v
          BY <2>1, <2>2, <3>4, FirstAppendNew
        <4> QED
          BY <2>1, <2>2, <2>3, <3>1, <3>2, <4>1, <4>2
      <3>5. CASE ~HasIn(u, S) /\ v \notin S
        <4>1. FirstIn(Append(u, v), S) = None
          BY <2>3, <3>5, FirstHasNone
        <4>2. FirstIn(Append(Sub(u, T), v), S) = None
          BY <2>2, <3>2, <3>5, FirstHasNone
        <4> QED
          BY <2>1, <2>2, <2>3, <3>1, <3>2, <3>5, <4>1, <4>2
      <3> QED
        BY <3>3, <3>4, <3>5
    <2> QED
      BY <2>4, <2>5
  <1> HIDE DEF P
  <1>3. s \in P
    BY <1>1, <1>2, AppendInduction
  <1> QED
    BY <1>3 DEF P

-----------------------------------------------------------------------------
\* The store of the users' documents

Ids(users) == [owner : users, n : Nat]

Conversations(users) == [id : Ids(users), userId : users, turns : Seq(Nat)]

JobDocuments(users) == [id : Ids(users), userId : users, version : Nat, valid : BOOLEAN]

UserStores(users) ==
  [conversations : Seq(Conversations(users)), jobs : Seq(JobDocuments(users)), made : [users -> Nat]]

JobViews(users) == [id : Ids(users), version : Nat]

StoreAnswers(users) ==
  [status : {"ok", "ResourceNotFoundException", "SchemaValidationException"},
   data : Seq(Ids(users) \cup JobViews(users) \cup Nat)]

UserCalls(users) == [user : users, op : Operations, owner : users, n : Nat]

\* The documents of V a call asks for, and those of a user.
Asked(V, call) == {d \in V : IsAsked(d, call)}

OwnOf(V, user) == {d \in V : d.userId = user}

LEMMA AskedPlaces ==
  ASSUME NEW V, NEW s \in Seq(V), NEW call
  PROVE  /\ {i \in DOMAIN s : IsAsked(s[i], call)} = {i \in DOMAIN s : s[i] \in Asked(V, call)}
         /\ {i \in DOMAIN s : ~IsAsked(s[i], call)} = {i \in DOMAIN s : s[i] \in V \ Asked(V, call)}
         /\ (\E i \in DOMAIN s : IsAsked(s[i], call)) <=> HasIn(s, Asked(V, call))
  <1>1. \A i \in DOMAIN s : s[i] \in V
    OBVIOUS
  <1> QED
    BY <1>1 DEF Asked, HasIn

LEMMA OwnPlaces ==
  ASSUME NEW V, NEW s \in Seq(V), NEW user
  PROVE  {i \in DOMAIN s : s[i].userId = user} = {i \in DOMAIN s : s[i] \in OwnOf(V, user)}
  <1>1. \A i \in DOMAIN s : s[i] \in V
    OBVIOUS
  <1> QED
    BY <1>1 DEF OwnOf

\* What the handlers do, said with subsequences, images and searches.
LEMMA HandlersRead ==
  ASSUME NEW users, NEW store \in UserStores(users), NEW call \in UserCalls(users)
  PROVE  LET C == Conversations(users)
             first == FirstIn(store.conversations, Asked(C, call)) IN
         /\ listConversations(store, call) =
              Done(store, Answer(Mapped(toConversationSummary, Sub(store.conversations, OwnOf(C, call.user)))))
         /\ getConversation(store, call) = Done(store, IF first = None THEN Miss ELSE Answer(first.turns))
  <1> DEFINE C == Conversations(users)
             s == store.conversations
  <1>1. s \in Seq(C)
    BY DEF UserStores
  <1>2. {i \in DOMAIN s : IsAsked(s[i], call)} = {i \in DOMAIN s : s[i] \in Asked(C, call)}
    BY <1>1, AskedPlaces
  <1>3. {i \in DOMAIN s : s[i].userId = call.user} = {i \in DOMAIN s : s[i] \in OwnOf(C, call.user)}
    BY <1>1, OwnPlaces
  <1>4. FirstOf(s, LAMBDA d : IsAsked(d, call)) = FirstIn(s, Asked(C, call))
    BY <1>2 DEF FirstOf, FirstIn
  <1>5. Where(s, LAMBDA d : d.userId = call.user) = Sub(s, OwnOf(C, call.user))
    BY <1>3 DEF Where, Sub
  <1> QED
    BY <1>4, <1>5 DEF listConversations, getConversation

LEMMA DeletesAre ==
  ASSUME NEW users, NEW store \in UserStores(users), NEW call \in UserCalls(users)
  PROVE  LET C == Conversations(users)
             J == JobDocuments(users) IN
         /\ deleteConversation(store, call) =
              IF ~HasIn(store.conversations, Asked(C, call)) THEN Done(store, Miss)
              ELSE Done([store EXCEPT !.conversations = Sub(store.conversations, C \ Asked(C, call))],
                        Answer(<<idOf(call)>>))
         /\ deleteJob(store, call) =
              IF ~HasIn(store.jobs, Asked(J, call)) THEN Done(store, Miss)
              ELSE Done([store EXCEPT !.jobs = Sub(store.jobs, J \ Asked(J, call))],
                        Answer(<<idOf(call)>>))
  <1> DEFINE C == Conversations(users)
             J == JobDocuments(users)
             s == store.conversations
             t == store.jobs
  <1>1. s \in Seq(C) /\ t \in Seq(J)
    BY DEF UserStores
  <1>2. /\ {i \in DOMAIN s : ~IsAsked(s[i], call)} = {i \in DOMAIN s : s[i] \in C \ Asked(C, call)}
        /\ (\E i \in DOMAIN s : IsAsked(s[i], call)) <=> HasIn(s, Asked(C, call))
    BY <1>1, AskedPlaces
  <1>3. /\ {i \in DOMAIN t : ~IsAsked(t[i], call)} = {i \in DOMAIN t : t[i] \in J \ Asked(J, call)}
        /\ (\E i \in DOMAIN t : IsAsked(t[i], call)) <=> HasIn(t, Asked(J, call))
    BY <1>1, AskedPlaces
  <1>4. Where(s, LAMBDA d : ~IsAsked(d, call)) = Sub(s, C \ Asked(C, call))
    BY <1>2 DEF Where, Sub
  <1>5. Where(t, LAMBDA d : ~IsAsked(d, call)) = Sub(t, J \ Asked(J, call))
    BY <1>3 DEF Where, Sub
  <1> HIDE DEF C, J
  <1>6. deleteConversation(store, call) =
          IF ~HasIn(s, Asked(C, call)) THEN Done(store, Miss)
          ELSE Done([store EXCEPT !.conversations = Sub(s, C \ Asked(C, call))], Answer(<<idOf(call)>>))
    BY <1>2, <1>4 DEF deleteConversation
  <1>7. deleteJob(store, call) =
          IF ~HasIn(t, Asked(J, call)) THEN Done(store, Miss)
          ELSE Done([store EXCEPT !.jobs = Sub(t, J \ Asked(J, call))], Answer(<<idOf(call)>>))
    BY <1>3, <1>5 DEF deleteJob
  <1> QED
    BY <1>6, <1>7 DEF C, J

\* The document with one more turn, and the job with new content.
Extended(V, call) ==
  [d \in V |-> IF IsAsked(d, call) THEN [d EXCEPT !.turns = Append(@, Len(@) + 1)] ELSE d]

Updated(V, call) ==
  [d \in V |-> IF IsAsked(d, call) THEN [d EXCEPT !.version = @ + 1, !.valid = TRUE] ELSE d]

\* What a read of one job answers, from the first that is asked for.
JobRead(found) ==
  IF found = None THEN Miss ELSE IF ~found.valid THEN Broken ELSE Answer(<<getJobWithNormalizedId(found)>>)

LEMMA JobAnswerIs ==
  ASSUME NEW users, NEW s \in Seq(JobDocuments(users)), NEW call
  PROVE  JobAnswer(s, call) = JobRead(FirstIn(s, Asked(JobDocuments(users), call)))
  <1> DEFINE J == JobDocuments(users)
             found == FirstIn(s, Asked(J, call))
  <1>1. {i \in DOMAIN s : IsAsked(s[i], call)} = {i \in DOMAIN s : s[i] \in Asked(J, call)}
    BY AskedPlaces
  <1>2. FirstOf(s, LAMBDA d : IsAsked(d, call)) = found
    BY <1>1 DEF FirstOf, FirstIn
  <1> HIDE DEF J, found
  <1>3. JobAnswer(s, call) = CASE found = None -> Miss
                               [] found # None /\ ~found.valid -> Broken
                               [] OTHER -> Answer(<<getJobWithNormalizedId(found)>>)
    BY <1>2 DEF JobAnswer
  <1>4. JobAnswer(s, call) = JobRead(found)
    <2>1. CASE found = None
      BY <1>3, <2>1, Zenon DEF JobRead
    <2>2. CASE found # None /\ ~found.valid
      BY <1>3, <2>2, Zenon DEF JobRead
    <2>3. CASE found # None /\ found.valid
      BY <1>3, <2>3, Zenon DEF JobRead
    <2> QED
      BY <2>1, <2>2, <2>3
  <1> QED
    BY <1>4 DEF found, J

LEMMA WritesAre ==
  ASSUME NEW users, NEW store \in UserStores(users), NEW call \in UserCalls(users)
  PROVE  LET C == Conversations(users)
             J == JobDocuments(users)
             turned == Image(store.conversations, Extended(C, call))
             first == FirstIn(turned, Asked(C, call))
             set == Image(store.jobs, Updated(J, call)) IN
         /\ turned \in Seq(C) /\ set \in Seq(J)
         /\ appendTurn(store, call) =
              IF first = None THEN Done(store, Miss)
              ELSE Done([store EXCEPT !.conversations = turned], Answer(first.turns))
         /\ updateJob(store, call) =
              Done([store EXCEPT !.jobs = set], JobRead(FirstIn(set, Asked(J, call))))
         /\ getJob(store, call) = Done(store, JobRead(FirstIn(store.jobs, Asked(J, call))))
  <1> DEFINE C == Conversations(users)
             J == JobDocuments(users)
             s == store.conversations
             t == store.jobs
             turned == Image(s, Extended(C, call))
             set == Image(t, Updated(J, call))
             first == FirstIn(turned, Asked(C, call))
  <1>1. s \in Seq(C) /\ t \in Seq(J)
    BY DEF UserStores
  <1>2. \A d \in C : Extended(C, call)[d] \in C
    BY DEF Extended, Conversations
  <1>3. \A d \in J : Updated(J, call)[d] \in J
    <2> SUFFICES ASSUME NEW d \in J PROVE Updated(J, call)[d] \in J
      OBVIOUS
    <2> DEFINE e == [d EXCEPT !.version = @ + 1]
    <2>1. e \in J
      BY DEF JobDocuments
    <2>2. [d EXCEPT !.version = @ + 1, !.valid = TRUE] = [e EXCEPT !.valid = TRUE]
      OBVIOUS
    <2> HIDE DEF e
    <2>3. [e EXCEPT !.valid = TRUE] \in J
      BY <2>1 DEF JobDocuments
    <2> QED
      BY <2>2, <2>3 DEF Updated
  <1>4. \A i \in DOMAIN s : s[i] \in C
    BY <1>1
  <1>5. \A i \in DOMAIN t : t[i] \in J
    BY <1>1
  <1> HIDE DEF C, J
  <1>6. turned \in Seq(C) /\ set \in Seq(J)
    BY <1>1, <1>2, <1>3, ImageTyped
  <1>7. Mapped(LAMBDA d : IF IsAsked(d, call) THEN [d EXCEPT !.turns = Append(@, Len(@) + 1)] ELSE d, s) = turned
    BY <1>4 DEF Mapped, Image, Extended
  <1>8. Mapped(LAMBDA d : IF IsAsked(d, call) THEN [d EXCEPT !.version = @ + 1, !.valid = TRUE] ELSE d, t) = set
    BY <1>5 DEF Mapped, Image, Updated
  <1>9. {i \in DOMAIN turned : IsAsked(turned[i], call)} = {i \in DOMAIN turned : turned[i] \in Asked(C, call)}
    BY <1>6, AskedPlaces
  <1> HIDE DEF turned, set
  <1>10. FirstOf(turned, LAMBDA d : IsAsked(d, call)) = first
    BY <1>9 DEF FirstOf, FirstIn
  <1> HIDE DEF first
  <1>11. appendTurn(store, call) =
           IF first = None THEN Done(store, Miss)
           ELSE Done([store EXCEPT !.conversations = turned], Answer(first.turns))
    BY <1>7, <1>10 DEF appendTurn
  <1>12. updateJob(store, call) = Done([store EXCEPT !.jobs = set], JobAnswer(set, call))
    BY <1>8 DEF updateJob
  <1>13. getJob(store, call) = Done(store, JobAnswer(t, call))
    BY DEF getJob
  <1>14. /\ JobAnswer(set, call) = JobRead(FirstIn(set, Asked(J, call)))
         /\ JobAnswer(t, call) = JobRead(FirstIn(t, Asked(J, call)))
    BY <1>1, <1>6, JobAnswerIs DEF J
  <1> QED
    BY <1>6, <1>11, <1>12, <1>13, <1>14 DEF turned, set, first, C, J

-----------------------------------------------------------------------------
\* The handlers keep the store typed.

LEMMA InsertedConversation ==
  ASSUME NEW users, NEW store \in UserStores(users), NEW d \in Conversations(users)
  PROVE  /\ Inserted(store, "conversations", d) \in UserStores(users)
         /\ Inserted(store, "conversations", d).conversations = Append(store.conversations, d)
         /\ Inserted(store, "conversations", d).jobs = store.jobs
         /\ Inserted(store, "conversations", d).made = [store.made EXCEPT ![d.userId] = @ + 1]
  <1> DEFINE count == [store.made EXCEPT ![d.userId] = @ + 1]
             longer == Append(store.conversations, d)
             e == [store EXCEPT !.conversations = longer]
             done == Inserted(store, "conversations", d)
  <1>1. count \in [users -> Nat] /\ longer \in Seq(Conversations(users))
    BY DEF UserStores, Conversations
  <1> HIDE DEF longer
  <1>2. e \in UserStores(users) /\ e.conversations = longer /\ e.jobs = store.jobs /\ e.made = store.made
    BY <1>1 DEF UserStores
  <1>3. done = [e EXCEPT !.made[d.userId] = @ + 1]
    BY DEF Inserted, longer
  <1> HIDE DEF e, done
  <1>4. done = [e EXCEPT !.made = count]
    BY <1>2, <1>3 DEF UserStores
  <1> HIDE DEF count
  <1>5. /\ done \in UserStores(users) /\ done.conversations = e.conversations /\ done.jobs = e.jobs
        /\ done.made = count
    BY <1>1, <1>2, <1>4 DEF UserStores
  <1> QED
    BY <1>2, <1>5 DEF done, longer, count

LEMMA InsertedJob ==
  ASSUME NEW users, NEW store \in UserStores(users), NEW d \in JobDocuments(users)
  PROVE  /\ Inserted(store, "jobs", d) \in UserStores(users)
         /\ Inserted(store, "jobs", d).jobs = Append(store.jobs, d)
         /\ Inserted(store, "jobs", d).conversations = store.conversations
         /\ Inserted(store, "jobs", d).made = [store.made EXCEPT ![d.userId] = @ + 1]
  <1> DEFINE count == [store.made EXCEPT ![d.userId] = @ + 1]
             longer == Append(store.jobs, d)
             e == [store EXCEPT !.jobs = longer]
             done == Inserted(store, "jobs", d)
  <1>1. count \in [users -> Nat] /\ longer \in Seq(JobDocuments(users))
    BY DEF UserStores, JobDocuments
  <1> HIDE DEF longer
  <1>2. e \in UserStores(users) /\ e.jobs = longer /\ e.conversations = store.conversations /\ e.made = store.made
    BY <1>1 DEF UserStores
  <1>3. done = [e EXCEPT !.made[d.userId] = @ + 1]
    BY DEF Inserted, longer
  <1> HIDE DEF e, done
  <1>4. done = [e EXCEPT !.made = count]
    BY <1>2, <1>3 DEF UserStores
  <1> HIDE DEF count
  <1>5. /\ done \in UserStores(users) /\ done.jobs = e.jobs /\ done.conversations = e.conversations
        /\ done.made = count
    BY <1>1, <1>2, <1>4 DEF UserStores
  <1> QED
    BY <1>2, <1>5 DEF done, longer, count

\* The documents that are made.
NewConversation(store, call) == [id |-> newId(store, call.user), userId |-> call.user, turns |-> <<>>]

LEMMA NewAreTyped ==
  ASSUME NEW users, NEW store \in UserStores(users), NEW call \in UserCalls(users),
         NEW valid \in BOOLEAN
  PROVE  /\ newId(store, call.user) \in Ids(users) /\ idOf(call) \in Ids(users)
         /\ NewConversation(store, call) \in Conversations(users)
         /\ newJob(store, call.user, valid) \in JobDocuments(users)
         /\ getJobWithNormalizedId(newJob(store, call.user, valid)) \in JobViews(users)
         /\ NewConversation(store, call).userId = call.user
         /\ newJob(store, call.user, valid).userId = call.user
  <1>1. call.user \in users /\ call.owner \in users /\ call.n \in Nat /\ store.made[call.user] + 1 \in Nat
    BY DEF UserCalls, UserStores
  <1>2. newId(store, call.user) \in Ids(users) /\ idOf(call) \in Ids(users)
    BY <1>1 DEF newId, idOf, Ids
  <1>3. NewConversation(store, call) \in Conversations(users) /\ NewConversation(store, call).userId = call.user
    BY <1>1, <1>2 DEF NewConversation, Conversations
  <1> DEFINE new == newJob(store, call.user, valid)
  <1>4. /\ new = [id |-> newId(store, call.user), userId |-> call.user, version |-> 1, valid |-> valid]
        /\ 1 \in Nat
    BY DEF newJob
  <1>5. [id |-> newId(store, call.user), userId |-> call.user, version |-> 1, valid |-> valid]
          \in JobDocuments(users)
    BY <1>1, <1>2, <1>4, Zenon DEF JobDocuments
  <1>6. new.userId = call.user /\ new.version \in Nat /\ new.id \in Ids(users)
    BY <1>2, <1>4
  <1>7. getJobWithNormalizedId(new) \in JobViews(users)
    BY <1>6 DEF getJobWithNormalizedId, JobViews
  <1> QED
    BY <1>2, <1>3, <1>4, <1>5, <1>6, <1>7

\* A handler's effect on a store is typed.
IsDone(users, done) == done.store \in UserStores(users) /\ done.answer \in StoreAnswers(users)

LEMMA DoneFields ==
  ASSUME NEW store, NEW answer
  PROVE  Done(store, answer).store = store /\ Done(store, answer).answer = answer
  BY DEF Done

LEMMA AnswersTyped ==
  ASSUME NEW users
  PROVE  /\ Miss \in StoreAnswers(users) /\ Broken \in StoreAnswers(users)
         /\ Answer(<<>>) \in StoreAnswers(users)
         /\ \A x \in Ids(users) \cup JobViews(users) \cup Nat : Answer(<<x>>) \in StoreAnswers(users)
         /\ \A s \in Seq(Ids(users)) \cup Seq(JobViews(users)) \cup Seq(Nat) : Answer(s) \in StoreAnswers(users)
  <1> DEFINE D == Ids(users) \cup JobViews(users) \cup Nat
  <1>1. <<>> \in Seq(D) /\ (\A x \in D : <<x>> \in Seq(D))
        /\ \A s \in Seq(Ids(users)) \cup Seq(JobViews(users)) \cup Seq(Nat) : s \in Seq(D)
    OBVIOUS
  <1> QED
    BY <1>1 DEF Miss, Broken, Answer, StoreAnswers

LEMMA CreatesAre ==
  ASSUME NEW users, NEW store \in UserStores(users), NEW call \in UserCalls(users)
  PROVE  /\ createConversation(store, call) =
              Done(Inserted(store, "conversations", NewConversation(store, call)), Answer(<<newId(store, call.user)>>))
         /\ createJob(store, call) =
              Done(Inserted(store, "jobs", newJob(store, call.user, TRUE)),
                   Answer(<<getJobWithNormalizedId(newJob(store, call.user, TRUE))>>))
         /\ legacyJob(store, call) = Done(Inserted(store, "jobs", newJob(store, call.user, FALSE)), Answer(<<>>))
  BY DEF createConversation, createJob, legacyJob, NewConversation

LEMMA CreatesTyped ==
  ASSUME NEW users, NEW store \in UserStores(users), NEW call \in UserCalls(users)
  PROVE  /\ IsDone(users, createConversation(store, call))
         /\ IsDone(users, createJob(store, call))
         /\ IsDone(users, legacyJob(store, call))
  <1> DEFINE c == NewConversation(store, call)
             j(valid) == newJob(store, call.user, valid)
  <1>0. TRUE \in BOOLEAN /\ FALSE \in BOOLEAN /\ call.user \in users
    BY DEF UserCalls
  <1>1. /\ newId(store, call.user) \in Ids(users) /\ c \in Conversations(users) /\ c.userId = call.user
        /\ \A valid \in BOOLEAN : /\ j(valid) \in JobDocuments(users) /\ j(valid).userId = call.user
                                  /\ getJobWithNormalizedId(j(valid)) \in JobViews(users)
    BY NewAreTyped
  <1> HIDE DEF c, j
  <1>2. Inserted(store, "conversations", c) \in UserStores(users)
    BY <1>1, InsertedConversation
  <1>3. \A valid \in BOOLEAN : Inserted(store, "jobs", j(valid)) \in UserStores(users)
    BY <1>1, InsertedJob
  <1>4. Answer(<<newId(store, call.user)>>) \in StoreAnswers(users)
    BY <1>1, AnswersTyped
  <1>5. Answer(<<getJobWithNormalizedId(j(TRUE))>>) \in StoreAnswers(users)
    BY <1>0, <1>1, AnswersTyped
  <1>6. Answer(<<>>) \in StoreAnswers(users)
    BY AnswersTyped
  <1>7. /\ createConversation(store, call) =
             Done(Inserted(store, "conversations", c), Answer(<<newId(store, call.user)>>))
        /\ createJob(store, call) = Done(Inserted(store, "jobs", j(TRUE)), Answer(<<getJobWithNormalizedId(j(TRUE))>>))
        /\ legacyJob(store, call) = Done(Inserted(store, "jobs", j(FALSE)), Answer(<<>>))
    BY CreatesAre DEF c, j
  <1>8. \A u \in UserStores(users) : \A a \in StoreAnswers(users) : IsDone(users, Done(u, a))
    BY DEF IsDone, Done
  <1>9. IsDone(users, createConversation(store, call))
    BY <1>2, <1>4, <1>7, <1>8
  <1>10. IsDone(users, createJob(store, call))
    BY <1>0, <1>3, <1>5, <1>7, <1>8
  <1>11. IsDone(users, legacyJob(store, call))
    BY <1>0, <1>3, <1>6, <1>7, <1>8
  <1> QED
    BY <1>9, <1>10, <1>11

LEMMA JobReadTyped ==
  ASSUME NEW users, NEW s \in Seq(JobDocuments(users)), NEW call
  PROVE  JobRead(FirstIn(s, Asked(JobDocuments(users), call))) \in StoreAnswers(users)
  <1> DEFINE J == JobDocuments(users)
             found == FirstIn(s, Asked(J, call))
  <1>1. CASE found = None
    BY <1>1, AnswersTyped DEF JobRead
  <1>2. CASE found # None
    <2>1. HasIn(s, Asked(J, call))
      BY <1>2, FirstHasNone
    <2>2. found \in J
      BY <2>1, FirstTyped
    <2> HIDE DEF found
    <2>3. getJobWithNormalizedId(found) \in JobViews(users)
      BY <2>2 DEF getJobWithNormalizedId, JobViews, JobDocuments
    <2>4. Answer(<<getJobWithNormalizedId(found)>>) \in StoreAnswers(users) /\ Broken \in StoreAnswers(users)
      BY <2>3, AnswersTyped
    <2>5. found # None
      BY <1>2
    <2>6. JobRead(found) \in StoreAnswers(users)
      BY <2>4, <2>5 DEF JobRead
    <2> QED
      BY <2>6 DEF found
  <1> QED
    BY <1>1, <1>2

LEMMA ReadsTyped ==
  ASSUME NEW users, NEW store \in UserStores(users), NEW call \in UserCalls(users)
  PROVE  /\ IsDone(users, listConversations(store, call))
         /\ IsDone(users, getConversation(store, call))
         /\ IsDone(users, getJob(store, call))
  <1> DEFINE C == Conversations(users)
             s == store.conversations
             own == Sub(s, OwnOf(C, call.user))
             first == FirstIn(s, Asked(C, call))
  <1>1. s \in Seq(C) /\ store.jobs \in Seq(JobDocuments(users))
    BY DEF UserStores
  <1>2. Answer(Mapped(toConversationSummary, own)) \in StoreAnswers(users)
    <2>1. own \in Seq(C)
      BY <1>1, SubTyped
    <2>2. \A d \in C : d.id \in Ids(users)
      BY DEF Conversations
    <2> HIDE DEF own, C
    <2>3. Mapped(toConversationSummary, own) \in Seq(Ids(users))
      BY <2>1, <2>2 DEF Mapped, toConversationSummary
    <2> QED
      BY <2>3, AnswersTyped
  <1>3. (IF first = None THEN Miss ELSE Answer(first.turns)) \in StoreAnswers(users)
    <2>1. CASE first = None
      BY <2>1, AnswersTyped
    <2>2. CASE first # None
      <3>1. HasIn(s, Asked(C, call))
        BY <2>2, FirstHasNone
      <3>2. first \in C
        BY <1>1, <3>1, FirstTyped
      <3> HIDE DEF first
      <3>3. first.turns \in Seq(Nat)
        BY <3>2 DEF Conversations
      <3> QED
        BY <2>2, <3>3, AnswersTyped
    <2> QED
      BY <2>1, <2>2
  <1>4. JobRead(FirstIn(store.jobs, Asked(JobDocuments(users), call))) \in StoreAnswers(users)
    BY <1>1, JobReadTyped
  <1> HIDE DEF first, own
  <1>5. listConversations(store, call) = Done(store, Answer(Mapped(toConversationSummary, own)))
    BY HandlersRead DEF own
  <1>6. getConversation(store, call) = Done(store, IF first = None THEN Miss ELSE Answer(first.turns))
    BY HandlersRead DEF first
  <1>7. getJob(store, call) = Done(store, JobRead(FirstIn(store.jobs, Asked(JobDocuments(users), call))))
    BY WritesAre
  <1> QED
    BY <1>2, <1>3, <1>4, <1>5, <1>6, <1>7, DoneFields DEF IsDone

LEMMA WritesTyped ==
  ASSUME NEW users, NEW store \in UserStores(users), NEW call \in UserCalls(users)
  PROVE  /\ IsDone(users, appendTurn(store, call))
         /\ IsDone(users, updateJob(store, call))
         /\ IsDone(users, deleteConversation(store, call))
         /\ IsDone(users, deleteJob(store, call))
  <1> DEFINE C == Conversations(users)
             J == JobDocuments(users)
             turned == Image(store.conversations, Extended(C, call))
             first == FirstIn(turned, Asked(C, call))
             set == Image(store.jobs, Updated(J, call))
             fewerC == Sub(store.conversations, C \ Asked(C, call))
             fewerJ == Sub(store.jobs, J \ Asked(J, call))
  <1>1. store.conversations \in Seq(C) /\ store.jobs \in Seq(J)
    BY DEF UserStores
  <1>2. /\ turned \in Seq(C) /\ set \in Seq(J)
        /\ appendTurn(store, call) = IF first = None THEN Done(store, Miss)
                                     ELSE Done([store EXCEPT !.conversations = turned], Answer(first.turns))
        /\ updateJob(store, call) = Done([store EXCEPT !.jobs = set], JobRead(FirstIn(set, Asked(J, call))))
    BY WritesAre
  <1>3. fewerC \in Seq(C) /\ fewerJ \in Seq(J)
    BY <1>1, SubTyped
  <1>4. /\ deleteConversation(store, call) =
             IF ~HasIn(store.conversations, Asked(C, call)) THEN Done(store, Miss)
             ELSE Done([store EXCEPT !.conversations = fewerC], Answer(<<idOf(call)>>))
        /\ deleteJob(store, call) =
             IF ~HasIn(store.jobs, Asked(J, call)) THEN Done(store, Miss)
             ELSE Done([store EXCEPT !.jobs = fewerJ], Answer(<<idOf(call)>>))
    BY DeletesAre
  <1>5. /\ Miss \in StoreAnswers(users) /\ Answer(<<idOf(call)>>) \in StoreAnswers(users)
    BY NewAreTyped, AnswersTyped
  <1>6. JobRead(FirstIn(set, Asked(J, call))) \in StoreAnswers(users)
    BY <1>2, JobReadTyped
  <1>7. ASSUME first # None PROVE Answer(first.turns) \in StoreAnswers(users)
    <2>1. HasIn(turned, Asked(C, call))
      BY <1>7, FirstHasNone
    <2>2. first \in C
      BY <1>2, <2>1, FirstTyped
    <2> HIDE DEF first
    <2>3. first.turns \in Seq(Nat)
      BY <2>2 DEF Conversations
    <2> QED
      BY <2>3, AnswersTyped
  <1>8. \A x \in Seq(C) : [store EXCEPT !.conversations = x] \in UserStores(users)
    BY DEF UserStores
  <1>9. \A x \in Seq(J) : [store EXCEPT !.jobs = x] \in UserStores(users)
    BY DEF UserStores
  <1> HIDE DEF C, J, turned, first, set, fewerC, fewerJ
  <1>10. IsDone(users, appendTurn(store, call))
    BY <1>2, <1>5, <1>7, <1>8, DoneFields DEF IsDone
  <1>11. IsDone(users, updateJob(store, call))
    BY <1>2, <1>6, <1>9, DoneFields DEF IsDone
  <1>12. IsDone(users, deleteConversation(store, call))
    BY <1>3, <1>4, <1>5, <1>8, DoneFields DEF IsDone
  <1>13. IsDone(users, deleteJob(store, call))
    BY <1>3, <1>4, <1>5, <1>9, DoneFields DEF IsDone
  <1> QED
    BY <1>10, <1>11, <1>12, <1>13

\* The whole list of a user's jobs, of which a page without limit and offset is.
ListAnswer(own) ==
  IF \E i \in DOMAIN own : ~own[i].valid THEN Broken ELSE Answer(Mapped(getJobWithNormalizedId, own))

LEMMA ListIs ==
  ASSUME NEW users, NEW store \in UserStores(users), NEW user
  PROVE  getAllByUserId(store, user, 0, 0) = ListAnswer(Sub(store.jobs, OwnOf(JobDocuments(users), user)))
  <1> DEFINE J == JobDocuments(users)
             s == store.jobs
             own == Sub(s, OwnOf(J, user))
  <1>1. s \in Seq(J)
    BY DEF UserStores
  <1>2. {i \in DOMAIN s : s[i].userId = user} = {i \in DOMAIN s : s[i] \in OwnOf(J, user)}
    BY <1>1, OwnPlaces
  <1>3. Where(s, LAMBDA d : d.userId = user) = own
    BY <1>2 DEF Where, Sub
  <1>4. own \in Seq(J)
    BY <1>1, SubTyped
  <1> HIDE DEF own, J, s
  <1>5. SubSeq(own, 0 + 1, Len(own)) = own
    BY <1>4
  <1>6. Page(own, 0, 0) = own
    BY <1>5 DEF Page
  <1>7. getAllByUserId(store, user, 0, 0) = ListAnswer(Page(own, 0, 0))
    BY <1>3 DEF getAllByUserId, ListAnswer, s
  <1> QED
    BY <1>6, <1>7 DEF own, J, s

LEMMA ListTyped ==
  ASSUME NEW users, NEW store \in UserStores(users), NEW call \in UserCalls(users)
  PROVE  IsDone(users, getAllJobs(store, call))
  <1> DEFINE J == JobDocuments(users)
             own == Sub(store.jobs, OwnOf(J, call.user))
  <1>1. own \in Seq(J)
    BY SubTyped DEF UserStores
  <1>2. getAllJobs(store, call) = Done(store, ListAnswer(own))
    BY ListIs DEF getAllJobs
  <1>3. \A d \in J : getJobWithNormalizedId(d) \in JobViews(users)
    BY DEF JobDocuments, JobViews, getJobWithNormalizedId
  <1> HIDE DEF own, J
  <1>4. Mapped(getJobWithNormalizedId, own) \in Seq(JobViews(users))
    BY <1>1, <1>3 DEF Mapped
  <1>5. ListAnswer(own) \in StoreAnswers(users)
    BY <1>4, AnswersTyped DEF ListAnswer
  <1> QED
    BY <1>2, <1>5, DoneFields DEF IsDone

\* Every call leaves a store and an answer.
LEMMA HandledTyped ==
  ASSUME NEW users, NEW store \in UserStores(users), NEW call \in UserCalls(users)
  PROVE  IsDone(users, Handled(store, call))
  <1>1. call.op \in Operations
    BY DEF UserCalls
  <1> QED
    BY <1>1, CreatesTyped, ReadsTyped, WritesTyped, ListTyped DEF Handled, Operations

-----------------------------------------------------------------------------
\* A user's part of a store

\* part holds what the user has in whole.
IsPart(users, user, whole, part) ==
  /\ part.conversations = Sub(whole.conversations, OwnOf(Conversations(users), user))
  /\ part.jobs = Sub(whole.jobs, OwnOf(JobDocuments(users), user))
  /\ part.made[user] = whole.made[user]

\* Whom a call asks for.
LEMMA AskedAreOwn ==
  ASSUME NEW V, NEW call
  PROVE  /\ \A v \in V : v \in Asked(V, call) => v \in OwnOf(V, call.user)
         /\ \A user : user # call.user => \A v \in V : v \in OwnOf(V, user) => v \in V \ Asked(V, call)
  BY DEF Asked, OwnOf, IsAsked

\* A search for what a call asks for finds the same in the part of its user.
LEMMA PartSearch ==
  ASSUME NEW V, NEW s \in Seq(V), NEW call
  PROVE  /\ HasIn(Sub(s, OwnOf(V, call.user)), Asked(V, call)) <=> HasIn(s, Asked(V, call))
         /\ FirstIn(Sub(s, OwnOf(V, call.user)), Asked(V, call)) = FirstIn(s, Asked(V, call))
  <1>1. \A v \in V : v \in Asked(V, call) => v \in OwnOf(V, call.user)
    BY AskedAreOwn
  <1> QED
    BY <1>1, FirstOfSub

LEMMA PartDelete ==
  ASSUME NEW V, NEW s \in Seq(V), NEW call, NEW user
  PROVE  /\ user = call.user => Sub(Sub(s, V \ Asked(V, call)), OwnOf(V, user))
                                  = Sub(Sub(s, OwnOf(V, user)), V \ Asked(V, call))
         /\ user # call.user => Sub(Sub(s, V \ Asked(V, call)), OwnOf(V, user)) = Sub(s, OwnOf(V, user))
  <1> DEFINE K == V \ Asked(V, call)
             O == OwnOf(V, user)
  <1>1. Sub(Sub(s, K), O) = Sub(s, K \cap O) /\ Sub(Sub(s, O), K) = Sub(s, O \cap K)
    BY SubOfSub
  <1>2. K \cap O = O \cap K
    OBVIOUS
  <1>3. ASSUME user # call.user PROVE Sub(s, K \cap O) = Sub(s, O)
    <2>1. \A v \in V : v \in K \cap O <=> v \in O
      BY <1>3, AskedAreOwn
    <2> HIDE DEF K, O
    <2> QED
      BY <2>1, SubSame
  <1> QED
    BY <1>1, <1>2, <1>3

LEMMA PartUnchanged ==
  ASSUME NEW V, NEW s \in Seq(V), NEW user, NEW f, NEW call,
         \A v \in V : f[v] \in V /\ f[v].userId = v.userId /\ (~IsAsked(v, call) => f[v] = v)
  PROVE  /\ Sub(Image(s, f), OwnOf(V, user)) = Image(Sub(s, OwnOf(V, user)), f)
         /\ user # call.user => Sub(Image(s, f), OwnOf(V, user)) = Sub(s, OwnOf(V, user))
  <1> DEFINE O == OwnOf(V, user)
  <1>1. \A v \in V : f[v] \in V /\ (f[v] \in O <=> v \in O)
    BY DEF OwnOf
  <1>2. Sub(Image(s, f), O) = Image(Sub(s, O), f)
    <2> HIDE DEF O
    <2> QED
      BY <1>1, ImageOfSub
  <1>3. ASSUME user # call.user PROVE Image(Sub(s, O), f) = Sub(s, O)
    <2>1. \A v \in V \cap O : f[v] = v
      BY <1>3 DEF OwnOf, IsAsked
    <2>2. Sub(s, O) \in Seq(V \cap O)
      BY SubIsIn
    <2> HIDE DEF O
    <2> QED
      BY <2>1, <2>2, ImageSame
  <1> QED
    BY <1>2, <1>3

\* What the writes do to documents.
LEMMA WritesKeepOwner ==
  ASSUME NEW users, NEW call
  PROVE  /\ \A d \in Conversations(users) :
              LET f == Extended(Conversations(users), call) IN
              f[d] \in Conversations(users) /\ f[d].userId = d.userId /\ (~IsAsked(d, call) => f[d] = d)
         /\ \A d \in JobDocuments(users) :
              LET f == Updated(JobDocuments(users), call) IN
              f[d] \in JobDocuments(users) /\ f[d].userId = d.userId /\ (~IsAsked(d, call) => f[d] = d)
  <1>1. ASSUME NEW d \in Conversations(users)
        PROVE  LET f == Extended(Conversations(users), call) IN
               f[d] \in Conversations(users) /\ f[d].userId = d.userId /\ (~IsAsked(d, call) => f[d] = d)
    <2> DEFINE turned == Append(d.turns, Len(d.turns) + 1)
    <2>1. turned \in Seq(Nat)
      BY DEF Conversations
    <2> HIDE DEF turned
    <2>2. [d EXCEPT !.turns = turned] \in Conversations(users) /\ [d EXCEPT !.turns = turned].userId = d.userId
      BY <2>1 DEF Conversations
    <2> QED
      BY <2>2 DEF Extended, turned
  <1>2. ASSUME NEW d \in JobDocuments(users)
        PROVE  LET f == Updated(JobDocuments(users), call) IN
               f[d] \in JobDocuments(users) /\ f[d].userId = d.userId /\ (~IsAsked(d, call) => f[d] = d)
    <2> DEFINE e == [d EXCEPT !.version = @ + 1]
    <2>1. e \in JobDocuments(users) /\ e.userId = d.userId
      BY DEF JobDocuments
    <2>2. [d EXCEPT !.version = @ + 1, !.valid = TRUE] = [e EXCEPT !.valid = TRUE]
      OBVIOUS
    <2> HIDE DEF e
    <2>3. [e EXCEPT !.valid = TRUE] \in JobDocuments(users) /\ [e EXCEPT !.valid = TRUE].userId = e.userId
      BY <2>1 DEF JobDocuments
    <2> QED
      BY <2>1, <2>2, <2>3 DEF Updated
  <1> QED
    BY <1>1, <1>2

\* Two effects a user cannot tell apart, on a whole and on the user's part.
IsSame(users, user, whole, part) ==
  whole.answer = part.answer /\ IsPart(users, user, whole.store, part.store)

LEMMA CreatesPart ==
  ASSUME NEW users, NEW whole \in UserStores(users), NEW part \in UserStores(users),
         NEW call \in UserCalls(users), IsPart(users, call.user, whole, part)
  PROVE  /\ IsSame(users, call.user, createConversation(whole, call), createConversation(part, call))
         /\ IsSame(users, call.user, createJob(whole, call), createJob(part, call))
         /\ IsSame(users, call.user, legacyJob(whole, call), legacyJob(part, call))
  <1> DEFINE c == NewConversation(whole, call)
             j(valid) == newJob(whole, call.user, valid)
             C == Conversations(users)
             J == JobDocuments(users)
             u == call.user
  <1>0. TRUE \in BOOLEAN /\ FALSE \in BOOLEAN /\ u \in users
    BY DEF UserCalls
  <1>1. /\ c \in C /\ c.userId = u
        /\ \A valid \in BOOLEAN : j(valid) \in J /\ j(valid).userId = u
    BY NewAreTyped
  <1>2. newId(part, u) = newId(whole, u)
    BY DEF IsPart, newId
  <1>3. NewConversation(part, call) = c /\ \A valid \in BOOLEAN : newJob(part, u, valid) = j(valid)
    BY <1>2 DEF NewConversation, newJob
  <1>4. /\ whole.conversations \in Seq(C) /\ whole.jobs \in Seq(J)
        /\ part.conversations = Sub(whole.conversations, OwnOf(C, u)) /\ part.jobs = Sub(whole.jobs, OwnOf(J, u))
        /\ part.made[u] = whole.made[u] /\ part.made \in [users -> Nat] /\ whole.made \in [users -> Nat]
    BY DEF IsPart, UserStores
  <1> HIDE DEF c, j, C, J
  <1>5. c \in OwnOf(C, u) /\ \A valid \in BOOLEAN : j(valid) \in OwnOf(J, u)
    BY <1>1 DEF OwnOf
  <1>6. Sub(Append(whole.conversations, c), OwnOf(C, u)) = Append(part.conversations, c)
    BY <1>1, <1>4, <1>5, SubTaken
  <1>7. \A valid \in BOOLEAN : Sub(Append(whole.jobs, j(valid)), OwnOf(J, u)) = Append(part.jobs, j(valid))
    BY <1>1, <1>4, <1>5, SubTaken
  <1>8. [part.made EXCEPT ![u] = @ + 1][u] = [whole.made EXCEPT ![u] = @ + 1][u]
    BY <1>0, <1>4
  <1>9. \A store \in UserStores(users) :
          LET done == Inserted(store, "conversations", c) IN
          /\ done.conversations = Append(store.conversations, c) /\ done.jobs = store.jobs
          /\ done.made = [store.made EXCEPT ![u] = @ + 1]
    BY <1>1, InsertedConversation DEF C
  <1>10. \A store \in UserStores(users) : \A valid \in BOOLEAN :
           LET done == Inserted(store, "jobs", j(valid)) IN
           /\ done.jobs = Append(store.jobs, j(valid)) /\ done.conversations = store.conversations
           /\ done.made = [store.made EXCEPT ![u] = @ + 1]
    BY <1>1, InsertedJob DEF J
  <1>11. IsPart(users, u, Inserted(whole, "conversations", c), Inserted(part, "conversations", c))
    BY <1>4, <1>6, <1>8, <1>9 DEF IsPart, C, J
  <1>12. \A valid \in BOOLEAN :
           IsPart(users, u, Inserted(whole, "jobs", j(valid)), Inserted(part, "jobs", j(valid)))
    BY <1>4, <1>7, <1>8, <1>10 DEF IsPart, C, J
  <1>13. /\ createConversation(whole, call) = Done(Inserted(whole, "conversations", c), Answer(<<newId(whole, u)>>))
         /\ createConversation(part, call) = Done(Inserted(part, "conversations", c), Answer(<<newId(whole, u)>>))
    BY <1>2, <1>3, CreatesAre DEF c
  <1>14. /\ createJob(whole, call) = Done(Inserted(whole, "jobs", j(TRUE)), Answer(<<getJobWithNormalizedId(j(TRUE))>>))
         /\ createJob(part, call) = Done(Inserted(part, "jobs", j(TRUE)), Answer(<<getJobWithNormalizedId(j(TRUE))>>))
         /\ legacyJob(whole, call) = Done(Inserted(whole, "jobs", j(FALSE)), Answer(<<>>))
         /\ legacyJob(part, call) = Done(Inserted(part, "jobs", j(FALSE)), Answer(<<>>))
    <2>1. newJob(part, u, TRUE) = j(TRUE) /\ newJob(part, u, FALSE) = j(FALSE)
      BY <1>0, <1>3
    <2> QED
      BY <2>1, CreatesAre DEF j
  <1>15. \A a, b, x : IsPart(users, u, a, b) => IsSame(users, u, Done(a, x), Done(b, x))
    BY DEF IsSame, Done
  <1> QED
    BY <1>0, <1>11, <1>12, <1>13, <1>14, <1>15

LEMMA ReadsPart ==
  ASSUME NEW users, NEW whole \in UserStores(users), NEW part \in UserStores(users),
         NEW call \in UserCalls(users), IsPart(users, call.user, whole, part)
  PROVE  /\ IsSame(users, call.user, listConversations(whole, call), listConversations(part, call))
         /\ IsSame(users, call.user, getConversation(whole, call), getConversation(part, call))
         /\ IsSame(users, call.user, getJob(whole, call), getJob(part, call))
         /\ IsSame(users, call.user, getAllJobs(whole, call), getAllJobs(part, call))
  <1> DEFINE C == Conversations(users)
             J == JobDocuments(users)
             u == call.user
             first(store) == FirstIn(store.conversations, Asked(C, call))
             firstJob(store) == FirstIn(store.jobs, Asked(J, call))
             own(store) == Sub(store.conversations, OwnOf(C, u))
             ownJobs(store) == Sub(store.jobs, OwnOf(J, u))
  <1>1. /\ whole.conversations \in Seq(C) /\ whole.jobs \in Seq(J)
        /\ part.conversations = own(whole) /\ part.jobs = ownJobs(whole)
    BY DEF IsPart, UserStores
  <1>2. first(part) = first(whole) /\ firstJob(part) = firstJob(whole)
    BY <1>1, PartSearch
  <1>3. own(part) = own(whole) /\ ownJobs(part) = ownJobs(whole)
    <2>1. /\ own(whole) \in Seq(C \cap OwnOf(C, u)) /\ C \cap OwnOf(C, u) \subseteq OwnOf(C, u)
          /\ ownJobs(whole) \in Seq(J \cap OwnOf(J, u)) /\ J \cap OwnOf(J, u) \subseteq OwnOf(J, u)
      BY <1>1, SubIsIn
    <2> HIDE DEF C, J
    <2>2. Sub(own(whole), OwnOf(C, u)) = own(whole) /\ Sub(ownJobs(whole), OwnOf(J, u)) = ownJobs(whole)
      BY <2>1, SubAll
    <2> QED
      BY <1>1, <2>2
  <1>4. \A store \in {whole, part} :
          /\ listConversations(store, call) = Done(store, Answer(Mapped(toConversationSummary, own(store))))
          /\ getConversation(store, call) = Done(store, IF first(store) = None THEN Miss ELSE Answer(first(store).turns))
          /\ getJob(store, call) = Done(store, JobRead(firstJob(store)))
          /\ getAllJobs(store, call) = Done(store, ListAnswer(ownJobs(store)))
    BY HandlersRead, WritesAre, ListIs DEF getAllJobs
  <1>5. \A x : IsSame(users, u, Done(whole, x), Done(part, x))
    BY DEF IsSame, Done
  <1> HIDE DEF first, firstJob, own, ownJobs
  <1> QED
    BY <1>2, <1>3, <1>4, <1>5

LEMMA WritesPart ==
  ASSUME NEW users, NEW whole \in UserStores(users), NEW part \in UserStores(users),
         NEW call \in UserCalls(users), IsPart(users, call.user, whole, part)
  PROVE  /\ IsSame(users, call.user, appendTurn(whole, call), appendTurn(part, call))
         /\ IsSame(users, call.user, updateJob(whole, call), updateJob(part, call))
         /\ IsSame(users, call.user, deleteConversation(whole, call), deleteConversation(part, call))
         /\ IsSame(users, call.user, deleteJob(whole, call), deleteJob(part, call))
  <1> DEFINE C == Conversations(users)
             J == JobDocuments(users)
             u == call.user
             O == OwnOf(C, u)
             P == OwnOf(J, u)
             turned(store) == Image(store.conversations, Extended(C, call))
             first(store) == FirstIn(turned(store), Asked(C, call))
             set(store) == Image(store.jobs, Updated(J, call))
             found(store) == FirstIn(set(store), Asked(J, call))
             fewerC(store) == Sub(store.conversations, C \ Asked(C, call))
             fewerJ(store) == Sub(store.jobs, J \ Asked(J, call))
  <1>1. /\ whole.conversations \in Seq(C) /\ whole.jobs \in Seq(J)
        /\ part.conversations = Sub(whole.conversations, O) /\ part.jobs = Sub(whole.jobs, P)
        /\ part.made[u] = whole.made[u]
    BY DEF IsPart, UserStores
  <1>2. turned(part) = Sub(turned(whole), O) /\ set(part) = Sub(set(whole), P)
    <2>1. /\ Sub(turned(whole), O) = Image(Sub(whole.conversations, O), Extended(C, call))
      BY <1>1, WritesKeepOwner, PartUnchanged
    <2>2. Sub(set(whole), P) = Image(Sub(whole.jobs, P), Updated(J, call))
      BY <1>1, WritesKeepOwner, PartUnchanged
    <2> QED
      BY <1>1, <2>1, <2>2
  <1>3. turned(whole) \in Seq(C) /\ set(whole) \in Seq(J)
    BY WritesAre
  <1>4. first(part) = first(whole) /\ found(part) = found(whole)
    BY <1>2, <1>3, PartSearch
  <1>5. fewerC(part) = Sub(fewerC(whole), O) /\ fewerJ(part) = Sub(fewerJ(whole), P)
    BY <1>1, PartDelete
  <1>6. /\ HasIn(part.conversations, Asked(C, call)) <=> HasIn(whole.conversations, Asked(C, call))
        /\ HasIn(part.jobs, Asked(J, call)) <=> HasIn(whole.jobs, Asked(J, call))
    BY <1>1, PartSearch
  <1>7. \A store \in {whole, part} :
          /\ appendTurn(store, call) = IF first(store) = None THEN Done(store, Miss)
                                       ELSE Done([store EXCEPT !.conversations = turned(store)], Answer(first(store).turns))
          /\ updateJob(store, call) = Done([store EXCEPT !.jobs = set(store)], JobRead(found(store)))
          /\ deleteConversation(store, call) =
               IF ~HasIn(store.conversations, Asked(C, call)) THEN Done(store, Miss)
               ELSE Done([store EXCEPT !.conversations = fewerC(store)], Answer(<<idOf(call)>>))
          /\ deleteJob(store, call) =
               IF ~HasIn(store.jobs, Asked(J, call)) THEN Done(store, Miss)
               ELSE Done([store EXCEPT !.jobs = fewerJ(store)], Answer(<<idOf(call)>>))
    <2> SUFFICES ASSUME NEW store \in UserStores(users)
                 PROVE  /\ appendTurn(store, call) =
                             IF first(store) = None THEN Done(store, Miss)
                             ELSE Done([store EXCEPT !.conversations = turned(store)], Answer(first(store).turns))
                        /\ updateJob(store, call) = Done([store EXCEPT !.jobs = set(store)], JobRead(found(store)))
                        /\ deleteConversation(store, call) =
                             IF ~HasIn(store.conversations, Asked(C, call)) THEN Done(store, Miss)
                             ELSE Done([store EXCEPT !.conversations = fewerC(store)], Answer(<<idOf(call)>>))
                        /\ deleteJob(store, call) =
                             IF ~HasIn(store.jobs, Asked(J, call)) THEN Done(store, Miss)
                             ELSE Done([store EXCEPT !.jobs = fewerJ(store)], Answer(<<idOf(call)>>))
      OBVIOUS
    <2>1. /\ appendTurn(store, call) =
               IF first(store) = None THEN Done(store, Miss)
               ELSE Done([store EXCEPT !.conversations = turned(store)], Answer(first(store).turns))
          /\ updateJob(store, call) = Done([store EXCEPT !.jobs = set(store)], JobRead(found(store)))
      BY WritesAre
    <2>2. /\ deleteConversation(store, call) =
               IF ~HasIn(store.conversations, Asked(C, call)) THEN Done(store, Miss)
               ELSE Done([store EXCEPT !.conversations = fewerC(store)], Answer(<<idOf(call)>>))
          /\ deleteJob(store, call) =
               IF ~HasIn(store.jobs, Asked(J, call)) THEN Done(store, Miss)
               ELSE Done([store EXCEPT !.jobs = fewerJ(store)], Answer(<<idOf(call)>>))
      BY DeletesAre
    <2> QED
      BY <2>1, <2>2
  <1> HIDE DEF turned, first, set, found, fewerC, fewerJ
  <1>8. \A a, b, x : IsPart(users, u, a, b) => IsSame(users, u, Done(a, x), Done(b, x))
    BY DEF IsSame, Done
  <1>9. \A x, y : y = Sub(x, O) =>
          IsPart(users, u, [whole EXCEPT !.conversations = x], [part EXCEPT !.conversations = y])
    BY <1>1 DEF IsPart, UserStores
  <1>10. \A x, y : y = Sub(x, P) => IsPart(users, u, [whole EXCEPT !.jobs = x], [part EXCEPT !.jobs = y])
    BY <1>1 DEF IsPart, UserStores
  <1> HIDE DEF C, J, O, P, u
  <1>11. IsPart(users, u, whole, part)
    BY DEF u
  <1>12. IsSame(users, u, appendTurn(whole, call), appendTurn(part, call))
    BY <1>2, <1>4, <1>7, <1>8, <1>9, <1>11
  <1>13. IsSame(users, u, updateJob(whole, call), updateJob(part, call))
    BY <1>2, <1>4, <1>7, <1>8, <1>10
  <1>14. IsSame(users, u, deleteConversation(whole, call), deleteConversation(part, call))
    BY <1>5, <1>6, <1>7, <1>8, <1>9, <1>11
  <1>15. IsSame(users, u, deleteJob(whole, call), deleteJob(part, call))
    BY <1>5, <1>6, <1>7, <1>8, <1>10, <1>11
  <1> QED
    BY <1>12, <1>13, <1>14, <1>15 DEF u

\* A call of a user is answered alike in the whole and in the user's part.
LEMMA OwnCall ==
  ASSUME NEW users, NEW whole \in UserStores(users), NEW part \in UserStores(users),
         NEW call \in UserCalls(users), IsPart(users, call.user, whole, part)
  PROVE  IsSame(users, call.user, Handled(whole, call), Handled(part, call))
  <1>1. call.op \in Operations
    BY DEF UserCalls
  <1> QED
    BY <1>1, CreatesPart, ReadsPart, WritesPart DEF Handled, Operations

LEMMA OtherCreates ==
  ASSUME NEW users, NEW whole \in UserStores(users), NEW part,
         NEW call \in UserCalls(users), NEW user \in users, user # call.user, IsPart(users, user, whole, part)
  PROVE  /\ IsPart(users, user, createConversation(whole, call).store, part)
         /\ IsPart(users, user, createJob(whole, call).store, part)
         /\ IsPart(users, user, legacyJob(whole, call).store, part)
  <1> DEFINE c == NewConversation(whole, call)
             j(valid) == newJob(whole, call.user, valid)
             C == Conversations(users)
             J == JobDocuments(users)
  <1>0. TRUE \in BOOLEAN /\ FALSE \in BOOLEAN /\ call.user \in users
    BY DEF UserCalls
  <1>1. /\ c \in C /\ c.userId = call.user
        /\ \A valid \in BOOLEAN : j(valid) \in J /\ j(valid).userId = call.user
    BY NewAreTyped
  <1>2. /\ whole.conversations \in Seq(C) /\ whole.jobs \in Seq(J)
        /\ part.conversations = Sub(whole.conversations, OwnOf(C, user)) /\ part.jobs = Sub(whole.jobs, OwnOf(J, user))
        /\ part.made[user] = whole.made[user] /\ whole.made \in [users -> Nat]
    BY DEF IsPart, UserStores
  <1> HIDE DEF c, j, C, J
  <1>3. c \notin OwnOf(C, user) /\ \A valid \in BOOLEAN : j(valid) \notin OwnOf(J, user)
    BY <1>1 DEF OwnOf
  <1>4. Sub(Append(whole.conversations, c), OwnOf(C, user)) = part.conversations
    BY <1>1, <1>2, <1>3, SubDropped
  <1>5. \A valid \in BOOLEAN : Sub(Append(whole.jobs, j(valid)), OwnOf(J, user)) = part.jobs
    BY <1>1, <1>2, <1>3, SubDropped
  <1>6. [whole.made EXCEPT ![call.user] = @ + 1][user] = part.made[user]
    BY <1>0, <1>2
  <1>7. LET done == Inserted(whole, "conversations", c) IN
        /\ done.conversations = Append(whole.conversations, c) /\ done.jobs = whole.jobs
        /\ done.made = [whole.made EXCEPT ![call.user] = @ + 1]
    BY <1>1, InsertedConversation DEF C
  <1>8. \A valid \in BOOLEAN :
          LET done == Inserted(whole, "jobs", j(valid)) IN
          /\ done.jobs = Append(whole.jobs, j(valid)) /\ done.conversations = whole.conversations
          /\ done.made = [whole.made EXCEPT ![call.user] = @ + 1]
    <2> SUFFICES ASSUME NEW valid \in BOOLEAN
                 PROVE  LET done == Inserted(whole, "jobs", j(valid)) IN
                        /\ done.jobs = Append(whole.jobs, j(valid)) /\ done.conversations = whole.conversations
                        /\ done.made = [whole.made EXCEPT ![call.user] = @ + 1]
      OBVIOUS
    <2>1. j(valid) \in J /\ j(valid).userId = call.user
      BY <1>1
    <2> QED
      BY <2>1, InsertedJob DEF J
  <1>9. IsPart(users, user, Inserted(whole, "conversations", c), part)
    BY <1>2, <1>4, <1>6, <1>7 DEF IsPart, C, J
  <1>10. \A valid \in BOOLEAN : IsPart(users, user, Inserted(whole, "jobs", j(valid)), part)
    BY <1>2, <1>5, <1>6, <1>8 DEF IsPart, C, J
  <1>11. /\ createConversation(whole, call).store = Inserted(whole, "conversations", c)
         /\ createJob(whole, call).store = Inserted(whole, "jobs", j(TRUE))
         /\ legacyJob(whole, call).store = Inserted(whole, "jobs", j(FALSE))
    BY Zenon DEF createConversation, createJob, legacyJob, NewConversation, Done, c, j
  <1> QED
    BY <1>0, <1>9, <1>10, <1>11

LEMMA OtherWrites ==
  ASSUME NEW users, NEW whole \in UserStores(users), NEW part,
         NEW call \in UserCalls(users), NEW user \in users, user # call.user, IsPart(users, user, whole, part)
  PROVE  /\ IsPart(users, user, appendTurn(whole, call).store, part)
         /\ IsPart(users, user, updateJob(whole, call).store, part)
         /\ IsPart(users, user, deleteConversation(whole, call).store, part)
         /\ IsPart(users, user, deleteJob(whole, call).store, part)
  <1> DEFINE C == Conversations(users)
             J == JobDocuments(users)
             O == OwnOf(C, user)
             P == OwnOf(J, user)
             turned == Image(whole.conversations, Extended(C, call))
             set == Image(whole.jobs, Updated(J, call))
             fewerC == Sub(whole.conversations, C \ Asked(C, call))
             fewerJ == Sub(whole.jobs, J \ Asked(J, call))
  <1>1. /\ whole.conversations \in Seq(C) /\ whole.jobs \in Seq(J)
        /\ part.conversations = Sub(whole.conversations, O) /\ part.jobs = Sub(whole.jobs, P)
    BY DEF IsPart, UserStores
  <1>2. Sub(turned, O) = part.conversations
    BY <1>1, WritesKeepOwner, PartUnchanged
  <1>3. Sub(set, P) = part.jobs
    BY <1>1, WritesKeepOwner, PartUnchanged
  <1>4. Sub(fewerC, O) = part.conversations /\ Sub(fewerJ, P) = part.jobs
    BY <1>1, PartDelete
  <1>5. /\ appendTurn(whole, call).store \in {whole, [whole EXCEPT !.conversations = turned]}
        /\ updateJob(whole, call).store = [whole EXCEPT !.jobs = set]
        /\ deleteConversation(whole, call).store \in {whole, [whole EXCEPT !.conversations = fewerC]}
        /\ deleteJob(whole, call).store \in {whole, [whole EXCEPT !.jobs = fewerJ]}
    <2> DEFINE first == FirstIn(turned, Asked(C, call))
               found == FirstIn(set, Asked(J, call))
    <2>1. /\ appendTurn(whole, call) = IF first = None THEN Done(whole, Miss)
                                       ELSE Done([whole EXCEPT !.conversations = turned], Answer(first.turns))
          /\ updateJob(whole, call) = Done([whole EXCEPT !.jobs = set], JobRead(found))
      BY WritesAre
    <2>2. /\ deleteConversation(whole, call) =
               IF ~HasIn(whole.conversations, Asked(C, call)) THEN Done(whole, Miss)
               ELSE Done([whole EXCEPT !.conversations = fewerC], Answer(<<idOf(call)>>))
          /\ deleteJob(whole, call) =
               IF ~HasIn(whole.jobs, Asked(J, call)) THEN Done(whole, Miss)
               ELSE Done([whole EXCEPT !.jobs = fewerJ], Answer(<<idOf(call)>>))
      BY DeletesAre
    <2> HIDE DEF turned, set, fewerC, fewerJ, first, found
    <2>3. \A a, x : Done(a, x).store = a
      BY DoneFields
    <2>4. appendTurn(whole, call).store \in {whole, [whole EXCEPT !.conversations = turned]}
      BY <2>1, <2>3
    <2>5. updateJob(whole, call).store = [whole EXCEPT !.jobs = set]
      BY <2>1, <2>3
    <2>6. deleteConversation(whole, call).store \in {whole, [whole EXCEPT !.conversations = fewerC]}
      BY <2>2, <2>3
    <2>7. deleteJob(whole, call).store \in {whole, [whole EXCEPT !.jobs = fewerJ]}
      BY <2>2, <2>3
    <2> QED
      BY <2>4, <2>5, <2>6, <2>7
  <1> HIDE DEF turned, set, fewerC, fewerJ
  <1>6. \A x : Sub(x, O) = part.conversations => IsPart(users, user, [whole EXCEPT !.conversations = x], part)
    BY DEF IsPart, UserStores
  <1>7. \A x : Sub(x, P) = part.jobs => IsPart(users, user, [whole EXCEPT !.jobs = x], part)
    BY DEF IsPart, UserStores
  <1> HIDE DEF C, J, O, P
  <1> QED
    BY <1>2, <1>3, <1>4, <1>5, <1>6, <1>7

\* A call of somebody else leaves the user's part as it is.
LEMMA OtherCall ==
  ASSUME NEW users, NEW whole \in UserStores(users), NEW part,
         NEW call \in UserCalls(users), NEW user \in users, user # call.user, IsPart(users, user, whole, part)
  PROVE  IsPart(users, user, Handled(whole, call).store, part)
  <1>1. call.op \in Operations
    BY DEF UserCalls
  <1>2. /\ listConversations(whole, call).store = whole /\ getConversation(whole, call).store = whole
        /\ getJob(whole, call).store = whole /\ getAllJobs(whole, call).store = whole
    BY DoneFields DEF listConversations, getConversation, getJob, getAllJobs
  <1> QED
    BY <1>1, <1>2, OtherCreates, OtherWrites DEF Handled, Operations

-----------------------------------------------------------------------------
\* Histories of calls

Given(users) == [user : users, answer : StoreAnswers(users)]

UserRuns(users) == [store : UserStores(users), answers : Seq(Given(users))]

FirstRun(users) == [store |-> EmptyStore(users), answers |-> <<>>]

NextRun(before, call) ==
  LET done == Handled(before.store, call) IN
  [store |-> done.store, answers |-> Append(before.answers, [user |-> call.user, answer |-> done.answer])]

LEMMA RunsTyped ==
  ASSUME NEW users
  PROVE  /\ FirstRun(users) \in UserRuns(users)
         /\ \A before \in UserRuns(users) : \A call \in UserCalls(users) : NextRun(before, call) \in UserRuns(users)
  <1>1. FirstRun(users) \in UserRuns(users)
    <2>1. EmptyStore(users) \in UserStores(users)
      BY DEF EmptyStore, UserStores
    <2> QED
      BY <2>1 DEF FirstRun, UserRuns
  <1>2. ASSUME NEW before \in UserRuns(users), NEW call \in UserCalls(users)
        PROVE  NextRun(before, call) \in UserRuns(users)
    <2>1. before.store \in UserStores(users) /\ before.answers \in Seq(Given(users)) /\ call.user \in users
      BY DEF UserRuns, UserCalls
    <2> DEFINE done == Handled(before.store, call)
               given == [user |-> call.user, answer |-> done.answer]
    <2>2. done.store \in UserStores(users) /\ done.answer \in StoreAnswers(users)
      BY <2>1, HandledTyped DEF IsDone
    <2> HIDE DEF done
    <2>3. given \in Given(users)
      BY <2>1, <2>2 DEF Given
    <2> HIDE DEF given
    <2>4. Append(before.answers, given) \in Seq(Given(users))
      BY <2>1, <2>3
    <2>5. [store |-> done.store, answers |-> Append(before.answers, given)] \in UserRuns(users)
      BY <2>2, <2>4 DEF UserRuns
    <2> QED
      BY <2>5 DEF NextRun, done, given
  <1> QED
    BY <1>1, <1>2

\* g is the recursion of Replayed.
Replays(g, users, s) ==
  /\ g[0] = FirstRun(users)
  /\ \A k \in 1..Len(s) : g[k] = NextRun(g[k - 1], s[k])
  /\ Replayed(users, s) = g[Len(s)]

IsReplayed(users, s) == \E g : Replays(g, users, s) /\ \A k \in 0..Len(s) : g[k] \in UserRuns(users)

LEMMA ReplayedSolves ==
  ASSUME NEW users, NEW s \in Seq(UserCalls(users))
  PROVE  IsReplayed(users, s)
  <1> DEFINE X == UserRuns(users)
             base == FirstRun(users)
             n == Len(s)
             next(k, x) == NextRun(x, s[k])
             step == [k \in 1..n |-> [x \in X |-> next(k, x)]]
             f == CHOOSE g : g = [k \in 0..n |->
                    IF k = 0 THEN [store |-> EmptyStore(users), answers |-> <<>>]
                    ELSE LET before == g[k - 1]
                             done == Handled(before.store, s[k]) IN
                         [store |-> done.store,
                          answers |-> Append(before.answers, [user |-> s[k].user, answer |-> done.answer])]]
  <1>1. \A k \in 1..n : \A x \in X : step[k][x] = next(k, x)
    OBVIOUS
  <1>2. \A k \in 1..n : \A x \in X : step[k][x] \in X
    <2>1. \A k \in 1..n : s[k] \in UserCalls(users)
      OBVIOUS
    <2> HIDE DEF n, step
    <2> QED
      BY <1>1, <2>1, RunsTyped
  <1>3. base \in X /\ n \in Nat
    BY RunsTyped
  <1>4. /\ 0 \in 0..n
        /\ \A k \in 1..n : k \in 0..n /\ k # 0 /\ k - 1 \in 0..n
        /\ \A k \in 0..n : k # 0 => k \in 1..n
    OBVIOUS
  <1>5. PICK g \in [0..n -> X] : g[0] = base /\ \A k \in 1..n : g[k] = step[k][g[k - 1]]
    <2>1. StaysIn(X, n, step)
      BY <1>2 DEF StaysIn
    <2> HIDE DEF X, n, step, base
    <2>2. HasRecursion(X, base, n, step)
      BY <1>3, <2>1, RecursionExists
    <2> QED
      BY <2>2 DEF HasRecursion, Recurses
  <1> DEFINE start == [store |-> EmptyStore(users), answers |-> <<>>]
             then(before, k) == LET done == Handled(before.store, s[k]) IN
               [store |-> done.store,
                answers |-> Append(before.answers, [user |-> s[k].user, answer |-> done.answer])]
  <1>6. g = [k \in 0..n |-> IF k = 0 THEN start ELSE then(g[k - 1], k)]
    <2>1. /\ g = [k \in 0..n |-> g[k]]
          /\ \A k \in 0..n : k # 0 => g[k] = next(k, g[k - 1])
      BY <1>1, <1>4, <1>5
    <2>2. \A k \in 0..n : k # 0 => g[k] = then(g[k - 1], k)
      BY <2>1 DEF NextRun
    <2> HIDE DEF step, X, n, next, then
    <2> HIDE DEF start
    <2>3. g[0] = start
      <3>1. g[0] = FirstRun(users)
        BY <1>5, Zenon
      <3>2. FirstRun(users) = start
        BY Zenon DEF FirstRun, start
      <3> QED
        BY <3>1, <3>2
    <2> QED
      BY <2>1, <2>2, <2>3
  <1>7. f = [k \in 0..n |-> IF k = 0 THEN start ELSE then(f[k - 1], k)]
    BY <1>6
  <1>8. Replayed(users, s) = f[n]
    BY DEF Replayed
  <1> HIDE DEF f, n, start, then
  <1>9. f[0] = start /\ \A k \in 1..n : f[k] = then(f[k - 1], k)
    BY <1>4, <1>7, Zenon
  <1>10. g[0] = start /\ \A k \in 1..n : g[k] = then(g[k - 1], k)
    BY <1>4, <1>6, Zenon
  <1>11. \A k \in 0..n : f[k] = g[k]
    <2>1. StepAlike(n, f, g)
      BY <1>9, <1>10 DEF StepAlike
    <2>2. AlikeUpTo(n, f, g)
      BY <1>3, <2>1, RecursionUnique
    <2> QED
      BY <2>2 DEF AlikeUpTo
  <1>12. \A k \in 0..n : f[k] \in X
    BY <1>5, <1>11
  <1>13. f[0] = FirstRun(users) /\ \A k \in 1..n : f[k] = NextRun(f[k - 1], s[k])
    BY <1>9, Zenon DEF start, then, FirstRun, NextRun
  <1>14. Replays(f, users, s)
    BY <1>8, <1>13 DEF Replays, n
  <1> QED
    BY <1>12, <1>14 DEF IsReplayed, n

LEMMA ReplayedEmpty ==
  ASSUME NEW users
  PROVE  Replayed(users, <<>>) = FirstRun(users)
  <1>1. <<>> \in Seq(UserCalls(users)) /\ Len(<<>>) = 0
    OBVIOUS
  <1> QED
    BY <1>1, ReplayedSolves DEF IsReplayed, Replays

LEMMA ReplayedTyped ==
  ASSUME NEW users, NEW s \in Seq(UserCalls(users))
  PROVE  Replayed(users, s) \in UserRuns(users)
  <1>1. Len(s) \in 0..Len(s)
    OBVIOUS
  <1>2. IsReplayed(users, s)
    BY ReplayedSolves
  <1> QED
    BY <1>1, <1>2 DEF IsReplayed, Replays

LEMMA ReplayedAppend ==
  ASSUME NEW users, NEW s \in Seq(UserCalls(users)), NEW v \in UserCalls(users)
  PROVE  Replayed(users, Append(s, v)) = NextRun(Replayed(users, s), v)
  <1> DEFINE t == Append(s, v)
             n == Len(s)
  <1>1. t \in Seq(UserCalls(users)) /\ n \in Nat /\ Len(t) = n + 1 /\ t[n + 1] = v
    OBVIOUS
  <1>2. \A k \in 1..n : k \in 1..Len(t) /\ t[k] = s[k]
    OBVIOUS
  <1> HIDE DEF t
  <1>3. IsReplayed(users, s) /\ IsReplayed(users, t)
    BY <1>1, ReplayedSolves
  <1>4. PICK g : Replays(g, users, s)
    BY <1>3 DEF IsReplayed
  <1>5. PICK h : Replays(h, users, t)
    BY <1>3 DEF IsReplayed
  <1>6. /\ g[0] = FirstRun(users) /\ Replayed(users, s) = g[n]
        /\ \A k \in 1..n : g[k] = NextRun(g[k - 1], s[k])
    BY <1>4 DEF Replays
  <1>7. /\ h[0] = FirstRun(users) /\ Replayed(users, t) = h[n + 1]
        /\ \A k \in 1..Len(t) : h[k] = NextRun(h[k - 1], t[k])
    BY <1>1, <1>5 DEF Replays
  <1> HIDE DEF n
  <1>8. StepAlike(n, g, h)
    BY <1>2, <1>6, <1>7 DEF StepAlike
  <1>9. \A k \in 0..n : g[k] = h[k]
    BY <1>1, <1>8, RecursionUnique DEF AlikeUpTo
  <1>10. n \in 0..n /\ n + 1 \in 1..Len(t) /\ (n + 1) - 1 = n
    BY <1>1
  <1>11. h[n + 1] = NextRun(h[n], v)
    BY <1>1, <1>7, <1>10
  <1>12. Replayed(users, t) = NextRun(Replayed(users, s), v)
    BY <1>6, <1>7, <1>9, <1>10, <1>11
  <1> QED
    BY <1>12 DEF t

\* Of the elements of V those that name the user.
NamedBy(V, user) == {x \in V : x.user = user}

\* A history and the user's part of it: the stores correspond, and the answers to the user are
\* those the user would be given alone.
IsUserPart(users, user, s) ==
  LET whole == Replayed(users, s)
      part == Replayed(users, Sub(s, NamedBy(UserCalls(users), user))) IN
  /\ IsPart(users, user, whole.store, part.store)
  /\ part.answers = Sub(whole.answers, NamedBy(Given(users), user))

LEMMA UserPartStep ==
  ASSUME NEW users, NEW user \in users, NEW s \in Seq(UserCalls(users)), NEW v \in UserCalls(users),
         IsUserPart(users, user, s)
  PROVE  IsUserPart(users, user, Append(s, v))
  <1> DEFINE N == NamedBy(UserCalls(users), user)
             M == NamedBy(Given(users), user)
             whole == Replayed(users, s)
             part == Replayed(users, Sub(s, N))
             done == Handled(whole.store, v)
             alone == Handled(part.store, v)
             given == [user |-> v.user, answer |-> done.answer]
  <1>1. Sub(s, N) \in Seq(UserCalls(users))
    BY SubTyped
  <1>2. whole \in UserRuns(users) /\ part \in UserRuns(users)
    BY <1>1, ReplayedTyped
  <1>3. /\ whole.store \in UserStores(users) /\ whole.answers \in Seq(Given(users))
        /\ part.store \in UserStores(users) /\ part.answers \in Seq(Given(users))
    BY <1>2 DEF UserRuns
  <1>4. IsPart(users, user, whole.store, part.store) /\ part.answers = Sub(whole.answers, M)
    BY DEF IsUserPart
  <1>5. Replayed(users, Append(s, v)) = [store |-> done.store, answers |-> Append(whole.answers, given)]
    BY ReplayedAppend DEF NextRun
  <1>6. given \in Given(users)
    <2>1. done.answer \in StoreAnswers(users) /\ v.user \in users
      BY <1>3, HandledTyped DEF IsDone, UserCalls
    <2> QED
      BY <2>1 DEF Given
  <1> HIDE DEF whole, part, done, alone, given
  <1>7. CASE v.user = user
    <2>1. v \in N /\ given \in M
      BY <1>6, <1>7 DEF NamedBy, given
    <2>2. Sub(Append(s, v), N) = Append(Sub(s, N), v)
      BY <2>1, SubTaken
    <2>3. Replayed(users, Append(Sub(s, N), v)) = NextRun(part, v)
      BY <1>1, ReplayedAppend DEF part
    <2>4. NextRun(part, v) = [store |-> alone.store,
                              answers |-> Append(part.answers, [user |-> v.user, answer |-> alone.answer])]
      BY DEF NextRun, alone
    <2>5. IsSame(users, v.user, done, alone)
      BY <1>3, <1>4, <1>7, OwnCall DEF done, alone
    <2>6. done.answer = alone.answer /\ IsPart(users, user, done.store, alone.store)
      BY <1>7, <2>5 DEF IsSame
    <2>7. [user |-> v.user, answer |-> alone.answer] = given
      BY <2>6 DEF given
    <2>8. Sub(Append(whole.answers, given), M) = Append(part.answers, given)
      BY <1>3, <1>4, <1>6, <2>1, SubTaken
    <2>9. Replayed(users, Sub(Append(s, v), N)) = [store |-> alone.store, answers |-> Append(part.answers, given)]
      BY <2>2, <2>3, <2>4, <2>7
    <2> HIDE DEF N, M
    <2>10. /\ Replayed(users, Append(s, v)).store = done.store
           /\ Replayed(users, Append(s, v)).answers = Append(whole.answers, given)
           /\ Replayed(users, Sub(Append(s, v), N)).store = alone.store
           /\ Replayed(users, Sub(Append(s, v), N)).answers = Append(part.answers, given)
      BY <1>5, <2>9
    <2> QED
      BY <2>6, <2>8, <2>10 DEF IsUserPart, N, M
  <1>8. CASE v.user # user
    <2>1. v \notin N /\ given \notin M
      BY <1>8 DEF NamedBy, given
    <2>2. Sub(Append(s, v), N) = Sub(s, N)
      BY <2>1, SubDropped
    <2>3. IsPart(users, user, done.store, part.store)
      BY <1>3, <1>4, <1>8, OtherCall DEF done
    <2>4. Sub(Append(whole.answers, given), M) = part.answers
      BY <1>3, <1>4, <1>6, <2>1, SubDropped
    <2> HIDE DEF N, M
    <2>5. /\ Replayed(users, Append(s, v)).store = done.store
          /\ Replayed(users, Append(s, v)).answers = Append(whole.answers, given)
          /\ Replayed(users, Sub(Append(s, v), N)) = part
      BY <1>5, <2>2 DEF part
    <2> QED
      BY <2>3, <2>4, <2>5 DEF IsUserPart, N, M
  <1> QED
    BY <1>7, <1>8

\* Whatever the users call, and whoever they are, each is answered as if there were no others:
\* a document of somebody else makes no difference (the repositories' { _id, userId } filters).
THEOREM OthersUnseen ==
  ASSUME NEW users, NEW s \in Seq(UserCalls(users))
  PROVE  OthersAreUnseen(users, s)
  <1> SUFFICES ASSUME NEW user \in users
               PROVE  Where(Replayed(users, s).answers, LAMBDA x : x.user = user)
                        = Replayed(users, Where(s, LAMBDA x : x.user = user)).answers
    BY DEF OthersAreUnseen
  <1> DEFINE P == {u \in Seq(UserCalls(users)) : IsUserPart(users, user, u)}
             answers == Replayed(users, s).answers
  <1>1. <<>> \in P
    <2> DEFINE E == FirstRun(users)
    <2>1. <<>> \in Seq(UserCalls(users))
      OBVIOUS
    <2>2. Sub(<<>>, NamedBy(UserCalls(users), user)) = <<>> /\ Replayed(users, <<>>) = E
      BY SubEmpty, ReplayedEmpty
    <2>3. /\ E.store.conversations = <<>> /\ E.store.jobs = <<>> /\ E.answers = <<>>
      BY DEF FirstRun, EmptyStore
    <2> HIDE DEF E
    <2>4. IsPart(users, user, E.store, E.store)
      BY <2>3, SubEmpty DEF IsPart
    <2>5. E.answers = Sub(E.answers, NamedBy(Given(users), user))
      BY <2>3, SubEmpty
    <2>6. IsUserPart(users, user, <<>>)
      BY <2>2, <2>4, <2>5 DEF IsUserPart
    <2> QED
      BY <2>1, <2>6
  <1>2. ASSUME NEW u \in Seq(UserCalls(users)), NEW v \in UserCalls(users), u \in P
        PROVE  Append(u, v) \in P
    <2>1. Append(u, v) \in Seq(UserCalls(users))
      OBVIOUS
    <2> QED
      BY <1>2, <2>1, UserPartStep
  <1> HIDE DEF P
  <1>3. s \in P
    BY <1>1, <1>2, AppendInduction
  <1>4. answers \in Seq(Given(users))
    BY ReplayedTyped DEF UserRuns
  <1>5. {i \in DOMAIN answers : answers[i].user = user}
          = {i \in DOMAIN answers : answers[i] \in NamedBy(Given(users), user)}
    <2>1. \A i \in DOMAIN answers : answers[i] \in Given(users)
      BY <1>4
    <2> HIDE DEF answers
    <2> QED
      BY <2>1 DEF NamedBy
  <1>6. {i \in DOMAIN s : s[i].user = user} = {i \in DOMAIN s : s[i] \in NamedBy(UserCalls(users), user)}
    <2>1. \A i \in DOMAIN s : s[i] \in UserCalls(users)
      OBVIOUS
    <2> QED
      BY <2>1 DEF NamedBy
  <1> HIDE DEF answers
  <1>7. Where(answers, LAMBDA x : x.user = user) = Sub(answers, NamedBy(Given(users), user))
    BY <1>5 DEF Where, Sub
  <1>8. Where(s, LAMBDA x : x.user = user) = Sub(s, NamedBy(UserCalls(users), user))
    BY <1>6 DEF Where, Sub
  <1>9. Replayed(users, Sub(s, NamedBy(UserCalls(users), user))).answers = Sub(answers, NamedBy(Given(users), user))
    BY <1>3 DEF P, IsUserPart, answers
  <1> QED
    BY <1>7, <1>8, <1>9 DEF answers

-----------------------------------------------------------------------------
\* Concatenations

\* g collects the sequences of w, one after the other.
Flattens(g, w) ==
  /\ g[0] = <<>>
  /\ \A k \in 1..Len(w) : g[k] = g[k - 1] \o w[k]
  /\ FlattenSeq(w) = g[Len(w)]

IsFlattened(V, w) == \E g : Flattens(g, w) /\ \A k \in 0..Len(w) : g[k] \in Seq(V)

LEMMA FlattenSolves ==
  ASSUME NEW V, NEW w \in Seq(Seq(V)), Len(w) # 0
  PROVE  IsFlattened(V, w)
  <1> DEFINE X == Seq(V)
             base == <<>>
             n == Len(w)
             next(k, x) == x \o w[k]
             step == [k \in 1..n |-> [x \in X |-> next(k, x)]]
             f == CHOOSE g : g = [k \in 1..n |-> IF k = 1 THEN w[k] ELSE g[k - 1] \o w[k]]
  <1>1. \A k \in 1..n : \A x \in X : step[k][x] = next(k, x)
    OBVIOUS
  <1>2. \A k \in 1..n : \A x \in X : step[k][x] \in X
    <2>1. \A k \in 1..n : w[k] \in Seq(V)
      OBVIOUS
    <2>2. \A x, y \in Seq(V) : x \o y \in Seq(V)
      OBVIOUS
    <2> HIDE DEF n, step
    <2> QED
      BY <1>1, <2>1, <2>2
  <1>3. base \in X /\ n \in Nat /\ n # 0
    OBVIOUS
  <1>4. /\ 0 \in 0..n /\ 1 \in 1..n /\ 1 - 1 = 0
        /\ \A k \in 1..n : k \in 0..n /\ k - 1 \in 0..n
        /\ \A k \in 1..n : k # 1 => k - 1 \in 1..n
        /\ \A k \in 0..n : k # 0 => k \in 1..n
    OBVIOUS
  <1>5. PICK g \in [0..n -> X] : g[0] = base /\ \A k \in 1..n : g[k] = step[k][g[k - 1]]
    <2>1. StaysIn(X, n, step)
      BY <1>2 DEF StaysIn
    <2> HIDE DEF X, n, step, base
    <2>2. HasRecursion(X, base, n, step)
      BY <1>3, <2>1, RecursionExists
    <2> QED
      BY <2>2 DEF HasRecursion, Recurses
  <1>6. \A k \in 1..n : g[k] = g[k - 1] \o w[k]
    BY <1>1, <1>4, <1>5
  <1>7. g[1] = w[1]
    <2>1. g[1] = g[0] \o w[1]
      <3> HIDE DEF n
      <3> QED
        BY <1>4, <1>6
    <2>a. w[1] \in Seq(V)
      BY <1>4
    <2>2. \A x \in Seq(V) : <<>> \o x = x
      OBVIOUS
    <2> QED
      BY <1>5, <2>1, <2>a, <2>2
  <1> DEFINE h == [k \in 1..n |-> g[k]]
  <1>8. h = [k \in 1..n |-> IF k = 1 THEN w[k] ELSE h[k - 1] \o w[k]]
    <2>1. \A k \in 1..n : h[k] = IF k = 1 THEN w[k] ELSE h[k - 1] \o w[k]
      BY <1>4, <1>6, <1>7
    <2>2. h = [k \in 1..n |-> h[k]]
      OBVIOUS
    <2> HIDE DEF h, n
    <2> QED
      BY <2>1, <2>2
  <1>9. f = [k \in 1..n |-> IF k = 1 THEN w[k] ELSE f[k - 1] \o w[k]]
    BY <1>8
  <1>10. FlattenSeq(w) = f[n]
    BY <1>3 DEF FlattenSeq
  <1> HIDE DEF f, n, h, step
  <1>11. \A k \in 0..n : k # 0 => f[k] = g[k]
    <2> DEFINE e == [k \in 0..n |-> IF k = 0 THEN <<>> ELSE f[k]]
    <2>1. e[0] = g[0]
      BY <1>4, <1>5
    <2>2. \A k \in 1..n : e[k - 1] = g[k - 1] => e[k] = g[k]
      <3> SUFFICES ASSUME NEW k \in 1..n, e[k - 1] = g[k - 1] PROVE e[k] = g[k]
        OBVIOUS
      <3>1. k \in 0..n /\ k # 0 /\ e[k] = f[k]
        OBVIOUS
      <3>2. CASE k = 1
        <4>1. f[1] = w[1]
          BY <1>4, <1>9
        <4> QED
          BY <1>7, <3>1, <3>2, <4>1
      <3>3. CASE k # 1
        <4>1. k - 1 \in 0..n /\ k - 1 # 0
          BY <1>4, <3>3
        <4>2. e[k - 1] = f[k - 1]
          BY <4>1, SMTT(30)
        <4>3. f[k] = f[k - 1] \o w[k]
          BY <1>9, <3>3
        <4> QED
          BY <1>6, <3>1, <4>2, <4>3
      <3> QED
        BY <3>2, <3>3
    <2> HIDE DEF e
    <2>3. StepAlike(n, e, g)
      BY <2>1, <2>2 DEF StepAlike
    <2>5. \A k \in 0..n : e[k] = g[k]
      BY <1>3, <2>3, RecursionUnique DEF AlikeUpTo
    <2>4. \A k \in 0..n : k # 0 => e[k] = f[k]
      BY DEF e
    <2> QED
      BY <2>4, <2>5
  <1>12. FlattenSeq(w) = g[n]
    BY <1>3, <1>10, <1>11
  <1>13. Flattens(g, w)
    BY <1>5, <1>6, <1>12 DEF Flattens, n
  <1>14. \A k \in 0..Len(w) : g[k] \in Seq(V)
    BY <1>5 DEF n
  <1> QED
    BY <1>13, <1>14 DEF IsFlattened

-----------------------------------------------------------------------------
\* Pages

LEMMA SubShorter ==
  ASSUME NEW V, NEW s \in Seq(V), NEW S
  PROVE  Len(Sub(s, S)) \in Nat /\ Len(Sub(s, S)) <= Len(s)
  <1> DEFINE P == {u \in Seq(V) : Len(Sub(u, S)) <= Len(u)}
  <1>1. <<>> \in P
    BY SubEmpty
  <1>2. ASSUME NEW u \in Seq(V), NEW v \in V, u \in P
        PROVE  Append(u, v) \in P
    <2>1. Sub(u, S) \in Seq(V) /\ Len(Sub(u, S)) <= Len(u)
      BY <1>2, SubTyped
    <2>2. CASE v \in S
      BY <2>1, <2>2, SubTaken
    <2>3. CASE v \notin S
      BY <2>1, <2>3, SubDropped
    <2> QED
      BY <2>2, <2>3
  <1> HIDE DEF P
  <1>3. s \in P
    BY <1>1, <1>2, AppendInduction
  <1>4. Sub(s, S) \in Seq(V)
    BY SubTyped
  <1> QED
    BY <1>3, <1>4 DEF P

\* A page is the part of the list from its offset.
LEMMA PageIs ==
  ASSUME NEW V, NEW s \in Seq(V), NEW limit \in Nat, limit # 0, NEW offset \in Nat
  PROVE  Page(s, limit, offset) = SubSeq(s, offset + 1, IF offset + limit < Len(s) THEN offset + limit ELSE Len(s))
  <1> DEFINE tail == SubSeq(s, offset + 1, Len(s))
             last == IF offset + limit < Len(s) THEN offset + limit ELSE Len(s)
             size == IF limit < Len(tail) THEN limit ELSE Len(tail)
  <1>1. Page(s, limit, offset) = SubSeq(tail, 1, size)
    BY DEF Page
  <1>2. CASE offset < Len(s)
    <2>1. tail \in Seq(V) /\ Len(tail) = Len(s) - offset /\ \A i \in 1..Len(tail) : tail[i] = s[i + offset]
      BY <1>2
    <2> HIDE DEF tail
    <2>2. /\ size = last - offset /\ size \in 1..Len(tail) /\ last \in 1..Len(s) /\ offset + 1 <= last
      BY <1>2, <2>1
    <2> HIDE DEF size, last
    <2>3. /\ SubSeq(tail, 1, size) = [i \in 1..size |-> tail[i]]
      BY <2>1, <2>2
    <2>4. SubSeq(s, offset + 1, last) = [i \in 1..size |-> s[i + offset]]
      BY <2>2
    <2>5. \A i \in 1..size : tail[i] = s[i + offset]
      BY <2>1, <2>2
    <2> QED
      BY <1>1, <2>3, <2>4, <2>5 DEF last
  <1>3. CASE ~(offset < Len(s))
    <2>1. tail = <<>> /\ last = Len(s)
      BY <1>3
    <2>a. Len(tail) = 0
      <3>1. Len(<<>>) = 0
        OBVIOUS
      <3> HIDE DEF tail, last, size
      <3> QED
        BY <2>1, <3>1
    <2>2. size = 0
      <3> HIDE DEF tail
      <3> QED
        BY <2>a
    <2>3. SubSeq(tail, 1, size) = <<>> /\ SubSeq(s, offset + 1, last) = <<>>
      BY <1>3, <2>1, <2>2
    <2> QED
      BY <1>1, <2>3
  <1> QED
    BY <1>2, <1>3

\* n, but no more than m.
AtMost(n, m) == IF n < m THEN n ELSE m

\* The pages up to an offset and the page at the offset are the pages up to the next.
LEMMA PagesJoin ==
  ASSUME NEW V, NEW s \in Seq(V), NEW limit \in Nat, NEW offset \in Nat
  PROVE  SubSeq(s, 1, AtMost(offset, Len(s))) \o SubSeq(s, offset + 1, AtMost(offset + limit, Len(s)))
           = SubSeq(s, 1, AtMost(offset + limit, Len(s)))
  <1> DEFINE last == AtMost(offset + limit, Len(s))
  <1>1. CASE offset < Len(s)
    <2>1. AtMost(offset, Len(s)) = offset /\ last \in Nat /\ offset <= last /\ last <= Len(s)
      BY <1>1 DEF AtMost
    <2> HIDE DEF last
    <2>2. SubSeq(s, 1, offset) \o SubSeq(s, offset + 1, last) = SubSeq(s, 1, last)
      BY <1>1, <2>1
    <2> QED
      BY <2>1, <2>2 DEF last
  <1>2. CASE ~(offset < Len(s))
    <2>1. AtMost(offset, Len(s)) = Len(s) /\ last = Len(s)
      BY <1>2 DEF AtMost
    <2>2. SubSeq(s, offset + 1, Len(s)) = <<>> /\ SubSeq(s, 1, Len(s)) = s
      BY <1>2
    <2>3. s \o <<>> = s
      OBVIOUS
    <2> HIDE DEF last
    <2> QED
      BY <2>1, <2>2, <2>3 DEF last
  <1> QED
    BY <1>1, <1>2

\* A function on 1..n is a sequence of length n.
LEMMA FunctionsAreSequences ==
  ASSUME NEW V, NEW n \in Nat, NEW w, w = [i \in 1..n |-> w[i]], \A i \in 1..n : w[i] \in V
  PROVE  w \in Seq(V) /\ Len(w) = n
  <1>1. w \in [1..n -> V] /\ DOMAIN w = 1..n
    OBVIOUS
  <1>2. w \in Seq(V)
    BY <1>1
  <1> QED
    BY <1>1, <1>2

\* A page of a list of jobs that all fit is the same part of what they read as.
LEMMA PageReads ==
  ASSUME NEW users, NEW s \in Seq(JobDocuments(users)), \A i \in DOMAIN s : s[i].valid,
         NEW limit \in Nat, limit # 0, NEW offset \in Nat
  PROVE  ListAnswer(Page(s, limit, offset)).data
           = SubSeq(Mapped(getJobWithNormalizedId, s), offset + 1, AtMost(offset + limit, Len(s)))
  <1> DEFINE last == AtMost(offset + limit, Len(s))
             page == SubSeq(s, offset + 1, last)
             read == Mapped(getJobWithNormalizedId, s)
  <1>1. Page(s, limit, offset) = page
    BY PageIs DEF AtMost
  <1>2. /\ last \in Nat /\ last <= Len(s)
        /\ page = [i \in 1..(last - offset) |-> s[i + offset]]
        /\ \A i \in 1..(last - offset) : i + offset \in DOMAIN s
    BY DEF AtMost
  <1>3. read \in Seq(JobViews(users)) /\ DOMAIN read = DOMAIN s /\ Len(read) = Len(s)
        /\ \A i \in DOMAIN s : read[i] = getJobWithNormalizedId(s[i])
    <2>1. \A d \in JobDocuments(users) : getJobWithNormalizedId(d) \in JobViews(users)
      BY DEF JobDocuments, JobViews, getJobWithNormalizedId
    <2> QED
      BY <2>1 DEF Mapped
  <1> HIDE DEF last, page, read
  <1>4. \A i \in DOMAIN page : page[i].valid
    BY <1>2
  <1>5. ListAnswer(page).data = Mapped(getJobWithNormalizedId, page)
    BY <1>4 DEF ListAnswer, Answer
  <1>6. Mapped(getJobWithNormalizedId, page) = [i \in 1..(last - offset) |-> read[i + offset]]
    BY <1>2, <1>3 DEF Mapped
  <1>7. SubSeq(read, offset + 1, last) = [i \in 1..(last - offset) |-> read[i + offset]]
    BY <1>2, <1>3
  <1> QED
    BY <1>1, <1>5, <1>6, <1>7 DEF last, read

\* A call adds no more than one job.
LEMMA HandledLengthens ==
  ASSUME NEW users, NEW store \in UserStores(users), NEW v \in UserCalls(users)
  PROVE  Len(Handled(store, v).store.jobs) <= Len(store.jobs) + 1
  <1> DEFINE J == JobDocuments(users)
  <1>b. store.jobs \in Seq(J)
    BY DEF UserStores
  <1> DEFINE IsShort(done) == Len(done.store.jobs) <= Len(store.jobs) + 1
  <1>0. Len(store.jobs) \in Nat
    BY <1>b
  <1>1. v.op \in Operations
    BY DEF UserCalls
  <1>2. \A x : IsShort(Done(store, x))
    BY <1>0 DEF Done
  <1>3. \A y, x : IsShort(Done([store EXCEPT !.conversations = y], x))
    <2> SUFFICES ASSUME NEW y, NEW x PROVE IsShort(Done([store EXCEPT !.conversations = y], x))
      OBVIOUS
    <2> DEFINE e == [store EXCEPT !.conversations = y]
    <2>1. e.jobs = store.jobs
      BY DEF UserStores
    <2> HIDE DEF e
    <2>2. IsShort(Done(e, x))
      BY <1>0, <2>1, DoneFields
    <2> QED
      BY <2>2 DEF e
  <1>4. \A y \in Seq(J) : \A x : Len(y) <= Len(store.jobs) => IsShort(Done([store EXCEPT !.jobs = y], x))
    BY <1>b, <1>0 DEF Done, UserStores
  <1>5. \A d \in J : \A x : IsShort(Done(Inserted(store, "jobs", d), x))
    <2> SUFFICES ASSUME NEW d \in J, NEW x PROVE IsShort(Done(Inserted(store, "jobs", d), x))
      OBVIOUS
    <2>1. LET e == Inserted(store, "jobs", d) IN
          /\ e.jobs = Append(store.jobs, d) /\ e.conversations = store.conversations
          /\ e.made = [store.made EXCEPT ![d.userId] = @ + 1]
      BY InsertedJob DEF J
    <2>2. Len(Append(store.jobs, d)) = Len(store.jobs) + 1
      BY <1>b
    <2> QED
      BY <1>0, <2>1, <2>2, DoneFields
  <1>6. \A d \in Conversations(users) : \A x : IsShort(Done(Inserted(store, "conversations", d), x))
    <2> SUFFICES ASSUME NEW d \in Conversations(users), NEW x
                 PROVE  IsShort(Done(Inserted(store, "conversations", d), x))
      OBVIOUS
    <2>1. LET e == Inserted(store, "conversations", d) IN
          /\ e.conversations = Append(store.conversations, d) /\ e.jobs = store.jobs
          /\ e.made = [store.made EXCEPT ![d.userId] = @ + 1]
      BY InsertedConversation
    <2> QED
      BY <1>0, <2>1, DoneFields
  <1> HIDE DEF IsShort, J
  <1>7. IsShort(listConversations(store, v)) /\ IsShort(getConversation(store, v)) /\ IsShort(getJob(store, v))
        /\ IsShort(getAllJobs(store, v))
    BY <1>2 DEF listConversations, getConversation, getJob, getAllJobs
  <1>8. IsShort(createConversation(store, v)) /\ IsShort(createJob(store, v)) /\ IsShort(legacyJob(store, v))
    <2>1. /\ TRUE \in BOOLEAN /\ FALSE \in BOOLEAN
          /\ NewConversation(store, v) \in Conversations(users)
          /\ \A valid \in BOOLEAN : newJob(store, v.user, valid) \in J
      BY NewAreTyped DEF J
    <2> QED
      BY <1>5, <1>6, <2>1 DEF createConversation, createJob, legacyJob, NewConversation
  <1>9. IsShort(appendTurn(store, v)) /\ IsShort(deleteConversation(store, v))
    BY <1>2, <1>3 DEF appendTurn, deleteConversation
  <1>10. IsShort(updateJob(store, v))
    <2> DEFINE set == Image(store.jobs, Updated(J, v))
    <2>1. /\ set \in Seq(J)
          /\ updateJob(store, v) = Done([store EXCEPT !.jobs = set], JobRead(FirstIn(set, Asked(J, v))))
      BY WritesAre DEF J
    <2>2. Len(set) <= Len(store.jobs)
      BY <1>b, <1>0 DEF Image
    <2> HIDE DEF set
    <2> QED
      BY <1>4, <2>1, <2>2
  <1>11. IsShort(deleteJob(store, v))
    <2> DEFINE fewer == Sub(store.jobs, J \ Asked(J, v))
    <2>1. deleteJob(store, v) = IF ~HasIn(store.jobs, Asked(J, v)) THEN Done(store, Miss)
                                ELSE Done([store EXCEPT !.jobs = fewer], Answer(<<idOf(v)>>))
      BY DeletesAre DEF J
    <2>2. fewer \in Seq(J) /\ Len(fewer) <= Len(store.jobs)
      BY <1>b, SubTyped, SubShorter
    <2> HIDE DEF fewer
    <2> QED
      BY <1>2, <1>4, <2>1, <2>2
  <1>12. IsShort(Handled(store, v))
    BY <1>1, <1>7, <1>8, <1>9, <1>10, <1>11 DEF Handled, Operations
  <1> QED
    BY <1>12 DEF IsShort

\* There are no more jobs than calls.
LEMMA JobsOfCalls ==
  ASSUME NEW users, NEW s \in Seq(UserCalls(users))
  PROVE  Len(Replayed(users, s).store.jobs) <= Len(s)
  <1> DEFINE P == {u \in Seq(UserCalls(users)) : Len(Replayed(users, u).store.jobs) <= Len(u)}
  <1>1. <<>> \in P
    <2>1. Replayed(users, <<>>).store.jobs = <<>>
      BY ReplayedEmpty DEF FirstRun, EmptyStore
    <2>2. Len(<<>>) <= Len(<<>>) /\ <<>> \in Seq(UserCalls(users))
      OBVIOUS
    <2> QED
      BY <2>1, <2>2
  <1>2. ASSUME NEW u \in Seq(UserCalls(users)), NEW v \in UserCalls(users), u \in P
        PROVE  Append(u, v) \in P
    <2> DEFINE store == Replayed(users, u).store
               J == JobDocuments(users)
    <2>0. store \in UserStores(users)
      BY ReplayedTyped DEF UserRuns
    <2>1. store.jobs \in Seq(J)
      BY <2>0 DEF UserStores
    <2>2. Replayed(users, Append(u, v)).store = Handled(store, v).store
      <3> DEFINE before == Replayed(users, u)
      <3>1. Replayed(users, Append(u, v)) = NextRun(before, v)
        BY ReplayedAppend
      <3> HIDE DEF before
      <3>2. NextRun(before, v).store = Handled(before.store, v).store
        BY DEF NextRun
      <3> QED
        BY <3>1, <3>2 DEF before
    <2>3. Len(store.jobs) <= Len(u) /\ Append(u, v) \in Seq(UserCalls(users)) /\ Len(Append(u, v)) = Len(u) + 1
      BY <1>2
    <2> HIDE DEF store
    <2>4. Len(Handled(store, v).store.jobs) <= Len(store.jobs) + 1
      BY <2>0, HandledLengthens
    <2>5. Handled(store, v).store.jobs \in Seq(J)
      BY <2>0, HandledTyped DEF IsDone, UserStores
    <2>6. Len(Replayed(users, Append(u, v)).store.jobs) <= Len(Append(u, v))
      BY <2>1, <2>2, <2>3, <2>4, <2>5
    <2> QED
      BY <2>3, <2>6
  <1> HIDE DEF P
  <1>3. s \in P
    BY <1>1, <1>2, AppendInduction
  <1> QED
    BY <1>3 DEF P

\* What the places of the pages need of products.
LEMMA Multiples ==
  ASSUME NEW x \in Nat, NEW y \in Nat, y # 0
  PROVE  x * y \in Nat /\ x <= x * y /\ (x + 1) * y = x * y + y
  <1>1. x * y \in Nat
    OBVIOUS
  <1>2. x * y = x * (y - 1) + x /\ x * (y - 1) \in Nat
    <2>1. y - 1 \in Nat
      OBVIOUS
    <2>2. x * (y - 1) \in Nat
      BY <2>1
    <2> QED
      BY <2>2, Z3
  <1>3. (x + 1) * y = x * y + y
    OBVIOUS
  <1> QED
    BY <1>1, <1>2, <1>3

\* Whatever the page size, the pages of a user's jobs are the list: none is lost or shown twice
\* between two pages (getAllByUserId's skip and limit over one order).
THEOREM PagesComplete ==
  ASSUME NEW users, NEW s \in Seq(UserCalls(users)), NEW limits \in SUBSET (Nat \ {0})
  PROVE  PagesAreTheList(users, s, limits)
  <1> DEFINE store == Replayed(users, s).store
             J == JobDocuments(users)
             n == Len(s) + 1
  <1> SUFFICES ASSUME NEW user \in users, NEW limit \in limits, getAllByUserId(store, user, 0, 0).status = "ok"
               PROVE  FlattenSeq([i \in 1..n |-> getAllByUserId(store, user, limit, (i - 1) * limit).data])
                        = getAllByUserId(store, user, 0, 0).data
    BY DEF PagesAreTheList
  <1> DEFINE own == Sub(store.jobs, OwnOf(J, user))
             read == Mapped(getJobWithNormalizedId, own)
             offset(i) == (i - 1) * limit
             w == [i \in 1..n |-> getAllByUserId(store, user, limit, offset(i)).data]
  <1>1. store \in UserStores(users) /\ store.jobs \in Seq(J)
    BY ReplayedTyped DEF UserRuns, UserStores
  <1>2. own \in Seq(J) /\ Len(own) <= Len(store.jobs) /\ Len(store.jobs) <= Len(s)
    BY <1>1, SubTyped, SubShorter, JobsOfCalls
  <1>3. getAllByUserId(store, user, 0, 0) = ListAnswer(own)
    BY <1>1, ListIs
  <1>4. \A x, y \in Nat : getAllByUserId(store, user, x, y) = ListAnswer(Page(own, x, y))
    <2>1. {i \in DOMAIN store.jobs : store.jobs[i].userId = user}
            = {i \in DOMAIN store.jobs : store.jobs[i] \in OwnOf(J, user)}
      BY <1>1, OwnPlaces
    <2>2. Where(store.jobs, LAMBDA d : d.userId = user) = own
      BY <2>1 DEF Where, Sub
    <2> HIDE DEF own, store, J
    <2> QED
      BY <2>2 DEF getAllByUserId, ListAnswer
  <1> HIDE DEF own, store
  <1>5. \A i \in DOMAIN own : own[i].valid
    <2>1. ListAnswer(own).status = "ok"
      BY <1>3
    <2> QED
      BY <2>1 DEF ListAnswer, Broken
  <1>6. ListAnswer(own).data = read
    BY <1>5 DEF ListAnswer, Answer
  <1>7. read \in Seq(JobViews(users)) /\ Len(read) = Len(own)
    <2>1. \A d \in J : getJobWithNormalizedId(d) \in JobViews(users)
      BY DEF JobDocuments, JobViews, getJobWithNormalizedId
    <2> HIDE DEF J
    <2> QED
      BY <1>2, <2>1 DEF Mapped
  <1>8. /\ limit \in Nat /\ limit # 0 /\ n \in Nat /\ n # 0 /\ n - 1 = Len(s)
        /\ offset(1) = 0
        /\ \A i \in 1..n : offset(i) \in Nat /\ offset(i + 1) = offset(i) + limit /\ offset(i + 1) \in Nat
        /\ Len(s) < offset(n + 1)
    <2>0. Len(s) \in Nat
      OBVIOUS
    <2> HIDE DEF J
    <2>1. limit \in Nat /\ limit # 0
      OBVIOUS
    <2>2. n \in Nat /\ n # 0 /\ n - 1 = Len(s) /\ 1 - 1 = 0 /\ (n + 1) - 1 = n
      BY <2>0
    <2>3. ASSUME NEW i \in 1..n
          PROVE  offset(i) \in Nat /\ offset(i + 1) = offset(i) + limit /\ offset(i + 1) \in Nat
      <3>1. i - 1 \in Nat /\ (i + 1) - 1 = (i - 1) + 1
        BY <2>2
      <3>2. (i - 1) * limit \in Nat /\ ((i - 1) + 1) * limit = (i - 1) * limit + limit
        BY <2>1, <3>1, Multiples
      <3>3. offset(i + 1) = ((i - 1) + 1) * limit
        BY <3>1
      <3> QED
        BY <2>1, <3>2, <3>3
    <2>4. offset(1) = 0
      BY <2>1
    <2>5. n <= n * limit /\ n * limit \in Nat
      BY <2>1, <2>2, Multiples
    <2>6. offset(n + 1) = n * limit
      BY <2>2
    <2> QED
      BY <2>0, <2>1, <2>2, <2>3, <2>4, <2>5, <2>6
  <1> HIDE DEF read, offset
  <1>9. \A i \in 1..n : w[i] = SubSeq(read, offset(i) + 1, AtMost(offset(i + 1), Len(read)))
    <2> SUFFICES ASSUME NEW i \in 1..n
                 PROVE  w[i] = SubSeq(read, offset(i) + 1, AtMost(offset(i + 1), Len(read)))
      OBVIOUS
    <2>1. w[i] = ListAnswer(Page(own, limit, offset(i))).data
      BY <1>4, <1>8
    <2>2. ListAnswer(Page(own, limit, offset(i))).data
            = SubSeq(read, offset(i) + 1, AtMost(offset(i) + limit, Len(own)))
      BY <1>2, <1>5, <1>8, PageReads DEF read
    <2> QED
      BY <1>7, <1>8, <2>1, <2>2
  <1>10. w \in Seq(Seq(JobViews(users))) /\ Len(w) = n
    <2>1. \A i \in 1..n : SubSeq(read, offset(i) + 1, AtMost(offset(i + 1), Len(read))) \in Seq(JobViews(users))
      <3> SUFFICES ASSUME NEW i \in 1..n
                   PROVE  SubSeq(read, offset(i) + 1, AtMost(offset(i + 1), Len(read))) \in Seq(JobViews(users))
        OBVIOUS
      <3>1. AtMost(offset(i + 1), Len(read)) \in Nat /\ AtMost(offset(i + 1), Len(read)) <= Len(read)
            /\ offset(i) \in Nat
        BY <1>7, <1>8 DEF AtMost
      <3> QED
        BY <1>7, <3>1
    <2>2. \A i \in 1..n : w[i] \in Seq(JobViews(users))
      BY <1>9, <2>1
    <2>3. w = [i \in 1..n |-> w[i]]
      OBVIOUS
    <2> DEFINE V == Seq(JobViews(users))
    <2>4. n \in Nat
      BY <1>8
    <2> HIDE DEF w, n, V
    <2>a. \A i \in 1..n : w[i] \in V
      BY <2>2 DEF V
    <2>5. w \in Seq(V) /\ Len(w) = n
      BY <2>a, <2>3, <2>4, FunctionsAreSequences
    <2> QED
      BY <2>5 DEF V
  <1> HIDE DEF w, n
  <1>11. PICK g : Flattens(g, w)
    BY <1>8, <1>10, FlattenSolves DEF IsFlattened
  <1>12. /\ g[0] = <<>> /\ FlattenSeq(w) = g[n]
         /\ \A k \in 1..n : g[k] = g[k - 1] \o w[k]
    BY <1>10, <1>11 DEF Flattens
  <1> DEFINE P == {k \in 0..n : g[k] = SubSeq(read, 1, AtMost(offset(k + 1), Len(read)))}
  <1>13. 0 \in P
    <2>1. AtMost(0, Len(read)) = 0 /\ 0 + 1 = 1 /\ 0 \in 0..n
      BY <1>7, <1>8 DEF AtMost
    <2>2. SubSeq(read, 1, 0) = <<>>
      BY <1>7
    <2> QED
      BY <1>8, <1>12, <2>1, <2>2
  <1>14. ASSUME NEW j \in 0..n, NEW k \in 0..n, k = j + 1, j \in P
         PROVE  k \in P
    <2>1. k \in 1..n /\ k - 1 = j
      BY <1>8, <1>14
    <2>2. g[j] = SubSeq(read, 1, AtMost(offset(k), Len(read)))
      BY <1>14
    <2>3. g[k] = g[j] \o w[k] /\ offset(k) \in Nat /\ offset(k + 1) = offset(k) + limit
      BY <1>8, <1>12, <2>1
    <2>4. SubSeq(read, 1, AtMost(offset(k), Len(read))) \o SubSeq(read, offset(k) + 1, AtMost(offset(k) + limit, Len(read)))
            = SubSeq(read, 1, AtMost(offset(k) + limit, Len(read)))
      BY <1>7, <1>8, <2>3, PagesJoin
    <2>5. w[k] = SubSeq(read, offset(k) + 1, AtMost(offset(k) + limit, Len(read)))
      BY <1>9, <2>1, <2>3
    <2> QED
      BY <2>2, <2>3, <2>4, <2>5
  <1> HIDE DEF P
  <1>15. n \in P
    BY <1>8, <1>13, <1>14, UpTo
  <1>16. AtMost(offset(n + 1), Len(read)) = Len(read)
    <2>1. offset(n + 1) \in Nat /\ Len(s) \in Nat /\ n \in 1..n
      BY <1>8
    <2> QED
      BY <1>2, <1>7, <1>8, <2>1 DEF AtMost
  <1>17. FlattenSeq(w) = SubSeq(read, 1, Len(read))
    BY <1>12, <1>15, <1>16 DEF P
  <1>18. SubSeq(read, 1, Len(read)) = read
    BY <1>7
  <1> QED
    BY <1>3, <1>6, <1>17, <1>18 DEF w, offset, n

-----------------------------------------------------------------------------
\* Accounts

\* CallSet of the handlers of accounts; a wait is of no browser.
AccountCallsOf(browsers, emails, passwords) ==
  [browser : browsers, op : {"register", "login"}, email : emails, password : passwords]
  \cup [browser : browsers, op : {"logout", "refresh"}, email : {None}, password : {None}]
  \cup [browser : {None}, op : {"wait"}, email : {None}, password : {None}]

\* The attributes of the refresh cookie of one domain.
IsOfDomain(c, domain) == c.domain = (IF domain = "localhost" THEN None ELSE domain) /\ c.path = "/"

CookiesOf(emails, domain) ==
  {c \in [domain : {None, domain}, path : {"/"}, token : AccountTokens(emails), until : Nat] : IsOfDomain(c, domain)}

AreOfDomain(jar, domain) == \A c \in jar : IsOfDomain(c, domain)

TokenOf(id, email, until) == [claims |-> [id |-> id, email |-> email], until |-> until]

CookieOf(domain, issued, until) ==
  [domain |-> IF domain = "localhost" THEN None ELSE domain, path |-> "/", token |-> issued, until |-> until]

TokensOf(user, now) == createTokens([id |-> user.id, email |-> user.email], now)

\* A store, and the facts about its users that registrations keep.
AccountStores(browsers, emails, passwords, domain) ==
  [users : Seq(AccountUsers(emails, passwords)), jar : [browsers -> SUBSET CookiesOf(emails, domain)], now : Nat]

UsersAreDistinct(st) ==
  /\ \A i \in DOMAIN st.users : st.users[i].id = i
  /\ \A i, j \in DOMAIN st.users : st.users[i].email = st.users[j].email => i = j

\* The cookie of a session of user k, until it ends.
SessionCookie(domain, k, email, until) == CookieOf(domain, TokenOf(k, email, until), until)

\* What a registration or a login does that is accepted.
Begin(st, after, call, domain) ==
  /\ after.now = st.now
  /\ \E k \in DOMAIN after.users :
       /\ after.users[k].email = call.email
       /\ after.jar = [st.jar EXCEPT ![call.browser] = {SessionCookie(domain, k, call.email, st.now + RefreshLife)}]
  /\ \A i \in DOMAIN st.users : i \in DOMAIN after.users /\ after.users[i] = st.users[i]

\* What a logout does: it leaves the browser no cookie to send.
Leave(st, after, call) ==
  /\ after.now = st.now /\ after.users = st.users
  /\ SentCookies(after.jar[call.browser], st.now) = {}
  /\ \A b \in DOMAIN st.jar : b # call.browser => after.jar[b] = st.jar[b]

LEMMA SetCookieIs ==
  ASSUME NEW domain, NEW jar, AreOfDomain(jar, domain), NEW maxAge, NEW issued, NEW now
  PROVE  /\ setCookie(jar, getRefreshCookieOptions(domain, maxAge), issued, now)
              = {CookieOf(domain, issued, now + maxAge)}
         /\ clearCookie(jar, getRefreshCookieOptions(domain, maxAge)) = {}
  <1> DEFINE name == IF domain = "localhost" THEN None ELSE domain
             options == [domain |-> name, path |-> "/", maxAge |-> maxAge]
  <1>1. getRefreshCookieOptions(domain, maxAge) = options
    BY DEF getRefreshCookieOptions
  <1>2. options.domain = name /\ options.path = "/" /\ options.maxAge = maxAge
    OBVIOUS
  <1>3. \A c \in jar : c.domain = name /\ c.path = "/"
    BY DEF AreOfDomain, IsOfDomain
  <1> HIDE DEF name, options
  <1>4. {c \in jar : ~Same(c, options)} = {}
    BY <1>2, <1>3 DEF Same
  <1>5. clearCookie(jar, options) = {}
    BY <1>4 DEF clearCookie
  <1>6. setCookie(jar, options, issued, now)
          = {[domain |-> name, path |-> "/", token |-> issued, until |-> now + maxAge]}
    BY <1>2, <1>4 DEF setCookie
  <1> QED
    BY <1>1, <1>5, <1>6 DEF name, CookieOf

LEMMA TokensAre ==
  ASSUME NEW user, NEW now
  PROVE  /\ TokensOf(user, now).accessToken = TokenOf(user.id, user.email, now + AccessLife)
         /\ TokensOf(user, now).refreshToken = TokenOf(user.id, user.email, now + RefreshLife)
  <1> DEFINE claims == [id |-> user.id, email |-> user.email]
  <1>1. "exp" \notin DOMAIN claims
    OBVIOUS
  <1> HIDE DEF claims
  <1>2. \A life : signToken(claims, now, life) = [claims |-> claims, until |-> now + life]
    BY <1>1 DEF signToken
  <1>3. /\ createTokens(claims, now).accessToken = [claims |-> claims, until |-> now + AccessLife]
        /\ createTokens(claims, now).refreshToken = [claims |-> claims, until |-> now + RefreshLife]
    BY <1>2 DEF createTokens
  <1> QED
    BY <1>3 DEF TokensOf, TokenOf, claims

\* What is answered at the end of a registration and a login: the session cookie replaces the browser's.
SignsIn(done, st, call, user, domain) ==
  /\ done.status = "ok"
  /\ done.store = [st EXCEPT !.jar = [st.jar EXCEPT ![call.browser] =
       {SessionCookie(domain, user.id, user.email, st.now + RefreshLife)}]]

\* The end of a registration and a login.
LEMMA SignedInIs ==
  ASSUME NEW browsers, NEW emails, NEW passwords, NEW domain,
         NEW st \in AccountStores(browsers, emails, passwords, domain),
         NEW call, call.browser \in browsers, NEW user
  PROVE  SignsIn(SignedIn(st, call, user, domain), st, call, user, domain)
  <1> DEFINE issued == TokensOf(user, st.now).refreshToken
             options == getRefreshCookieOptions(domain, RefreshLife)
             b == call.browser
             new == setCookie(st.jar[b], options, issued, st.now)
  <1>1. issued = TokenOf(user.id, user.email, st.now + RefreshLife)
    BY TokensAre
  <1>2. st.jar[b] \in SUBSET CookiesOf(emails, domain) /\ st.jar \in [browsers -> SUBSET CookiesOf(emails, domain)]
    BY DEF AccountStores
  <1>a. AreOfDomain(st.jar[b], domain)
    BY <1>2 DEF AreOfDomain, CookiesOf
  <1>4. SignedIn(st, call, user, domain).store = [st EXCEPT !.jar[b] = new]
    BY DEF SignedIn, Responded, TokensOf
  <1>5. SignedIn(st, call, user, domain).status = "ok"
    BY DEF SignedIn, Responded
  <1> HIDE DEF issued
  <1>3. new = {SessionCookie(domain, user.id, user.email, st.now + RefreshLife)}
    <2>1. new = {CookieOf(domain, issued, st.now + RefreshLife)}
      BY <1>a, SetCookieIs
    <2> QED
      BY <1>1, <2>1 DEF SessionCookie
  <1> HIDE DEF new, options
  <1>6. [st EXCEPT !.jar[b] = new] = [st EXCEPT !.jar = [st.jar EXCEPT ![b] = new]]
    BY <1>2 DEF AccountStores
  <1> QED
    BY <1>3, <1>4, <1>5, <1>6 DEF SignsIn

\* What verify() returns of a token that has not expired, and what the schema keeps of it.
LEMMA VerifiedIs ==
  ASSUME NEW emails, NEW issued \in AccountTokens(emails), NEW now \in Nat, now < issued.until,
         None \notin AccountClaims(emails)
  PROVE  /\ verify(issued, now) # None
         /\ jwtPayloadSchema(verify(issued, now)) = [id |-> issued.claims.id, email |-> issued.claims.email]
  <1> DEFINE claims == issued.claims
             decoded == [x \in {"id", "email"} \cup {"exp"} |-> IF x = "exp" THEN issued.until ELSE claims[x]]
  <1>1. /\ issued.until \in Nat /\ DOMAIN claims = {"id", "email"}
        /\ claims["id"] \in Nat /\ claims["email"] \in emails
    BY DEF AccountTokens
  <1>2. verify(issued, now) = decoded
    BY <1>1 DEF verify
  <1>3. decoded \in AccountClaims(emails) /\ decoded["id"] = claims["id"] /\ decoded["email"] = claims["email"]
    <2> HIDE DEF claims
    <2> QED
      BY <1>1 DEF AccountClaims
  <1> HIDE DEF decoded
  <1>4. jwtPayloadSchema(decoded) = [id |-> claims.id, email |-> claims.email]
    BY <1>3 DEF jwtPayloadSchema
  <1> QED
    BY <1>2, <1>3, <1>4 DEF claims

Refusal(st) == Responded(st, "TokenException", None)

\* What a refresh answers: the claims of the cookie that is sent, while its token lives.
Renews(st, call) ==
  LET sent == SentCookies(st.jar[call.browser], st.now)
      answer == renewAccessToken(st, call) IN
  \/ sent = {} /\ answer = Refusal(st)
  \/ \E c \in sent :
       \/ st.now >= c.token.until /\ answer = Refusal(st)
       \/ /\ st.now < c.token.until
          /\ answer = Responded(st, "ok", TokenOf(c.token.claims.id, c.token.claims.email, st.now + AccessLife))

LEMMA RenewIs ==
  ASSUME NEW browsers, NEW emails, NEW passwords, NEW domain,
         NEW st \in AccountStores(browsers, emails, passwords, domain),
         NEW call, call.browser \in browsers, NoneIsDistinct(emails, passwords)
  PROVE  Renews(st, call)
  <1> DEFINE sent == SentCookies(st.jar[call.browser], st.now)
             c == CHOOSE x \in sent : TRUE
             decoded == verify(c.token, st.now)
             user == jwtPayloadSchema(decoded)
             issued == createTokens(user, st.now).accessToken
             answer == renewAccessToken(st, call)
  <1>1. st.now \in Nat /\ sent \subseteq CookiesOf(emails, domain)
    BY DEF AccountStores, SentCookies
  <1>2. answer = IF sent = {} THEN Refusal(st)
                 ELSE IF decoded = None THEN Refusal(st)
                 ELSE IF issued = None THEN Responded(st, "InternalException", None)
                 ELSE Responded(st, "ok", issued)
    BY DEF renewAccessToken, HasCookie, Refusal
  <1>3. CASE sent = {}
    BY <1>2, <1>3 DEF Renews
  <1>4. CASE sent # {}
    <2>1. c \in sent
      BY <1>4
    <2>2. c.token \in AccountTokens(emails) /\ c.token.until \in Nat
      BY <1>1, <2>1 DEF CookiesOf, AccountTokens
    <2> HIDE DEF sent, c, answer
    <2>3. CASE st.now >= c.token.until
      <3>1. decoded = None
        BY <2>3 DEF verify
      <3> QED
        BY <1>2, <1>4, <2>1, <2>3, <3>1 DEF sent, answer, Renews
    <2>4. CASE ~(st.now >= c.token.until)
      <3>1. st.now < c.token.until
        BY <1>1, <2>2, <2>4
      <3>2. decoded # None /\ user = [id |-> c.token.claims.id, email |-> c.token.claims.email]
        BY <1>1, <2>2, <3>1, VerifiedIs DEF NoneIsDistinct
      <3> DEFINE claims == c.token.claims
                 fresh == TokenOf(claims.id, claims.email, st.now + AccessLife)
      <3>3. issued = fresh
        <4>1. TokensOf(claims, st.now).accessToken = fresh
          BY TokensAre
        <4>2. createTokens([id |-> claims.id, email |-> claims.email], st.now).accessToken = fresh
          BY <4>1 DEF TokensOf
        <4> HIDE DEF user, fresh
        <4> QED
          BY <3>2, <4>2
      <3>4. fresh \in AccountTokens(emails)
        <4>1. st.now + AccessLife \in Nat
          BY <1>1, LivesAreNumbers
        <4> QED
          BY <2>2, <4>1 DEF AccountTokens, TokenOf
      <3>5. issued # None
        BY <3>3, <3>4 DEF NoneIsDistinct
      <3> HIDE DEF decoded, issued
      <3>6. answer = Responded(st, "ok", fresh)
        BY <1>2, <1>4, <3>2, <3>3, <3>5
      <3> QED
        BY <2>1, <3>1, <3>6 DEF sent, answer, Renews
    <2> QED
      BY <2>3, <2>4
  <1> QED
    BY <1>3, <1>4

-----------------------------------------------------------------------------
\* What a step does

\* The store of accounts between calls.
AreAccounts(browsers, emails, passwords, domain, st) ==
  st \in AccountStores(browsers, emails, passwords, domain) /\ UsersAreDistinct(st)

Taken(st, email) == \E i \in DOMAIN st.users : st.users[i].email = email

LEMMA EmailIsFree ==
  ASSUME NEW st, NEW email, ~Taken(st, email)
  PROVE  getByEmail(st, email) = None
  BY DEF Taken, getByEmail, FirstOf

LEMMA EmailIsTaken ==
  ASSUME NEW users, NEW st, st.users \in Seq(users), NEW email, Taken(st, email)
  PROVE  \E k \in DOMAIN st.users : getByEmail(st, email) = st.users[k] /\ st.users[k].email = email
  <1> DEFINE found == {i \in DOMAIN st.users : st.users[i].email = email}
  <1>1. found \in SUBSET Nat /\ found # {}
    BY DEF Taken
  <1>2. Min(found) \in found
    BY <1>1, MinIn
  <1>3. getByEmail(st, email) = st.users[Min(found)]
    BY <1>1 DEF getByEmail, FirstOf
  <1> QED
    BY <1>2, <1>3

-----------------------------------------------------------------------------
\* The end of a registration or a login of user k keeps the store, and begins the session.
LEMMA SignedInBegins ==
  ASSUME NEW browsers, NEW emails, NEW passwords, NEW domain, NEW st,
         AreAccounts(browsers, emails, passwords, domain, st),
         NEW call, call.browser \in browsers, NEW k \in DOMAIN st.users, st.users[k].email = call.email
  PROVE  LET done == SignedIn(st, call, st.users[k], domain) IN
         /\ done.status = "ok" /\ AreAccounts(browsers, emails, passwords, domain, done.store)
         /\ Begin(st, done.store, call, domain)
  <1> DEFINE done == SignedIn(st, call, st.users[k], domain)
             held == SessionCookie(domain, k, call.email, st.now + RefreshLife)
             jar == [st.jar EXCEPT ![call.browser] = {held}]
  <1>1. /\ st \in AccountStores(browsers, emails, passwords, domain) /\ st.users[k].id = k
        /\ st.users \in Seq(AccountUsers(emails, passwords)) /\ st.now \in Nat
        /\ st.jar \in [browsers -> SUBSET CookiesOf(emails, domain)]
    BY DEF AreAccounts, UsersAreDistinct, AccountStores
  <1>2. done.status = "ok" /\ done.store = [st EXCEPT !.jar = jar]
    <2> DEFINE user == st.users[k]
    <2>1. user.id = k /\ user.email = call.email
      BY <1>1
    <2> HIDE DEF user
    <2>2. LET signed == SignedIn(st, call, user, domain) IN
          /\ signed.status = "ok"
          /\ signed.store = [st EXCEPT !.jar = [st.jar EXCEPT ![call.browser] =
               {SessionCookie(domain, user.id, user.email, st.now + RefreshLife)}]]
      <3>1. SignsIn(SignedIn(st, call, user, domain), st, call, user, domain)
        BY <1>1, SignedInIs
      <3> QED
        BY <3>1 DEF SignsIn
    <2>3. LET signed == SignedIn(st, call, user, domain) IN signed.status = "ok" /\ signed.store = [st EXCEPT !.jar = jar]
      BY <2>1, <2>2
    <2> QED
      BY <2>3 DEF user
  <1>3. held \in CookiesOf(emails, domain)
    <2>a. st.users[k] \in AccountUsers(emails, passwords) /\ k \in Nat
      BY <1>1
    <2>1. k \in Nat /\ call.email \in emails
      BY <2>a DEF AccountUsers
    <2>2. st.now + RefreshLife \in Nat
      BY <1>1, LivesAreNumbers
    <2>3. TokenOf(k, call.email, st.now + RefreshLife) \in AccountTokens(emails)
      BY <2>1, <2>2 DEF TokenOf, AccountTokens
    <2> QED
      BY <2>2, <2>3 DEF SessionCookie, CookieOf, CookiesOf, IsOfDomain
  <1> HIDE DEF held
  <1>4. jar \in [browsers -> SUBSET CookiesOf(emails, domain)]
    BY <1>1, <1>3
  <1>5. done.store = [users |-> st.users, jar |-> jar, now |-> st.now]
    BY <1>1, <1>2 DEF AccountStores
  <1> HIDE DEF jar, done
  <1>6. done.store.users = st.users /\ done.store.jar = jar /\ done.store.now = st.now
    BY <1>5
  <1>7. done.store \in AccountStores(browsers, emails, passwords, domain)
    BY <1>1, <1>4, <1>5 DEF AccountStores
  <1>8. UsersAreDistinct(done.store)
    BY <1>6 DEF UsersAreDistinct, AreAccounts
  <1>9. Begin(st, done.store, call, domain)
    BY <1>6 DEF Begin, jar, held
  <1> QED
    BY <1>2, <1>7, <1>8, <1>9 DEF AreAccounts, done

\* A registration or a login begins a session or changes nothing.
BeginsOrFails(st, done, call, domain) ==
  IF done.status = "ok" THEN Begin(st, done.store, call, domain) ELSE done.store = st

LEMMA LoginIs ==
  ASSUME NEW browsers, NEW emails, NEW passwords, NEW domain, NEW st,
         AreAccounts(browsers, emails, passwords, domain, st),
         NEW call, call.browser \in browsers, NoneIsDistinct(emails, passwords)
  PROVE  LET done == login(st, call, domain) IN
         /\ AreAccounts(browsers, emails, passwords, domain, done.store)
         /\ BeginsOrFails(st, done, call, domain)
         /\ done.status \in {"ok", "UnauthorizedException"}
  <1> DEFINE done == login(st, call, domain)
             user == getByEmail(st, call.email)
  <1>1. st.users \in Seq(AccountUsers(emails, passwords))
    BY DEF AreAccounts, AccountStores
  <1>2. done = IF user = None \/ user.password # call.password
               THEN Responded(st, "UnauthorizedException", None) ELSE SignedIn(st, call, user, domain)
    BY DEF login
  <1> HIDE DEF done
  <1>3. CASE user = None \/ user.password # call.password
    <2>1. done.status = "UnauthorizedException" /\ done.store = st
      BY <1>2, <1>3 DEF Responded
    <2> QED
      BY <2>1 DEF BeginsOrFails, done
  <1>4. CASE ~(user = None \/ user.password # call.password)
    <2>1. Taken(st, call.email)
      BY <1>4, EmailIsFree
    <2>2. PICK k \in DOMAIN st.users : user = st.users[k] /\ st.users[k].email = call.email
      BY <1>1, <2>1, EmailIsTaken
    <2>3. done = SignedIn(st, call, st.users[k], domain)
      BY <1>2, <1>4, <2>2
    <2>4. /\ done.status = "ok" /\ AreAccounts(browsers, emails, passwords, domain, done.store)
          /\ Begin(st, done.store, call, domain)
      BY <2>2, <2>3, SignedInBegins
    <2> QED
      BY <2>4 DEF BeginsOrFails, done
  <1> QED
    BY <1>3, <1>4

LEMMA RegisterIs ==
  ASSUME NEW browsers, NEW emails, NEW passwords, NEW domain, NEW st,
         AreAccounts(browsers, emails, passwords, domain, st),
         NEW call, call.browser \in browsers, call.email \in emails, call.password \in passwords,
         NoneIsDistinct(emails, passwords)
  PROVE  LET done == register(st, call, domain) IN
         /\ AreAccounts(browsers, emails, passwords, domain, done.store)
         /\ BeginsOrFails(st, done, call, domain)
         /\ done.status \in {"ok", "ConflictException"}
  <1> DEFINE done == register(st, call, domain)
             k == Len(st.users) + 1
             user == [id |-> k, email |-> call.email, password |-> call.password]
             users == Append(st.users, user)
             added == [st EXCEPT !.users = Append(@, user)]
  <1>1. /\ st \in AccountStores(browsers, emails, passwords, domain)
        /\ st.users \in Seq(AccountUsers(emails, passwords)) /\ UsersAreDistinct(st)
    BY DEF AreAccounts, AccountStores
  <1>2. done = IF getByEmail(st, call.email) # None THEN Responded(st, "ConflictException", None)
               ELSE SignedIn(added, call, user, domain)
    BY DEF register
  <1>3. added = [users |-> users, jar |-> st.jar, now |-> st.now]
    <2>1. added = [st EXCEPT !.users = users]
      OBVIOUS
    <2> HIDE DEF users, added
    <2> QED
      BY <1>1, <2>1 DEF AccountStores
  <1>a. user \in AccountUsers(emails, passwords) /\ user.id = k /\ user.email = call.email
    BY <1>1 DEF AccountUsers
  <1> HIDE DEF done, added, user
  <1>4. CASE getByEmail(st, call.email) # None
    <2>1. done.status = "ConflictException" /\ done.store = st
      BY <1>2, <1>4 DEF Responded
    <2> QED
      BY <2>1 DEF BeginsOrFails, done
  <1>5. CASE getByEmail(st, call.email) = None
    <2>1. ~Taken(st, call.email)
      <3>1. SUFFICES ASSUME Taken(st, call.email) PROVE FALSE
        OBVIOUS
      <3>2. PICK i \in DOMAIN st.users : getByEmail(st, call.email) = st.users[i]
        BY <1>1, <3>1, EmailIsTaken
      <3>3. st.users[i] \in AccountUsers(emails, passwords)
        BY <1>1
      <3> QED
        BY <1>5, <3>2, <3>3 DEF NoneIsDistinct
    <2>2. /\ users \in Seq(AccountUsers(emails, passwords)) /\ k \in DOMAIN users /\ users[k] = user
          /\ \A i \in DOMAIN st.users : i \in DOMAIN users /\ users[i] = st.users[i]
          /\ \A i \in DOMAIN users : i \in DOMAIN st.users \/ i = k
      BY <1>1, <1>a
    <2> HIDE DEF users, k
    <2>3. added.users = users /\ added.jar = st.jar /\ added.now = st.now
      BY <1>3
    <2>4. added \in AccountStores(browsers, emails, passwords, domain)
      BY <1>1, <1>3, <2>2 DEF AccountStores
    <2>5. UsersAreDistinct(added)
      <3>1. \A i \in DOMAIN users : users[i].id = i
        BY <1>1, <1>a, <2>2 DEF UsersAreDistinct
      <3>2. \A i, j \in DOMAIN users : users[i].email = users[j].email => i = j
        <4>1. \A i, j \in DOMAIN st.users : users[i].email = users[j].email => i = j
          BY <1>1, <2>2 DEF UsersAreDistinct
        <4>2. \A i \in DOMAIN st.users : users[i].email # users[k].email
          BY <1>a, <2>1, <2>2 DEF Taken
        <4> QED
          BY <2>2, <4>1, <4>2
      <3> QED
        BY <2>3, <3>1, <3>2 DEF UsersAreDistinct
    <2>6. done = SignedIn(added, call, added.users[k], domain)
      BY <1>2, <1>5, <2>2, <2>3
    <2>7. /\ done.status = "ok" /\ AreAccounts(browsers, emails, passwords, domain, done.store)
          /\ Begin(added, done.store, call, domain)
      BY <1>a, <2>2, <2>3, <2>4, <2>5, <2>6, SignedInBegins DEF AreAccounts
    <2>8. Begin(st, done.store, call, domain)
      BY <2>2, <2>3, <2>7 DEF Begin
    <2> QED
      BY <2>7, <2>8 DEF BeginsOrFails, done
  <1> QED
    BY <1>4, <1>5

LEMMA LogoutIs ==
  ASSUME NEW browsers, NEW emails, NEW passwords, NEW domain, NEW st,
         AreAccounts(browsers, emails, passwords, domain, st), NEW call, call.browser \in browsers
  PROVE  LET done == logout(st, call, domain) IN
         /\ AreAccounts(browsers, emails, passwords, domain, done.store)
         /\ Leave(st, done.store, call)
          /\ done.status \in {"ok", "TokenException"} /\ done.data = None
  <1> DEFINE done == logout(st, call, domain)
             b == call.browser
             cleared == clearCookie(st.jar[b], getRefreshCookieOptions(domain, 0))
             jar == [st.jar EXCEPT ![b] = {}]
  <1>1. /\ st \in AccountStores(browsers, emails, passwords, domain) /\ UsersAreDistinct(st)
        /\ st.jar \in [browsers -> SUBSET CookiesOf(emails, domain)] /\ st.jar[b] \in SUBSET CookiesOf(emails, domain)
    BY DEF AreAccounts, AccountStores
  <1>2. cleared = {}
    <2>1. AreOfDomain(st.jar[b], domain)
      BY <1>1 DEF AreOfDomain, CookiesOf
    <2> QED
      BY <2>1, SetCookieIs
  <1>3. done = IF ~HasCookie(st, call) THEN Refusal(st)
               ELSE Responded([st EXCEPT !.jar[b] = cleared], "ok", None)
    BY DEF logout, Refusal
  <1> HIDE DEF done, cleared
  <1>4. CASE ~HasCookie(st, call)
    <2>1. done.store = st /\ done.status = "TokenException" /\ done.data = None
      BY <1>3, <1>4 DEF Refusal, Responded
    <2>2. SentCookies(st.jar[b], st.now) = {}
      BY <1>4 DEF HasCookie
    <2> QED
      BY <1>1, <2>1, <2>2 DEF done, Leave
  <1>5. CASE HasCookie(st, call)
    <2>1. [st EXCEPT !.jar[b] = cleared] = [users |-> st.users, jar |-> jar, now |-> st.now]
      <3>1. [st EXCEPT !.jar[b] = cleared] = [st EXCEPT !.jar = [st.jar EXCEPT ![b] = cleared]]
        BY <1>1 DEF AccountStores
      <3>2. [st EXCEPT !.jar[b] = cleared] = [st EXCEPT !.jar = jar]
        BY <1>2, <3>1
      <3> HIDE DEF jar
      <3>3. [st EXCEPT !.jar = jar] = [users |-> st.users, jar |-> jar, now |-> st.now]
        BY <1>1 DEF AccountStores
      <3> QED
        BY <3>2, <3>3
    <2>2. jar \in [browsers -> SUBSET CookiesOf(emails, domain)] /\ jar[b] = {}
          /\ \A x \in browsers : x # b => jar[x] = st.jar[x]
      BY <1>1
    <2> HIDE DEF jar
    <2>3. /\ done.store = [users |-> st.users, jar |-> jar, now |-> st.now]
          /\ done.status = "ok" /\ done.data = None
      BY <1>3, <1>5, <2>1 DEF Responded
    <2>4. done.store.users = st.users /\ done.store.jar = jar /\ done.store.now = st.now
      BY <2>3
    <2>5. done.store \in AccountStores(browsers, emails, passwords, domain)
      BY <1>1, <2>2, <2>3 DEF AccountStores
    <2>6. UsersAreDistinct(done.store)
      BY <1>1, <2>4 DEF UsersAreDistinct
    <2>7. SentCookies(jar[b], st.now) = {}
      BY <2>2 DEF SentCookies
    <2>8. Leave(st, done.store, call)
      BY <1>1, <2>2, <2>4, <2>7 DEF Leave
    <2> QED
      BY <2>3, <2>5, <2>6, <2>8 DEF AreAccounts, done
  <1> QED
    BY <1>4, <1>5

\* What a step does, by its operation.
IsStep(st, done, call, domain) ==
  /\ call.op \in {"register", "login"} => BeginsOrFails(st, done, call, domain)
  /\ call.op = "logout" => Leave(st, done.store, call)
  /\ call.op = "refresh" => done.store = st
  /\ call.op = "wait" => /\ done.store.users = st.users /\ done.store.jar = st.jar
                         /\ done.store.now = st.now + 1

Statuses == {"ok", "ConflictException", "UnauthorizedException", "TokenException", "InternalException"}

LEMMA StepIs ==
  ASSUME NEW browsers, NEW emails, NEW passwords, NEW domain, NEW st,
         AreAccounts(browsers, emails, passwords, domain, st),
         NEW call \in AccountCallsOf(browsers, emails, passwords), NoneIsDistinct(emails, passwords)
  PROVE  LET done == AccountStep(st, call, domain) IN
         /\ AreAccounts(browsers, emails, passwords, domain, done.store)
         /\ IsStep(st, done, call, domain)
         /\ done.status \in Statuses
  <1> DEFINE done == AccountStep(st, call, domain)
  <1>0. st \in AccountStores(browsers, emails, passwords, domain)
    BY DEF AreAccounts
  <1>1. CASE call.op = "register"
    <2>1. done = register(st, call, domain)
      BY <1>1 DEF AccountStep
    <2>2. call.browser \in browsers /\ call.email \in emails /\ call.password \in passwords
      BY <1>1 DEF AccountCallsOf
    <2> HIDE DEF done
    <2>3. /\ AreAccounts(browsers, emails, passwords, domain, done.store) /\ BeginsOrFails(st, done, call, domain)
          /\ done.status \in {"ok", "ConflictException"}
      BY <2>1, <2>2, RegisterIs
    <2> QED
      BY <1>1, <2>3 DEF IsStep, Statuses, done
  <1>2. CASE call.op = "login"
    <2>1. done = login(st, call, domain)
      BY <1>2 DEF AccountStep
    <2>2. call.browser \in browsers
      BY <1>2 DEF AccountCallsOf
    <2> HIDE DEF done
    <2>3. /\ AreAccounts(browsers, emails, passwords, domain, done.store) /\ BeginsOrFails(st, done, call, domain)
          /\ done.status \in {"ok", "UnauthorizedException"}
      BY <2>1, <2>2, LoginIs
    <2> QED
      BY <1>2, <2>3 DEF IsStep, Statuses, done
  <1>3. CASE call.op = "logout"
    <2>1. done = logout(st, call, domain)
      BY <1>3 DEF AccountStep
    <2>2. call.browser \in browsers
      BY <1>3 DEF AccountCallsOf
    <2> HIDE DEF done
    <2>3. /\ AreAccounts(browsers, emails, passwords, domain, done.store) /\ Leave(st, done.store, call)
          /\ done.status \in {"ok", "TokenException"}
      BY <2>1, <2>2, LogoutIs
    <2> QED
      BY <1>3, <2>3 DEF IsStep, Statuses, done
  <1>4. CASE call.op = "refresh"
    <2>1. done = renewAccessToken(st, call)
      BY <1>4 DEF AccountStep
    <2>2. done.store = st /\ done.status \in Statuses
      BY <2>1 DEF renewAccessToken, Responded, Statuses
    <2> HIDE DEF done
    <2> QED
      BY <1>4, <2>2 DEF IsStep, done
  <1>5. CASE call.op = "wait"
    <2>1. done = Responded([st EXCEPT !.now = @ + 1], "ok", None)
      BY <1>5 DEF AccountStep
    <2>2. done.store = [st EXCEPT !.now = @ + 1] /\ done.status = "ok"
      BY <2>1 DEF Responded
    <2> HIDE DEF done
    <2>3. /\ done.store \in AccountStores(browsers, emails, passwords, domain)
          /\ done.store.users = st.users /\ done.store.jar = st.jar /\ done.store.now = st.now + 1
      BY <1>0, <2>2 DEF AccountStores
    <2>4. UsersAreDistinct(done.store)
      BY <2>3 DEF UsersAreDistinct, AreAccounts
    <2> QED
      BY <1>5, <2>2, <2>3, <2>4 DEF IsStep, AreAccounts, Statuses, done
  <1>6. call.op \in {"register", "login", "logout", "refresh", "wait"}
    BY DEF AccountCallsOf
  <1> QED
    BY <1>1, <1>2, <1>3, <1>4, <1>5, <1>6

-----------------------------------------------------------------------------
\* Histories of accounts

AccountData(browsers, emails, passwords, domain) ==
  {None} \cup {AccountStep(st, call, domain).data :
                 st \in AccountStores(browsers, emails, passwords, domain),
                 call \in AccountCallsOf(browsers, emails, passwords)}

AccountRuns(browsers, emails, passwords, domain) ==
  {reply \in [store : AccountStores(browsers, emails, passwords, domain), status : Statuses,
            data : AccountData(browsers, emails, passwords, domain)] : UsersAreDistinct(reply.store)}

FirstAccounts(browsers) == Responded(NoAccounts(browsers), "ok", None)

LEMMA RespondedIs ==
  ASSUME NEW st, NEW status, NEW x
  PROVE  LET done == Responded(st, status, x) IN
         done = [store |-> done.store, status |-> done.status, data |-> done.data]
  BY DEF Responded

LEMMA StepResponds ==
  ASSUME NEW browsers, NEW emails, NEW passwords, NEW st, NEW domain,
         NEW call \in AccountCallsOf(browsers, emails, passwords)
  PROVE  LET done == AccountStep(st, call, domain) IN
         done = [store |-> done.store, status |-> done.status, data |-> done.data]
  <1> DEFINE IsRecord(done) == done = [store |-> done.store, status |-> done.status, data |-> done.data]
  <1>1. \A x, y, z : IsRecord(Responded(x, y, z))
    BY RespondedIs
  <1> HIDE DEF IsRecord
  <1>2. \A x, user : IsRecord(SignedIn(x, call, user, domain))
    BY <1>1 DEF SignedIn
  <1>3. IsRecord(register(st, call, domain)) /\ IsRecord(login(st, call, domain))
    BY <1>1, <1>2 DEF register, login
  <1>4. IsRecord(logout(st, call, domain)) /\ IsRecord(renewAccessToken(st, call))
    BY <1>1 DEF logout, renewAccessToken
  <1>5. call.op \in {"register", "login", "logout", "refresh", "wait"}
    BY DEF AccountCallsOf
  <1>6. IsRecord(AccountStep(st, call, domain))
    BY <1>1, <1>3, <1>4, <1>5 DEF AccountStep
  <1> QED
    BY <1>6 DEF IsRecord

LEMMA AccountRunsTyped ==
  ASSUME NEW browsers, NEW emails, NEW passwords, NEW domain, NoneIsDistinct(emails, passwords)
  PROVE  /\ FirstAccounts(browsers) \in AccountRuns(browsers, emails, passwords, domain)
         /\ \A reply \in AccountRuns(browsers, emails, passwords, domain) :
              \A call \in AccountCallsOf(browsers, emails, passwords) :
                AccountStep(reply.store, call, domain) \in AccountRuns(browsers, emails, passwords, domain)
  <1> DEFINE Runs == AccountRuns(browsers, emails, passwords, domain)
             D == AccountData(browsers, emails, passwords, domain)
  <1>1. FirstAccounts(browsers) \in Runs
    <2>1. NoAccounts(browsers) \in AccountStores(browsers, emails, passwords, domain)
      BY DEF NoAccounts, AccountStores
    <2>2. UsersAreDistinct(NoAccounts(browsers))
      BY DEF NoAccounts, UsersAreDistinct
    <2>3. None \in D /\ "ok" \in Statuses
      BY DEF AccountData, Statuses
    <2> QED
      BY <2>1, <2>2, <2>3 DEF AccountRuns, FirstAccounts, Responded
  <1>2. ASSUME NEW reply \in Runs, NEW call \in AccountCallsOf(browsers, emails, passwords)
        PROVE  AccountStep(reply.store, call, domain) \in Runs
    <2> DEFINE st == reply.store
               done == AccountStep(st, call, domain)
    <2>1. st \in AccountStores(browsers, emails, passwords, domain) /\ UsersAreDistinct(st)
      BY DEF AccountRuns
    <2> HIDE DEF st
    <2>2. /\ done.store \in AccountStores(browsers, emails, passwords, domain) /\ UsersAreDistinct(done.store)
          /\ done.status \in Statuses
      BY <2>1, StepIs DEF AreAccounts
    <2>3. done.data \in D
      BY <2>1 DEF AccountData
    <2>4. done = [store |-> done.store, status |-> done.status, data |-> done.data]
      BY StepResponds
    <2> HIDE DEF done, D
    <2>5. [store |-> done.store, status |-> done.status, data |-> done.data]
            \in [store : AccountStores(browsers, emails, passwords, domain), status : Statuses, data : D]
      BY <2>2, <2>3
    <2>6. done \in Runs
      BY <2>2, <2>4, <2>5 DEF AccountRuns, D
    <2> QED
      BY <2>6 DEF done, st
  <1> QED
    BY <1>1, <1>2

\* g is the recursion of AccountsAfter.
Accounts(g, browsers, s, domain) ==
  /\ g[0] = FirstAccounts(browsers)
  /\ \A k \in 1..Len(s) : g[k] = AccountStep(g[k - 1].store, s[k], domain)
  /\ AccountsAfter(browsers, s, domain) = g[Len(s)]

AreReached(browsers, emails, passwords, domain, s) ==
  \E g : Accounts(g, browsers, s, domain) /\ \A k \in 0..Len(s) : g[k] \in AccountRuns(browsers, emails, passwords, domain)

LEMMA AccountsSolve ==
  ASSUME NEW browsers, NEW emails, NEW passwords, NEW domain, NoneIsDistinct(emails, passwords),
         NEW s \in Seq(AccountCallsOf(browsers, emails, passwords))
  PROVE  AreReached(browsers, emails, passwords, domain, s)
  <1> DEFINE X == AccountRuns(browsers, emails, passwords, domain)
             base == FirstAccounts(browsers)
             n == Len(s)
             next(k, x) == AccountStep(x.store, s[k], domain)
             step == [k \in 1..n |-> [x \in X |-> next(k, x)]]
             f == CHOOSE g : g = [k \in 0..n |->
                    IF k = 0 THEN Responded(NoAccounts(browsers), "ok", None)
                    ELSE AccountStep(g[k - 1].store, s[k], domain)]
  <1>1. \A k \in 1..n : \A x \in X : step[k][x] = next(k, x)
    OBVIOUS
  <1>2. \A k \in 1..n : \A x \in X : step[k][x] \in X
    <2>1. \A k \in 1..n : s[k] \in AccountCallsOf(browsers, emails, passwords)
      OBVIOUS
    <2> HIDE DEF n, step
    <2> QED
      BY <1>1, <2>1, AccountRunsTyped
  <1>3. base \in X /\ n \in Nat
    BY AccountRunsTyped
  <1>4. /\ 0 \in 0..n
        /\ \A k \in 1..n : k \in 0..n /\ k # 0 /\ k - 1 \in 0..n
        /\ \A k \in 0..n : k # 0 => k \in 1..n
    OBVIOUS
  <1>5. PICK g \in [0..n -> X] : g[0] = base /\ \A k \in 1..n : g[k] = step[k][g[k - 1]]
    <2>1. StaysIn(X, n, step)
      BY <1>2 DEF StaysIn
    <2> HIDE DEF X, n, step, base
    <2>2. HasRecursion(X, base, n, step)
      BY <1>3, <2>1, RecursionExists
    <2> QED
      BY <2>2 DEF HasRecursion, Recurses
  <1> DEFINE start == Responded(NoAccounts(browsers), "ok", None)
             then(before, k) == AccountStep(before.store, s[k], domain)
  <1>6. g = [k \in 0..n |-> IF k = 0 THEN start ELSE then(g[k - 1], k)]
    <2>1. /\ g = [k \in 0..n |-> g[k]]
          /\ \A k \in 0..n : k # 0 => g[k] = next(k, g[k - 1])
      BY <1>1, <1>4, <1>5
    <2>2. \A k \in 0..n : k # 0 => g[k] = then(g[k - 1], k)
      BY <2>1
    <2>3. g[0] = start
      BY <1>5 DEF FirstAccounts
    <2> HIDE DEF step, X, n, start, then
    <2> QED
      BY <2>1, <2>2, <2>3
  <1>7. f = [k \in 0..n |-> IF k = 0 THEN start ELSE then(f[k - 1], k)]
    BY <1>6
  <1>8. AccountsAfter(browsers, s, domain) = f[n]
    BY DEF AccountsAfter
  <1> HIDE DEF f, n, start, then
  <1>9. f[0] = start /\ \A k \in 1..n : f[k] = then(f[k - 1], k)
    BY <1>4, <1>7, Zenon
  <1>10. g[0] = start /\ \A k \in 1..n : g[k] = then(g[k - 1], k)
    BY <1>4, <1>6, Zenon
  <1>11. \A k \in 0..n : f[k] = g[k]
    <2>1. StepAlike(n, f, g)
      BY <1>9, <1>10 DEF StepAlike
    <2>2. AlikeUpTo(n, f, g)
      BY <1>3, <2>1, RecursionUnique
    <2> QED
      BY <2>2 DEF AlikeUpTo
  <1>12. \A k \in 0..n : f[k] \in X
    BY <1>5, <1>11
  <1>13. f[0] = FirstAccounts(browsers) /\ \A k \in 1..n : f[k] = AccountStep(f[k - 1].store, s[k], domain)
    BY <1>9, Zenon DEF start, then, FirstAccounts
  <1>14. Accounts(f, browsers, s, domain)
    BY <1>8, <1>13 DEF Accounts, n
  <1> QED
    BY <1>12, <1>14 DEF AreReached, n

LEMMA AccountsEmpty ==
  ASSUME NEW browsers, NEW emails, NEW passwords, NEW domain, NoneIsDistinct(emails, passwords)
  PROVE  AccountsAfter(browsers, <<>>, domain) = FirstAccounts(browsers)
  <1>1. <<>> \in Seq(AccountCallsOf(browsers, emails, passwords)) /\ Len(<<>>) = 0
    OBVIOUS
  <1>2. AreReached(browsers, emails, passwords, domain, <<>>)
    BY <1>1, AccountsSolve
  <1> QED
    BY <1>1, <1>2 DEF AreReached, Accounts

LEMMA AccountsTyped ==
  ASSUME NEW browsers, NEW emails, NEW passwords, NEW domain, NoneIsDistinct(emails, passwords),
         NEW s \in Seq(AccountCallsOf(browsers, emails, passwords))
  PROVE  AreAccounts(browsers, emails, passwords, domain, AccountsAfter(browsers, s, domain).store)
  <1>1. Len(s) \in 0..Len(s)
    OBVIOUS
  <1>2. AreReached(browsers, emails, passwords, domain, s)
    BY AccountsSolve
  <1>3. AccountsAfter(browsers, s, domain) \in AccountRuns(browsers, emails, passwords, domain)
    BY <1>1, <1>2 DEF AreReached, Accounts
  <1> QED
    BY <1>3 DEF AccountRuns, AreAccounts

LEMMA AccountsAppend ==
  ASSUME NEW browsers, NEW emails, NEW passwords, NEW domain, NoneIsDistinct(emails, passwords),
         NEW s \in Seq(AccountCallsOf(browsers, emails, passwords)),
         NEW v \in AccountCallsOf(browsers, emails, passwords)
  PROVE  AccountsAfter(browsers, Append(s, v), domain)
           = AccountStep(AccountsAfter(browsers, s, domain).store, v, domain)
  <1> DEFINE CallSet == AccountCallsOf(browsers, emails, passwords)
             t == Append(s, v)
             n == Len(s)
  <1>1. t \in Seq(CallSet) /\ n \in Nat /\ Len(t) = n + 1 /\ t[n + 1] = v
    OBVIOUS
  <1>2. \A k \in 1..n : k \in 1..Len(t) /\ t[k] = s[k]
    OBVIOUS
  <1> HIDE DEF t
  <1>3. AreReached(browsers, emails, passwords, domain, s) /\ AreReached(browsers, emails, passwords, domain, t)
    BY <1>1, AccountsSolve
  <1>4. PICK g : Accounts(g, browsers, s, domain)
    BY <1>3 DEF AreReached
  <1>5. PICK h : Accounts(h, browsers, t, domain)
    BY <1>3 DEF AreReached
  <1>6. /\ g[0] = FirstAccounts(browsers) /\ AccountsAfter(browsers, s, domain) = g[n]
        /\ \A k \in 1..n : g[k] = AccountStep(g[k - 1].store, s[k], domain)
    BY <1>4 DEF Accounts
  <1>7. /\ h[0] = FirstAccounts(browsers) /\ AccountsAfter(browsers, t, domain) = h[n + 1]
        /\ \A k \in 1..Len(t) : h[k] = AccountStep(h[k - 1].store, t[k], domain)
    BY <1>1, <1>5 DEF Accounts
  <1> HIDE DEF n
  <1>8. StepAlike(n, g, h)
    BY <1>2, <1>6, <1>7 DEF StepAlike
  <1>9. \A k \in 0..n : g[k] = h[k]
    BY <1>1, <1>8, RecursionUnique DEF AlikeUpTo
  <1>10. n \in 0..n /\ n + 1 \in 1..Len(t) /\ (n + 1) - 1 = n
    BY <1>1
  <1>11. h[n + 1] = AccountStep(h[n].store, v, domain)
    BY <1>1, <1>7, <1>10
  <1>12. AccountsAfter(browsers, t, domain) = AccountStep(AccountsAfter(browsers, s, domain).store, v, domain)
    BY <1>6, <1>7, <1>9, <1>10, <1>11
  <1> QED
    BY <1>12 DEF t

-----------------------------------------------------------------------------
\* Sessions

\* The calls that began a session of the browser.
Begun(browsers, s, b, domain) ==
  {i \in DOMAIN s : /\ s[i].browser = b /\ s[i].op \in {"register", "login"}
                    /\ AccountsAfter(browsers, SubSeq(s, 1, i), domain).status = "ok"}

IsLast(S, l) == (S = {} /\ l = 0) \/ (l \in S /\ \A k \in S : k <= l)

WaitsOf(s, l) == {i \in (l + 1)..Len(s) : s[i].op = "wait"}

HasLeft(s, b, l) == \E i \in (l + 1)..Len(s) : s[i].browser = b /\ s[i].op = "logout"

LEMMA LastIs ==
  ASSUME NEW S \in SUBSET Nat, NEW l, IsLast(S, l)
  PROVE  (IF S = {} THEN 0 ELSE Max(S)) = l
  <1>1. CASE S = {}
    BY <1>1 DEF IsLast
  <1>2. CASE S # {}
    <2>1. l \in S /\ \A k \in S : k <= l
      BY <1>2 DEF IsLast
    <2>2. Max(S) \in S /\ \A k \in S : Max(S) >= k
      <3>1. \E x \in S : \A k \in S : x >= k
        BY <2>1
      <3> QED
        BY <3>1 DEF Max
    <2>3. Max(S) = l
      <3>1. Max(S) \in Nat /\ l \in Nat /\ Max(S) <= l /\ Max(S) >= l
        BY <2>1, <2>2
      <3> QED
        BY <3>1
    <2> QED
      BY <1>2, <2>3
  <1> QED
    BY <1>1, <1>2

LEMMA BegunAppend ==
  ASSUME NEW browsers, NEW emails, NEW passwords, NEW domain, NoneIsDistinct(emails, passwords),
         NEW s \in Seq(AccountCallsOf(browsers, emails, passwords)),
         NEW v \in AccountCallsOf(browsers, emails, passwords), NEW b
  PROVE  LET done == AccountStep(AccountsAfter(browsers, s, domain).store, v, domain)
             begins == v.browser = b /\ v.op \in {"register", "login"} /\ done.status = "ok" IN
         Begun(browsers, Append(s, v), b, domain)
           = Begun(browsers, s, b, domain) \cup (IF begins THEN {Len(s) + 1} ELSE {})
  <1> DEFINE t == Append(s, v)
             n == Len(s)
             done == AccountStep(AccountsAfter(browsers, s, domain).store, v, domain)
             begins == v.browser = b /\ v.op \in {"register", "login"} /\ done.status = "ok"
             BeginsAt(u, i) == /\ u[i].browser = b /\ u[i].op \in {"register", "login"}
                               /\ AccountsAfter(browsers, SubSeq(u, 1, i), domain).status = "ok"
  <1>1. AccountsAfter(browsers, t, domain) = done
    BY AccountsAppend
  <1>2. /\ n \in Nat /\ DOMAIN s = 1..n /\ DOMAIN t = 1..(n + 1) /\ t[n + 1] = v
        /\ \A i \in 1..n : t[i] = s[i]
    OBVIOUS
  <1>3. \A i \in 1..n : SubSeq(t, 1, i) = SubSeq(s, 1, i)
    OBVIOUS
  <1>4. SubSeq(t, 1, n + 1) = t
    OBVIOUS
  <1> HIDE DEF t, n, done
  <1>5. \A i \in 1..n : BeginsAt(t, i) <=> BeginsAt(s, i)
    BY <1>2, <1>3
  <1>6. BeginsAt(t, n + 1) <=> begins
    BY <1>1, <1>2, <1>4
  <1>7. /\ Begun(browsers, t, b, domain) = {i \in 1..(n + 1) : BeginsAt(t, i)}
        /\ Begun(browsers, s, b, domain) = {i \in 1..n : BeginsAt(s, i)}
    BY <1>2 DEF Begun
  <1> HIDE DEF BeginsAt, begins
  <1>8. {i \in 1..(n + 1) : BeginsAt(t, i)} = {i \in 1..n : BeginsAt(s, i)} \cup (IF begins THEN {n + 1} ELSE {})
    <2>1. CASE begins
      BY <1>2, <1>5, <1>6, <2>1
    <2>2. CASE ~begins
      BY <1>2, <1>5, <1>6, <2>2
    <2> QED
      BY <2>1, <2>2
  <1> QED
    BY <1>7, <1>8 DEF t, n, begins, done

LEMMA LeftAppend ==
  ASSUME NEW V, NEW s \in Seq(V), NEW v \in V, NEW b, NEW l \in 0..Len(s)
  PROVE  /\ HasLeft(Append(s, v), b, l) <=> HasLeft(s, b, l) \/ (v.browser = b /\ v.op = "logout")
         /\ ~HasLeft(Append(s, v), b, Len(s) + 1)
         /\ l # 0 => Append(s, v)[l] = s[l]
  <1> DEFINE t == Append(s, v)
             n == Len(s)
  <1>1. /\ n \in Nat /\ Len(t) = n + 1 /\ t[n + 1] = v /\ \A i \in 1..n : t[i] = s[i]
    OBVIOUS
  <1> HIDE DEF t, n
  <1>2. l \in 0..n
    BY DEF n
  <1>3. /\ \A i \in (l + 1)..n : i \in (l + 1)..(n + 1) /\ i \in 1..n
        /\ \A i \in (l + 1)..(n + 1) : i \in (l + 1)..n \/ i = n + 1
        /\ n + 1 \in (l + 1)..(n + 1) /\ (n + 1 + 1)..(n + 1) = {}
    BY <1>1, <1>2
  <1>4. HasLeft(t, b, l) <=> HasLeft(s, b, l) \/ (v.browser = b /\ v.op = "logout")
    BY <1>1, <1>3 DEF HasLeft, n
  <1>5. ~HasLeft(t, b, n + 1)
    BY <1>1, <1>3 DEF HasLeft
  <1>6. l # 0 => t[l] = s[l]
    BY <1>1, <1>2
  <1> QED
    BY <1>4, <1>5, <1>6 DEF t, n

LEMMA WaitsAppend ==
  ASSUME NEW V, NEW s \in Seq(V), NEW v \in V, NEW l \in 0..Len(s)
  PROVE  /\ Cardinality(WaitsOf(s, l)) \in Nat
         /\ v.op = "wait" => Cardinality(WaitsOf(Append(s, v), l)) = Cardinality(WaitsOf(s, l)) + 1
         /\ v.op # "wait" => WaitsOf(Append(s, v), l) = WaitsOf(s, l)
         /\ WaitsOf(Append(s, v), Len(s) + 1) = {}
  <1> DEFINE t == Append(s, v)
             n == Len(s)
             S == WaitsOf(s, l)
  <1>1. /\ n \in Nat /\ Len(t) = n + 1 /\ t[n + 1] = v /\ \A i \in 1..n : t[i] = s[i]
    OBVIOUS
  <1> HIDE DEF t, n
  <1>2. l \in 0..n
    BY DEF n
  <1>3. /\ \A i \in (l + 1)..n : i \in (l + 1)..(n + 1) /\ i \in 1..n /\ i # n + 1
        /\ \A i \in (l + 1)..(n + 1) : i \in (l + 1)..n \/ i = n + 1
        /\ n + 1 \in (l + 1)..(n + 1) /\ (n + 1 + 1)..(n + 1) = {}
    BY <1>1, <1>2
  <1>4. WaitsOf(t, l) = IF v.op = "wait" THEN S \cup {n + 1} ELSE S
    <2>1. WaitsOf(t, l) = {i \in (l + 1)..(n + 1) : t[i].op = "wait"} /\ S = {i \in (l + 1)..n : s[i].op = "wait"}
      BY <1>1 DEF WaitsOf, n
    <2> HIDE DEF S
    <2> QED
      BY <1>1, <1>3, <2>1
  <1>5. IsFiniteSet(S) /\ n + 1 \notin S
    <2>1. S \subseteq (l + 1)..n
      BY DEF WaitsOf, n
    <2>2. IsFiniteSet((l + 1)..n)
      BY <1>1, <1>2, FS_Interval
    <2> QED
      BY <1>3, <2>1, <2>2, FS_Subset
  <1>6. Cardinality(S) \in Nat /\ Cardinality(S \cup {n + 1}) = Cardinality(S) + 1
    BY <1>5, FS_CardinalityType, FS_AddElement
  <1>7. WaitsOf(t, n + 1) = {}
    BY <1>1, <1>3 DEF WaitsOf
  <1> QED
    BY <1>4, <1>6, <1>7 DEF t, n

-----------------------------------------------------------------------------
\* The session of a browser

\* The browser holds the cookie of the session that began at l, or none that it would send.
Holds(st, s, b, domain, l) ==
  IF l = 0 \/ HasLeft(s, b, l) THEN SentCookies(st.jar[b], st.now) = {}
  ELSE \E k \in DOMAIN st.users, until \in Nat :
         /\ st.users[k].email = s[l].email
         /\ st.jar[b] = {SessionCookie(domain, k, s[l].email, until)}
         /\ until + Cardinality(WaitsOf(s, l)) = st.now + RefreshLife

HasSession(browsers, s, b, domain, l) ==
  /\ l \in 0..Len(s) /\ IsLast(Begun(browsers, s, b, domain), l)
  /\ Holds(AccountsAfter(browsers, s, domain).store, s, b, domain, l)

\* A step that leaves the browser what it has.
Keeps(st, after, b) ==
  /\ after.now = st.now /\ after.jar[b] = st.jar[b]
  /\ \A i \in DOMAIN st.users : i \in DOMAIN after.users /\ after.users[i] = st.users[i]

LEMMA SessionKept ==
  ASSUME NEW V, NEW s \in Seq(V), NEW v \in V, NEW st, NEW after, NEW b, NEW domain,
         NEW l \in 0..Len(s),
         Holds(st, s, b, domain, l), Keeps(st, after, b), v.op # "wait", v.browser # b \/ v.op # "logout"
  PROVE  Holds(after, Append(s, v), b, domain, l)
  <1> DEFINE t == Append(s, v)
  <1>1. /\ HasLeft(t, b, l) <=> HasLeft(s, b, l)
        /\ l # 0 => t[l] = s[l]
        /\ WaitsOf(t, l) = WaitsOf(s, l)
    BY LeftAppend, WaitsAppend
  <1> HIDE DEF t
  <1>2. CASE l = 0 \/ HasLeft(s, b, l)
    BY <1>1, <1>2 DEF Holds, Keeps, t
  <1>3. CASE ~(l = 0 \/ HasLeft(s, b, l))
    <2>1. PICK k \in DOMAIN st.users, until \in Nat :
             /\ st.users[k].email = s[l].email
             /\ st.jar[b] = {SessionCookie(domain, k, s[l].email, until)}
             /\ until + Cardinality(WaitsOf(s, l)) = st.now + RefreshLife
      BY <1>3 DEF Holds
    <2>2. /\ k \in DOMAIN after.users /\ after.users[k].email = t[l].email
          /\ after.jar[b] = {SessionCookie(domain, k, t[l].email, until)}
          /\ until + Cardinality(WaitsOf(t, l)) = after.now + RefreshLife
      BY <1>1, <1>3, <2>1 DEF Keeps
    <2> QED
      BY <1>1, <1>3, <2>2 DEF Holds, t
  <1> QED
    BY <1>2, <1>3 DEF t

LEMMA SessionWaits ==
  ASSUME NEW V, NEW s \in Seq(V), NEW v \in V, NEW st, NEW after, NEW b, NEW domain,
         NEW l \in 0..Len(s),
         Holds(st, s, b, domain, l), v.op = "wait", st.now \in Nat, \A c \in st.jar[b] : c.until \in Nat,
         after.users = st.users, after.jar = st.jar, after.now = st.now + 1
  PROVE  Holds(after, Append(s, v), b, domain, l)
  <1> DEFINE t == Append(s, v)
             n == Cardinality(WaitsOf(s, l))
  <1>1. /\ HasLeft(t, b, l) <=> HasLeft(s, b, l)
        /\ l # 0 => t[l] = s[l]
        /\ Cardinality(WaitsOf(t, l)) = n + 1 /\ n \in Nat
    <2>1. /\ HasLeft(t, b, l) <=> HasLeft(s, b, l)
          /\ l # 0 => t[l] = s[l]
      BY LeftAppend
    <2>2. Cardinality(WaitsOf(t, l)) = n + 1 /\ n \in Nat
      BY WaitsAppend
    <2> QED
      BY <2>1, <2>2
  <1> HIDE DEF t, n
  <1>2. CASE l = 0 \/ HasLeft(s, b, l)
    <2>1. SentCookies(st.jar[b], st.now) = {}
      BY <1>2 DEF Holds
    <2>2. SentCookies(after.jar[b], after.now) = {}
      <3>1. \A c \in st.jar[b] : ~(st.now < c.until) /\ c.until \in Nat
        BY <2>1 DEF SentCookies
      <3>2. \A c \in st.jar[b] : ~(st.now + 1 < c.until)
        BY <3>1
      <3> QED
        BY <3>2 DEF SentCookies
    <2> QED
      BY <1>1, <1>2, <2>2 DEF Holds, t
  <1>3. CASE ~(l = 0 \/ HasLeft(s, b, l))
    <2>1. PICK k \in DOMAIN st.users, until \in Nat :
             /\ st.users[k].email = s[l].email
             /\ st.jar[b] = {SessionCookie(domain, k, s[l].email, until)}
             /\ until + n = st.now + RefreshLife
      BY <1>3 DEF Holds, n
    <2>2. /\ k \in DOMAIN after.users /\ after.users[k].email = t[l].email
          /\ after.jar[b] = {SessionCookie(domain, k, t[l].email, until)}
      BY <1>1, <1>3, <2>1
    <2>3. until + (n + 1) = after.now + RefreshLife
      BY <1>1, <2>1, LivesAreNumbers
    <2> QED
      BY <1>1, <1>3, <2>2, <2>3 DEF Holds, t
  <1> QED
    BY <1>2, <1>3

LEMMA SessionLeft ==
  ASSUME NEW V, NEW s \in Seq(V), NEW v \in V, NEW st, NEW after, NEW b, NEW domain,
         NEW l \in 0..Len(s),
         v.browser = b, v.op = "logout", Leave(st, after, v)
  PROVE  Holds(after, Append(s, v), b, domain, l)
  <1>1. HasLeft(Append(s, v), b, l)
    BY LeftAppend
  <1>2. SentCookies(after.jar[b], after.now) = {}
    BY DEF Leave
  <1> QED
    BY <1>1, <1>2 DEF Holds

LEMMA SessionBegun ==
  ASSUME NEW V, NEW s \in Seq(V), NEW v \in V, NEW st, NEW after, NEW b, NEW domain,
         b \in DOMAIN st.jar, st.now \in Nat,
         v.browser = b, Begin(st, after, v, domain)
  PROVE  Holds(after, Append(s, v), b, domain, Len(s) + 1)
  <1> DEFINE t == Append(s, v)
             l == Len(s) + 1
             until == st.now + RefreshLife
  <1>1. ~HasLeft(t, b, l) /\ WaitsOf(t, l) = {} /\ t[l] = v /\ l # 0
    <2>1. 0 \in 0..Len(s) /\ t[l] = v /\ l # 0
      OBVIOUS
    <2> QED
      BY <2>1, LeftAppend, WaitsAppend
  <1>2. PICK k \in DOMAIN after.users :
          /\ after.users[k].email = v.email
          /\ after.jar = [st.jar EXCEPT ![b] = {SessionCookie(domain, k, v.email, until)}]
    BY DEF Begin
  <1>3. until \in Nat /\ until + Cardinality(WaitsOf(t, l)) = after.now + RefreshLife
    <2>1. after.now = st.now /\ until \in Nat /\ until + 0 = until
      BY LivesAreNumbers DEF Begin
    <2>2. Cardinality(WaitsOf(t, l)) = 0
      BY <1>1, FS_EmptySet
    <2> HIDE DEF t, l
    <2> QED
      BY <2>1, <2>2
  <1>4. after.jar[b] = {SessionCookie(domain, k, v.email, until)}
    BY <1>2
  <1> HIDE DEF t, l, until
  <1>5. Holds(after, t, b, domain, l)
    BY <1>1, <1>2, <1>3, <1>4 DEF Holds
  <1> QED
    BY <1>5 DEF t, l

SomeSession(browsers, s, b, domain) == \E l \in 0..Len(s) : HasSession(browsers, s, b, domain, l)

LEMMA SessionStep ==
  ASSUME NEW browsers, NEW emails, NEW passwords, NEW domain, NoneIsDistinct(emails, passwords),
         NEW s \in Seq(AccountCallsOf(browsers, emails, passwords)),
         NEW v \in AccountCallsOf(browsers, emails, passwords), NEW b \in browsers,
         SomeSession(browsers, s, b, domain)
  PROVE  SomeSession(browsers, Append(s, v), b, domain)
  <1> DEFINE st == AccountsAfter(browsers, s, domain).store
             done == AccountStep(st, v, domain)
             t == Append(s, v)
             n == Len(s)
             old == Begun(browsers, s, b, domain)
             new == Begun(browsers, t, b, domain)
             begins == v.browser = b /\ v.op \in {"register", "login"} /\ done.status = "ok"
  <1>1. AreAccounts(browsers, emails, passwords, domain, st)
    BY AccountsTyped
  <1>2. /\ st.now \in Nat /\ DOMAIN st.jar = browsers /\ \A c \in st.jar[b] : c.until \in Nat
    BY <1>1 DEF AreAccounts, AccountStores, CookiesOf
  <1>3. IsStep(st, done, v, domain)
    BY <1>1, StepIs
  <1>4. AccountsAfter(browsers, t, domain) = done
    BY AccountsAppend
  <1>5. new = old \cup (IF begins THEN {n + 1} ELSE {})
    BY BegunAppend
  <1>6. n \in Nat /\ Len(t) = n + 1 /\ old \subseteq 1..n
    BY DEF Begun
  <1>7. PICK l \in 0..n : HasSession(browsers, s, b, domain, l)
    BY DEF SomeSession
  <1>8. IsLast(old, l) /\ Holds(st, s, b, domain, l)
    BY <1>7 DEF HasSession
  <1>a. v.op \in {"register", "login", "logout", "refresh", "wait"}
    BY DEF AccountCallsOf
  <1> HIDE DEF st, done, old, new
  <1>9. CASE begins
    <2>1. Begin(st, done.store, v, domain)
      BY <1>3, <1>9 DEF IsStep, BeginsOrFails
    <2>2. Holds(done.store, t, b, domain, n + 1)
      BY <1>2, <1>9, <2>1, SessionBegun
    <2>3. IsLast(new, n + 1)
      BY <1>5, <1>6, <1>9 DEF IsLast
    <2>4. n + 1 \in 0..Len(t)
      BY <1>6
    <2> HIDE DEF t, n
    <2> QED
      BY <1>4, <2>2, <2>3, <2>4 DEF SomeSession, HasSession, t, new
  <1>10. CASE ~begins
    <2>1. Holds(done.store, t, b, domain, l)
      <3>1. CASE v.op = "wait"
        <4>1. done.store.users = st.users /\ done.store.jar = st.jar /\ done.store.now = st.now + 1
          BY <1>3, <3>1 DEF IsStep
        <4> QED
          BY <1>2, <1>8, <3>1, <4>1, SessionWaits
      <3>2. CASE v.op = "logout" /\ v.browser = b
        <4>1. Leave(st, done.store, v)
          BY <1>3, <3>2 DEF IsStep
        <4> QED
          BY <3>2, <4>1, SessionLeft
      <3>3. CASE v.op # "wait" /\ (v.browser # b \/ v.op # "logout")
        <4>1. Keeps(st, done.store, b)
          <5>1. CASE v.op \in {"register", "login"}
            <6>1. CASE done.status = "ok"
              <7>1. Begin(st, done.store, v, domain) /\ v.browser # b
                BY <1>3, <1>10, <5>1, <6>1 DEF IsStep, BeginsOrFails
              <7>2. done.store.jar[b] = st.jar[b]
                BY <1>2, <7>1 DEF Begin
              <7> QED
                BY <7>1, <7>2 DEF Begin, Keeps
            <6>2. CASE done.status # "ok"
              BY <1>3, <5>1, <6>2 DEF IsStep, BeginsOrFails, Keeps
            <6> QED
              BY <6>1, <6>2
          <5>2. CASE v.op = "logout"
            <6>1. Leave(st, done.store, v) /\ v.browser # b
              BY <1>3, <3>3, <5>2 DEF IsStep
            <6> QED
              BY <1>2, <6>1 DEF Leave, Keeps
          <5>3. CASE v.op = "refresh"
            BY <1>3, <5>3 DEF IsStep, Keeps
          <5> QED
            BY <1>a, <3>3, <5>1, <5>2, <5>3
        <4> QED
          BY <1>8, <3>3, <4>1, SessionKept
      <3> QED
        BY <3>1, <3>2, <3>3
    <2>2. new = old
      BY <1>5, <1>10
    <2> HIDE DEF begins
    <2>3. IsLast(new, l)
      BY <1>8, <2>2
    <2> HIDE DEF t, n
    <2>4. l \in 0..Len(t)
      BY <1>6
    <2> QED
      BY <1>4, <2>1, <2>3, <2>4 DEF SomeSession, HasSession, new, t
  <1> QED
    BY <1>9, <1>10

LEMMA SessionExists ==
  ASSUME NEW browsers, NEW emails, NEW passwords, NEW domain, NoneIsDistinct(emails, passwords),
         NEW s \in Seq(AccountCallsOf(browsers, emails, passwords)), NEW b \in browsers
  PROVE  SomeSession(browsers, s, b, domain)
  <1> DEFINE CallSet == AccountCallsOf(browsers, emails, passwords)
             P == {u \in Seq(CallSet) : SomeSession(browsers, u, b, domain)}
  <1>1. <<>> \in P
    <2>1. AccountsAfter(browsers, <<>>, domain).store = NoAccounts(browsers)
      BY AccountsEmpty DEF FirstAccounts, Responded
    <2>2. SentCookies(NoAccounts(browsers).jar[b], NoAccounts(browsers).now) = {}
      BY DEF SentCookies, NoAccounts
    <2>3. Begun(browsers, <<>>, b, domain) = {} /\ 0 \in 0..Len(<<>>) /\ <<>> \in Seq(CallSet)
      BY DEF Begun
    <2>4. HasSession(browsers, <<>>, b, domain, 0)
      BY <2>1, <2>2, <2>3 DEF HasSession, Holds, IsLast
    <2> QED
      BY <2>3, <2>4 DEF SomeSession
  <1>2. ASSUME NEW u \in Seq(CallSet), NEW v \in CallSet, u \in P
        PROVE  Append(u, v) \in P
    <2>1. SomeSession(browsers, u, b, domain)
      BY <1>2
    <2>2. SomeSession(browsers, Append(u, v), b, domain)
      BY <2>1, SessionStep
    <2> QED
      BY <2>2
  <1> HIDE DEF P, CallSet
  <1>3. s \in P
    BY <1>1, <1>2, AppendInduction DEF CallSet
  <1> QED
    BY <1>3 DEF P

LEMMA SessionIs ==
  ASSUME NEW browsers, NEW s, NEW b, NEW domain, NEW l,
         Begun(browsers, s, b, domain) \in SUBSET Nat,
         IsLast(Begun(browsers, s, b, domain), l)
  PROVE  SessionOf(browsers, s, b, domain)
           = IF l = 0 \/ HasLeft(s, b, l) \/ Cardinality(WaitsOf(s, l)) >= RefreshLife THEN None ELSE s[l].email
  <1> DEFINE begun == Begun(browsers, s, b, domain)
             last == IF begun = {} THEN 0 ELSE Max(begun)
  <1>1. last = l
    BY LastIs
  <1>2. SessionOf(browsers, s, b, domain)
          = IF last = 0 \/ HasLeft(s, b, last) \/ Cardinality(WaitsOf(s, last)) >= RefreshLife THEN None
            ELSE s[last].email
    BY DEF SessionOf, Begun, HasLeft, WaitsOf
  <1> HIDE DEF last
  <1> QED
    BY <1>1, <1>2

\* A refresh is answered with a token of the browser's session while there is one, and refused
\* without one, for any browsers, histories and lives of the tokens (auth-controller.ts).
THEOREM SessionsAreKept ==
  ASSUME NEW browsers, NEW emails, NEW passwords, NEW domain, NoneIsDistinct(emails, passwords),
         NEW s \in Seq(AccountCallsOf(browsers, emails, passwords))
  PROVE  RefreshIsOfSession(browsers, s, domain)
  <1> DEFINE st == AccountsAfter(browsers, s, domain).store
  <1>1. /\ st \in AccountStores(browsers, emails, passwords, domain) /\ UsersAreDistinct(st)
        /\ st.now \in Nat /\ st.users \in Seq(AccountUsers(emails, passwords))
    BY AccountsTyped DEF AreAccounts, AccountStores
  <1> SUFFICES ASSUME NEW b \in browsers
               PROVE  LET email == SessionOf(browsers, s, b, domain)
                          answer == renewAccessToken(st, [browser |-> b]) IN
                      IF email = None THEN answer.status = "TokenException"
                      ELSE /\ answer.status = "ok"
                           /\ answer.data.until = st.now + AccessLife
                           /\ {i \in DOMAIN st.users : st.users[i].email = email} = {answer.data.claims.id}
                           /\ answer.data.claims.email = email
    BY DEF RefreshIsOfSession
  <1> DEFINE email == SessionOf(browsers, s, b, domain)
             call == [browser |-> b]
             answer == renewAccessToken(st, call)
             sent == SentCookies(st.jar[b], st.now)
  <1>2. PICK l \in 0..Len(s) : HasSession(browsers, s, b, domain, l)
    BY SessionExists DEF SomeSession
  <1> DEFINE n == Cardinality(WaitsOf(s, l))
  <1>3. /\ IsLast(Begun(browsers, s, b, domain), l) /\ Begun(browsers, s, b, domain) \in SUBSET Nat
        /\ Holds(st, s, b, domain, l)
    BY <1>2 DEF HasSession, Begun
  <1>4. email = IF l = 0 \/ HasLeft(s, b, l) \/ n >= RefreshLife THEN None ELSE s[l].email
    BY <1>3, SessionIs
  <1>5. call.browser = b
    OBVIOUS
  <1> HIDE DEF st, call, email, n
  <1>6. \/ sent = {} /\ answer = Refusal(st)
        \/ \E c \in sent :
             \/ st.now >= c.token.until /\ answer = Refusal(st)
             \/ /\ st.now < c.token.until
                /\ answer = Responded(st, "ok", TokenOf(c.token.claims.id, c.token.claims.email, st.now + AccessLife))
    <2>1. call.browser \in browsers
      BY <1>5
    <2>2. Renews(st, call)
      BY <1>1, <2>1, RenewIs
    <2> QED
      BY <1>5, <2>2 DEF Renews
  <1>7. Refusal(st).status = "TokenException"
    BY DEF Refusal, Responded
  <1> HIDE DEF answer
  <1>8. CASE l = 0 \/ HasLeft(s, b, l)
    <2>1. sent = {} /\ email = None
      BY <1>3, <1>4, <1>8 DEF Holds
    <2> QED
      BY <1>6, <1>7, <2>1 DEF answer, call, email, st
  <1>9. CASE ~(l = 0 \/ HasLeft(s, b, l))
    <2>1. PICK k \in DOMAIN st.users, until \in Nat :
             /\ st.users[k].email = s[l].email
             /\ st.jar[b] = {SessionCookie(domain, k, s[l].email, until)}
             /\ until + n = st.now + RefreshLife
      BY <1>3, <1>9 DEF Holds, n
    <2> DEFINE held == SessionCookie(domain, k, s[l].email, until)
    <2>2. /\ held.until = until /\ held.token.until = until
          /\ held.token.claims.id = k /\ held.token.claims.email = s[l].email
      BY DEF SessionCookie, CookieOf, TokenOf
    <2>3. n \in Nat /\ RefreshLife \in Nat
      <3>1. s = s /\ WaitsOf(s, l) \subseteq 1..Len(s)
        BY DEF WaitsOf
      <3>2. IsFiniteSet(1..Len(s))
        BY FS_Interval
      <3> QED
        BY <3>1, <3>2, FS_Subset, FS_CardinalityType, LivesAreNumbers DEF n
    <2> HIDE DEF held
    <2>4. CASE n >= RefreshLife
      <3>1. email = None
        BY <1>4, <2>4
      <3>2. ~(st.now < until)
        BY <1>1, <2>1, <2>3, <2>4
      <3>3. sent = {}
        BY <2>1, <2>2, <3>2 DEF SentCookies, held
      <3> QED
        BY <1>6, <1>7, <3>1, <3>3 DEF answer, call, email, st
    <2>5. CASE ~(n >= RefreshLife)
      <3>1. email = s[l].email
        BY <1>4, <1>9, <2>5
      <3>2. st.now < until
        BY <1>1, <2>1, <2>3, <2>5
      <3>3. sent = {held}
        BY <2>1, <2>2, <3>2 DEF SentCookies, held
      <3> DEFINE issued == TokenOf(k, email, st.now + AccessLife)
      <3>4. answer = Responded(st, "ok", issued)
        <4>1. ~(st.now >= until)
          BY <1>1, <2>1, <3>2
        <4> QED
          BY <1>6, <2>2, <3>1, <3>3, <4>1
      <3>5. issued.until = st.now + AccessLife /\ issued.claims.id = k /\ issued.claims.email = email
        BY DEF TokenOf
      <3> HIDE DEF issued
      <3>6. answer.status = "ok" /\ answer.data = issued
        BY <3>4 DEF Responded
      <3>7. {i \in DOMAIN st.users : st.users[i].email = email} = {k}
        BY <1>1, <2>1, <3>1 DEF UsersAreDistinct
      <3>8. email # None
        <4>1. st.users[k] \in AccountUsers(emails, passwords)
          BY <1>1
        <4>2. st.users[k].email \in emails
          BY <4>1 DEF AccountUsers
        <4> QED
          BY <2>1, <3>1, <4>2 DEF NoneIsDistinct
      <3> QED
        BY <3>5, <3>6, <3>7, <3>8 DEF answer, call, email, st
    <2> QED
      BY <2>4, <2>5
  <1> QED
    BY <1>8, <1>9

-----------------------------------------------------------------------------

\* The run's histories are histories of these calls.
LEMMA WiderSequences ==
  ASSUME NEW V, NEW W, V \subseteq W, NEW s \in Seq(V)
  PROVE  s \in Seq(W)
  OBVIOUS

LEMMA StoreCallsAre == StoreCalls \subseteq UserCalls(StoreUsers)
  BY DEF StoreCalls, UserCalls, StoreUsers, WithId, Operations

LEMMA AccountCallsAre == AccountCalls \subseteq AccountCallsOf(Browsers, Emails, {"p", "wrong"})
  BY DEF AccountCalls, AccountCallsOf, Browsers, Emails

\* Users are kept apart in what they store, list and are logged in as: the answers to a user's
\* calls, the pages of its jobs and the tokens of its browser depend on no other user's calls
\* (the repositories and auth-controller.ts).
THEOREM UsersApart == PureSpec => []UsersAreApart
  <1>1. InputTyped => UsersAreApart
    <2> SUFFICES ASSUME InputTyped PROVE UsersAreApart
      OBVIOUS
    <2>1. AnswersOfStore /\ PagesOfStore
      <3> SUFFICES ASSUME topic = "store" PROVE OthersAreUnseen(StoreUsers, data) /\ PagesAreTheList(StoreUsers, data, 1..3)
        BY DEF AnswersOfStore, PagesOfStore
      <3>1. data \in Seq(StoreCalls)
        BY DEF InputTyped, Alphabet
      <3>2. data \in Seq(UserCalls(StoreUsers))
        BY <3>1, StoreCallsAre, WiderSequences
      <3> QED
        BY <3>2, OthersUnseen, PagesComplete
    <2>2. SessionsOfBrowsers
      <3> SUFFICES ASSUME topic = "accounts", NEW domain \in {"localhost", "app"}
                   PROVE  RefreshIsOfSession(Browsers, data, domain)
        BY DEF SessionsOfBrowsers
      <3>1. data \in Seq(AccountCalls)
        BY DEF InputTyped, Alphabet
      <3>2. data \in Seq(AccountCallsOf(Browsers, Emails, {"p", "wrong"}))
        BY <3>1, AccountCallsAre, WiderSequences
      <3> QED
        BY <3>2, SessionsAreKept, NoneIsNoAccount
    <2> QED
      BY <2>1, <2>2 DEF UsersAreApart
  <1> QED
    BY <1>1, InputsTyped, PTL

-----------------------------------------------------------------------------
\* Traces

\* A request joins the trace its caller sent, the root's first, and no other.
THEOREM TracesAreJoined ==
  ASSUME NEW ids, NEW flags, NEW baggages, None \notin BOOLEAN \cup JoinedTraces(ids, baggages),
         NEW body, body.parsed \in BOOLEAN,
         body.root \in TraceMetas(ids, flags, baggages), body.params \in TraceMetas(ids, flags, baggages), None \in baggages
  PROVE  TraceIsJoined(body)
  <1> DEFINE Empty == [w3c |-> FALSE, id |-> "", flags |-> ""]
             root == Field(body.root, "traceparent")
             carried == IF root # None THEN root ELSE Field(body.params, "traceparent")
             joined == joinedTrace(body)
             meta == readMetaTrace(body)
             Own == {None} \cup [w3c : BOOLEAN, id : ids, flags : flags]
  <1>1. ASSUME NEW m \in TraceMetas(ids, flags, baggages)
        PROVE  Field(m, "traceparent") \in Own /\ Field(m, "baggage") \in baggages
    <2>1. CASE m = None
      BY <2>1 DEF Field
    <2>2. CASE m # None
      <3>1. m \in [traceparent : Own, baggage : baggages]
        BY <2>2 DEF TraceMetas
      <3> HIDE DEF Own
      <3>2. m.traceparent \in Own /\ m.baggage \in baggages
        BY <3>1
      <3> QED
        BY <2>2, <3>2 DEF Field
    <2> QED
      BY <2>1, <2>2
  <1>2. carried \in Own /\ Field(body.root, "baggage") \in baggages /\ Field(body.params, "baggage") \in baggages
    BY <1>1
  <1> HIDE DEF joined, meta, Empty, Own
  <1>3. /\ ~body.parsed => meta.traceparent = None
        /\ body.parsed => /\ meta.traceparent = carried
                          /\ meta.baggage = OrElse(Field(body.root, "baggage"), Field(body.params, "baggage"))
    BY DEF meta, readMetaTrace, OrElse
  <1> HIDE DEF carried
  <1>4. joined = IF meta.traceparent = None \/ meta.traceparent = Empty THEN None
                 ELSE [trace |-> traceFromTraceparent(meta.traceparent), baggage |-> meta.baggage]
    BY DEF joined, joinedTrace, meta, Empty
  <1>5. CASE ~body.parsed \/ carried = None \/ carried = Empty
    <2>1. joined = None
      BY <1>3, <1>4, <1>5
    <2> QED
      BY <1>5, <2>1 DEF TraceIsJoined, joined, carried, Empty
  <1>6. CASE body.parsed /\ carried # None /\ carried # Empty
    <2> DEFINE trace == traceFromTraceparent(carried)
    <2>1. joined = [trace |-> trace, baggage |-> meta.baggage]
      BY <1>3, <1>4, <1>6
    <2>2. carried \in [w3c : BOOLEAN, id : ids, flags : flags]
      BY <1>2, <1>6 DEF Own
    <2>3. trace = [id |-> carried.id, sampled |-> IF carried.w3c THEN carried.flags = "01" ELSE None]
      BY <2>2 DEF traceFromTraceparent
    <2>4. trace.id = carried.id /\ trace \in [id : ids, sampled : BOOLEAN \cup {None}]
      BY <2>2, <2>3
    <2>5. trace.sampled = TRUE => carried.flags = "01"
      <3>1. CASE carried.w3c
        <4>1. trace.sampled = (carried.flags = "01")
          BY <2>3, <3>1
        <4> QED
          BY <4>1
      <3>2. CASE ~carried.w3c
        <4>1. trace.sampled = None
          BY <2>3, <3>2
        <4> QED
          BY <4>1
      <3> QED
        BY <3>1, <3>2
    <2>6. meta.baggage \in baggages /\ meta.baggage \in {Field(body.root, "baggage"), Field(body.params, "baggage")}
          /\ (meta.baggage = None => Field(body.params, "baggage") = None)
      BY <1>2, <1>3, <1>6 DEF OrElse
    <2> HIDE DEF trace
    <2>7. joined # None
      BY <2>1, <2>4, <2>6 DEF JoinedTraces
    <2>8. joined.trace = trace /\ joined.baggage = meta.baggage
      BY <2>1
    <2>9. /\ joined # None /\ joined.trace.id = carried.id /\ (joined.trace.sampled = TRUE => carried.flags = "01")
          /\ joined.baggage \in {Field(body.root, "baggage"), Field(body.params, "baggage")}
          /\ (joined.baggage = None => Field(body.params, "baggage") = None)
      BY <2>4, <2>5, <2>6, <2>7, <2>8
    <2> QED
      BY <1>6, <2>9 DEF TraceIsJoined, joined, carried, Empty
  <1> QED
    BY <1>5, <1>6

-----------------------------------------------------------------------------
\* The backend's environment

LEMMA CommonVariablesAre ==
  /\ Len(commonVariables) = 16
  /\ ToSet(commonVariables) =
       {"ACCESS_TOKEN_SECRET", "REFRESH_TOKEN_SECRET", "MONGO_URI", "MONGO_DB_NAME",
        "MAX_DB_RETRIES", "DB_RETRY_DELAY_MS", "MONGO_USER_COLLECTION_NAME",
        "MONGO_JOBS_COLLECTION_NAME", "MONGO_MCP_CONVERSATIONS_COLLECTION_NAME",
        "OPENROUTER_API_KEY", "OPENROUTER_MODEL", "MCP_SERVER_URL", "ENABLE_HTTP_RATE_LIMIT",
        "ENABLE_LOGGING", "ENABLE_REGISTRATION", "PORT"}
  BY DEF commonVariables, ToSet

ReadVariables(nodeEnv) == environmentVariables(nodeEnv) \o commonVariables

\* What of two sequences is in their concatenation.
LEMMA ConcatSet ==
  ASSUME NEW V, NEW s \in Seq(V), NEW u \in Seq(V)
  PROVE  ToSet(s \o u) = ToSet(s) \cup ToSet(u)
  <1> DEFINE w == s \o u
             m == Len(s)
             n == Len(u)
  <1>1. /\ m \in Nat /\ n \in Nat /\ DOMAIN s = 1..m /\ DOMAIN u = 1..n /\ DOMAIN w = 1..(m + n)
        /\ \A i \in 1..m : w[i] = s[i]
        /\ \A i \in 1..n : w[i + m] = u[i]
    OBVIOUS
  <1> HIDE DEF w, m, n
  <1>2. /\ \A i \in 1..m : i \in 1..(m + n)
        /\ \A i \in 1..n : i + m \in 1..(m + n)
        /\ \A i \in 1..(m + n) : i \in 1..m \/ (i - m \in 1..n /\ (i - m) + m = i)
    BY <1>1
  <1>3. \A x \in ToSet(w) : x \in ToSet(s) \cup ToSet(u)
    <2> SUFFICES ASSUME NEW i \in 1..(m + n) PROVE w[i] \in ToSet(s) \cup ToSet(u)
      BY <1>1 DEF ToSet
    <2>1. CASE i \in 1..m
      BY <1>1, <2>1 DEF ToSet
    <2>2. CASE i \notin 1..m
      <3>1. i - m \in 1..n /\ w[i] = u[i - m]
        BY <1>1, <1>2, <2>2
      <3> QED
        BY <1>1, <3>1 DEF ToSet
    <2> QED
      BY <2>1, <2>2
  <1>4. \A x \in ToSet(s) : x \in ToSet(w)
    <2> SUFFICES ASSUME NEW i \in 1..m PROVE s[i] \in ToSet(w)
      BY <1>1 DEF ToSet
    <2>1. i \in DOMAIN w /\ w[i] = s[i]
      BY <1>1, <1>2
    <2> QED
      BY <2>1 DEF ToSet
  <1>5. \A x \in ToSet(u) : x \in ToSet(w)
    <2> SUFFICES ASSUME NEW i \in 1..n PROVE u[i] \in ToSet(w)
      BY <1>1 DEF ToSet
    <2>1. i + m \in DOMAIN w /\ w[i + m] = u[i]
      BY <1>1, <1>2
    <2> QED
      BY <2>1 DEF ToSet
  <1> QED
    BY <1>3, <1>4, <1>5 DEF w

\* The variables that are read, of which there are those of the environment.
LEMMA ReadVariablesAre ==
  ASSUME NEW nodeEnv
  PROVE  /\ ReadVariables(nodeEnv) \in Seq(ToSet(ReadVariables(nodeEnv)))
         /\ ToSet(ReadVariables(nodeEnv)) = ToSet(environmentVariables(nodeEnv)) \cup ToSet(commonVariables)
  <1> DEFINE own == environmentVariables(nodeEnv)
             V == ToSet(own) \cup ToSet(commonVariables)
  <1>1. own = <<own[1], own[2]>>
    BY DEF environmentVariables
  <1>2. own \in Seq(V)
    <2>1. own[1] \in ToSet(own) /\ own[2] \in ToSet(own)
      <3> HIDE DEF own
      <3>1. DOMAIN <<own[1], own[2]>> = 1..2
        OBVIOUS
      <3> QED
        BY <1>1, <3>1 DEF ToSet
    <2> HIDE DEF own
    <2>2. <<own[1], own[2]>> \in Seq(V)
      BY <2>1
    <2> QED
      BY <1>1, <2>2
  <1>3. commonVariables \in Seq(V)
    <2>1. /\ commonVariables = [i \in 1..16 |-> commonVariables[i]]
          /\ \A i \in 1..16 : commonVariables[i] \in ToSet(commonVariables)
      <3>1. DOMAIN commonVariables = 1..16 /\ commonVariables = [i \in 1..16 |-> commonVariables[i]]
        BY DEF commonVariables
      <3> QED
        BY <3>1 DEF ToSet
    <2> QED
      BY <2>1, FunctionsAreSequences
  <1> HIDE DEF own
  <1>4. own \o commonVariables \in Seq(V) /\ ToSet(own \o commonVariables) = V
    <2>1. ToSet(own \o commonVariables) = V
      BY <1>2, <1>3, ConcatSet
    <2>2. own \o commonVariables \in Seq(V)
      <3> HIDE DEF V
      <3> QED
        BY <1>2, <1>3
    <2> QED
      BY <2>1, <2>2
  <1> QED
    BY <1>4 DEF ReadVariables, own

\* An environment that is accepted has every variable that is read accepted; and only those matter.
LEMMA ConfigIs ==
  ASSUME NEW nodeEnv, NEW env
  PROVE  LET found == config(nodeEnv, env) IN
         found.ok => /\ \A v \in ToSet(ReadVariables(nodeEnv)) : checked(v, env[v]).ok
                     /\ found.values = [v \in ToSet(ReadVariables(nodeEnv)) |-> checked(v, env[v]).value]
  <1> DEFINE found == config(nodeEnv, env)
             names == ReadVariables(nodeEnv)
             faulty == {i \in DOMAIN names : ~checked(names[i], env[names[i]]).ok}
  <1>1. found = IF nodeEnv \notin {"development", "production"}
                THEN [ok |-> FALSE, issue |-> "NODE_ENV", values |-> <<>>]
                ELSE IF faulty # {} THEN [ok |-> FALSE, issue |-> names[Min(faulty)], values |-> <<>>]
                ELSE [ok |-> TRUE, issue |-> None, values |-> [v \in ToSet(names) |-> checked(v, env[v]).value]]
    BY DEF config, ReadVariables
  <1> HIDE DEF found, names
  <1>2. SUFFICES ASSUME found.ok
                 PROVE  /\ \A v \in ToSet(names) : checked(v, env[v]).ok
                        /\ found.values = [v \in ToSet(names) |-> checked(v, env[v]).value]
    BY DEF found, names
  <1>3. faulty = {} /\ found.values = [v \in ToSet(names) |-> checked(v, env[v]).value]
    BY <1>1, <1>2
  <1> QED
    BY <1>3 DEF ToSet

LEMMA ConfigReads ==
  ASSUME NEW nodeEnv, NEW env, NEW env2, \A v \in ToSet(ReadVariables(nodeEnv)) : env2[v] = env[v]
  PROVE  config(nodeEnv, env2) = config(nodeEnv, env)
  <1> DEFINE names == ReadVariables(nodeEnv)
             Refusals(e) == {i \in DOMAIN names : ~checked(names[i], e[names[i]]).ok}
             Values(e) == [v \in ToSet(names) |-> checked(v, e[v]).value]
  <1>1. \A e : config(nodeEnv, e) =
                IF nodeEnv \notin {"development", "production"}
                THEN [ok |-> FALSE, issue |-> "NODE_ENV", values |-> <<>>]
                ELSE IF Refusals(e) # {} THEN [ok |-> FALSE, issue |-> names[Min(Refusals(e))], values |-> <<>>]
                ELSE [ok |-> TRUE, issue |-> None, values |-> Values(e)]
    BY DEF config, ReadVariables
  <1> HIDE DEF names
  <1>2. \A i \in DOMAIN names : names[i] \in ToSet(names)
    BY DEF ToSet
  <1>3. Refusals(env2) = Refusals(env) /\ Values(env2) = Values(env)
    BY <1>2 DEF names
  <1> HIDE DEF Refusals, Values
  <1> QED
    BY <1>1, <1>3

LEMMA NaturalIs ==
  ASSUME NEW raw, NEW least \in Nat, NEW most \in Nat, NEW default \in Nat,
         natural(raw, least, most, default).ok
  PROVE  LET n == natural(raw, least, most, default).value IN
         /\ n = default \/ n \in least..most
         /\ raw.kind = "blank" => least = 0
  <1> DEFINE result == natural(raw, least, most, default)
  <1>1. /\ ~IsSet(raw) => result = [ok |-> TRUE, value |-> default]
        /\ IsSet(raw) /\ coerced(raw) # None /\ coerced(raw) \in least..most => result = [ok |-> TRUE, value |-> coerced(raw)]
        /\ IsSet(raw) /\ ~(coerced(raw) # None /\ coerced(raw) \in least..most) => result = [ok |-> FALSE, value |-> None]
    BY DEF natural, Result, Rejected
  <1> HIDE DEF result
  <1>2. result.ok
    BY DEF result
  <1>3. raw.kind = "blank" => IsSet(raw) /\ coerced(raw) = 0
    BY DEF IsSet, coerced
  <1>4. CASE ~IsSet(raw)
    BY <1>1, <1>3, <1>4 DEF result
  <1>5. CASE IsSet(raw)
    <2>1. coerced(raw) # None /\ coerced(raw) \in least..most /\ result.value = coerced(raw)
      BY <1>1, <1>2, <1>5
    <2> QED
      BY <1>3, <2>1 DEF result
  <1> QED
    BY <1>4, <1>5

\* Whatever the environment, the backend starts only with values its parts can run on, and what
\* another NODE_ENV would need changes nothing (config/index.ts, utils and schemas).
THEOREM BackendsRunOnTheirConfig ==
  ASSUME NEW nodeEnv, NEW env, NEW other, ToSet(ReadVariables(nodeEnv)) \subseteq DOMAIN env
  PROVE  BackendRunsOnItsConfig(nodeEnv, env, other)
  <1> DEFINE found == config(nodeEnv, env)
             names == ToSet(ReadVariables(nodeEnv))
             away == ToSet(environmentVariables(other)) \ ToSet(environmentVariables(nodeEnv))
             env2 == [v \in DOMAIN env |-> IF v \in away THEN Raw("unset") ELSE env[v]]
  <1>1. names = ToSet(environmentVariables(nodeEnv)) \cup ToSet(commonVariables)
    BY ReadVariablesAre
  <1>2. {"MAX_DB_RETRIES", "DB_RETRY_DELAY_MS", "PORT"} \subseteq names
    BY <1>1, CommonVariablesAre
  <1>3. away \cap names = {}
    <2>1. ToSet(environmentVariables(other)) \subseteq {"DEV_CLIENT_URL", "DEV_DOMAIN", "PROD_CLIENT_URL", "PROD_DOMAIN"}
      BY DEF environmentVariables, ToSet
    <2>2. ToSet(environmentVariables(other)) \cap ToSet(commonVariables) = {}
      BY <2>1, CommonVariablesAre
    <2> QED
      BY <1>1, <2>2
  <1> HIDE DEF found, names, away
  <1>4. config(nodeEnv, env2) = found
    <2>1. \A v \in names : env2[v] = env[v]
      BY <1>3 DEF names
    <2> HIDE DEF env2
    <2> QED
      BY <2>1, ConfigReads DEF names, found
  <1>5. ASSUME found.ok
        PROVE  /\ found.values["MAX_DB_RETRIES"] >= 1 /\ found.values["DB_RETRY_DELAY_MS"] >= 1
               /\ found.values["PORT"] \in 1..MaxPort
               /\ \A v \in DOMAIN found.values : v \notin DOMAIN [f \in Flags |-> 0] \/ found.values[v] \in BOOLEAN
               /\ \A v \in {"MAX_DB_RETRIES", "DB_RETRY_DELAY_MS", "PORT"} : env[v].kind # "blank"
    <2>1. \A v \in names : checked(v, env[v]).ok
      BY <1>5, ConfigIs DEF found, names
    <2>2. found.values = [v \in names |-> checked(v, env[v]).value]
      BY <1>5, ConfigIs DEF found, names
    <2>3. /\ checked("MAX_DB_RETRIES", env["MAX_DB_RETRIES"]) = natural(env["MAX_DB_RETRIES"], 1, MaxNumber, 3)
          /\ checked("DB_RETRY_DELAY_MS", env["DB_RETRY_DELAY_MS"]) = natural(env["DB_RETRY_DELAY_MS"], 1, MaxNumber, 5000)
          /\ checked("PORT", env["PORT"]) = natural(env["PORT"], 1, MaxPort, 1000)
      BY DEF checked, Required, Urls, Flags
    <2>4. MaxNumber \in Nat
      BY DEF MaxNumber
    <2>5. \A raw : \A most, default \in Nat : natural(raw, 1, most, default).ok =>
            /\ natural(raw, 1, most, default).value = default \/ natural(raw, 1, most, default).value \in 1..most
            /\ raw.kind # "blank"
      BY NaturalIs
    <2>6. \A v \in names : v \in Flags => found.values[v] \in BOOLEAN
      <3> SUFFICES ASSUME NEW v \in names, v \in Flags PROVE found.values[v] \in BOOLEAN
        OBVIOUS
      <3>1. checked(v, env[v]) = flag(env[v])
        BY DEF checked, Required, Urls, Flags
      <3>2. flag(env[v]).ok
        BY <2>1, <3>1
      <3>3. flag(env[v]) = IF env[v].kind = "flag" THEN [ok |-> TRUE, value |-> env[v].number = 1]
                           ELSE [ok |-> FALSE, value |-> None]
        BY DEF flag, Result, Rejected
      <3>5. env[v].kind = "flag"
        BY <3>2, <3>3
      <3>6. flag(env[v]).value = (env[v].number = 1)
        BY <3>3, <3>5
      <3>4. flag(env[v]).value \in BOOLEAN
        BY <3>6, Zenon
      <3> QED
        BY <2>2, <3>1, <3>4
    <2>7. /\ found.values["MAX_DB_RETRIES"] >= 1 /\ env["MAX_DB_RETRIES"].kind # "blank"
      <3> DEFINE n == natural(env["MAX_DB_RETRIES"], 1, MaxNumber, 3)
      <3>1. n.ok /\ found.values["MAX_DB_RETRIES"] = n.value
        BY <1>2, <2>1, <2>2, <2>3
      <3>2. (n.value = 3 \/ n.value \in 1..MaxNumber) /\ env["MAX_DB_RETRIES"].kind # "blank"
        BY <3>1, <2>4, <2>5
      <3> HIDE DEF n
      <3> QED
        BY <2>4, <3>1, <3>2
    <2>8. /\ found.values["DB_RETRY_DELAY_MS"] >= 1 /\ env["DB_RETRY_DELAY_MS"].kind # "blank"
      <3> DEFINE n == natural(env["DB_RETRY_DELAY_MS"], 1, MaxNumber, 5000)
      <3>1. n.ok /\ found.values["DB_RETRY_DELAY_MS"] = n.value
        BY <1>2, <2>1, <2>2, <2>3
      <3>2. (n.value = 5000 \/ n.value \in 1..MaxNumber) /\ env["DB_RETRY_DELAY_MS"].kind # "blank"
        BY <3>1, <2>4, <2>5
      <3> HIDE DEF n
      <3> QED
        BY <2>4, <3>1, <3>2
    <2>9. found.values["PORT"] \in 1..MaxPort /\ env["PORT"].kind # "blank"
      <3> DEFINE n == natural(env["PORT"], 1, MaxPort, 1000)
      <3>1. n.ok /\ found.values["PORT"] = n.value
        BY <1>2, <2>1, <2>2, <2>3
      <3>2. MaxPort \in Nat /\ 1000 <= MaxPort
        BY DEF MaxPort
      <3>3. (n.value = 1000 \/ n.value \in 1..MaxPort) /\ env["PORT"].kind # "blank"
        BY <3>1, <3>2, <2>5
      <3> HIDE DEF n
      <3> QED
        BY <3>1, <3>2, <3>3
    <2>10. DOMAIN found.values = names /\ DOMAIN [f \in Flags |-> 0] = Flags
      BY <2>2
    <2>11. \A v \in DOMAIN found.values : v \notin DOMAIN [f \in Flags |-> 0] \/ found.values[v] \in BOOLEAN
      BY <2>6, <2>10
    <2>12. \A v \in {"MAX_DB_RETRIES", "DB_RETRY_DELAY_MS", "PORT"} : env[v].kind # "blank"
      BY <2>7, <2>8, <2>9
    <2> QED
      BY <2>7, <2>8, <2>9, <2>11, <2>12, Zenon
  <1>6. BackendRunsOnItsConfig(nodeEnv, env, other) =
          /\ found.ok =>
               /\ found.values["MAX_DB_RETRIES"] >= 1 /\ found.values["DB_RETRY_DELAY_MS"] >= 1
               /\ found.values["PORT"] \in 1..MaxPort
               /\ \A v \in DOMAIN found.values : v \notin DOMAIN [f \in Flags |-> 0] \/ found.values[v] \in BOOLEAN
               /\ \A v \in {"MAX_DB_RETRIES", "DB_RETRY_DELAY_MS", "PORT"} : env[v].kind # "blank"
          /\ config(nodeEnv, env2) = found
    BY DEF BackendRunsOnItsConfig, found, away
  <1> HIDE DEF env2
  <1> QED
    BY <1>4, <1>5, <1>6, Zenon

-----------------------------------------------------------------------------
\* The MCP server's environment

LEMMA SequenceIs ==
  ASSUME NEW V, NEW s \in Seq(V)
  PROVE  /\ Len(s) \in Nat /\ DOMAIN s = 1..Len(s) /\ s = [i \in 1..Len(s) |-> s[i]]
         /\ \A i \in 1..Len(s) : s[i] \in V
  OBVIOUS

\* The parts of a list that are not blank, of which some are kept.
LEMMA HostListIs ==
  ASSUME NEW V, NEW raw, raw.parts \in Seq(V)
  PROVE  LET hosts == parseHostList(raw) IN
         hosts # None => /\ ~IsBlank(raw) /\ hosts # <<>> /\ ToSet(hosts) \subseteq ToSet(raw.parts)
                         /\ "" \notin ToSet(hosts)
  <1> DEFINE S == V \ {""}
             s == raw.parts
             items == Sub(s, S)
  <1>1. parseHostList(raw) = IF IsBlank(raw) \/ items = <<>> THEN None ELSE items
    <2>1. {i \in DOMAIN s : s[i] # ""} = {i \in DOMAIN s : s[i] \in S}
      <3>1. \A i \in DOMAIN s : s[i] \in V
        OBVIOUS
      <3> HIDE DEF s
      <3> QED
        BY <3>1
    <2>2. Where(s, LAMBDA part : part # "") = items
      BY <2>1 DEF Where, Sub
    <2> QED
      BY <2>2 DEF parseHostList
  <1>2. items \in Seq(V \cap S)
    BY SubIsIn
  <1>3. "" \notin ToSet(items)
    <2> DEFINE I == V \cap S
    <2>3. items \in Seq(I) /\ "" \notin I
      BY <1>2
    <2> HIDE DEF items, I
    <2>1. \A i \in DOMAIN items : items[i] \in I
      BY <2>3, SequenceIs
    <2>2. \A i \in DOMAIN items : items[i] # ""
      BY <2>1, <2>3
    <2> QED
      BY <2>2, Zenon DEF ToSet
  <1>4. ToSet(items) \subseteq ToSet(s)
    <2> DEFINE T == ToSet(s)
    <2>1. s \in Seq(T)
      <3>1. \A i \in 1..Len(s) : s[i] \in T
        BY DEF ToSet
      <3>2. s = [i \in 1..Len(s) |-> s[i]] /\ Len(s) \in Nat
        OBVIOUS
      <3> HIDE DEF s, T
      <3> QED
        BY <3>1, <3>2, FunctionsAreSequences
    <2> HIDE DEF T
    <2>2. items \in Seq(T)
      BY <2>1, SubTyped
    <2> HIDE DEF items
    <2>3. ToSet(items) \subseteq T
      BY <2>2 DEF ToSet
    <2> QED
      BY <2>3 DEF T
  <1> HIDE DEF items, s
  <1>5. parseHostList(raw) # None => ~IsBlank(raw) /\ items # <<>> /\ parseHostList(raw) = items
    BY <1>1
  <1> QED
    BY <1>3, <1>4, <1>5 DEF s

\* Whatever the environment and the host, the MCP server that starts has a list of hosts, and
\* off loopback it is one that was written (mcp-backend/src/config/env).
THEOREM HostsOfServersAreListed ==
  ASSUME NEW V, NEW host, NEW env, env["MCP_ALLOWED_HOSTS"].parts \in Seq(V)
  PROVE  HostsAreListed(host, env)
  <1> DEFINE raw == env["MCP_ALLOWED_HOSTS"]
             hosts == parseHostList(raw)
             loaded == loadConfig(host, env)
             listed == OrElse(hosts, LoopbackHosts)
  <1>1. SUFFICES ASSUME loaded.issues = {}
                 PROVE  /\ loaded.config.MCP_ALLOWED_HOSTS # <<>>
                        /\ ~isLoopback(host) => ToSet(loaded.config.MCP_ALLOWED_HOSTS) \subseteq ToSet(raw.parts)
                        /\ "" \notin ToSet(loaded.config.MCP_ALLOWED_HOSTS)
    BY Zenon DEF HostsAreListed
  <1>2. isLoopback(host) \/ hosts # None
    <2> DEFINE refinements == Refinements(host, env)
    <2>1. /\ DOMAIN refinements = {"HOST", "PORT", "MCP_ALLOWED_HOSTS", "SENTRY_DSN",
                                   "SENTRY_TRACES_SAMPLE_RATE", "SHUTDOWN_TIMEOUT_MS"}
          /\ refinements["MCP_ALLOWED_HOSTS"] = (isLoopback(host) \/ hosts # None)
      BY DEF Refinements
    <2>2. loaded.issues = {v \in DOMAIN refinements : ~refinements[v]}
      BY DEF loadConfig
    <2> HIDE DEF refinements, loaded, hosts
    <2>3. refinements["MCP_ALLOWED_HOSTS"]
      BY <1>1, <2>1, <2>2
    <2> QED
      BY <2>1, <2>3
  <1>3. loaded.config.MCP_ALLOWED_HOSTS = listed
    <2>1. loaded.config = toConfig(host, env)
      BY <1>1 DEF loadConfig
    <2>2. toConfig(host, env).MCP_ALLOWED_HOSTS = listed
      BY DEF toConfig
    <2> QED
      BY <2>1, <2>2
  <1>4. LoopbackHosts # <<>> /\ "" \notin ToSet(LoopbackHosts)
    <2>1. LoopbackHosts = <<LoopbackHosts[1], LoopbackHosts[2], LoopbackHosts[3]>>
      BY DEF LoopbackHosts
    <2>2. LoopbackHosts[1] # "" /\ LoopbackHosts[2] # "" /\ LoopbackHosts[3] # ""
      BY DEF LoopbackHosts
    <2>3. DOMAIN LoopbackHosts = {1, 2, 3}
      BY <2>1
    <2>4. LoopbackHosts # <<>>
      BY <2>3
    <2>5. \A i \in DOMAIN LoopbackHosts : LoopbackHosts[i] # ""
      BY <2>2, <2>3
    <2> QED
      BY <2>4, <2>5, Zenon DEF ToSet
  <1>5. hosts # None => hosts # <<>> /\ ToSet(hosts) \subseteq ToSet(raw.parts) /\ "" \notin ToSet(hosts)
    BY HostListIs
  <1>6. listed = IF hosts = None THEN LoopbackHosts ELSE hosts
    BY DEF OrElse
  <1> HIDE DEF listed, hosts, loaded, raw
  <1> QED
    BY <1>2, <1>3, <1>4, <1>5, <1>6

-----------------------------------------------------------------------------
\* Modules of the MCP server

\* The modules over some names, and what they list.
ModulesOver(names, tools, resourceNames, uris) ==
  [name : names, toolNames : Seq(tools), resources : Seq([name : resourceNames, uri : uris])]

ResourcesOver(names, resourceNames, uris) == [domain : names, name : resourceNames, uri : uris]

\* A module's resources as the server lists them.
ListedBy(module) ==
  Mapped(LAMBDA r : [domain |-> module.name, name |-> r.name, uri |-> r.uri], module.resources)

\* Two of its resources have one name.
NamesRepeat(module) == ~IsInjective(Mapped(LAMBDA r : r.name, module.resources))

LEMMA ListedByIs ==
  ASSUME NEW N, NEW T, NEW R, NEW U, NEW module \in ModulesOver(N, T, R, U)
  PROVE  /\ ListedBy(module) \in Seq(ResourcesOver(N, R, U))
         /\ \A i \in DOMAIN ListedBy(module) : ListedBy(module)[i].domain = module.name
         /\ HasDuplicates(ListedBy(module)) <=> NamesRepeat(module)
  <1> DEFINE s == ListedBy(module)
             own == module.resources
             names == Mapped(LAMBDA r : r.name, own)
             n == Len(own)
  <1>1. module.name \in N /\ own \in Seq([name : R, uri : U])
    BY DEF ModulesOver
  <1>2. n \in Nat /\ DOMAIN own = 1..n /\ \A i \in 1..n : own[i] \in [name : R, uri : U]
    <2> HIDE DEF own
    <2> DEFINE X == [name : R, uri : U]
    <2> HIDE DEF X
    <2>1. own \in Seq(X)
      BY <1>1 DEF X
    <2>2. n \in Nat /\ DOMAIN own = 1..n /\ \A i \in 1..n : own[i] \in X
      BY <2>1, SequenceIs
    <2> QED
      BY <2>2 DEF X
  <1>3. s = [i \in 1..n |-> [domain |-> module.name, name |-> own[i].name, uri |-> own[i].uri]]
        /\ names = [i \in 1..n |-> own[i].name]
    BY <1>2 DEF ListedBy, Mapped
  <1> HIDE DEF own, n, s, names
  <1>4. \A i \in 1..n : s[i] \in ResourcesOver(N, R, U) /\ s[i].domain = module.name /\ s[i].name = names[i]
    BY <1>1, <1>2, <1>3 DEF ResourcesOver
  <1>5. s \in Seq(ResourcesOver(N, R, U)) /\ DOMAIN s = 1..n /\ DOMAIN names = 1..n
    <2>1. s = [i \in 1..n |-> s[i]] /\ DOMAIN s = 1..n /\ DOMAIN names = 1..n
      BY <1>3
    <2> QED
      BY <2>1, <1>2, <1>4, FunctionsAreSequences
  <1>6. \A i, j \in 1..n : Key(s[i]) = Key(s[j]) <=> names[i] = names[j]
    BY <1>4 DEF Key
  <1>7. HasDuplicates(s) <=> ~IsInjective(names)
    BY <1>5, <1>6 DEF HasDuplicates, IsInjective
  <1> QED
    BY <1>4, <1>5, <1>7 DEF s, own, names, NamesRepeat

\* Two sequences of different domains have no duplicates but their own.
LEMMA DuplicatesOfParts ==
  ASSUME NEW D, NEW s \in Seq(D), NEW u \in Seq(D),
         \A x \in ToSet(s), y \in ToSet(u) : Key(x) # Key(y)
  PROVE  HasDuplicates(s \o u) <=> HasDuplicates(s) \/ HasDuplicates(u)
  <1> DEFINE w == s \o u
             m == Len(s)
             n == Len(u)
  <1>1. /\ m \in Nat /\ n \in Nat /\ DOMAIN s = 1..m /\ DOMAIN u = 1..n /\ DOMAIN w = 1..(m + n)
        /\ \A i \in 1..m : w[i] = s[i]
        /\ \A i \in 1..n : w[i + m] = u[i]
    OBVIOUS
  <1> HIDE DEF w, m, n
  <1>2. /\ \A i \in 1..m : i \in 1..(m + n)
        /\ \A i \in 1..n : i + m \in 1..(m + n)
        /\ \A i \in 1..(m + n) : i \notin 1..m => i - m \in 1..n /\ (i - m) + m = i
        /\ \A i, j \in 1..n : i # j => i + m # j + m
    BY <1>1
  <1>3. \A i \in 1..m, j \in 1..n : Key(s[i]) # Key(u[j])
    BY <1>1 DEF ToSet
  <1>4. ASSUME HasDuplicates(s) PROVE HasDuplicates(w)
    <2>1. PICK i, j \in 1..m : i # j /\ Key(s[i]) = Key(s[j])
      BY <1>1, <1>4 DEF HasDuplicates
    <2>2. i \in DOMAIN w /\ j \in DOMAIN w /\ Key(w[i]) = Key(w[j])
      BY <1>1, <1>2, <2>1
    <2> QED
      BY <2>1, <2>2 DEF HasDuplicates
  <1>5. ASSUME HasDuplicates(u) PROVE HasDuplicates(w)
    <2>1. PICK i, j \in 1..n : i # j /\ Key(u[i]) = Key(u[j])
      BY <1>1, <1>5 DEF HasDuplicates
    <2>2. i + m \in DOMAIN w /\ j + m \in DOMAIN w /\ i + m # j + m /\ Key(w[i + m]) = Key(w[j + m])
      BY <1>1, <1>2, <2>1
    <2> QED
      BY <2>2 DEF HasDuplicates
  <1>6. ASSUME HasDuplicates(w) PROVE HasDuplicates(s) \/ HasDuplicates(u)
    <2>1. PICK i, j \in 1..(m + n) : i # j /\ Key(w[i]) = Key(w[j])
      BY <1>1, <1>6 DEF HasDuplicates
    <2>2. CASE i \in 1..m /\ j \in 1..m
      BY <1>1, <2>1, <2>2 DEF HasDuplicates
    <2>3. CASE i \notin 1..m /\ j \notin 1..m
      <3>1. i - m \in 1..n /\ j - m \in 1..n /\ w[i] = u[i - m] /\ w[j] = u[j - m] /\ i - m # j - m
        BY <1>1, <1>2, <2>1, <2>3
      <3> QED
        BY <1>1, <2>1, <3>1 DEF HasDuplicates
    <2>4. CASE i \in 1..m /\ j \notin 1..m
      <3>1. j - m \in 1..n /\ w[j] = u[j - m] /\ w[i] = s[i]
        BY <1>1, <1>2, <2>4
      <3> QED
        BY <1>3, <2>1, <2>4, <3>1
    <2>5. CASE i \notin 1..m /\ j \in 1..m
      <3>1. i - m \in 1..n /\ w[i] = u[i - m] /\ w[j] = s[j]
        BY <1>1, <1>2, <2>5
      <3> QED
        BY <1>3, <2>1, <2>5, <3>1
    <2> QED
      BY <2>2, <2>3, <2>4, <2>5
  <1> QED
    BY <1>4, <1>5, <1>6 DEF w

\* What the server lists has duplicates when one of its modules lists them, if no two modules
\* share a name.
LEMMA DuplicatesOfModules ==
  ASSUME NEW N, NEW T, NEW R, NEW U, NEW modules \in Seq(ModulesOver(N, T, R, U)),
         \A i, j \in DOMAIN modules : i # j => modules[i].name # modules[j].name
  PROVE  /\ AllResources(modules) \in Seq(ResourcesOver(N, R, U))
         /\ HasDuplicates(AllResources(modules)) <=> \E m \in DOMAIN modules : HasDuplicates(ListedBy(modules[m]))
  <1> DEFINE D == ResourcesOver(N, R, U)
             w == [m \in DOMAIN modules |-> ListedBy(modules[m])]
             n == Len(modules)
  <1>1. AllResources(modules) = FlattenSeq(w)
    BY DEF AllResources, Mapped, ListedBy
  <1>2. n \in Nat /\ DOMAIN modules = 1..n /\ w = [m \in 1..n |-> w[m]]
        /\ \A m \in 1..n : modules[m] \in ModulesOver(N, T, R, U) /\ w[m] = ListedBy(modules[m])
    OBVIOUS
  <1> HIDE DEF w, n, D
  <1>3. \A m \in 1..n : w[m] \in Seq(D) /\ \A i \in DOMAIN w[m] : w[m][i].domain = modules[m].name
    <2> SUFFICES ASSUME NEW m \in 1..n
                 PROVE  w[m] \in Seq(D) /\ \A i \in DOMAIN w[m] : w[m][i].domain = modules[m].name
      OBVIOUS
    <2>1. modules[m] \in ModulesOver(N, T, R, U) /\ w[m] = ListedBy(modules[m])
      BY <1>2
    <2>2. /\ ListedBy(modules[m]) \in Seq(ResourcesOver(N, R, U))
          /\ \A i \in DOMAIN ListedBy(modules[m]) : ListedBy(modules[m])[i].domain = modules[m].name
          /\ HasDuplicates(ListedBy(modules[m])) <=> NamesRepeat(modules[m])
      <3> DEFINE module == modules[m]
      <3> HIDE DEF module
      <3>1. /\ ListedBy(module) \in Seq(ResourcesOver(N, R, U))
            /\ \A i \in DOMAIN ListedBy(module) : ListedBy(module)[i].domain = module.name
            /\ HasDuplicates(ListedBy(module)) <=> NamesRepeat(module)
        BY <2>1, ListedByIs DEF module
      <3> QED
        BY <3>1 DEF module
    <2> QED
      BY <2>1, <2>2 DEF D
  <1>4. w \in Seq(Seq(D)) /\ Len(w) = n
    BY <1>2, <1>3, FunctionsAreSequences
  <1>5. CASE n = 0
    <2>1. FlattenSeq(w) = w /\ Len(w) = 0
      BY <1>4, <1>5 DEF FlattenSeq
    <2>2. w = <<>>
      BY <1>4, <2>1
    <2>3. ~HasDuplicates(w) /\ w \in Seq(D)
      BY <2>2 DEF HasDuplicates
    <2>4. DOMAIN modules = {}
      BY <1>2, <1>5
    <2>5. AllResources(modules) \in Seq(D) /\ ~HasDuplicates(AllResources(modules))
      BY <1>1, <2>1, <2>3
    <2> QED
      BY <2>4, <2>5 DEF D
  <1>6. CASE n # 0
    <2>1. PICK g : Flattens(g, w) /\ \A k \in 0..n : g[k] \in Seq(D)
      BY <1>4, <1>6, FlattenSolves DEF IsFlattened
    <2>2. g[0] = <<>> /\ (\A k \in 1..n : g[k] = g[k - 1] \o w[k]) /\ FlattenSeq(w) = g[n]
      BY <1>4, <2>1 DEF Flattens
    <2> DEFINE FromParts(k) == \A x \in ToSet(g[k]) : \E m \in 1..k : x.domain = modules[m].name
               Doubles(k) == \E m \in 1..k : HasDuplicates(w[m])
               P == {k \in 0..n : FromParts(k) /\ (HasDuplicates(g[k]) <=> Doubles(k))}
    <2>3. 0 \in P
      <3>1. ToSet(g[0]) = {} /\ ~HasDuplicates(g[0]) /\ 1..0 = {}
        BY <2>2 DEF ToSet, HasDuplicates
      <3> QED
        BY <1>2, <3>1
    <2>4. ASSUME NEW j \in 0..n, NEW k \in 0..n, k = j + 1, j \in P
          PROVE  k \in P
      <3>1. k \in 1..n /\ k - 1 = j /\ j \in Nat /\ (\A m \in 1..k : m \in 1..j \/ m = k) /\ 1..j \subseteq 1..n
            /\ (\A m \in 1..j : m \in 1..k /\ m # k) /\ k \in 1..k
        BY <1>2, <2>4
      <3>2. g[k] = g[j] \o w[k] /\ g[j] \in Seq(D) /\ w[k] \in Seq(D)
        BY <1>3, <2>1, <2>2, <3>1
      <3>3. ToSet(g[k]) = ToSet(g[j]) \cup ToSet(w[k])
        BY <3>2, ConcatSet
      <3>4. \A y \in ToSet(w[k]) : y.domain = modules[k].name
        BY <1>3, <3>1 DEF ToSet
      <3>5. FromParts(k)
        BY <2>4, <3>1, <3>3, <3>4
      <3>6. \A x \in ToSet(g[j]), y \in ToSet(w[k]) : Key(x) # Key(y)
        <4> SUFFICES ASSUME NEW x \in ToSet(g[j]), NEW y \in ToSet(w[k]) PROVE x.domain # y.domain
          BY DEF Key
        <4>1. PICK m \in 1..j : x.domain = modules[m].name
          BY <2>4
        <4>2. m \in 1..n /\ m # k /\ modules[m].name # modules[k].name
          BY <1>2, <3>1
        <4> QED
          BY <3>4, <4>1, <4>2
      <3>7. HasDuplicates(g[k]) <=> HasDuplicates(g[j]) \/ HasDuplicates(w[k])
        BY <3>2, <3>6, DuplicatesOfParts
      <3>8. Doubles(k) <=> Doubles(j) \/ HasDuplicates(w[k])
        BY <3>1
      <3> QED
        BY <2>4, <3>5, <3>7, <3>8
    <2> HIDE DEF P
    <2>5. n \in P
      BY <1>2, <2>3, <2>4, UpTo
    <2>6. HasDuplicates(g[n]) <=> \E m \in 1..n : HasDuplicates(w[m])
      BY <2>5 DEF P
    <2>7. FlattenSeq(w) \in Seq(D)
      BY <1>2, <2>1, <2>2
    <2> QED
      BY <1>1, <1>2, <2>2, <2>6, <2>7 DEF D
  <1> QED
    BY <1>5, <1>6

\* What boot lets through the server serves, unless two resources share an address, and the
\* client takes, unless a module lists two resources of one name (mcp-backend/src/mcp/index.ts).
THEOREM ServedModulesAreTaken ==
  ASSUME NEW N, NEW T, NEW R, NEW U, NEW modules \in Seq(ModulesOver(N, T, R, U))
  PROVE  BootGuardsRequests(modules)
  <1> DEFINE resources == AllResources(modules)
             SameAddress == \E i, j \in DOMAIN resources : i # j /\ resources[i].uri = resources[j].uri
             SameName == \E m \in DOMAIN modules : ~IsInjective(Mapped(LAMBDA r : r.name, modules[m].resources))
             served == createServer(modules)
             listed == listResources([u \in {} |-> None], served)
             addresses == Mapped(LAMBDA r : r.uri, resources)
  <1>1. BootGuardsRequests(modules) <=>
          (validateModules(modules) => /\ served.type # "value" <=> SameAddress
                                       /\ served.type = "value" => (SameName <=> listed.outcome.type # "value"))
    BY DEF BootGuardsRequests
  <1> SUFFICES ASSUME validateModules(modules)
               PROVE  /\ served.type # "value" <=> SameAddress
                      /\ served.type = "value" => (SameName <=> listed.outcome.type # "value")
    BY <1>1
  <1>2. /\ \A i, j \in DOMAIN modules : i # j => modules[i].name # modules[j].name
        /\ IsInjective(AllTools(modules))
    BY DEF validateModules
  <1>3. IsInjective(addresses) <=> ~SameAddress
    <2>1. addresses = [i \in DOMAIN resources |-> resources[i].uri]
      BY DEF Mapped
    <2> HIDE DEF addresses, resources
    <2>2. DOMAIN addresses = DOMAIN resources /\ \A i \in DOMAIN resources : addresses[i] = resources[i].uri
      BY <2>1
    <2> QED
      BY <2>2 DEF IsInjective
  <1>4. /\ ~SameAddress => served = Value(resources)
        /\ SameAddress => served = Throws("Error", "already registered")
    <2>1. served = IF IsInjective(AllTools(modules)) /\ IsInjective(addresses) THEN Value(resources)
                   ELSE Throws("Error", "already registered")
      BY DEF createServer, Registers
    <2> HIDE DEF served, addresses, resources, SameAddress
    <2> QED
      BY <1>2, <1>3, <2>1
  <1>b. Value(resources).type = "value" /\ Value(resources).result = resources
        /\ Throws("Error", "already registered").type = "Error"
    BY DEF Value, Throws
  <1>5. served.type # "value" <=> SameAddress
    <2> HIDE DEF served, SameAddress, resources
    <2> QED
      BY <1>4, <1>b
  <1>6. HasDuplicates(resources) <=> SameName
    <2>1. HasDuplicates(resources) <=> \E m \in DOMAIN modules : HasDuplicates(ListedBy(modules[m]))
      BY <1>2, DuplicatesOfModules
    <2>2. \A module \in ModulesOver(N, T, R, U) : HasDuplicates(ListedBy(module)) <=> NamesRepeat(module)
      BY ListedByIs
    <2>3. \A m \in DOMAIN modules : modules[m] \in ModulesOver(N, T, R, U)
      BY SequenceIs
    <2> HIDE DEF resources
    <2>4. HasDuplicates(resources) <=> \E m \in DOMAIN modules : NamesRepeat(modules[m])
      BY <2>1, <2>2, <2>3
    <2> QED
      BY <2>4 DEF NamesRepeat
  <1>7. ASSUME served.type = "value" PROVE SameName <=> listed.outcome.type # "value"
    <2> HIDE DEF SameAddress, resources, SameName
    <2> HIDE DEF served
    <2>2. served.type = "value" /\ served.result = resources
      BY <1>4, <1>5, <1>7, <1>b
    <2>3. listed.outcome = IF HasDuplicates(resources) THEN SchemaFailure("duplicate resource") ELSE served
      BY <2>2 DEF listResources
    <2>4. SchemaFailure("duplicate resource").type # "value"
      BY DEF SchemaFailure, Throws
    <2> HIDE DEF listed
    <2> QED
      BY <1>6, <2>2, <2>3, <2>4
  <1> HIDE DEF served, SameAddress, SameName, listed
  <1> QED
    BY <1>5, <1>7

-----------------------------------------------------------------------------
\* The chats of the WhatsApp module

\* The one sequence of a sequence.
LEMMA FlattenOne ==
  ASSUME NEW V, NEW s \in Seq(V)
  PROVE  FlattenSeq(<<s>>) = s
  <1> DEFINE w == <<s>>
  <1>1. w \in Seq(Seq(V)) /\ Len(w) = 1 /\ Len(w) # 0 /\ w[1] = s
    OBVIOUS
  <1> HIDE DEF w
  <1>a. IsFlattened(V, w)
    BY <1>1, FlattenSolves
  <1>2. PICK g : Flattens(g, w)
    BY <1>a DEF IsFlattened
  <1>3. 1 \in 1..Len(w) /\ 1 - 1 = 0
    BY <1>1
  <1>4. g[1] = g[1 - 1] \o w[1]
    BY <1>2, <1>3 DEF Flattens
  <1>5. FlattenSeq(w) = <<>> \o s
    BY <1>1, <1>2, <1>3, <1>4 DEF Flattens
  <1>6. <<>> \o s = s
    OBVIOUS
  <1> QED
    BY <1>5, <1>6 DEF w

\* The chats the server serves are the chats it lists, reads and sends to
\* (mcp-backend/src/modules/whatsapp).
THEOREM ServedChatsAgree ==
  ASSUME NEW I, NEW U, "unknown" \notin I, "unknown" \notin U, None \notin [id : I, uri : U],
         NEW chats \in Seq([id : I, uri : U])
  PROVE  ChatsAgree(chats)
  <1> DEFINE C == [id : I, uri : U]
             n == Len(chats)
             listing == listChats(chats)
             own == Mapped(LAMBDA chat : [name |-> chat.id, uri |-> chat.uri], chats)
             module == whatsapp(chats)
             resources == AllResources(<<module>>)
             addresses == Mapped(LAMBDA r : r.uri, resources)
  <1>1. n \in Nat /\ DOMAIN chats = 1..n /\ \A i \in 1..n : chats[i] \in C
    BY SequenceIs
  <1>2. \A c \in C : c.id \in I /\ c.uri \in U /\ c = [id |-> c.id, uri |-> c.uri] /\ c # None
    OBVIOUS
  <1>3. own = [i \in 1..n |-> [name |-> chats[i].id, uri |-> chats[i].uri]]
        /\ listing = [i \in 1..n |-> [id |-> chats[i].id, uri |-> chats[i].uri]]
    BY <1>1 DEF listChats, Mapped
  <1>4. module.name = "whatsapp" /\ module.resources = own
    BY DEF whatsapp
  <1> HIDE DEF n, own, listing, module, C
  <1>5. DOMAIN listing = 1..n /\ \A i \in 1..n : listing[i] = chats[i]
    BY <1>1, <1>2, <1>3
  <1>6. resources = [i \in 1..n |-> [domain |-> "whatsapp", name |-> chats[i].id, uri |-> chats[i].uri]]
    <2> DEFINE s == [i \in 1..n |-> [domain |-> "whatsapp", name |-> chats[i].id, uri |-> chats[i].uri]]
               L(m) == Mapped(LAMBDA r : [domain |-> m.name, name |-> r.name, uri |-> r.uri], m.resources)
    <2>1. L(module) = s
      <3>1. DOMAIN own = 1..n /\ \A i \in 1..n : own[i].name = chats[i].id /\ own[i].uri = chats[i].uri
        BY <1>3
      <3> QED
        BY <1>4, <3>1 DEF Mapped
    <2>2. Mapped(L, <<module>>) = <<L(module)>>
      BY DEF Mapped
    <2>3. resources = FlattenSeq(<<L(module)>>)
      <3>1. resources = FlattenSeq(Mapped(L, <<module>>))
        BY DEF AllResources
      <3> HIDE DEF resources, L
      <3> QED
        BY <2>2, <3>1
    <2>4. s \in Seq([domain : {"whatsapp"}, name : I, uri : U])
      <3> DEFINE D == [domain : {"whatsapp"}, name : I, uri : U]
      <3>1. \A i \in 1..n : s[i] \in D
        BY <1>1, <1>2
      <3>2. s = [i \in 1..n |-> s[i]]
        OBVIOUS
      <3> HIDE DEF D, s
      <3>3. s \in Seq(D)
        BY <1>1, <3>1, <3>2, FunctionsAreSequences
      <3> QED
        BY <3>3 DEF D
    <2> HIDE DEF resources, s, L
    <2>5. FlattenSeq(<<s>>) = s
      BY <2>4, FlattenOne
    <2>6. resources = s
      BY <2>1, <2>3, <2>5
    <2> QED
      BY <2>6 DEF s
  <1> HIDE DEF resources
  <1>7. ASSUME createServer(<<module>>).type = "value", NEW i \in 1..n, NEW j \in 1..n, chats[i].uri = chats[j].uri
        PROVE  i = j
    <2>1. IsInjective(addresses)
      <3>1. createServer(<<module>>) = IF IsInjective(AllTools(<<module>>)) /\ IsInjective(addresses)
                                       THEN Value(resources) ELSE Throws("Error", "already registered")
        BY DEF createServer, Registers, resources
      <3>2. Throws("Error", "already registered").type # "value"
        BY DEF Throws
      <3> HIDE DEF addresses
      <3> QED
        BY <1>7, <3>1, <3>2
    <2>2. DOMAIN addresses = 1..n /\ addresses[i] = chats[i].uri /\ addresses[j] = chats[j].uri
      BY <1>6 DEF Mapped
    <2> HIDE DEF addresses
    <2> QED
      BY <1>7, <2>1, <2>2 DEF IsInjective
  <1>8. ASSUME NEW id, NEW k \in 1..n, chats[k].id = id
        PROVE  findChat(chats, id) # None
    <2> DEFINE found == {m \in DOMAIN chats : chats[m].id = id}
    <2>1. findChat(chats, id) = IF found = {} THEN None ELSE chats[Min(found)]
      BY DEF findChat, FirstOf
    <2>2. found \in SUBSET Nat /\ k \in found /\ found \subseteq 1..n
      BY <1>1, <1>8
    <2> HIDE DEF found
    <2>3. Min(found) \in 1..n
      BY <2>2, MinIn
    <2> QED
      BY <1>1, <1>2, <2>1, <2>2, <2>3
  <1>9. ASSUME createServer(<<module>>).type = "value", NEW i \in 1..n
        PROVE  readChat(chats, chats[i].uri) = Value(chats[i])
    <2> DEFINE found == {m \in DOMAIN chats : chats[m].uri = chats[i].uri}
    <2>1. findChatByUri(chats, chats[i].uri) = IF found = {} THEN None ELSE chats[Min(found)]
      BY DEF findChatByUri, FirstOf
    <2>2. found \in SUBSET Nat /\ i \in found /\ \A m \in found : m \in 1..n /\ chats[m].uri = chats[i].uri
      BY <1>1
    <2> HIDE DEF found
    <2>3. Min(found) \in found
      BY <2>2, MinIn
    <2>4. Min(found) = i
      BY <1>7, <1>9, <2>2, <2>3
    <2>5. findChatByUri(chats, chats[i].uri) = chats[i] /\ chats[i] # None
      BY <1>1, <1>2, <2>1, <2>2, <2>4
    <2> QED
      BY <2>5 DEF readChat
  <1>10. findChat(chats, "unknown") = None /\ findChatByUri(chats, "unknown") = None
    <2>1. \A m \in DOMAIN chats : chats[m].id # "unknown" /\ chats[m].uri # "unknown"
      BY <1>1, <1>2
    <2>2. {m \in DOMAIN chats : chats[m].id = "unknown"} = {} /\ {m \in DOMAIN chats : chats[m].uri = "unknown"} = {}
      BY <2>1
    <2> QED
      BY <2>2 DEF findChat, findChatByUri, FirstOf
  <1>11. readChat(chats, "unknown").type # "value"
    BY <1>10 DEF readChat, Throws
  <1>12. SUFFICES ASSUME createServer(<<module>>).type = "value"
                  PROVE  /\ \A i \in DOMAIN listing : /\ ~sendMessage(chats, listing[i].id).isError
                                                      /\ readChat(sendMessage(chats, listing[i].id).chats, listing[i].uri)
                                                           = Value(listing[i])
                         /\ sendMessage(chats, "unknown").isError
                         /\ readChat(chats, "unknown").type # "value"
    BY DEF ChatsAgree, module, listing
  <1>13. \A id : sendMessage(chats, id).isError = (findChat(chats, id) = None) /\ sendMessage(chats, id).chats = chats
    BY DEF sendMessage
  <1>14. ASSUME NEW i \in DOMAIN listing
         PROVE  /\ ~sendMessage(chats, listing[i].id).isError
                /\ readChat(sendMessage(chats, listing[i].id).chats, listing[i].uri) = Value(listing[i])
    BY <1>5, <1>8, <1>9, <1>12, <1>13, <1>14
  <1> QED
    BY <1>10, <1>11, <1>13, <1>14

\* Max() of some positions of a sequence is the last of them.
LEMMA MaxIn ==
  ASSUME NEW n \in Nat, NEW S \in SUBSET (0..n), S # {}
  PROVE  Max(S) \in S /\ \A t \in S : Max(S) >= t
  <1> DEFINE B == {b \in Nat : \A t \in S : t <= b}
             b == Min(B)
  <1>1. n \in B /\ B \in SUBSET Nat /\ \A t \in S : t \in Nat
    OBVIOUS
  <1>2. b \in B /\ \A c \in B : b <= c
    BY <1>1, MinIn
  <1> HIDE DEF b
  <1>3. b \in Nat /\ \A t \in S : t <= b
    BY <1>2
  <1>4. b \in S
    <2>1. SUFFICES ASSUME b \notin S PROVE FALSE
      OBVIOUS
    <2>2. \A t \in S : t \in Nat /\ t <= b - 1
      BY <1>1, <1>3, <2>1
    <2>3. b - 1 \in Nat
      <3>1. PICK t \in S : TRUE
        OBVIOUS
      <3> QED
        BY <1>3, <2>2, <3>1
    <2>4. b - 1 \in B
      BY <2>2, <2>3
    <2> HIDE DEF B
    <2> QED
      BY <1>2, <1>3, <2>4
  <1>5. \E x \in S : \A t \in S : x >= t
    BY <1>1, <1>3, <1>4
  <1> QED
    BY <1>5 DEF Max

\* An environment after overrides has the values of one of them or its own.
LEMMA OverrideIs ==
  ASSUME NEW R, NEW env, NEW s \in Seq([variable : DOMAIN env, raw : R]), NEW v \in DOMAIN env
  PROVE  DOMAIN Override(env, s) = DOMAIN env /\ (Override(env, s)[v] = env[v] \/ Override(env, s)[v] \in R)
  <1> DEFINE X == [variable : DOMAIN env, raw : R]
             found == {i \in DOMAIN s : s[i].variable = v}
  <1>1. Override(env, s)[v] = (IF found = {} THEN env[v] ELSE s[Max(found)].raw) /\ DOMAIN Override(env, s) = DOMAIN env
    BY DEF Override
  <1>2. CASE found = {}
    BY <1>1, <1>2
  <1>3. CASE found # {}
    <2>1. \A x \in X : x.raw \in R
      OBVIOUS
    <2> HIDE DEF X
    <2>2. Len(s) \in Nat /\ DOMAIN s = 1..Len(s) /\ \A i \in 1..Len(s) : s[i] \in X
      BY SequenceIs DEF X
    <2>3. found \in SUBSET (0..Len(s)) /\ found \subseteq 1..Len(s)
      BY <2>2
    <2> HIDE DEF found
    <2>4. Max(found) \in found
      BY <1>3, <2>2, <2>3, MaxIn
    <2>5. s[Max(found)] \in X
      BY <2>2, <2>3, <2>4
    <2>6. Override(env, s)[v] = s[Max(found)].raw
      BY <1>1, <1>3
    <2> QED
      BY <1>1, <2>1, <2>5, <2>6
  <1> QED
    BY <1>2, <1>3

LEMMA BackendVariables ==
  ASSUME NEW nodeEnv
  PROVE  ToSet(ReadVariables(nodeEnv)) \subseteq DOMAIN GoodBackend
  <1>1. ToSet(environmentVariables(nodeEnv)) \subseteq {"DEV_CLIENT_URL", "DEV_DOMAIN", "PROD_CLIENT_URL", "PROD_DOMAIN"}
    BY DEF environmentVariables, ToSet
  <1>2. DOMAIN GoodBackend = Required \cup Urls \cup Flags \cup {"MAX_DB_RETRIES", "DB_RETRY_DELAY_MS", "PORT"}
    BY DEF GoodBackend
  <1>3. ToSet(ReadVariables(nodeEnv)) = ToSet(environmentVariables(nodeEnv)) \cup ToSet(commonVariables)
    BY ReadVariablesAre
  <1> QED
    BY <1>1, <1>2, <1>3, CommonVariablesAre DEF Required, Urls, Flags

HostParts == {"", "a", "b"}

\* The lists of hosts of the run's environments.
LEMMA HostPartsAre ==
  /\ GoodMcp["MCP_ALLOWED_HOSTS"].parts \in Seq(HostParts)
  /\ "MCP_ALLOWED_HOSTS" \in DOMAIN GoodMcp
  /\ \A raw \in RawValues \cup HostLists : raw.parts \in Seq(HostParts)
  <1>1. GoodMcp["MCP_ALLOWED_HOSTS"] = Raw("unset") /\ "MCP_ALLOWED_HOSTS" \in DOMAIN GoodMcp
    BY DEF GoodMcp
  <1>2. \A kind : Raw(kind).parts \in Seq(HostParts)
    BY DEF Raw
  <1>3. \A raw \in RawValues : raw.parts \in Seq(HostParts)
    <2>1. /\ \A kind : Raw(kind).parts = <<>>
          /\ \A isTrue : FlagRaw(isTrue).parts = <<>>
          /\ \A n : NumberRaw(n).parts = <<>>
      BY DEF Raw, FlagRaw, NumberRaw
    <2>2. \A raw \in RawValues : raw.parts = <<>>
      BY <2>1, Zenon DEF RawValues
    <2>3. <<>> \in Seq(HostParts)
      OBVIOUS
    <2> QED
      BY <2>2, <2>3
  <1>4. \A raw \in HostLists : raw.parts \in Seq(HostParts)
    <2>1. {<<"">>, <<"", "">>, <<"a">>, <<"a", "">>, <<"", "b">>} \subseteq Seq(HostParts)
      BY DEF HostParts
    <2>2. \A parts : ListRaw(parts).parts = parts
      BY DEF ListRaw
    <2> QED
      BY <2>1, <2>2, Zenon DEF HostLists
  <1> QED
    BY <1>1, <1>2, <1>3, <1>4

LEMMA ModuleSetIs == ModuleSet \subseteq ModulesOver({"m1", "m2"}, {"t1", "t2"}, {"r", "s"}, {"u", "v"})
  <1> DEFINE Tools == {"t1", "t2"}
             Own == [name : {"r", "s"}, uri : {"u", "v"}]
             ToolLists == {<<>>} \cup {<<t>> : t \in Tools} \cup Tools \X Tools
  <1>1. ToolLists \subseteq Seq(Tools)
    <2>1. <<>> \in Seq(Tools) /\ \A t \in Tools : <<t>> \in Seq(Tools)
      OBVIOUS
    <2>2. \A t, u \in Tools : <<t, u>> \in Seq(Tools)
      OBVIOUS
    <2>3. \A p \in Tools \X Tools : \E t, u \in Tools : p = <<t, u>>
      OBVIOUS
    <2> HIDE DEF Tools
    <2>4. \A p \in Tools \X Tools : p \in Seq(Tools)
      BY <2>2, <2>3
    <2>5. \A p \in {<<t>> : t \in Tools} : p \in Seq(Tools)
      BY <2>1
    <2> QED
      BY <2>1, <2>4, <2>5, Zenon
  <1>2. ResourceLists \subseteq Seq(Own)
    <2>1. /\ [name |-> "r", uri |-> "u"] \in Own /\ [name |-> "s", uri |-> "u"] \in Own
          /\ [name |-> "r", uri |-> "v"] \in Own
      OBVIOUS
    <2> HIDE DEF Own
    <2>2. \A x, y \in Own : <<>> \in Seq(Own) /\ <<x>> \in Seq(Own) /\ <<x, y>> \in Seq(Own)
      OBVIOUS
    <2> QED
      BY <2>1, <2>2 DEF ResourceLists
  <1>3. ModuleSet = [name : {"m1", "m2"}, toolNames : ToolLists, resources : ResourceLists]
    BY DEF ModuleSet
  <1> HIDE DEF ToolLists, Tools, Own
  <1>4. ModuleSet \subseteq [name : {"m1", "m2"}, toolNames : Seq(Tools), resources : Seq(Own)]
    BY <1>1, <1>2, <1>3
  <1> QED
    BY <1>4, Zenon DEF ModulesOver, Tools, Own

LEMMA MetasAre == Metas \subseteq TraceMetas(TraceIds, {"", "01", "00", "03"}, Baggages)
  <1> DEFINE A == {None, [w3c |-> FALSE, id |-> "", flags |-> ""]}
                    \cup [w3c : BOOLEAN, id : {"a", "b"}, flags : {"01", "00", "03"}]
             B == {None} \cup [w3c : BOOLEAN, id : TraceIds, flags : {"", "01", "00", "03"}]
  <1>1. A \subseteq B
    <2> DEFINE None0 == [w3c |-> FALSE, id |-> "", flags |-> ""]
               Some == [w3c : BOOLEAN, id : {"a", "b"}, flags : {"01", "00", "03"}]
               All == [w3c : BOOLEAN, id : TraceIds, flags : {"", "01", "00", "03"}]
    <2>1. None0 \in All
      BY DEF TraceIds
    <2>2. Some \subseteq All
      <3> SUFFICES ASSUME NEW t \in Some PROVE t \in All
        OBVIOUS
      <3>1. t = [w3c |-> t.w3c, id |-> t.id, flags |-> t.flags] /\ t.w3c \in BOOLEAN
            /\ t.id \in TraceIds /\ t.flags \in {"", "01", "00", "03"}
        BY DEF TraceIds
      <3> QED
        BY <3>1
    <2>3. A = {None, None0} \cup Some /\ B = {None} \cup All
      OBVIOUS
    <2> HIDE DEF A, B, None0, Some, All
    <2> QED
      BY <2>1, <2>2, <2>3
  <1>2. Metas = {None} \cup [traceparent : A, baggage : Baggages]
    BY DEF Metas
  <1>3. TraceMetas(TraceIds, {"", "01", "00", "03"}, Baggages) = {None} \cup [traceparent : B, baggage : Baggages]
    BY DEF TraceMetas
  <1> HIDE DEF A, B
  <1>4. [traceparent : A, baggage : Baggages] \subseteq [traceparent : B, baggage : Baggages]
    BY <1>1
  <1> QED
    BY <1>2, <1>3, <1>4

\* What the processes start with holds for all they serve afterwards: the configuration of the
\* backend and of the MCP server, its modules, chats and traces.
THEOREM ServersSound == PureSpec => []ServersStartSound
  <1>1. InputTyped => ServersStartSound
    <2> SUFFICES ASSUME InputTyped PROVE ServersStartSound
      OBVIOUS
    <2>1. ConfigOfBackend
      <3> SUFFICES ASSUME topic = "env", NEW nodeEnv, NEW other
                   PROVE  BackendRunsOnItsConfig(nodeEnv, Override(GoodBackend, data), other)
        BY DEF ConfigOfBackend
      <3>1. DOMAIN Override(GoodBackend, data) = DOMAIN GoodBackend
        BY DEF Override
      <3>2. ToSet(ReadVariables(nodeEnv)) \subseteq DOMAIN Override(GoodBackend, data)
        BY <3>1, BackendVariables
      <3> QED
        BY <3>2, BackendsRunOnTheirConfig
    <2>2. HostsOfMcp
      <3> SUFFICES ASSUME topic = "mcpEnv", NEW host PROVE HostsAreListed(host, Override(GoodMcp, data))
        BY DEF HostsOfMcp
      <3> DEFINE R == RawValues \cup HostLists
                 env == Override(GoodMcp, data)
      <3>1. data \in Seq([variable : DOMAIN GoodMcp, raw : R])
        BY DEF InputTyped, Alphabet
      <3> HIDE DEF R
      <3>2. env["MCP_ALLOWED_HOSTS"] = GoodMcp["MCP_ALLOWED_HOSTS"] \/ env["MCP_ALLOWED_HOSTS"] \in R
        BY <3>1, OverrideIs, HostPartsAre
      <3> HIDE DEF env
      <3>3. env["MCP_ALLOWED_HOSTS"].parts \in Seq(HostParts)
        BY <3>2, HostPartsAre DEF R
      <3>4. HostsAreListed(host, env)
        BY <3>3, HostsOfServersAreListed
      <3> QED
        BY <3>4 DEF env
    <2>3. ServiceOfModules
      <3> SUFFICES ASSUME topic = "modules" PROVE BootGuardsRequests(data)
        BY DEF ServiceOfModules
      <3>1. data \in Seq(ModuleSet)
        BY DEF InputTyped, Alphabet
      <3>2. data \in Seq(ModulesOver({"m1", "m2"}, {"t1", "t2"}, {"r", "s"}, {"u", "v"}))
        BY <3>1, ModuleSetIs, WiderSequences
      <3> QED
        BY <3>2, ServedModulesAreTaken
    <2>4. ChatsOfWhatsapp
      <3> SUFFICES ASSUME topic = "chats" PROVE ChatsAgree(data)
        BY DEF ChatsOfWhatsapp
      <3> DEFINE I == {"c1", "c2"}
                 U == {"u1", "u2", "c1"}
      <3>1. data \in Seq([id : I, uri : U])
        BY DEF InputTyped, Alphabet, Chats
      <3>2. "unknown" \notin I /\ "unknown" \notin U /\ None \notin [id : I, uri : U]
        BY NoneIsNoChat DEF Chats
      <3> HIDE DEF I, U
      <3> QED
        BY <3>1, <3>2, ServedChatsAgree
    <2>5. TraceOfRequest
      <3> SUFFICES ASSUME topic = "trace", data # <<>> PROVE TraceIsJoined(data[1])
        BY DEF TraceOfRequest
      <3> DEFINE body == data[1]
      <3>1. body \in [parsed : BOOLEAN, root : Metas, params : Metas]
        <4>1. data \in Seq([parsed : BOOLEAN, root : Metas, params : Metas])
          BY DEF InputTyped, Alphabet
        <4>2. 1 \in 1..Len(data)
          BY <4>1
        <4> QED
          BY <4>1, <4>2, SequenceIs
      <3> HIDE DEF body
      <3>2. body.parsed \in BOOLEAN /\ body.root \in Metas /\ body.params \in Metas
        BY <3>1
      <3>3. /\ body.root \in TraceMetas(TraceIds, {"", "01", "00", "03"}, Baggages)
            /\ body.params \in TraceMetas(TraceIds, {"", "01", "00", "03"}, Baggages)
        BY <3>2, MetasAre
      <3>4. None \in Baggages
        BY DEF Baggages
      <3> DEFINE flags == {"", "01", "00", "03"}
      <3> HIDE DEF flags
      <3>5. body.root \in TraceMetas(TraceIds, flags, Baggages) /\ body.params \in TraceMetas(TraceIds, flags, Baggages)
        BY <3>3 DEF flags
      <3>6. TraceIsJoined(body)
        BY <3>2, <3>4, <3>5, NoneIsNoTrace, TracesAreJoined
      <3> QED
        BY <3>6 DEF body
    <2> QED
      BY <2>1, <2>2, <2>3, <2>4, <2>5 DEF ServersStartSound
  <1> QED
    BY <1>1, InputsTyped, PTL

-----------------------------------------------------------------------------
\* The browser's session

\* On a private page a fresh token has its timer, and an expired one has either its
\* timer still to fire or the dialog open.  Never both: the timer toggles the dialog,
\* and would close one that is open.
TimerOrDialog ==
  route = "private" =>
    /\ token = "fresh" => view.timer
    /\ token = "expired" => (view.timer <=> ~view.open)

SessionInv == SessionTypeOK /\ DashboardHasUser /\ TimerOrDialog

LEMMA NewViewTyped ==
  ASSUME NEW t \in Tokens
  PROVE  /\ NewView(t) \in Views
         /\ NewView(t).isLoading = (t = "none")
         /\ NewView(t).timer = (t # "none")
         /\ NewView(t).open = FALSE
  BY SessionConstants DEF NewView, Views

LEMMA SentTyped ==
  ASSUME NEW cs \in [Slots -> Calls], Free(cs) # {}, NEW k \in Kinds, NEW jar \in BOOLEAN
  PROVE  Sent(cs, k, jar) \in [Slots -> Calls]
  <1>1. [kind |-> k, own |-> TRUE, cookie |-> jar] \in Calls
    BY DEF Calls
  <1> QED
    BY <1>1 DEF Sent

LEMMA NoCallTyped == NoCall \in Calls
  BY DEF NoCall, Calls

LEMMA EndedTyped ==
  ASSUME SessionTypeOK, NEW s \in Slots
  PROVE  Ended(s) \in [Slots -> Calls]
  BY NoCallTyped DEF Ended, SessionTypeOK

LEMMA DisownedTyped ==
  ASSUME NEW cs \in [Slots -> Calls]
  PROVE  /\ Disowned(cs) \in [Slots -> Calls]
         /\ Free(cs) # {} => Free(Disowned(cs)) # {}
  <1>1. \A s \in Slots : [cs[s] EXCEPT !.own = FALSE] \in Calls
    BY DEF Calls
  <1>2. Disowned(cs) \in [Slots -> Calls]
    BY <1>1, NoCallTyped DEF Disowned
  <1>3. Free(cs) \subseteq Free(Disowned(cs))
    BY DEF Free, Disowned
  <1> QED
    BY <1>2, <1>3

\* Whatever brings a private page to the screen establishes the invariant.
LEMMA ShowPrivateInv ==
  ASSUME NEW t \in Tokens, NEW jar \in BOOLEAN, NEW cs \in [Slots -> Calls],
         ShowPrivate(t, jar, cs), moves' \in 0 .. MaxMoves
  PROVE  SessionInv'
  <1>1. calls' \in [Slots -> Calls]
    BY DisownedTyped, SentTyped DEF ShowPrivate, Kinds
  <1>2. SessionTypeOK'
    BY <1>1, NewViewTyped DEF ShowPrivate, SessionTypeOK
  <1>3. DashboardHasUser' /\ TimerOrDialog'
    BY NewViewTyped DEF ShowPrivate, DashboardHasUser, TimerOrDialog, Tokens
  <1> QED
    BY <1>2, <1>3 DEF SessionInv

LEMMA ShowLoginInv ==
  ASSUME NEW t \in Tokens, NEW jar \in BOOLEAN, NEW cs \in [Slots -> Calls],
         ShowLogin(t, jar, cs), moves' \in 0 .. MaxMoves
  PROVE  SessionInv'
  <1>1. CASE t = "fresh"
    BY <1>1, ShowPrivateInv DEF ShowLogin
  <1>2. CASE t # "fresh"
    <2>1. route' = "login" /\ token' = t /\ cookie' = jar /\ view' = NewView(t)
      BY <1>2 DEF ShowLogin
    <2>2. calls' \in [Slots -> Calls]
      BY <1>2, DisownedTyped DEF ShowLogin
    <2>3. SessionTypeOK'
      BY <2>1, <2>2, NewViewTyped DEF SessionTypeOK
    <2> QED
      BY <2>1, <2>3 DEF SessionInv, DashboardHasUser, TimerOrDialog
  <1> QED
    BY <1>1, <1>2

LEMMA ClearUserInv ==
  ASSUME NEW jar \in BOOLEAN, NEW cs \in [Slots -> Calls],
         ClearUser(jar, cs), moves' \in 0 .. MaxMoves
  PROVE  SessionInv'
  BY ShowLoginInv DEF ClearUser, Tokens

LEMMA ChangeUserInv ==
  ASSUME SessionInv, NEW jar \in BOOLEAN, NEW v \in Views, NEW cs \in [Slots -> Calls],
         ChangeUser(jar, v, cs), moves' \in 0 .. MaxMoves
  PROVE  SessionInv'
  <1>1. CASE route = "login"
    BY <1>1, ShowPrivateInv DEF ChangeUser, Tokens
  <1>2. CASE route # "login"
    <2>1. /\ token' = "fresh" /\ cookie' = jar /\ calls' = cs /\ route' = route
          /\ view' = [v EXCEPT !.isLoading = FALSE, !.timer = TRUE]
      BY <1>2 DEF ChangeUser
    <2>2. view' \in Views /\ view'.timer
      BY <2>1 DEF Views
    <2> QED
      BY <2>1, <2>2 DEF SessionInv, SessionTypeOK, DashboardHasUser, TimerOrDialog, Tokens
  <1> QED
    BY <1>1, <1>2

\* A step that keeps the page, its token and what of its view the invariant speaks
\* of keeps the invariant if it keeps the types.
LEMMA SamePageInv ==
  ASSUME SessionInv, SessionTypeOK', UNCHANGED <<token, route>>,
         view'.isLoading = view.isLoading, view'.timer = view.timer, view'.open = view.open
  PROVE  SessionInv'
  BY DEF SessionInv, DashboardHasUser, TimerOrDialog

LEMMA SessionInitInv == SessionInit => SessionInv
  <1> SUFFICES ASSUME SessionInit PROVE SessionInv
    OBVIOUS
  <1>1. [s \in Slots |-> NoCall] \in [Slots -> Calls]
    BY NoCallTyped
  <1>2. Free([s \in Slots |-> NoCall]) # {}
    BY SessionConstants DEF Free, Slots
  <1>3. calls \in [Slots -> Calls]
    BY <1>1, <1>2, SentTyped DEF SessionInit, Kinds
  <1>4. SessionTypeOK
    BY <1>3, NewViewTyped, SessionConstants DEF SessionInit, SessionTypeOK, Tokens
  <1> QED
    BY <1>4, NewViewTyped DEF SessionInit, SessionInv, DashboardHasUser, TimerOrDialog, Tokens

\* The timers and the user: one step per action.
LEMMA PageInv ==
  ASSUME SessionInv,
         \/ TokenExpires \/ CookieExpires \/ TimerFires \/ Tick \/ ResetFires
         \/ Renew \/ Logout \/ Login \/ Back \/ Forward \/ Reload
  PROVE  SessionInv'
  <1> USE DEF SessionInv
  <1>1. CASE TokenExpires
    BY <1>1 DEF TokenExpires, SessionTypeOK, DashboardHasUser, TimerOrDialog, Tokens
  <1>2. CASE CookieExpires
    BY <1>2 DEF CookieExpires, SessionTypeOK, DashboardHasUser, TimerOrDialog
  <1>3. CASE TimerFires
    <2>1. view' \in Views /\ view'.timer = FALSE /\ view'.open = ~view.open
                          /\ view'.isLoading = view.isLoading
      BY <1>3 DEF TimerFires, SessionTypeOK, Views
    <2> QED
      BY <1>3, <2>1 DEF TimerFires, SessionTypeOK, DashboardHasUser, TimerOrDialog
  <1>4. CASE Tick
    <2>1. view.countdown - 1 \in 0 .. LogoutTimeout
      BY <1>4, SessionConstants DEF Tick, SessionTypeOK, Views
    <2>2. view' \in Views /\ view'.timer = view.timer /\ view'.open = view.open
                          /\ view'.isLoading = view.isLoading
      BY <1>4, <2>1 DEF Tick, SessionTypeOK, Views
    <2>3. calls' \in [Slots -> Calls]
      BY <1>4, SentTyped DEF Tick, SessionTypeOK, Kinds
    <2>4. SessionTypeOK'
      BY <1>4, <2>2, <2>3 DEF Tick, SessionTypeOK
    <2> QED
      BY <1>4, <2>2, <2>4, SamePageInv DEF Tick
  <1>5. CASE ResetFires
    <2> LogoutTimeout \in 0 .. LogoutTimeout
      BY SessionConstants
    <2>1. view' \in Views /\ view'.timer = view.timer /\ view'.open = view.open
                          /\ view'.isLoading = view.isLoading
      BY <1>5 DEF ResetFires, SessionTypeOK, Views
    <2>2. SessionTypeOK'
      BY <1>5, <2>1 DEF ResetFires, SessionTypeOK
    <2> QED
      BY <1>5, <2>1, <2>2, SamePageInv DEF ResetFires
  <1>6. CASE Renew
    <2>1. view' \in Views /\ view'.timer = view.timer /\ view'.open = view.open
                          /\ view'.isLoading = view.isLoading
      BY <1>6 DEF Renew, SessionTypeOK, Views
    <2>2. calls' \in [Slots -> Calls]
      BY <1>6, SentTyped DEF Renew, SessionTypeOK, Kinds
    <2>3. SessionTypeOK'
      BY <1>6, <2>1, <2>2 DEF Renew, SessionTypeOK
    <2> QED
      BY <1>6, <2>1, <2>3, SamePageInv DEF Renew
  <1>7. CASE Logout \/ Login
    <2>1. calls' \in [Slots -> Calls]
      BY <1>7, SentTyped DEF Logout, Login, SessionTypeOK, Kinds
    <2> QED
      BY <1>7, <2>1, SamePageInv DEF Logout, Login, SessionTypeOK
  <1>8. ASSUME Moves PROVE moves' \in 0 .. MaxMoves
    BY <1>8, SessionConstants DEF Moves, SessionTypeOK
  <1>9. CASE Back
    BY <1>8, <1>9, ShowLoginInv DEF Back, SessionTypeOK
  <1>10. CASE Forward
    BY <1>8, <1>10, ShowPrivateInv DEF Forward, SessionTypeOK
  <1>11. CASE Reload
    <2>1. [s \in Slots |-> NoCall] \in [Slots -> Calls]
      BY NoCallTyped
    <2> QED
      BY <1>8, <1>11, <2>1, ShowPrivateInv DEF Reload, SessionTypeOK, Tokens
  <1> QED
    BY <1>1, <1>2, <1>3, <1>4, <1>5, <1>6, <1>7, <1>9, <1>10, <1>11

\* The answers.
LEMMA AnsweredInv ==
  ASSUME SessionInv, NEW s \in Slots, Answered(s)
  PROVE  SessionInv'
  <1> USE DEF SessionInv
  <1>1. Ended(s) \in [Slots -> Calls]
    BY EndedTyped
  <1>2. moves \in 0 .. MaxMoves /\ cookie \in BOOLEAN /\ token \in Tokens /\ view \in Views
    BY DEF SessionTypeOK
  <1>3. CASE RenewalGranted(s)
    <2> DEFINE closed == [view EXCEPT !.hasRefreshedSession = TRUE, !.isSubmitting = FALSE,
                                      !.open = ~@, !.reset = view.isLoggingOut]
               closes == calls[s].kind = "renew" /\ calls[s].own
    <2>1. closed \in Views
      BY <1>2 DEF Views
    <2>2. (IF closes THEN closed ELSE view) \in Views
      BY <1>2, <2>1
    <2>3. /\ ChangeUser(cookie, IF closes THEN closed ELSE view, Ended(s))
          /\ moves' = moves
      BY <1>3 DEF RenewalGranted
    <2> HIDE DEF closed, closes
    <2> QED
      BY <1>1, <1>2, <2>2, <2>3, ChangeUserInv
  <1>4. CASE RenewalMalformed(s) \/ RenewRefused(s)
    BY <1>1, <1>2, <1>4, ClearUserInv DEF RenewalMalformed, RenewRefused
  <1>5. CASE RestoreRefused(s)
    BY <1>1, <1>2, <1>5, ShowLoginInv DEF RestoreRefused
  <1>6. CASE TimeUpAnswered(s)
    <2>1. PICK cleared \in {FALSE, calls[s].cookie} :
            ClearUser(cookie /\ ~cleared, Ended(s)) /\ moves' = moves
      BY <1>6 DEF TimeUpAnswered
    <2> QED
      BY <1>1, <1>2, <2>1, ClearUserInv
  <1>7. CASE LogoutGranted(s)
    BY <1>1, <1>2, <1>7, ClearUserInv DEF LogoutGranted
  <1>8. CASE LoginGranted(s)
    BY <1>1, <1>2, <1>8, ChangeUserInv DEF LoginGranted
  <1>9. CASE LoginMalformed(s)
    BY <1>1, <1>2, <1>9, ClearUserInv DEF LoginMalformed
  <1>10. CASE Refused(s)
    BY <1>1, <1>10, SamePageInv DEF Refused, SessionTypeOK
  <1> QED
    BY <1>3, <1>4, <1>5, <1>6, <1>7, <1>8, <1>9, <1>10 DEF Answered

LEMMA SessionInvariance == SessionSpec => []SessionInv
  <1>1. ASSUME SessionInv, [SessionNext]_sessionVars PROVE SessionInv'
    <2>1. CASE UNCHANGED sessionVars
      BY <1>1, <2>1 DEF sessionVars, SessionInv, SessionTypeOK, DashboardHasUser, TimerOrDialog
    <2>2. CASE \E s \in Slots : Answered(s)
      BY <1>1, <2>2, AnsweredInv
    <2> QED
      BY <1>1, <2>1, <2>2, PageInv DEF SessionNext
  <1> QED
    BY <1>1, SessionInitInv, PTL DEF SessionSpec

\* Every variable of the session keeps its type.
THEOREM SessionTypesHold == SessionSpec => []SessionTypeOK
  <1>1. SessionInv => SessionTypeOK
    BY DEF SessionInv
  <1> QED
    BY <1>1, SessionInvariance, PTL

\* No late answer, expiry or move leaves the dashboard (Authenticate.tsx:142) on the
\* screen without a user in the store.
THEOREM DashboardAlwaysHasUser == SessionSpec => []DashboardHasUser
  <1>1. SessionInv => DashboardHasUser
    BY DEF SessionInv
  <1> QED
    BY <1>1, SessionInvariance, PTL

\* However renewals, logouts and moves overlap, an expired token of a private page has
\* its timer to fire or the dialog of RefreshSession.tsx open.
THEOREM ExpiredTokensArePrompted == SessionSpec => []ExpiredIsPrompted
  <1>1. SessionInv => ExpiredIsPrompted
    BY DEF SessionInv, SessionTypeOK, TimerOrDialog, ExpiredIsPrompted, Views
  <1> QED
    BY <1>1, SessionInvariance, PTL

=============================================================================
