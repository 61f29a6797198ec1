------------------------------ MODULE McpClient ------------------------------
(***************************************************************************)
(* backend/src/aop/mcp/client/index.ts with its schemas, and the context   *)
(* the runner puts on an error event: what becomes of a reply.  A reply is *)
(* [transport, status, json, response, id, result]; the network and the    *)
(* MCP server choose it.  Outcomes are values or exceptions:               *)
(*   [type |-> "value", result] and [type |-> <class>, detail],            *)
(* detail "" being a message that is blank.                                *)
(***************************************************************************)
EXTENDS Absent

Value(result) == [type |-> "value", result |-> result]
Throws(class, detail) == [type |-> class, detail |-> detail]

\* ExternalServiceException around an error with that message, SchemaValidationException
\* around that issue, and the abort error, which is rethrown as it is.
ServerFailure(detail) == Throws("ExternalService", detail)
SchemaFailure(detail) == Throws("SchemaValidation", detail)
AbortError == Throws("Abort", "aborted")

\* transport is [aborted, message]: fetch() or the body rejected with it.
failureFromTransport(transport) ==
  IF transport.aborted THEN AbortError ELSE ServerFailure(transport.message)

\* The id of a JSON-RPC error is checked before the error is believed.
fromResponse(reply, id) ==
  CASE reply.response = "error" /\ reply.id # id -> SchemaFailure("id mismatch")
    [] reply.response = "error" /\ reply.id = id -> ServerFailure(reply.result)
    [] reply.response = "success" /\ reply.id # id -> SchemaFailure("id mismatch")
    [] reply.response = "success" /\ reply.id = id -> Value(reply.result)
    [] OTHER -> SchemaFailure("not a response")

\* post(): the request is sent with a fresh id; the checks in the code's order.
post(reply, id) ==
  CASE reply.transport # None -> failureFromTransport(reply.transport)
    [] reply.transport = None /\ reply.status # 200 -> ServerFailure("status")
    [] reply.transport = None /\ reply.status = 200 /\ ~reply.json -> SchemaFailure("not JSON")
    [] OTHER -> fromResponse(reply, id)

\* parseResult() with the method's schema; a result is [valid, value].
parsed(outcome) ==
  IF outcome.type # "value" THEN outcome
  ELSE IF outcome.result.valid THEN Value(outcome.result.value)
  ELSE SchemaFailure("invalid result")

-----------------------------------------------------------------------------
\* Resources: a listed resource is [domain, name, uri].

Key(resource) == <<resource.domain, resource.name>>

HasDuplicates(resources) ==
  \E i, j \in DOMAIN resources : i # j /\ Key(resources[i]) = Key(resources[j])

\* listResources(): the outcome, and the map of URIs the client keeps afterwards.  The
\* map is the client's, shared by every prompt, and a failed listing leaves it alone.
listResources(uris, outcome) ==
  IF outcome.type # "value" THEN [outcome |-> outcome, uris |-> uris]
  ELSE IF HasDuplicates(outcome.result)
  THEN [outcome |-> SchemaFailure("duplicate resource"), uris |-> uris]
  ELSE [outcome |-> outcome,
        uris |-> [k \in {Key(outcome.result[i]) : i \in DOMAIN outcome.result} |->
                    (CHOOSE r \in Range(outcome.result) : Key(r) = k).uri]]

resolveResourceUri(uris, domain, name) ==
  IF <<domain, name>> \in DOMAIN uris THEN Value(uris[<<domain, name>>])
  ELSE Throws("ResourceNotFound", "no uri")

-----------------------------------------------------------------------------
\* What the runner makes of an exception (runner/utils/index.ts)

isAbortError(outcome) == outcome.type = "Abort"

\* An upstream detail that is not blank, or else the exception's own summary.
failureContext(outcome) ==
  IF outcome.detail # "" THEN outcome.detail ELSE "summary of " \o outcome.type

-----------------------------------------------------------------------------
\* Properties

\* A stop is never reported as a failure of the server, nor a failure as a stop: the
\* runner tells them apart by the error alone ("rethrown so stop is not reported as a
\* server failure").
StopIsNoFailure(reply, id) ==
  isAbortError(post(reply, id)) <=> (reply.transport # None /\ reply.transport.aborted)

\* Whatever went wrong, the error event of the prompt carries a context, and only a
\* matching, successful and valid response is taken for a result.
FailureIsExplained(reply, id) ==
  LET outcome == parsed(post(reply, id)) IN
  IF outcome.type = "value"
  THEN reply.transport = None /\ reply.status = 200 /\ reply.response = "success" /\ reply.id = id
  ELSE failureContext(outcome) # ""

\* Whichever prompts list the resources, and whichever listings fail, a name leads to the
\* address of the latest good listing, or to none if that listing does not have it.
LatestListingWins(outcomes) ==
  LET uris == FoldLeft(LAMBDA known, o : listResources(known, o).uris, <<>>, outcomes)
      good == {i \in DOMAIN outcomes :
                 outcomes[i].type = "value" /\ ~HasDuplicates(outcomes[i].result)}
      latest == IF good = {} THEN {} ELSE Range(outcomes[CHOOSE i \in good : \A k \in good : k <= i].result)
  IN /\ \A r \in latest : resolveResourceUri(uris, r.domain, r.name) = Value(r.uri)
     /\ DOMAIN uris = {Key(r) : r \in latest}

=============================================================================
