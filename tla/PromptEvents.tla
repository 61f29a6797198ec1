---------------------------- MODULE PromptEvents ----------------------------
(***************************************************************************)
(* The events of a prompt and the schemas they pass on their way to the    *)
(* streams (runner/index.ts, shared/schemas/mcp/events, emitter/index.ts): *)
(* the emitter drops an event that fails its schema, and only logs it.     *)
(*                                                                         *)
(* A prompt is [items, calls, end]: what the MCP server listed (None where *)
(* the listing failed), what the model asked for, and how the steps end    *)
(* after that, "answer", "error" or "stopped".  A call is [kind, decision, *)
(* outcome, parts]: outcome is "ok", "isError", "throws" or "stopped", and *)
(* a part of the result is [type, uri, text].                              *)
(***************************************************************************)
EXTENDS PromptContext, McpClient

NonBlank(text) == text # ""

-----------------------------------------------------------------------------
\* What the client lets through (client/schemas/index.ts).  It asks a tool for its name and
\* domain, not for the names of its properties, and a part for a uri, not for its text.

mcpToolSchema(tool) == NonBlank(tool.name) /\ NonBlank(tool.domain)

mcpResourceReadResultSchema(parts) == \A i \in DOMAIN parts : parts[i].uri # None

mcpToolCallResultSchema(parts) == \A i \in DOMAIN parts : parts[i].type # None

Listed(prompt) ==
  prompt.items # None => \A i \in DOMAIN prompt.items : mcpToolSchema(prompt.items[i])

\* The prompts that the client and the runner let happen.
IsPrompt(prompt) ==
  /\ Listed(prompt)
  /\ prompt.items = None => prompt.calls = <<>> /\ prompt.end # "answer"
  /\ \A i \in DOMAIN prompt.calls :
       LET call == prompt.calls[i] IN
       IF call.kind = "tool" THEN mcpToolCallResultSchema(call.parts)
       ELSE mcpResourceReadResultSchema(call.parts) /\ call.outcome # "isError"

-----------------------------------------------------------------------------
\* The events the runner emits.

selecting == [type |-> "selecting"]

permissionEvent(call) == [type |-> "permission", domain |-> "d", name |-> "n", kind |-> call.kind]

callEvent(call, status) ==
  [type |-> "call", domain |-> "d", name |-> "n", kind |-> call.kind, status |-> status]

\* performCall(): what a permitted call emits.
performCall(call) ==
  CASE call.outcome \in {"throws", "stopped"} -> <<callEvent(call, "processing")>>
    [] call.outcome = "isError" -> <<callEvent(call, "processing"), callEvent(call, "failed")>>
    [] call.outcome = "ok" ->
         <<callEvent(call, "processing"),
           callEvent(call, "succeeded") @@
             [result |-> IF call.kind = "tool" THEN toToolResult(call.parts) ELSE toResourceResult(call.parts)]>>

callEvents(call) ==
  <<permissionEvent(call)>>
    \o CASE call.decision = "stop" -> <<>>
         [] call.decision = "refuse" -> <<callEvent(call, "refused")>>
         [] call.decision = "permit" -> performCall(call)

IsStopped(call) == call.decision = "stop" \/ (call.decision = "permit" /\ call.outcome = "stopped")

CallThrows(call) == call.decision = "permit" /\ call.outcome = "throws"

\* The calls up to the one that ends the prompt.
made(calls) == AtPositions(calls, LAMBDA i : \A j \in 1..(i - 1) : ~IsStopped(calls[j]) /\ ~CallThrows(calls[j]))

\* recordUse(): refused calls, and those that threw, are not in the domains of the answer.
used(calls) ==
  Mapped(LAMBDA call : [domain |-> "d", name |-> "n", kind |-> call.kind],
         SelectSeq(calls, LAMBDA call : call.decision = "permit" /\ call.outcome \in {"ok", "isError"}))

\* How the prompt ends, given the calls that were made.
ending(prompt) ==
  LET calls == made(prompt.calls) IN
  CASE calls # <<>> /\ IsStopped(Last(calls)) -> "stopped"
    [] calls # <<>> /\ CallThrows(Last(calls)) -> "error"
    [] OTHER -> prompt.end

\* The list is on the last event as soon as the server has answered it.
withList(event, items) == IF items = None THEN event ELSE event @@ [list |-> toWireList(items)]

terminalEvents(prompt) ==
  CASE ending(prompt) = "answer" ->
         <<[type |-> "answering"],
           withList([type |-> "answer", domains |-> toDomains(used(made(prompt.calls)))], prompt.items)>>
    [] ending(prompt) = "error" ->
         <<withList([type |-> "error", context |-> failureContext(ServerFailure(""))], prompt.items)>>
    [] ending(prompt) = "stopped" -> <<withList([type |-> "stopped"], prompt.items)>>

run(prompt) ==
  <<selecting>> \o FlattenSeq(Mapped(callEvents, made(prompt.calls))) \o terminalEvents(prompt)

-----------------------------------------------------------------------------
\* The schemas of the events.

mcpPromptListArgumentFieldSchema(field) == NonBlank(field.name) /\ NonBlank(field.type)

mcpPromptListToolSchema(tool) ==
  /\ NonBlank(tool.domain) /\ NonBlank(tool.name)
  /\ \A field \in tool.argumentFields : mcpPromptListArgumentFieldSchema(field)

\* Its uri, or its template, is what the client's schema asked for.
mcpPromptListResourceSchema(resource) == NonBlank(resource.domain) /\ NonBlank(resource.name)

mcpPromptListSchema(list) ==
  /\ \A i \in DOMAIN list.tools : mcpPromptListToolSchema(list.tools[i])
  /\ \A i \in DOMAIN list.resources : mcpPromptListResourceSchema(list.resources[i])

mcpPromptDomainSchema(domain) ==
  /\ NonBlank(domain.name)
  /\ \A i \in DOMAIN domain.tools : NonBlank(domain.tools[i])
  /\ \A i \in DOMAIN domain.resources : NonBlank(domain.resources[i])

mcpPromptToolResultSchema(content) == \A i \in DOMAIN content : NonBlank(content[i].type)

mcpPromptResourceResultSchema(contents) == \A i \in DOMAIN contents : NonBlank(contents[i].uri)

mcpPermissionEventSchema(event) == NonBlank(event.domain) /\ NonBlank(event.name)

mcpCallEventSchema(event) ==
  /\ NonBlank(event.domain) /\ NonBlank(event.name)
  /\ event.status = "succeeded" =>
       IF event.kind = "tool" THEN mcpPromptToolResultSchema(event.result)
       ELSE mcpPromptResourceResultSchema(event.result)

mcpAnswerEventSchema(event) ==
  /\ \A i \in DOMAIN event.domains : mcpPromptDomainSchema(event.domains[i])
  /\ mcpPromptListSchema(event.list)

mcpErrorEventSchema(event) ==
  NonBlank(event.context) /\ ("list" \in DOMAIN event => mcpPromptListSchema(event.list))

mcpStoppedEventSchema(event) == "list" \in DOMAIN event => mcpPromptListSchema(event.list)

eventSchema(event) ==
  CASE event.type \in {"selecting", "answering"} -> TRUE
    [] event.type = "permission" -> mcpPermissionEventSchema(event)
    [] event.type = "call" -> mcpCallEventSchema(event)
    [] event.type = "answer" -> mcpAnswerEventSchema(event)
    [] event.type = "error" -> mcpErrorEventSchema(event)
    [] event.type = "stopped" -> mcpStoppedEventSchema(event)

\* emit(): what reaches the listeners.
delivered(prompt) == SelectSeq(run(prompt), eventSchema)

-----------------------------------------------------------------------------
\* Properties of a prompt

\* The two names a server may leave blank that the client's schemas do not ask for.
HasBlankField(prompt) ==
  prompt.items # None
    /\ \E i \in DOMAIN prompt.items : \E field \in argumentFields(prompt.items[i].schema) : field.name = ""

HasBlankAddress(call) ==
  call.kind = "resource" /\ \E i \in DOMAIN call.parts : call.parts[i].uri = ""

\* The listeners learn how a prompt ended, unless a listed tool has an argument without a
\* name: that prompt never ends for its user.  Everything else is delivered, except the
\* result of a resource with a part without an address.
EndIsDelivered(prompt) ==
  LET last == Last(run(prompt)) IN
  /\ eventSchema(last) <=> ~HasBlankField(prompt)
  /\ (~HasBlankField(prompt) /\ \A i \in DOMAIN prompt.calls : ~HasBlankAddress(prompt.calls[i]))
       => delivered(prompt) = run(prompt)

\* In what is delivered, a call announced as processing is followed by its outcome, or by the
\* end of the prompt: no call stays open on the user's page.
CallsAreClosed(prompt) ==
  LET events == delivered(prompt)
      Opens(i) == events[i].type = "call" /\ events[i].status = "processing" IN
  (~HasBlankField(prompt) /\ \A i \in DOMAIN prompt.calls : ~HasBlankAddress(prompt.calls[i])) =>
    \A i \in DOMAIN events : Opens(i) =>
      /\ i < Len(events)
      /\ \/ events[i + 1].type = "call" /\ events[i + 1].status \in {"succeeded", "failed"}
         \/ events[i + 1].type \in {"error", "stopped"}

=============================================================================
