----------------------------- MODULE McpModules -----------------------------
(***************************************************************************)
(* What the MCP server (mcp-backend) serves: its modules and how they are  *)
(* checked at boot (mcp/index.ts), the WhatsApp module, and the trace a    *)
(* request joins (monitor/index.ts).                                       *)
(*                                                                         *)
(* A module is [name, toolNames, resources]; it registers the tools it     *)
(* declares, and resources [name, uri].  The backend keeps a listed item   *)
(* by its domain, the module's name, and its own name (McpClient).         *)
(***************************************************************************)
EXTENDS McpClient

AllTools(modules) == FlattenSeq(Mapped(LAMBDA module : module.toolNames, modules))

AllResources(modules) ==
  FlattenSeq(Mapped(LAMBDA module :
    Mapped(LAMBDA r : [domain |-> module.name, name |-> r.name, uri |-> r.uri], module.resources),
    modules))

\* At boot, once: no two modules and no two tools of any module share a name.
validateModules(modules) ==
  /\ \A i, j \in DOMAIN modules : i # j => modules[i].name # modules[j].name
  /\ IsInjective(AllTools(modules))

\* McpServer throws on a second registration of a tool's name or a resource's address.
Registers(tools, resources) ==
  IsInjective(tools) /\ IsInjective(Mapped(LAMBDA r : r.uri, resources))

\* For every request: the outcome of the handler's createServer().
createServer(modules) ==
  IF Registers(AllTools(modules), AllResources(modules)) THEN Value(AllResources(modules))
  ELSE Throws("Error", "already registered")

\* What boot lets through fails per request only for two resources at one address, which
\* boot does not look at; and what is served the client takes, unless one module lists
\* two resources of one name.
BootGuardsRequests(modules) ==
  LET resources == AllResources(modules)
      SameAddress == \E i, j \in DOMAIN resources : i # j /\ resources[i].uri = resources[j].uri
      SameName == \E m \in DOMAIN modules :
                    ~IsInjective(Mapped(LAMBDA r : r.name, modules[m].resources))
      served == createServer(modules) IN
  validateModules(modules) =>
    /\ served.type # "value" <=> SameAddress
    /\ served.type = "value" =>
         (SameName <=> listResources([u \in {} |-> None], served).outcome.type # "value")

-----------------------------------------------------------------------------
\* The WhatsApp module: chats is its fixed list of [id, uri].

findChat(chats, id) == FirstOf(chats, LAMBDA chat : chat.id = id)
findChatByUri(chats, uri) == FirstOf(chats, LAMBDA chat : chat.uri = uri)

\* A chat is a resource named by its id; the template lists none.
whatsapp(chats) ==
  [name |-> "whatsapp", toolNames |-> <<"list_chats", "send_message">>,
   resources |-> Mapped(LAMBDA chat : [name |-> chat.id, uri |-> chat.uri], chats)]

listChats(chats) == Mapped(LAMBDA chat : [id |-> chat.id, uri |-> chat.uri], chats)

\* A message that is sent is not kept.
sendMessage(chats, id) == [isError |-> findChat(chats, id) = None, chats |-> chats]

\* Addresses that only match the template come here too.
readChat(chats, uri) ==
  IF findChatByUri(chats, uri) = None THEN Throws("ResourceNotFoundError", uri)
  ELSE Value(findChatByUri(chats, uri))

\* With chats the server registers, the list, the tools and the resources agree: a
\* listed chat takes messages and is what its address reads, before and after a message,
\* and any other id and address is an error.
ChatsAgree(chats) ==
  createServer(<<whatsapp(chats)>>).type = "value" =>
    /\ \A i \in DOMAIN listChats(chats) :
         LET listed == listChats(chats)[i]
             sent == sendMessage(chats, listed.id) IN
         /\ ~sent.isError
         /\ readChat(sent.chats, listed.uri) = Value(listed)
    /\ sendMessage(chats, "unknown").isError /\ readChat(chats, "unknown").type # "value"

-----------------------------------------------------------------------------
\* Traces.  A meta is None (absent or not of the schema, .catch(undefined)) or
\* [traceparent, baggage], each None if absent; a traceparent is "" or [w3c, id, flags].

Field(meta, name) == IF meta = None THEN None ELSE meta[name]

\* Each field on its own: the root's, or the params'.
readMetaTrace(body) ==
  IF ~body.parsed THEN [traceparent |-> None, baggage |-> None]
  ELSE [name \in {"traceparent", "baggage"} |->
          OrElse(Field(body.root, name), Field(body.params, name))]

\* Only the flags 01 count as sampled; what is not W3C goes on as it came.
traceFromTraceparent(traceparent) ==
  IF traceparent.w3c THEN [id |-> traceparent.id, sampled |-> traceparent.flags = "01"]
  ELSE [id |-> traceparent.id, sampled |-> None]

\* The trace continueMetaTrace() joins, or None for a request that starts its own.
joinedTrace(body) ==
  LET meta == readMetaTrace(body) IN
  IF meta.traceparent \in {None, [w3c |-> FALSE, id |-> "", flags |-> ""]} THEN None
  ELSE [trace |-> traceFromTraceparent(meta.traceparent), baggage |-> meta.baggage]

\* The metas over some ids, flags and baggages, and the traces a request may join.
TraceMetas(ids, flags, baggages) ==
  {None} \cup [traceparent : {None} \cup [w3c : BOOLEAN, id : ids, flags : flags], baggage : baggages]

JoinedTraces(ids, baggages) ==
  [trace : [id : ids, sampled : BOOLEAN \cup {None}], baggage : baggages]

\* A trace that either meta carries is joined, the root's first, and it is the caller's:
\* the same id, sampled only if the caller says so.
TraceIsJoined(body) ==
  LET Empty == [w3c |-> FALSE, id |-> "", flags |-> ""]
      root == Field(body.root, "traceparent")
      carried == IF root # None THEN root ELSE Field(body.params, "traceparent")
      joined == joinedTrace(body) IN
  IF body.parsed /\ carried # None /\ carried # Empty
  THEN /\ joined # None
       /\ joined.trace.id = carried.id
       /\ joined.trace.sampled = TRUE => carried.flags = "01"
       /\ joined.baggage \in {Field(body.root, "baggage"), Field(body.params, "baggage")}
       /\ joined.baggage = None => Field(body.params, "baggage") = None
  ELSE joined = None

=============================================================================
