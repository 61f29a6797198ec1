---------------------------- MODULE PromptContext ----------------------------
(***************************************************************************)
(* backend/src/aop/mcp/runner/utils/index.ts: what is sent with a prompt,  *)
(* what a call adds to its messages, and what its events say of it.        *)
(***************************************************************************)
EXTENDS ModelGateway

-----------------------------------------------------------------------------
\* The context of a prompt: a turn is [turnId, prompt, answer], in saved order.

\* None: an id is repeated, or is no finished turn of the conversation.
selectTurns(turns, turnIds) ==
  IF turnIds \in {None, <<>>} THEN turns
  ELSE LET selected == SelectSeq(turns, LAMBDA t : t.turnId \in Range(turnIds)) IN
       IF ~IsInjective(turnIds) \/ Len(selected) # Cardinality(Range(turnIds)) THEN None
       ELSE selected

Message(role, content) == [role |-> role, content |-> content]

seedMessages(turns, prompt) ==
  Append(FlattenSeq(Mapped(LAMBDA t : <<Message("user", t.prompt), Message("assistant", t.answer)>>,
                           turns)),
         Message("user", prompt))

-----------------------------------------------------------------------------
\* Messages of a call.  A result's parts are their texts, None for a part without one.

textFromParts(parts) ==
  SelectSeq(OrElse(parts, <<>>), LAMBDA text : text \notin {None, ""})

\* The texts joined by newlines (a sequence here), or a sentence, or the JSON of the parts.
toolMessageContent(parts, failed) ==
  IF textFromParts(parts) # <<>> THEN textFromParts(parts)
  ELSE IF failed THEN <<"TOOL_FAILURE_CONTENT">> ELSE <<"JSON">>

resourceMessageContent(parts) ==
  IF textFromParts(parts) # <<>> THEN textFromParts(parts) ELSE <<"JSON">>

\* The results on the call event: a blank type is "text", a missing text stays missing.
toToolResult(content) ==
  Mapped(LAMBDA part : [part EXCEPT !.type = IF @ = "" THEN "text" ELSE @], OrElse(content, <<>>))

\* The address of a part stays what the server said.
toResourceResult(contents) == Mapped(LAMBDA part : [uri |-> part.uri, text |-> part.text], contents)

-----------------------------------------------------------------------------
\* The domains of an answer: what ran, in order, is [domain, name, kind].

FirstUses(used, field) ==
  AtPositions(used, LAMBDA i : \A j \in 1..i - 1 : used[i][field] # used[j][field])

NamesOf(used, domain, kind) ==
  LET ran == SelectSeq(used, LAMBDA u : u.domain = domain /\ u.kind = kind)
  IN Mapped(LAMBDA u : u.name, FirstUses(ran, "name"))

toDomains(used) ==
  Mapped(LAMBDA u : [name |-> u.domain, tools |-> NamesOf(used, u.domain, "tool"),
                     resources |-> NamesOf(used, u.domain, "resource")],
         FirstUses(used, "domain"))

-----------------------------------------------------------------------------
\* The argument fields shown for a tool

propertyType(schema) ==
  IF schema.type \notin {None, {""}} /\ Cardinality(schema.type) = 1
  THEN CHOOSE type \in schema.type : TRUE ELSE "string"

\* A set of fields: the order is the one of the schema's properties.
argumentFields(inputSchema) ==
  IF inputSchema = None \/ inputSchema.properties = None THEN {}
  ELSE {[name |-> name, type |-> propertyType(inputSchema.properties[name]),
         required |-> name \in OrElse(inputSchema.required, {})] :
          name \in DOMAIN inputSchema.properties}

\* toWireList(): tools with their fields, then resources and templates alike.
toWireList(items) ==
  LET source(i) == items[i].source
      entry(item) == [domain |-> item.domain, name |-> item.name]
  IN [tools |-> Mapped(LAMBDA t : [domain |-> t.domain, name |-> t.name,
                                   argumentFields |-> argumentFields(t.schema)],
                       AtPositions(items, LAMBDA i : source(i) = "tool")),
      resources |-> Mapped(entry, AtPositions(items, LAMBDA i : source(i) = "resource"))
                      \o Mapped(entry, AtPositions(items, LAMBDA i : source(i) = "template"))]

-----------------------------------------------------------------------------
\* Expanding a template: None when a variable is missing or not a string.

encoding(operator) == IF operator \in {"+", "#"} THEN "reserved" ELSE "component"

\* ; ? and & name each value; the values of an expression are in its variables' order.
expandExpression(expression, args) ==
  [operator |-> expression.operator,
   values |-> Mapped(LAMBDA v : [name |-> IF expression.operator \in {";", "?", "&"} THEN v ELSE None,
                                 value |-> args[v].id, encoded |-> encoding(expression.operator)],
                     expression.variables)]

expandUriTemplate(template, args) ==
  IF \E v \in uriTemplateVariables(template) : v \notin DOMAIN args \/ args[v].kind # "string"
  THEN None
  ELSE Mapped(LAMBDA e : expandExpression(e, args), template)

-----------------------------------------------------------------------------
\* Properties

\* A prompt is sent with exactly the turns it names (all, if it names none), each once and
\* in the order they were saved, before the prompt itself (HTTP-MCP-CTX-001, CTX-002).
ContextIsFaithful(turns, turnIds, prompt) ==
  LET selected == selectTurns(turns, turnIds)
      wanted == {i \in DOMAIN turns : turnIds \in {None, <<>>} \/ turns[i].turnId \in Range(turnIds)}
  IN selected # None =>
       LET messages == toProviderMessages(seedMessages(selected, prompt)) IN
       /\ Len(messages) = 2 * Cardinality(wanted) + 2
       /\ Last(messages).content = prompt
       /\ \A i \in wanted :
            LET p == 2 * Cardinality({j \in wanted : j <= i}) IN
            messages[p].content = turns[i].prompt /\ messages[p + 1].content = turns[i].answer

\* Whatever a tool or resource returns, the model is told something.
ModelIsTold(parts, failed) ==
  toolMessageContent(parts, failed) # <<>> /\ resourceMessageContent(parts) # <<>>

\* The answer names every tool and resource that ran, each once under its domain, the
\* domains in the order they were first used (HTTP-MCP-REC-003).
DomainsAreWhatRan(used) ==
  LET domains == toDomains(used)
      First(d) == CHOOSE i \in DOMAIN used :
                    used[i].domain = d /\ \A j \in 1..i - 1 : used[j].domain # d
  IN /\ {domains[i].name : i \in DOMAIN domains} = {used[i].domain : i \in DOMAIN used}
     /\ \A i, j \in DOMAIN domains : i < j => First(domains[i].name) < First(domains[j].name)
     /\ \A i \in DOMAIN domains :
          LET ran(kind) == {u.name : u \in {u \in Range(used) :
                                              u.domain = domains[i].name /\ u.kind = kind}} IN
          /\ IsInjective(domains[i].tools) /\ Range(domains[i].tools) = ran("tool")
          /\ IsInjective(domains[i].resources) /\ Range(domains[i].resources) = ran("resource")

\* Arguments the gateway accepted for a template always expand: a permitted read never
\* fails for a variable the model left out.
AcceptedArgumentsExpand(template, args) ==
  matchesSchema(templateParameters(template), args)
    => expandUriTemplate(template, args.parts) # None

\* What the form marks as required is what the gateway insists on: accepted arguments have
\* every required field, and one without such a field is refused.
RequiredFieldsAreInsistedOn(schema, args) ==
  \A field \in argumentFields(schema) :
    (field.required /\ schema.type = {"object"} /\ matchesSchema(schema, args))
      => field.name \in DOMAIN args.parts

=============================================================================
