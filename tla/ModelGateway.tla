---------------------------- MODULE ModelGateway ----------------------------
(***************************************************************************)
(* backend/src/aop/mcp/gateway: one step of the model.  The catalog of     *)
(* functions sent to the provider, the check of the arguments it sends     *)
(* back against their schema, and the interpretation of its completion.    *)
(* A JSON value is [kind, id, parts]: its JSON type, what tells scalars    *)
(* apart, and its elements or properties.  A schema is the record the list *)
(* exposes, None for a keyword it does not have; a schema's type is the    *)
(* set of the types it allows.                                             *)
(***************************************************************************)
EXTENDS Absent

CONSTANT SafeName(_, _, _)   \* source, domain, name -> the sanitised, shortened name

-----------------------------------------------------------------------------
\* Schemas

Schema(type, properties, required, additional) ==
  [type |-> type, properties |-> properties, required |-> required, additional |-> additional,
   items |-> None, enum |-> None]

OfType(type) == Schema({type}, None, None, None)

\* additionalProperties: false, or a schema in the same record.
Forbidden == [forbidden |-> TRUE, schema |-> None]

noArgumentsSchema == Schema({"object"}, <<>>, None, Forbidden)

\* A URI template is the sequence of its expressions [operator, variables].
uriTemplateVariables(template) ==
  UNION {Range(template[i].variables) : i \in DOMAIN template}

templateParameters(template) ==
  Schema({"object"}, [v \in uriTemplateVariables(template) |-> OfType("string")],
         uriTemplateVariables(template), Forbidden)

\* The schema that what is nested in the value is checked against, None if there is none.
nestedSchema(schema, value, key) ==
  LET properties == OrElse(schema.properties, <<>>) IN
  CASE value.kind = "array" -> schema.items
    [] value.kind = "object" /\ key \in DOMAIN properties -> properties[key]
    [] OTHER -> IF schema.additional = None THEN None ELSE schema.additional.schema

\* In what follows, fits are the keys of the value whose part matches its nested schema.
matchesObject(schema, value, fits) ==
  LET properties == OrElse(schema.properties, <<>>) IN
  /\ value.kind = "object"
  /\ OrElse(schema.required, {}) \subseteq DOMAIN value.parts
  /\ \A key \in DOMAIN value.parts :
       IF key \in DOMAIN properties THEN key \in fits
       ELSE schema.additional = None \/ (~schema.additional.forbidden /\ key \in fits)

matchesArray(schema, value, fits) ==
  /\ value.kind = "array"
  /\ schema.items # None => DOMAIN value.parts \subseteq fits

\* An unknown type is left unchecked.
matchesType(type, value, schema, fits) ==
  CASE type = "object" -> matchesObject(schema, value, fits)
    [] type = "array" -> matchesArray(schema, value, fits)
    [] type = "number" -> value.kind \in {"integer", "fraction"}
    [] type \in {"string", "integer", "boolean", "null"} -> value.kind = type
    [] OTHER -> TRUE

matchesLevel(schema, value, fits) ==
  /\ schema.enum = None \/ value \in schema.enum
  /\ IF schema.type # None THEN \E type \in schema.type : matchesType(type, value, schema, fits)
     ELSE (schema.properties # None \/ schema.required # None \/ schema.additional # None)
            => matchesType("object", value, schema, fits)

Nested(schema, value) ==
  IF value.kind \in {"object", "array"}
  THEN {key \in DOMAIN value.parts : nestedSchema(schema, value, key) # None} ELSE {}

\* matchesSchema() calls itself on what is nested; bound: values nest three levels deep.
matchesInnermost(schema, value) == matchesLevel(schema, value, {})

matchesInner(schema, value) ==
  matchesLevel(schema, value, {key \in Nested(schema, value) :
    matchesInnermost(nestedSchema(schema, value, key), value.parts[key])})

matchesSchema(schema, value) ==
  matchesLevel(schema, value, {key \in Nested(schema, value) :
    matchesInner(nestedSchema(schema, value, key), value.parts[key])})

-----------------------------------------------------------------------------
\* The catalog.  A listed item is [source, domain, name, schema, template]: a tool with
\* its input schema, a resource, or a template.

kindOf(item) == IF item.source = "tool" THEN "tool" ELSE "resource"

identity(item) == <<kindOf(item), item.domain, item.name>>

functionName(item) == SafeName(item.source, item.domain, item.name)

parametersOf(item) ==
  CASE item.source = "tool" -> OrElse(item.schema, noArgumentsSchema)
    [] item.source = "resource" -> noArgumentsSchema
    [] item.source = "template" -> templateParameters(item.template)

\* Mutant: only a repeated function name is refused.
CollidesByName(items, i, j) == functionName(items[i]) = functionName(items[j])

Collides(items, i, j) ==
  identity(items[i]) = identity(items[j]) \/ functionName(items[i]) = functionName(items[j])

\* buildCatalog(): function name -> item, or None when two items collide.
buildCatalog(items) ==
  IF \E i, j \in DOMAIN items : i < j /\ Collides(items, i, j) THEN None
  ELSE [f \in {functionName(items[i]) : i \in DOMAIN items} |->
          LET item == items[CHOOSE i \in DOMAIN items : functionName(items[i]) = f] IN
          [domain |-> item.domain, name |-> item.name, kind |-> kindOf(item),
           parameters |-> parametersOf(item)]]

-----------------------------------------------------------------------------
\* A step

\* Messages of the record become provider messages, the instructions first.
providerRole(role) == IF role \in {"tool", "resource"} THEN "user" ELSE role

toProviderMessages(messages) ==
  <<[role |-> "system", content |-> "instructions"]>>
    \o Mapped(LAMBDA m : [role |-> providerRole(m.role), content |-> m.content], messages)

Failure == [type |-> "failure"]

\* A call is [function, arguments]; arguments None when they are not a JSON object.
selectionFromCall(call, lookup) ==
  IF call.function \notin DOMAIN lookup \/ call.arguments = None THEN Failure
  ELSE LET item == lookup[call.function] IN
       IF matchesSchema(item.parameters, call.arguments)
       THEN [type |-> "selection", domain |-> item.domain, name |-> item.name,
             kind |-> item.kind, arguments |-> call.arguments]
       ELSE Failure

\* A completion is [calls, content]: a call wins over content, several calls fail, and so
\* does a blank answer.
interpret(completion, lookup) ==
  CASE Len(completion.calls) > 1 -> Failure
    [] Len(completion.calls) = 1 -> selectionFromCall(completion.calls[1], lookup)
    [] completion.calls = <<>> /\ completion.content = "" -> Failure
    [] OTHER -> [type |-> "answer", content |-> completion.content]

-----------------------------------------------------------------------------
\* Properties

\* The user is asked about a domain, name and kind; in an accepted catalog these name one
\* listed item, the one whose schema the arguments were checked against.
SelectionIsUnambiguous(items, completion) ==
  LET lookup == buildCatalog(items) IN
  lookup # None =>
    LET step == interpret(completion, lookup) IN
    step.type = "selection" =>
      \E i \in DOMAIN items :
        /\ identity(items[i]) = <<step.kind, step.domain, step.name>>
        /\ matchesSchema(parametersOf(items[i]), step.arguments)
        /\ \A j \in DOMAIN items : identity(items[j]) = identity(items[i]) => i = j

=============================================================================
