--------------------------- MODULE PromptContract ---------------------------
(***************************************************************************)
(* What a user of a conversation may rely on, with no await in sight: one  *)
(* prompt holds the conversation at a time, only the holder asks, calls or *)
(* answers, every call was allowed, each prompt ends once, and an answer   *)
(* is announced only when it is kept (FR-MCP-CNV-004, FR-MCP-ORD-001,      *)
(* FR-MCP-ORD-002, FR-MCP-SEL-002, FR-MCP-STP-002, HTTP-MCP-CNV-004).      *)
(***************************************************************************)
EXTENDS Naturals

CONSTANTS None, Conversations, Prompts

VARIABLES
  stage,    \* prompt -> what its events say of it
  holder,   \* conversation -> the prompt being answered in it, or None
  saved     \* prompts whose turn was saved

vars == <<stage, holder, saved>>

Stages == {"new", "queued", "selecting", "asking", "calling", "stopping",
           "answered", "failed", "stopped"}

Held(p) == \E c \in Conversations : holder[c] = p

Released(p) == [c \in Conversations |-> IF holder[c] = p THEN None ELSE holder[c]]

Init ==
  /\ stage = [p \in Prompts |-> "new"]
  /\ holder = [c \in Conversations |-> None]
  /\ saved = {}

Moves(p, from, to) ==
  /\ stage[p] \in from
  /\ stage' = [stage EXCEPT ![p] = to]

Begin(p, c) ==
  /\ holder[c] = None
  /\ Moves(p, {"new"}, "queued")
  /\ holder' = [holder EXCEPT ![c] = p]
  /\ UNCHANGED saved

\* The first event, a permission ask, its allowance or refusal, a call's return.
Step(p) ==
  /\ Held(p)
  /\ \/ Moves(p, {"queued"}, "selecting")
     \/ Moves(p, {"selecting"}, "asking")
     \/ Moves(p, {"asking"}, "calling")
     \/ Moves(p, {"asking", "calling"}, "selecting")
  /\ UNCHANGED <<holder, saved>>

Save(p) ==
  /\ p \notin saved /\ stage[p] \in {"selecting", "stopping"}
  /\ saved' = saved \cup {p}
  /\ UNCHANGED <<stage, holder>>

\* Ends that the prompt itself reaches.
Answer(p) ==
  /\ Held(p) /\ p \in saved
  /\ Moves(p, {"selecting"}, "answered")
  /\ holder' = Released(p)
  /\ UNCHANGED saved

Fail(p) ==
  /\ Held(p)
  /\ Moves(p, {"queued", "selecting", "asking", "calling"}, "failed")
  /\ holder' = Released(p)
  /\ UNCHANGED saved

\* A stop frees the conversation at once and is reported later.
Stop(p) ==
  /\ Held(p)
  /\ Moves(p, {"queued", "selecting", "asking", "calling"}, "stopping")
  /\ holder' = Released(p)
  /\ UNCHANGED saved

ReportStopped(p) ==
  /\ Moves(p, {"stopping"}, "stopped")
  /\ UNCHANGED <<holder, saved>>

Next ==
  \E p \in Prompts :
    \/ \E c \in Conversations : Begin(p, c)
    \/ Step(p) \/ Save(p) \/ Answer(p) \/ Fail(p) \/ Stop(p) \/ ReportStopped(p)

Spec == Init /\ [][Next]_vars

=============================================================================
