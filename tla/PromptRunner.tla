---------------------------- MODULE PromptRunner ----------------------------
(***************************************************************************)
(* backend/src/aop/mcp/runner/index.ts: prompts answered in conversations. *)
(*                                                                         *)
(* The step loop of a prompt is an async function; it is modelled from     *)
(* await to await ("at" names the one it waits at), and so is start().     *)
(* permit(), refuse() and stop() are called between awaits; a permitted or *)
(* refused ask resumes the loop before another request is handled.  What   *)
(* the model, the MCP server, the database and the user do is the          *)
(* environment's choice.  One user: another user's calls end in a throw    *)
(* before anything changes, and so does a permit for another selection.    *)
(***************************************************************************)
EXTENDS Naturals, Sequences

CONSTANTS
  None,                  \* the code's undefined
  Conversations,
  Prompts,               \* prompt ids, each drawn once
  Requests,              \* bound: calls of start() in flight at once
  MaxSteps,              \* bound: steps the model takes for one prompt
  FinishedPromptLimit    \* FINISHED_PROMPT_LIMIT

ASSUME PromptRunnerAssumption ==
  /\ None \notin Prompts
  /\ MaxSteps \in Nat
  /\ FinishedPromptLimit \in Nat \ {0}

VARIABLES
  runs,                        \* prompt -> its PromptRun, or None
  activePrompts,               \* prompts in the map of that name
  activePromptByConversation,  \* conversation -> prompt, or None
  finishedPrompts,             \* remembered prompts, oldest first
  turns,                       \* conversation -> prompts of its saved turns, or None once deleted
  requests                     \* request -> its call of start(), or None

memoryVars == <<activePrompts, activePromptByConversation, finishedPrompts>>
vars == <<runs, memoryVars, turns, requests>>

AnsweringPhases == {"selecting", "awaitingPermission", "calling", "answering"}
TerminalEvents  == {"answer", "error", "stopped"}

PromptRun ==
  [conversation : Conversations,
   history      : Seq(Prompts),       \* the finished turns sent with the prompt
   phase        : AnsweringPhases \cup {"answered", "stopped", "failed"},
   at           : {"queued", "list", "step", "ask", "call", "save", "done"},
   steps        : 0..MaxSteps,        \* model steps taken
   pending      : BOOLEAN,            \* pendingPermission
   pushed       : BOOLEAN,            \* the turn reached the database
   terminalEventSent : BOOLEAN,
   event        : {None, "selecting", "permission", "processing", "succeeded", "failed",
                   "refused"} \cup TerminalEvents]  \* last event emitted for the prompt

ASSUME NoneIsNoRun == None \notin PromptRun

ASSUME NoneIsNoEvent ==
  None \notin {"selecting", "permission", "processing", "succeeded", "failed", "refused"}
                \cup TerminalEvents

Waits(p, await) == runs[p] # None /\ runs[p].at = await
IsStopped(p)    == runs[p].phase = "stopped"
IsAnswering(p)  == runs[p].phase \in AnsweringPhases

Init ==
  /\ runs = [p \in Prompts |-> None]
  /\ activePrompts = {}
  /\ activePromptByConversation = [c \in Conversations |-> None]
  /\ finishedPrompts = <<>>
  /\ turns = [c \in Conversations |-> <<>>]
  /\ requests = [q \in Requests |-> None]

-----------------------------------------------------------------------------
\* start()

\* The conversation is read ...
Start(q, c) ==
  /\ requests[q] = None
  /\ requests' = [requests EXCEPT ![q] = [conversation |-> c, turns |-> None]]
  /\ UNCHANGED <<runs, memoryVars, turns>>

GetByIdForUser(q) ==
  /\ requests[q] # None /\ requests[q].turns = None
  /\ turns[requests[q].conversation] # None
  /\ requests' = [requests EXCEPT ![q].turns = turns[requests[q].conversation]]
  /\ UNCHANGED <<runs, memoryVars, turns>>

Finish(q) == requests' = [requests EXCEPT ![q] = None]

NewRun(c, history) ==
  [conversation |-> c, history |-> history, phase |-> "selecting", at |-> "queued",
   steps |-> 0, pending |-> FALSE, pushed |-> FALSE, terminalEventSent |-> FALSE,
   event |-> None]

\* Mutant: the conversation is not looked up before it is reserved.
StartResumesRegardless(q) ==
  LET c == requests[q].conversation IN
  /\ requests[q] # None /\ requests[q].turns # None
  /\ \E p \in Prompts :
       /\ runs[p] = None
       /\ runs' = [runs EXCEPT ![p] = NewRun(c, requests[q].turns)]
       /\ activePrompts' = activePrompts \cup {p}
       /\ activePromptByConversation' = [activePromptByConversation EXCEPT ![c] = p]
  /\ Finish(q)
  /\ UNCHANGED <<finishedPrompts, turns>>

\* ... and reserved, with the turns that were read (all of them: no turn ids).
StartResumes(q) ==
  LET c == requests[q].conversation IN
  /\ requests[q] # None /\ requests[q].turns # None
  /\ activePromptByConversation[c] = None
  /\ \E p \in Prompts :
       /\ runs[p] = None
       /\ runs' = [runs EXCEPT ![p] = NewRun(c, requests[q].turns)]
       /\ activePrompts' = activePrompts \cup {p}
       /\ activePromptByConversation' = [activePromptByConversation EXCEPT ![c] = p]
  /\ Finish(q)
  /\ UNCHANGED <<finishedPrompts, turns>>

\* Busy, a missing conversation, a turn id that is none, or a failed read.
StartThrows(q) ==
  /\ requests[q] # None
  /\ Finish(q)
  /\ UNCHANGED <<runs, memoryVars, turns>>

-----------------------------------------------------------------------------
\* Ends of a prompt

\* claimTerminal(), of a prompt that is being answered.
ClaimTerminal(p) ==
  LET remembered == Append(finishedPrompts, p) IN
  /\ activePrompts' = activePrompts \ {p}
  /\ activePromptByConversation' =
       [c \in Conversations |->
         IF activePromptByConversation[c] = p THEN None ELSE activePromptByConversation[c]]
  /\ finishedPrompts' =
       IF Len(remembered) > FinishedPromptLimit THEN Tail(remembered) ELSE remembered

Ends(p, phase, event) ==
  /\ runs' = [runs EXCEPT ![p].phase = phase, ![p].at = "done", ![p].pending = FALSE,
                          ![p].terminalEventSent = TRUE, ![p].event = event]
  /\ ClaimTerminal(p)

\* emitStopped(), of a prompt that a stop has claimed; then the loop returns.
EmitStopped(p) ==
  /\ runs' = [runs EXCEPT ![p].at = "done", ![p].terminalEventSent = TRUE,
                          ![p].event = IF runs[p].terminalEventSent THEN @ ELSE "stopped"]
  /\ UNCHANGED memoryVars

\* Whatever the awaited call brings once the prompt is stopped: a reply, or the
\* abort that the signal of the prompt raises in it.
LoopFindsStop(p) ==
  /\ \E await \in {"queued", "list", "step", "ask", "call"} : Waits(p, await)
  /\ IsStopped(p)
  /\ EmitStopped(p)
  /\ UNCHANGED <<turns, requests>>

\* fail(): the model provider or the MCP server fails, or the list is unusable.
Fails(p) ==
  /\ \E await \in {"list", "step", "call"} : Waits(p, await)
  /\ ~IsStopped(p)
  /\ Ends(p, "failed", "error")
  /\ UNCHANGED <<turns, requests>>

-----------------------------------------------------------------------------
\* The step loop

Continues(p, phase, await, event) ==
  /\ ~IsStopped(p)
  /\ runs' = [runs EXCEPT ![p].phase = phase, ![p].at = await, ![p].event = event,
                          ![p].pending = (await = "ask")]
  /\ UNCHANGED <<memoryVars, turns, requests>>

Executes(p) == Waits(p, "queued") /\ Continues(p, "selecting", "list", "selecting")

ListArrives(p) == Waits(p, "list") /\ Continues(p, "selecting", "step", runs[p].event)

\* The model selects a tool or resource: ask() emits the permission and parks.
ModelSelects(p) ==
  /\ Waits(p, "step") /\ ~IsStopped(p)
  /\ runs[p].steps < MaxSteps
  /\ runs' = [runs EXCEPT ![p].phase = "awaitingPermission", ![p].at = "ask",
                          ![p].event = "permission", ![p].pending = TRUE, ![p].steps = @ + 1]
  /\ UNCHANGED <<memoryVars, turns, requests>>

\* Mutant: the call does not look at the phase the stop has set.
CallReturnsRegardless(p, status) ==
  /\ Waits(p, "call")
  /\ runs' = [runs EXCEPT ![p].phase = "selecting", ![p].at = "step", ![p].event = status]
  /\ UNCHANGED <<memoryVars, turns, requests>>

\* The permitted call succeeds, or is a tool that reports failure.
CallReturns(p, status) ==
  Waits(p, "call") /\ Continues(p, "selecting", "step", status)

\* The model answers: finishAnswer() up to the save.
ModelAnswers(p) ==
  Waits(p, "step") /\ Continues(p, "answering", "save", runs[p].event)

\* The database executes appendTurn(); a stop does not abort it.
AppendTurn(p) ==
  LET c == runs[p].conversation IN
  /\ Waits(p, "save") /\ ~runs[p].pushed
  /\ turns[c] # None
  /\ turns' = [turns EXCEPT ![c] = Append(@, p)]
  /\ runs' = [runs EXCEPT ![p].pushed = TRUE]
  /\ UNCHANGED <<memoryVars, requests>>

\* Mutant: the answer is announced without waiting for the save.
TurnIsSavedUnawaited(p) ==
  /\ Waits(p, "save")
  /\ IF IsStopped(p) THEN EmitStopped(p) ELSE Ends(p, "answered", "answer")
  /\ UNCHANGED <<turns, requests>>

TurnIsSaved(p) ==
  /\ Waits(p, "save") /\ runs[p].pushed
  /\ IF IsStopped(p) THEN EmitStopped(p) ELSE Ends(p, "answered", "answer")
  /\ UNCHANGED <<turns, requests>>

\* The conversation is gone, or the save fails before or after it took effect.
SaveFails(p) ==
  /\ Waits(p, "save")
  /\ IF IsStopped(p) THEN EmitStopped(p) ELSE Ends(p, "failed", "error")
  /\ UNCHANGED <<turns, requests>>

-----------------------------------------------------------------------------
\* The user

\* Mutant: the permitted ask stays open while the call runs.
PermitKeepsAsk(p) ==
  /\ p \in activePrompts /\ runs[p].pending /\ runs[p].at = "ask"
  /\ runs' = [runs EXCEPT ![p].phase = "calling", ![p].at = "call", ![p].event = "processing"]
  /\ UNCHANGED <<memoryVars, turns, requests>>

\* settle(): the matching ask is resolved and the loop goes on, to performCall()
\* or to recordRefusal().
Permit(p) ==
  /\ p \in activePrompts /\ runs[p].pending
  /\ Continues(p, "calling", "call", "processing")

Refuse(p) ==
  /\ p \in activePrompts /\ runs[p].pending
  /\ Continues(p, "selecting", "step", "refused")

\* Mutant: a stop closes the ask but nothing resolves it.
StopForgetsAsk(p) ==
  /\ p \in activePrompts
  /\ runs' = [runs EXCEPT ![p].phase = "stopped", ![p].pending = FALSE,
                          ![p].at = IF @ = "ask" THEN "done" ELSE @]
  /\ ClaimTerminal(p)
  /\ UNCHANGED <<turns, requests>>

\* stop(): the conversation is free at once, the loop finds out later.
Stop(p) ==
  /\ p \in activePrompts
  /\ runs' = [runs EXCEPT ![p].phase = "stopped", ![p].pending = FALSE]
  /\ ClaimTerminal(p)
  /\ UNCHANGED <<turns, requests>>

\* Deleting a conversation does not look at the runner.
DeleteConversation(c) ==
  /\ turns[c] # None
  /\ turns' = [turns EXCEPT ![c] = None]
  /\ UNCHANGED <<runs, memoryVars, requests>>

-----------------------------------------------------------------------------
\* Specification

Loop(p) ==
  \/ Executes(p) \/ ListArrives(p) \/ ModelSelects(p) \/ ModelAnswers(p)
  \/ \E status \in {"succeeded", "failed"} : CallReturns(p, status)
  \/ AppendTurn(p) \/ TurnIsSaved(p) \/ SaveFails(p) \/ Fails(p) \/ LoopFindsStop(p)

Next ==
  \/ \E q \in Requests :
       \/ \E c \in Conversations : Start(q, c)
       \/ GetByIdForUser(q) \/ StartResumes(q) \/ StartThrows(q)
  \/ \E p \in Prompts : Loop(p) \/ Permit(p) \/ Refuse(p) \/ Stop(p)
  \/ \E c \in Conversations : DeleteConversation(c)

Spec == Init /\ [][Next]_vars

\* Requests to the model, the MCP server and the database come back (a stop
\* aborts the first two); the user need never answer an ask.
FairSpec == Spec /\ \A p \in Prompts : WF_vars(Loop(p))

-----------------------------------------------------------------------------
\* Properties

TypeOK ==
  /\ runs \in [Prompts -> PromptRun \cup {None}]
  /\ activePrompts \subseteq Prompts
  /\ activePromptByConversation \in [Conversations -> Prompts \cup {None}]
  /\ finishedPrompts \in Seq(Prompts)
  /\ turns \in [Conversations -> Seq(Prompts) \cup {None}]
  /\ requests \in [Requests ->
       [conversation : Conversations, turns : Seq(Prompts) \cup {None}] \cup {None}]

\* The three maps agree: a prompt is active exactly while it is being answered,
\* its conversation then points to it, and only then (FR-MCP-CNV-004).
ActiveIsAnswering ==
  \A p \in Prompts :
    /\ p \in activePrompts <=> runs[p] # None /\ IsAnswering(p)
    /\ p \in activePrompts <=>
         \E c \in Conversations : activePromptByConversation[c] = p

\* An ended prompt is remembered once, and until FinishedPromptLimit others have
\* ended after it; none that is being answered is (HTTP-MCP-STP-002).
FinishedIsRemembered ==
  LET ended == {p \in Prompts : runs[p] # None /\ ~IsAnswering(p)}
      remembered == {finishedPrompts[i] : i \in DOMAIN finishedPrompts}
  IN  /\ remembered \subseteq ended
      /\ \A i, k \in DOMAIN finishedPrompts : finishedPrompts[i] = finishedPrompts[k] => i = k
      /\ remembered # ended => Len(finishedPrompts) = FinishedPromptLimit

\* The runner's maps tell at any time which prompts go on, in which conversation, and
\* which have ended; permit, refuse and stop answer by them.
PromptsAreTracked == TypeOK /\ ActiveIsAnswering /\ FinishedIsRemembered

\* What streamMcp replays, the open asks of active prompts, are the permission
\* events nothing has followed yet (HTTP-MCP-PRG-009).
OpenAskIsReplayed ==
  \A p \in Prompts :
    runs[p] # None =>
      (p \in activePrompts /\ runs[p].pending
         <=> runs[p].event = "permission" /\ ~IsStopped(p))

\* After a stop no further model step or call starts, and the only event is
\* "stopped", at most once (FR-MCP-STP-002, FR-MCP-STP-005).
StopIsFinal ==
  [][\A p \in Prompts :
       (runs[p] # None /\ IsStopped(p)) =>
         /\ runs'[p].at \in {runs[p].at, "done"}
         /\ runs'[p].event # runs[p].event => runs'[p].event = "stopped"]_vars

\* A prompt ends in its terminal event: a stop is reported, whatever it
\* interrupts, and without one only an open ask can hold the prompt up.
PromptsEnd ==
  \A p \in Prompts :
    (runs[p] # None) ~>
      /\ runs[p] # None
      /\ runs[p].event \in TerminalEvents \/ (runs[p].at = "ask" /\ runs[p].pending)

\* A prompt is reserved with every finished turn of its conversation
\* ("`messages` lists every finished turn of that conversation, in saved order").
EveryTurnIsSent ==
  [][\A p \in Prompts :
       (runs[p] = None /\ runs'[p] # None) =>
         turns[runs'[p].conversation] \in {None, runs'[p].history}]_vars

\* What the events emitted for a prompt say of it.
Stage(p) ==
  IF runs[p] = None THEN "new"
  ELSE IF IsStopped(p) /\ ~runs[p].terminalEventSent THEN "stopping"
  ELSE CASE runs[p].event = None         -> "queued"
         [] runs[p].event = "permission" -> "asking"
         [] runs[p].event = "processing" -> "calling"
         [] runs[p].event = "answer"     -> "answered"
         [] runs[p].event = "error"      -> "failed"
         [] runs[p].event = "stopped"    -> "stopped"
         [] OTHER                        -> "selecting"

Contract == INSTANCE PromptContract WITH
  stage  <- [p \in Prompts |-> Stage(p)],
  holder <- activePromptByConversation,
  saved  <- {p \in Prompts : runs[p] # None /\ runs[p].pushed}

\* Whatever stop, save and a following prompt interleave, users see what
\* PromptContract promises.
ImplementsContract == Contract!Spec

=============================================================================
