-------------------------- MODULE PromptRunnerProofs --------------------------
(***************************************************************************)
(* Theorems about PromptRunner, for any conversations, prompts, calls of   *)
(* start() in flight, steps of the model and remembered prompts.           *)
(***************************************************************************)
EXTENDS PromptRunner, TLAPS

\* Where the loop waits tells the last event the user was sent.
SelectingEvents == {"selecting", "succeeded", "failed", "refused"}

EventsAt(at) ==
  CASE at = "queued" -> {None}
    [] at = "list"   -> {"selecting"}
    [] at = "step"   -> SelectingEvents
    [] at = "ask"    -> {"permission"}
    [] at = "call"   -> {"processing"}
    [] at = "save"   -> SelectingEvents
    [] at = "done"   -> TerminalEvents

\* A run is over exactly when its terminal event is sent, which names its phase; the
\* event at the await, the open ask and the saved turn go with where it waits.
RunOK(r) ==
  /\ r.event \in EventsAt(r.at)
  /\ r.pending <=> r.at = "ask" /\ r.phase # "stopped"
  /\ r.terminalEventSent <=> r.at = "done"
  /\ r.at = "done" =>
       \/ r.event = "answer" /\ r.phase = "answered" /\ r.pushed
       \/ r.event = "error" /\ r.phase = "failed"
       \/ r.event = "stopped" /\ r.phase = "stopped"
  /\ r.at # "done" => r.phase \in AnsweringPhases \cup {"stopped"}
  /\ r.pushed => r.at \in {"save", "done"}

Started(p) == runs[p] # None
Answering(p) == Started(p) /\ IsAnswering(p)
HasEnded(p) == Started(p) /\ ~IsAnswering(p)

RunsOK == \A p \in Prompts : Started(p) => RunOK(runs[p])

\* The maps hold the prompts being answered, each in its own conversation.
MapsOK ==
  /\ \A p \in Prompts : p \in activePrompts <=> Answering(p)
  /\ \A p \in Prompts : Answering(p) => activePromptByConversation[runs[p].conversation] = p
  /\ \A c \in Conversations, p \in Prompts :
       activePromptByConversation[c] = p => Answering(p) /\ runs[p].conversation = c

\* The memory holds the last prompts that ended, and all of them while it is not full.
MemoryOK ==
  /\ Len(finishedPrompts) <= FinishedPromptLimit
  /\ \A i \in 1..Len(finishedPrompts) : HasEnded(finishedPrompts[i])
  /\ \A i, k \in 1..Len(finishedPrompts) : finishedPrompts[i] = finishedPrompts[k] => i = k
  /\ Len(finishedPrompts) # FinishedPromptLimit =>
       \A p \in Prompts : HasEnded(p) => \E i \in 1..Len(finishedPrompts) : finishedPrompts[i] = p

Inv == TypeOK /\ RunsOK /\ MapsOK /\ MemoryOK

LEMMA InitInv == Init => Inv
  <1> SUFFICES ASSUME Init PROVE Inv
    OBVIOUS
  <1>1. TypeOK
    BY DEF Init, TypeOK
  <1>2. RunsOK /\ MapsOK
    BY PromptRunnerAssumption DEF Init, RunsOK, MapsOK, Started, Answering
  <1>3. MemoryOK
    BY PromptRunnerAssumption DEF Init, MemoryOK, Started, HasEnded
  <1> QED
    BY <1>1, <1>2, <1>3 DEF Inv

\* A step of one prompt that goes on as it was, answering or not, changes no map.
LEMMA KeptInv ==
  ASSUME Inv, NEW p \in Prompts, Started(p), NEW r \in PromptRun,
         runs' = [runs EXCEPT ![p] = r], RunOK(r),
         r.conversation = runs[p].conversation,
         r.phase \in AnsweringPhases <=> runs[p].phase \in AnsweringPhases,
         UNCHANGED <<memoryVars, requests>>,
         turns' \in [Conversations -> Seq(Prompts) \cup {None}]
  PROVE  Inv'
  <1>1. runs'[p] = r /\ \A q \in Prompts \ {p} : runs'[q] = runs[q]
    BY DEF Inv, TypeOK
  <1>2. r # None
    BY NoneIsNoRun
  <1>3. \A q \in Prompts : /\ Started(q)' <=> Started(q)
                           /\ Answering(q)' <=> Answering(q)
                           /\ HasEnded(q)' <=> HasEnded(q)
                           /\ Started(q) => runs'[q].conversation = runs[q].conversation
    BY <1>1, <1>2 DEF Started, Answering, HasEnded, IsAnswering
  <1>4. TypeOK'
    BY DEF Inv, TypeOK, memoryVars
  <1>5. RunsOK'
    BY <1>1 DEF Inv, RunsOK, Started
  <1>6. MapsOK'
    BY <1>3 DEF Inv, MapsOK, memoryVars, Answering
  <1>7. MemoryOK'
    <2>1. \A i \in 1..Len(finishedPrompts) : finishedPrompts[i] \in Prompts
      BY DEF Inv, TypeOK
    <2> QED
      BY <2>1, <1>3 DEF Inv, MemoryOK, memoryVars
  <1> QED
    BY <1>4, <1>5, <1>6, <1>7 DEF Inv

\* The memory after one more prompt has ended.
LEMMA RememberedOne ==
  ASSUME NEW S, NEW s \in Seq(S), NEW p \in S, NEW n \in Nat \ {0},
         NEW t, t = (IF Len(Append(s, p)) > n THEN Tail(Append(s, p)) ELSE Append(s, p)),
         Len(s) <= n
  PROVE  /\ t \in Seq(S)
         /\ Len(t) = (IF Len(s) = n THEN n ELSE Len(s) + 1)
         /\ t[Len(t)] = p
         /\ Len(s) = n => \A i \in 1..Len(t) - 1 : t[i] = s[i + 1]
         /\ Len(s) # n => \A i \in 1..Len(s) : t[i] = s[i]
  <1>1. Len(Append(s, p)) = Len(s) + 1
    OBVIOUS
  <1>2. CASE Len(s) = n
    <2>1. t = Tail(Append(s, p)) /\ Append(s, p) # <<>>
      BY <1>1, <1>2
    <2> QED
      BY <2>1, <1>1, <1>2
  <1>3. CASE Len(s) # n
    <2>1. t = Append(s, p)
      BY <1>1, <1>3
    <2> QED
      BY <2>1, <1>1, <1>3
  <1> QED
    BY <1>2, <1>3

\* A prompt that stops being answered leaves the maps and enters the memory.
LEMMA ClaimedInv ==
  ASSUME Inv, NEW p \in Prompts, Answering(p), NEW r \in PromptRun,
         runs' = [runs EXCEPT ![p] = r], RunOK(r), r.phase \notin AnsweringPhases,
         r.conversation = runs[p].conversation,
         ClaimTerminal(p), UNCHANGED <<turns, requests>>
  PROVE  Inv'
  <1>1. runs'[p] = r /\ \A q \in Prompts \ {p} : runs'[q] = runs[q]
    BY DEF Inv, TypeOK
  <1>2. r # None
    BY NoneIsNoRun
  <1>3. /\ HasEnded(p)' /\ ~Answering(p)' /\ ~HasEnded(p)
        /\ \A q \in Prompts \ {p} : /\ Answering(q)' <=> Answering(q)
                                    /\ HasEnded(q)' <=> HasEnded(q)
                                    /\ Started(q)' <=> Started(q)
    BY <1>1, <1>2 DEF Started, Answering, HasEnded, IsAnswering
  <1>4. /\ finishedPrompts \in Seq(Prompts) /\ Len(finishedPrompts) \in Nat
        /\ FinishedPromptLimit \in Nat \ {0} /\ Len(finishedPrompts) <= FinishedPromptLimit
    BY PromptRunnerAssumption DEF Inv, TypeOK, MemoryOK
  <1>5. finishedPrompts' = (IF Len(Append(finishedPrompts, p)) > FinishedPromptLimit
                            THEN Tail(Append(finishedPrompts, p)) ELSE Append(finishedPrompts, p))
    BY DEF ClaimTerminal
  <1>6. /\ finishedPrompts' \in Seq(Prompts)
        /\ Len(finishedPrompts') = (IF Len(finishedPrompts) = FinishedPromptLimit
                                    THEN FinishedPromptLimit ELSE Len(finishedPrompts) + 1)
        /\ finishedPrompts'[Len(finishedPrompts')] = p
        /\ Len(finishedPrompts) = FinishedPromptLimit =>
             \A i \in 1..Len(finishedPrompts') - 1 : finishedPrompts'[i] = finishedPrompts[i + 1]
        /\ Len(finishedPrompts) # FinishedPromptLimit =>
             \A i \in 1..Len(finishedPrompts) : finishedPrompts'[i] = finishedPrompts[i]
    BY <1>4, <1>5, RememberedOne
  <1>7. TypeOK'
    BY <1>6 DEF Inv, TypeOK, ClaimTerminal
  <1>8. RunsOK'
    BY <1>1, <1>3 DEF Inv, RunsOK, Started
  <1>9. MapsOK'
    <2>1. \A q \in Prompts \ {p} : runs'[q] = runs[q] /\ (Answering(q)' <=> Answering(q))
      BY <1>1, <1>3
    <2>2. \A q \in Prompts : q \in activePrompts' <=> Answering(q)'
      BY <2>1, <1>3 DEF Inv, MapsOK, ClaimTerminal
    <2>3. \A q \in Prompts : Answering(q) => runs[q].conversation \in Conversations
      BY DEF Inv, TypeOK, Answering, Started, PromptRun
    <2>4. ASSUME NEW q \in Prompts, Answering(q)'
          PROVE  activePromptByConversation'[runs'[q].conversation] = q
      <3>1. q # p /\ Answering(q) /\ runs'[q] = runs[q]
        BY <2>1, <2>4, <1>3
      <3> QED
        BY <3>1, <2>3 DEF Inv, MapsOK, ClaimTerminal
    <2>5. ASSUME NEW c \in Conversations, NEW q \in Prompts, activePromptByConversation'[c] = q
          PROVE  Answering(q)' /\ runs'[q].conversation = c
      <3>1. q # p /\ activePromptByConversation[c] = q
        BY <2>5, PromptRunnerAssumption DEF ClaimTerminal
      <3> QED
        BY <3>1, <2>1 DEF Inv, MapsOK
    <2> QED
      BY <2>2, <2>4, <2>5 DEF MapsOK
  <1>10. MemoryOK'
    <2>1. \A i \in 1..Len(finishedPrompts) : finishedPrompts[i] \in Prompts \ {p}
      BY <1>3 DEF Inv, TypeOK, MemoryOK
    <2>2. CASE Len(finishedPrompts) = FinishedPromptLimit
      <3>1. \A i \in 1..Len(finishedPrompts') - 1 :
              i + 1 \in 1..Len(finishedPrompts) /\ finishedPrompts'[i] = finishedPrompts[i + 1]
        BY <1>4, <1>6, <2>2
      <3>2. (\A i \in 1..Len(finishedPrompts) : HasEnded(finishedPrompts[i]))'
        BY <3>1, <2>1, <1>3, <1>4, <1>6, <2>2 DEF Inv, MemoryOK
      <3>3. \A i, k \in 1..Len(finishedPrompts') : finishedPrompts'[i] = finishedPrompts'[k] => i = k
        BY <3>1, <2>1, <1>4, <1>6, <2>2 DEF Inv, MemoryOK
      <3> QED
        BY <3>2, <3>3, <1>4, <1>6, <2>2 DEF MemoryOK
    <2>3. CASE Len(finishedPrompts) # FinishedPromptLimit
      <3>1. \A i \in 1..Len(finishedPrompts') :
              i = Len(finishedPrompts') \/ (i \in 1..Len(finishedPrompts) /\ finishedPrompts'[i] = finishedPrompts[i])
        BY <1>4, <1>6, <2>3
      <3>2. (\A i \in 1..Len(finishedPrompts) : HasEnded(finishedPrompts[i]))'
        BY <3>1, <2>1, <1>3, <1>6 DEF Inv, MemoryOK
      <3>3. \A i, k \in 1..Len(finishedPrompts') : finishedPrompts'[i] = finishedPrompts'[k] => i = k
        BY <3>1, <2>1, <1>6 DEF Inv, MemoryOK
      <3>4. ASSUME NEW q \in Prompts, HasEnded(q)'
            PROVE  \E i \in 1..Len(finishedPrompts') : finishedPrompts'[i] = q
        <4>1. CASE q = p
          BY <4>1, <1>4, <1>6, <2>3
        <4>2. CASE q # p
          <5>1. PICK i \in 1..Len(finishedPrompts) : finishedPrompts[i] = q
            BY <4>2, <3>4, <1>3, <2>3 DEF Inv, MemoryOK
          <5> QED
            BY <5>1, <1>4, <1>6, <2>3
        <4> QED
          BY <4>1, <4>2
      <3>5. Len(finishedPrompts') <= FinishedPromptLimit
        BY <1>4, <1>6, <2>3
      <3> QED
        BY <3>2, <3>3, <3>4, <3>5 DEF MemoryOK
    <2> QED
      BY <2>2, <2>3
  <1> QED
    BY <1>7, <1>8, <1>9, <1>10 DEF Inv

-----------------------------------------------------------------------------
\* Every action keeps the invariant.

LEMMA RunOfStarted ==
  ASSUME Inv, NEW p \in Prompts, Started(p)
  PROVE  runs[p] \in PromptRun /\ RunOK(runs[p])
  BY DEF Inv, TypeOK, RunsOK, Started

\* The loop goes on to the next await; the turn is not saved before the last.
LEMMA ContinuesInv ==
  ASSUME Inv, NEW p \in Prompts, Started(p), runs[p].at \notin {"save", "done"},
         NEW phase \in AnsweringPhases, NEW await \in {"list", "step", "call", "save"},
         NEW event \in EventsAt(await), Continues(p, phase, await, event)
  PROVE  Inv'
  <1> DEFINE r == [runs[p] EXCEPT !.phase = phase, !.at = await, !.event = event, !.pending = FALSE]
  <1>1. runs[p] \in PromptRun /\ RunOK(runs[p])
    BY RunOfStarted
  <1>2. event \in {"selecting", "succeeded", "failed", "refused", "processing"}
    BY DEF EventsAt, SelectingEvents
  <1>3. r \in PromptRun
    BY <1>1, <1>2 DEF PromptRun
  <1>4. RunOK(r)
    BY <1>1 DEF RunOK, PromptRun, AnsweringPhases
  <1>5. runs' = [runs EXCEPT ![p] = r]
    BY <1>1 DEF Continues, Inv, TypeOK, PromptRun
  <1>6. r.conversation = runs[p].conversation /\ r.phase = phase
    BY <1>1 DEF PromptRun
  <1>7. runs[p].phase \in AnsweringPhases
    BY <1>1 DEF Continues, IsStopped, RunOK
  <1>8. UNCHANGED <<memoryVars, requests>> /\ turns' \in [Conversations -> Seq(Prompts) \cup {None}]
    BY DEF Continues, Inv, TypeOK, memoryVars
  <1> HIDE DEF r
  <1> QED
    BY <1>3, <1>4, <1>5, <1>6, <1>7, <1>8, KeptInv

LEMMA ExecutesInv ==
  ASSUME Inv, NEW p \in Prompts, Executes(p)
  PROVE  Inv'
  <1>1. Started(p) /\ runs[p].at = "queued"
    BY DEF Executes, Waits, Started
  <1> QED
    BY <1>1, ContinuesInv DEF Executes, AnsweringPhases, EventsAt

LEMMA ListArrivesInv ==
  ASSUME Inv, NEW p \in Prompts, ListArrives(p)
  PROVE  Inv'
  <1>1. Started(p) /\ runs[p].at = "list"
    BY DEF ListArrives, Waits, Started
  <1>2. runs[p].event \in EventsAt("step")
    BY <1>1, RunOfStarted DEF RunOK, EventsAt, SelectingEvents
  <1> QED
    BY <1>1, <1>2, ContinuesInv DEF ListArrives, AnsweringPhases

LEMMA ModelSelectsInv ==
  ASSUME Inv, NEW p \in Prompts, ModelSelects(p)
  PROVE  Inv'
  <1> DEFINE r == [runs[p] EXCEPT !.phase = "awaitingPermission", !.at = "ask",
                     !.event = "permission", !.pending = TRUE, !.steps = @ + 1]
  <1>1. Started(p) /\ runs[p].at = "step" /\ runs[p] \in PromptRun /\ RunOK(runs[p])
    BY RunOfStarted DEF ModelSelects, Waits, Started
  <1>2. runs[p].steps + 1 \in 0..MaxSteps
    BY <1>1, PromptRunnerAssumption DEF ModelSelects, PromptRun
  <1>3. r \in PromptRun
    BY <1>1, <1>2 DEF PromptRun, AnsweringPhases
  <1>4. RunOK(r)
    BY <1>1 DEF RunOK, PromptRun, AnsweringPhases, EventsAt
  <1>5. runs' = [runs EXCEPT ![p] = r]
    BY <1>1 DEF ModelSelects, Inv, TypeOK, PromptRun
  <1>6. r.conversation = runs[p].conversation /\ r.phase \in AnsweringPhases
    BY <1>1 DEF PromptRun, AnsweringPhases
  <1>7. runs[p].phase \in AnsweringPhases
    BY <1>1 DEF ModelSelects, IsStopped, RunOK
  <1>8. UNCHANGED <<memoryVars, requests>> /\ turns' \in [Conversations -> Seq(Prompts) \cup {None}]
    BY DEF ModelSelects, Inv, TypeOK, memoryVars
  <1> HIDE DEF r
  <1> QED
    BY <1>1, <1>3, <1>4, <1>5, <1>6, <1>7, <1>8, KeptInv

LEMMA CallReturnsInv ==
  ASSUME Inv, NEW p \in Prompts, NEW status \in {"succeeded", "failed"}, CallReturns(p, status)
  PROVE  Inv'
  <1>1. Started(p) /\ runs[p].at = "call"
    BY DEF CallReturns, Waits, Started
  <1> QED
    BY <1>1, ContinuesInv DEF CallReturns, AnsweringPhases, EventsAt, SelectingEvents

LEMMA ModelAnswersInv ==
  ASSUME Inv, NEW p \in Prompts, ModelAnswers(p)
  PROVE  Inv'
  <1>1. Started(p) /\ runs[p].at = "step"
    BY DEF ModelAnswers, Waits, Started
  <1>2. runs[p].event \in EventsAt("save")
    BY <1>1, RunOfStarted DEF RunOK, EventsAt, SelectingEvents
  <1> QED
    BY <1>1, <1>2, ContinuesInv DEF ModelAnswers, AnsweringPhases

LEMMA AppendTurnInv ==
  ASSUME Inv, NEW p \in Prompts, AppendTurn(p)
  PROVE  Inv'
  <1> DEFINE r == [runs[p] EXCEPT !.pushed = TRUE]
  <1>1. Started(p) /\ runs[p].at = "save" /\ runs[p] \in PromptRun /\ RunOK(runs[p])
    BY RunOfStarted DEF AppendTurn, Waits, Started
  <1>2. r \in PromptRun
    BY <1>1 DEF PromptRun
  <1>3. RunOK(r)
    BY <1>1 DEF RunOK, PromptRun
  <1>4. runs' = [runs EXCEPT ![p] = r]
    BY <1>1 DEF AppendTurn, Inv, TypeOK, PromptRun
  <1>5. r.conversation = runs[p].conversation /\ r.phase = runs[p].phase
    BY <1>1 DEF PromptRun
  <1>6. UNCHANGED <<memoryVars, requests>> /\ turns' \in [Conversations -> Seq(Prompts) \cup {None}]
    <2>1. runs[p].conversation \in Conversations
      BY <1>1 DEF PromptRun
    <2>2. turns[runs[p].conversation] \in Seq(Prompts)
      BY <2>1 DEF AppendTurn, Inv, TypeOK
    <2>3. Append(turns[runs[p].conversation], p) \in Seq(Prompts)
      BY <2>2
    <2> QED
      BY <2>1, <2>3 DEF AppendTurn, Inv, TypeOK, memoryVars
  <1> HIDE DEF r
  <1> QED
    BY <1>1, <1>2, <1>3, <1>4, <1>5, <1>6, KeptInv

LEMMA EmitStoppedInv ==
  ASSUME Inv, NEW p \in Prompts, Started(p), runs[p].at # "done", IsStopped(p),
         EmitStopped(p), UNCHANGED <<turns, requests>>
  PROVE  Inv'
  <1> DEFINE r == [runs[p] EXCEPT !.at = "done", !.terminalEventSent = TRUE, !.event = "stopped"]
  <1>1. runs[p] \in PromptRun /\ RunOK(runs[p]) /\ ~runs[p].terminalEventSent
    BY RunOfStarted DEF RunOK
  <1>2. r \in PromptRun
    BY <1>1 DEF PromptRun, TerminalEvents
  <1>3. RunOK(r)
    BY <1>1 DEF IsStopped, RunOK, PromptRun, EventsAt, TerminalEvents, AnsweringPhases
  <1>4. runs' = [runs EXCEPT ![p] = r]
    BY <1>1 DEF EmitStopped, Inv, TypeOK, PromptRun
  <1>5. r.conversation = runs[p].conversation /\ r.phase = runs[p].phase
    BY <1>1 DEF PromptRun
  <1>6. UNCHANGED <<memoryVars, requests>> /\ turns' \in [Conversations -> Seq(Prompts) \cup {None}]
    BY DEF EmitStopped, Inv, TypeOK, memoryVars
  <1> HIDE DEF r
  <1> QED
    BY <1>2, <1>3, <1>4, <1>5, <1>6, KeptInv

LEMMA EndsInv ==
  ASSUME Inv, NEW p \in Prompts, Started(p), runs[p].at # "done", ~IsStopped(p),
         NEW phase, NEW event,
         \/ phase = "answered" /\ event = "answer" /\ runs[p].pushed
         \/ phase = "failed" /\ event = "error",
         Ends(p, phase, event), UNCHANGED <<turns, requests>>
  PROVE  Inv'
  <1> DEFINE r == [runs[p] EXCEPT !.phase = phase, !.at = "done", !.pending = FALSE,
                     !.terminalEventSent = TRUE, !.event = event]
  <1>1. runs[p] \in PromptRun /\ RunOK(runs[p])
    BY RunOfStarted
  <1>2. r \in PromptRun
    BY <1>1 DEF PromptRun, TerminalEvents
  <1>3. RunOK(r)
    BY <1>1 DEF RunOK, PromptRun, EventsAt, TerminalEvents, AnsweringPhases
  <1>4. runs' = [runs EXCEPT ![p] = r]
    BY <1>1 DEF Ends, Inv, TypeOK, PromptRun
  <1>5. r.conversation = runs[p].conversation /\ r.phase \notin AnsweringPhases
    BY <1>1 DEF PromptRun, AnsweringPhases
  <1>6. Answering(p)
    BY <1>1 DEF IsStopped, RunOK, Answering, IsAnswering
  <1>7. ClaimTerminal(p)
    BY DEF Ends
  <1> HIDE DEF r
  <1> QED
    BY <1>2, <1>3, <1>4, <1>5, <1>6, <1>7, ClaimedInv

LEMMA LoopFindsStopInv ==
  ASSUME Inv, NEW p \in Prompts, LoopFindsStop(p)
  PROVE  Inv'
  <1>1. Started(p) /\ runs[p].at # "done" /\ IsStopped(p)
    BY DEF LoopFindsStop, Waits, Started
  <1> QED
    BY <1>1, EmitStoppedInv DEF LoopFindsStop

LEMMA FailsInv ==
  ASSUME Inv, NEW p \in Prompts, Fails(p)
  PROVE  Inv'
  <1>1. Started(p) /\ runs[p].at # "done" /\ ~IsStopped(p)
    BY DEF Fails, Waits, Started
  <1> QED
    BY <1>1, EndsInv DEF Fails

LEMMA TurnIsSavedInv ==
  ASSUME Inv, NEW p \in Prompts, TurnIsSaved(p)
  PROVE  Inv'
  <1>1. Started(p) /\ runs[p].at # "done" /\ runs[p].pushed
    BY DEF TurnIsSaved, Waits, Started
  <1> QED
    BY <1>1, EmitStoppedInv, EndsInv DEF TurnIsSaved

LEMMA SaveFailsInv ==
  ASSUME Inv, NEW p \in Prompts, SaveFails(p)
  PROVE  Inv'
  <1>1. Started(p) /\ runs[p].at # "done"
    BY DEF SaveFails, Waits, Started
  <1> QED
    BY <1>1, EmitStoppedInv, EndsInv DEF SaveFails

\* An open ask parks the loop of a prompt that is being answered.
LEMMA OpenAsk ==
  ASSUME Inv, NEW p \in Prompts, p \in activePrompts, runs[p].pending
  PROVE  Started(p) /\ runs[p].at = "ask"
  <1>1. Started(p)
    BY DEF Inv, MapsOK, Answering
  <1> QED
    BY <1>1, RunOfStarted DEF RunOK

LEMMA PermitInv ==
  ASSUME Inv, NEW p \in Prompts, Permit(p)
  PROVE  Inv'
  <1>1. Started(p) /\ runs[p].at = "ask"
    BY OpenAsk DEF Permit
  <1> QED
    BY <1>1, ContinuesInv DEF Permit, AnsweringPhases, EventsAt

LEMMA RefuseInv ==
  ASSUME Inv, NEW p \in Prompts, Refuse(p)
  PROVE  Inv'
  <1>1. Started(p) /\ runs[p].at = "ask"
    BY OpenAsk DEF Refuse
  <1> QED
    BY <1>1, ContinuesInv DEF Refuse, AnsweringPhases, EventsAt, SelectingEvents

LEMMA StopInv ==
  ASSUME Inv, NEW p \in Prompts, Stop(p)
  PROVE  Inv'
  <1> DEFINE r == [runs[p] EXCEPT !.phase = "stopped", !.pending = FALSE]
  <1>1. Answering(p) /\ runs[p] \in PromptRun /\ RunOK(runs[p])
    BY RunOfStarted DEF Stop, Inv, MapsOK, Answering
  <1>2. r \in PromptRun
    BY <1>1 DEF PromptRun
  <1>3. RunOK(r)
    BY <1>1 DEF RunOK, PromptRun, Answering, IsAnswering, AnsweringPhases
  <1>4. runs' = [runs EXCEPT ![p] = r]
    BY <1>1 DEF Stop, Inv, TypeOK, PromptRun
  <1>5. r.conversation = runs[p].conversation /\ r.phase \notin AnsweringPhases
    BY <1>1 DEF PromptRun, AnsweringPhases
  <1>6. ClaimTerminal(p) /\ UNCHANGED <<turns, requests>>
    BY DEF Stop
  <1> HIDE DEF r
  <1> QED
    BY <1>1, <1>2, <1>3, <1>4, <1>5, <1>6, ClaimedInv

\* A prompt takes an id no run has, in a conversation nobody is answered in.
LEMMA StartResumesInv ==
  ASSUME Inv, NEW q \in Requests, StartResumes(q)
  PROVE  Inv'
  <1> DEFINE c == requests[q].conversation
             r == NewRun(c, requests[q].turns)
  <1>1. PICK p \in Prompts :
          /\ runs[p] = None
          /\ runs' = [runs EXCEPT ![p] = r]
          /\ activePrompts' = activePrompts \cup {p}
          /\ activePromptByConversation' = [activePromptByConversation EXCEPT ![c] = p]
    BY DEF StartResumes
  <1>2. c \in Conversations /\ requests[q].turns \in Seq(Prompts) /\ activePromptByConversation[c] = None
    BY DEF StartResumes, Inv, TypeOK
  <1>3. /\ r \in PromptRun /\ RunOK(r) /\ r.phase \in AnsweringPhases /\ r.conversation = c
    BY <1>2, PromptRunnerAssumption DEF NewRun, PromptRun, RunOK, EventsAt, AnsweringPhases
  <1> HIDE DEF r, c
  <1>4. runs'[p] = r /\ r # None /\ \A o \in Prompts \ {p} : runs'[o] = runs[o]
    BY <1>1, <1>3, NoneIsNoRun DEF Inv, TypeOK
  <1>5. /\ Answering(p)' /\ ~Answering(p) /\ ~HasEnded(p) /\ ~HasEnded(p)'
        /\ \A o \in Prompts \ {p} : /\ Answering(o)' <=> Answering(o)
                                    /\ HasEnded(o)' <=> HasEnded(o)
                                    /\ Started(o)' <=> Started(o)
    BY <1>1, <1>3, <1>4 DEF Answering, HasEnded, Started, IsAnswering
  <1>6. UNCHANGED <<finishedPrompts, turns>> /\ requests' = [requests EXCEPT ![q] = None]
    BY DEF StartResumes, Finish
  <1>7. TypeOK'
    BY <1>1, <1>2, <1>3, <1>6 DEF Inv, TypeOK
  <1>8. RunsOK'
    BY <1>3, <1>4, <1>5 DEF Inv, RunsOK, Started
  <1>9. MapsOK'
    <2>1. \A o \in Prompts : o \in activePrompts' <=> Answering(o)'
      BY <1>1, <1>5 DEF Inv, MapsOK
    <2>2. ASSUME NEW o \in Prompts, Answering(o)'
          PROVE  activePromptByConversation'[runs'[o].conversation] = o
      <3>1. CASE o = p
        BY <3>1, <1>1, <1>2, <1>3, <1>4 DEF Inv, TypeOK
      <3>2. CASE o # p
        <4>1. Answering(o) /\ runs'[o] = runs[o] /\ runs[o].conversation \in Conversations
          BY <3>2, <2>2, <1>4, <1>5 DEF Inv, TypeOK, Answering, Started, PromptRun
        <4>2. activePromptByConversation[runs[o].conversation] = o /\ o # None
          BY <4>1, PromptRunnerAssumption DEF Inv, MapsOK
        <4> QED
          BY <4>1, <4>2, <1>1, <1>2 DEF Inv, TypeOK
      <3> QED
        BY <3>1, <3>2
    <2>3. ASSUME NEW d \in Conversations, NEW o \in Prompts, activePromptByConversation'[d] = o
          PROVE  Answering(o)' /\ runs'[o].conversation = d
      <3>1. CASE d = c
        BY <3>1, <2>3, <1>1, <1>2, <1>3, <1>4, <1>5 DEF Inv, TypeOK
      <3>2. CASE d # c
        <4>1. activePromptByConversation[d] = o
          BY <3>2, <2>3, <1>1 DEF Inv, TypeOK
        <4>2. Answering(o) /\ runs[o].conversation = d
          BY <4>1 DEF Inv, MapsOK
        <4> QED
          BY <4>2, <1>4, <1>5
      <3> QED
        BY <3>1, <3>2
    <2> QED
      BY <2>1, <2>2, <2>3 DEF MapsOK
  <1>10. MemoryOK'
    <2>1. \A i \in 1..Len(finishedPrompts) : finishedPrompts[i] \in Prompts
      BY DEF Inv, TypeOK
    <2> QED
      BY <2>1, <1>5, <1>6 DEF Inv, MemoryOK
  <1> QED
    BY <1>7, <1>8, <1>9, <1>10 DEF Inv

\* What is in flight, and what is stored, is not in the invariant but for its type.
LEMMA SameRunnerInv ==
  ASSUME Inv, TypeOK', UNCHANGED <<runs, memoryVars>>
  PROVE  Inv'
  <1>1. RunsOK' /\ MapsOK'
    BY DEF Inv, RunsOK, MapsOK, Started, Answering, IsAnswering, memoryVars
  <1>2. MemoryOK'
    BY DEF Inv, MemoryOK, HasEnded, Started, IsAnswering, memoryVars
  <1> QED
    BY <1>1, <1>2 DEF Inv

LEMMA RequestInv ==
  ASSUME Inv, NEW q \in Requests,
         (\E c \in Conversations : Start(q, c)) \/ GetByIdForUser(q) \/ StartThrows(q)
  PROVE  Inv'
  <1>1. UNCHANGED <<runs, memoryVars, turns>>
    BY DEF Start, GetByIdForUser, StartThrows
  <1>2. requests' \in [Requests -> [conversation : Conversations, turns : Seq(Prompts) \cup {None}] \cup {None}]
    <2>1. CASE \E c \in Conversations : Start(q, c)
      BY <2>1 DEF Start, Inv, TypeOK
    <2>2. CASE GetByIdForUser(q)
      <3>1. requests[q].conversation \in Conversations
            /\ requests[q] \in [conversation : Conversations, turns : Seq(Prompts) \cup {None}]
        BY <2>2 DEF GetByIdForUser, Inv, TypeOK
      <3>2. turns[requests[q].conversation] \in Seq(Prompts)
        BY <3>1, <2>2 DEF GetByIdForUser, Inv, TypeOK
      <3> QED
        BY <3>1, <3>2, <2>2 DEF GetByIdForUser, Inv, TypeOK
    <2>3. CASE StartThrows(q)
      BY <2>3 DEF StartThrows, Finish, Inv, TypeOK
    <2> QED
      BY <2>1, <2>2, <2>3
  <1>3. TypeOK'
    BY <1>1, <1>2 DEF Inv, TypeOK, memoryVars
  <1> QED
    BY <1>1, <1>3, SameRunnerInv

LEMMA DeleteConversationInv ==
  ASSUME Inv, NEW c \in Conversations, DeleteConversation(c)
  PROVE  Inv'
  <1>1. TypeOK'
    BY DEF DeleteConversation, Inv, TypeOK, memoryVars
  <1> QED
    BY <1>1, SameRunnerInv DEF DeleteConversation

LEMMA NextInv == Inv /\ [Next]_vars => Inv'
  <1> SUFFICES ASSUME Inv, [Next]_vars PROVE Inv'
    OBVIOUS
  <1>1. CASE UNCHANGED vars
    <2>1. TypeOK'
      BY <1>1 DEF Inv, TypeOK, vars, memoryVars
    <2> QED
      BY <1>1, <2>1, SameRunnerInv DEF vars
  <1>2. ASSUME NEW q \in Requests,
               (\E c \in Conversations : Start(q, c)) \/ GetByIdForUser(q) \/ StartResumes(q) \/ StartThrows(q)
        PROVE  Inv'
    BY <1>2, RequestInv, StartResumesInv
  <1>3. ASSUME NEW p \in Prompts, Loop(p)
        PROVE  Inv'
    <2>1. CASE Executes(p) \/ ListArrives(p) \/ ModelSelects(p) \/ ModelAnswers(p)
      BY <2>1, ExecutesInv, ListArrivesInv, ModelSelectsInv, ModelAnswersInv
    <2>2. CASE \E status \in {"succeeded", "failed"} : CallReturns(p, status)
      BY <2>2, CallReturnsInv
    <2>3. CASE AppendTurn(p) \/ TurnIsSaved(p) \/ SaveFails(p) \/ Fails(p) \/ LoopFindsStop(p)
      BY <2>3, AppendTurnInv, TurnIsSavedInv, SaveFailsInv, FailsInv, LoopFindsStopInv
    <2> QED
      BY <1>3, <2>1, <2>2, <2>3 DEF Loop
  <1>4. ASSUME NEW p \in Prompts, Permit(p) \/ Refuse(p) \/ Stop(p)
        PROVE  Inv'
    BY <1>4, PermitInv, RefuseInv, StopInv
  <1>5. ASSUME NEW c \in Conversations, DeleteConversation(c)
        PROVE  Inv'
    BY <1>5, DeleteConversationInv
  <1> QED
    BY <1>1, <1>2, <1>3, <1>4, <1>5 DEF Next

\* The types, what each run's await says of it, and what the maps and the memory hold
\* stay true together; none of the four is inductive alone.
THEOREM Invariance == Spec => []Inv
  BY InitInv, NextInv, PTL DEF Spec

-----------------------------------------------------------------------------
\* What the invariant says of the runner

LEMMA InvTracks == Inv => PromptsAreTracked
  <1> SUFFICES ASSUME Inv PROVE PromptsAreTracked
    OBVIOUS
  <1>1. ActiveIsAnswering
    <2>1. ASSUME NEW p \in Prompts, p \in activePrompts
          PROVE  \E c \in Conversations : activePromptByConversation[c] = p
      <3>1. Answering(p) /\ runs[p].conversation \in Conversations
        BY <2>1 DEF Inv, TypeOK, MapsOK, Answering, Started, PromptRun
      <3> QED
        BY <3>1 DEF Inv, MapsOK
    <2> QED
      BY <2>1 DEF Inv, MapsOK, ActiveIsAnswering, Answering, Started
  <1>2. FinishedIsRemembered
    <2>1. finishedPrompts \in Seq(Prompts) /\ DOMAIN finishedPrompts = 1..Len(finishedPrompts)
      BY DEF Inv, TypeOK
    <2>2. {finishedPrompts[i] : i \in DOMAIN finishedPrompts}
            \subseteq {p \in Prompts : runs[p] # None /\ ~IsAnswering(p)}
      BY <2>1 DEF Inv, MemoryOK, HasEnded, Started
    <2>3. Len(finishedPrompts) # FinishedPromptLimit =>
            {p \in Prompts : runs[p] # None /\ ~IsAnswering(p)}
              \subseteq {finishedPrompts[i] : i \in DOMAIN finishedPrompts}
      BY <2>1 DEF Inv, MemoryOK, HasEnded, Started
    <2> QED
      BY <2>1, <2>2, <2>3 DEF Inv, MemoryOK, FinishedIsRemembered
  <1> QED
    BY <1>1, <1>2 DEF Inv, PromptsAreTracked

\* For any prompts and any size of the memory, the runner's maps tell which prompts go
\* on, in which conversation, and which have ended (activePrompts,
\* activePromptByConversation and finishedPrompts).
THEOREM PromptsStayTracked == Spec => []PromptsAreTracked
  BY Invariance, InvTracks, PTL

LEMMA InvReplays == Inv => OpenAskIsReplayed
  <1> SUFFICES ASSUME Inv, NEW p \in Prompts, runs[p] # None
               PROVE  p \in activePrompts /\ runs[p].pending
                        <=> runs[p].event = "permission" /\ ~IsStopped(p)
    BY DEF OpenAskIsReplayed
  <1>1. Started(p) /\ runs[p] \in PromptRun /\ RunOK(runs[p])
    BY RunOfStarted DEF Started
  <1>2. runs[p].event = "permission" <=> runs[p].at = "ask"
    BY <1>1, NoneIsNoEvent DEF RunOK, PromptRun, EventsAt, SelectingEvents, TerminalEvents
  <1>3. runs[p].pending <=> runs[p].at = "ask" /\ ~IsStopped(p)
    BY <1>1 DEF RunOK, IsStopped
  <1>4. runs[p].pending => p \in activePrompts
    BY <1>1, <1>3 DEF Inv, MapsOK, Answering, IsAnswering, IsStopped, RunOK
  <1> QED
    BY <1>2, <1>3, <1>4

\* What a stream that opens is replayed, the open asks of active prompts, are the asks
\* nothing has followed yet, for any number of prompts (streamMcp).
THEOREM OpenAsksAreReplayed == Spec => []OpenAskIsReplayed
  BY Invariance, InvReplays, PTL

-----------------------------------------------------------------------------
\* A stop is final

\* What a step may do with a prompt that is stopped.
Final(p) ==
  /\ runs'[p].at \in {runs[p].at, "done"}
  /\ runs'[p].event # runs[p].event => runs'[p].event = "stopped"

LEMMA OthersFinal ==
  ASSUME Inv, NEW p \in Prompts, NEW o \in Prompts, NEW r, runs' = [runs EXCEPT ![o] = r],
         o # p
  PROVE  Final(p)
  BY DEF Inv, TypeOK, Final

LEMMA StepFinal ==
  ASSUME Inv, [Next]_vars, NEW p \in Prompts, runs[p] # None, IsStopped(p)
  PROVE  Final(p)
  <1>1. CASE UNCHANGED runs
    BY <1>1 DEF Final
  <1>2. ASSUME NEW o \in Prompts, o # p, \E r : runs' = [runs EXCEPT ![o] = r]
        PROVE  Final(p)
    BY <1>2, OthersFinal
  <1>3. p \notin activePrompts /\ runs[p] \in PromptRun /\ RunOK(runs[p])
    BY RunOfStarted DEF Inv, MapsOK, Answering, Started, IsAnswering, IsStopped, AnsweringPhases
  <1>4. CASE EmitStopped(p)
    BY <1>3, <1>4 DEF EmitStopped, Final, Inv, TypeOK, PromptRun
  <1>5. CASE AppendTurn(p)
    BY <1>3, <1>5 DEF AppendTurn, Final, Inv, TypeOK, PromptRun
  <1>6. ASSUME NEW q \in Requests,
               (\E c \in Conversations : Start(q, c)) \/ GetByIdForUser(q) \/ StartResumes(q) \/ StartThrows(q)
        PROVE  Final(p)
    <2>1. CASE StartResumes(q)
      <3>1. PICK o \in Prompts : runs[o] = None /\ \E r : runs' = [runs EXCEPT ![o] = r]
        BY <2>1 DEF StartResumes
      <3> QED
        BY <3>1, <1>2
    <2>2. CASE (\E c \in Conversations : Start(q, c)) \/ GetByIdForUser(q) \/ StartThrows(q)
      BY <2>2, <1>1 DEF Start, GetByIdForUser, StartThrows
    <2> QED
      BY <1>6, <2>1, <2>2
  <1>7. ASSUME NEW o \in Prompts, Loop(o) \/ Permit(o) \/ Refuse(o) \/ Stop(o)
        PROVE  Final(p)
    <2>1. CASE o = p
      <3>1. ~IsStopped(o) => FALSE
        BY <2>1
      <3>2. \/ EmitStopped(o) \/ AppendTurn(o)
        BY <3>1, <1>3, <1>7, <2>1
           DEF Loop, Executes, ListArrives, ModelSelects, ModelAnswers, CallReturns, Continues,
               TurnIsSaved, SaveFails, Fails, LoopFindsStop, Permit, Refuse, Stop
      <3> QED
        BY <3>2, <2>1, <1>4, <1>5
    <2>2. CASE o # p
      <3>1. runs'[p] = runs[p]
        BY <1>7, <2>2
           DEF Loop, Executes, ListArrives, ModelSelects, ModelAnswers, CallReturns, Continues,
               TurnIsSaved, SaveFails, Fails, LoopFindsStop, Permit, Refuse, Stop, Ends,
               EmitStopped, AppendTurn, Inv, TypeOK
      <3> QED
        BY <3>1 DEF Final
    <2> QED
      BY <2>1, <2>2
  <1>8. ASSUME NEW c \in Conversations, DeleteConversation(c)
        PROVE  Final(p)
    BY <1>8, <1>1 DEF DeleteConversation
  <1>9. CASE UNCHANGED vars
    BY <1>9, <1>1 DEF vars
  <1> QED
    BY <1>6, <1>7, <1>8, <1>9 DEF Next

\* However a stop meets the reply it interrupts, a save and the next prompt, the loop of
\* a stopped prompt starts nothing more, and its only further event is "stopped" (stop,
\* isStopped and emitStopped).
THEOREM StopsAreFinal == Spec => StopIsFinal
  <1>1. Inv /\ [Next]_vars =>
          [\A p \in Prompts :
             (runs[p] # None /\ IsStopped(p)) =>
               /\ runs'[p].at \in {runs[p].at, "done"}
               /\ runs'[p].event # runs[p].event => runs'[p].event = "stopped"]_vars
    BY StepFinal DEF Final
  <1> QED
    BY <1>1, Invariance, PTL DEF Spec, StopIsFinal

-----------------------------------------------------------------------------
\* The runner implements PromptContract

\* The stage of a prompt follows from where its loop waits.
StageFollows(p) ==
  /\ ~Started(p) => Stage(p) = "new"
  /\ Started(p) /\ runs[p].at # "done" /\ IsStopped(p) => Stage(p) = "stopping"
  /\ Started(p) /\ ~IsStopped(p) =>
       /\ runs[p].at = "queued" => Stage(p) = "queued"
       /\ runs[p].at \in {"list", "step", "save"} => Stage(p) = "selecting"
       /\ runs[p].at = "ask" => Stage(p) = "asking"
       /\ runs[p].at = "call" => Stage(p) = "calling"
  /\ Started(p) /\ runs[p].at = "done" =>
       /\ runs[p].event = "answer" => Stage(p) = "answered"
       /\ runs[p].event = "error" => Stage(p) = "failed"
       /\ runs[p].event = "stopped" => Stage(p) = "stopped"

StagesFollow == \A p \in Prompts : StageFollows(p)

LEMMA StageFacts == Inv => StagesFollow
  <1> SUFFICES ASSUME Inv, NEW p \in Prompts PROVE StageFollows(p)
    BY DEF StagesFollow
  <1>1. CASE ~Started(p)
    BY <1>1 DEF Started, Stage, StageFollows
  <1>2. CASE Started(p)
    <2>1. RunOK(runs[p])
      BY <1>2, RunOfStarted
    <2>2. runs[p].at = "done" => runs[p].terminalEventSent
      BY <2>1 DEF RunOK
    <2>3. runs[p].at # "done" => ~runs[p].terminalEventSent
      BY <2>1 DEF RunOK
    <2>4. /\ runs[p].at = "queued" => runs[p].event = None
          /\ runs[p].at \in {"list", "step", "save"} => runs[p].event \in SelectingEvents
          /\ runs[p].at = "ask" => runs[p].event = "permission"
          /\ runs[p].at = "call" => runs[p].event = "processing"
      BY <2>1 DEF RunOK, EventsAt, SelectingEvents
    <2> QED
      BY <1>2, <2>2, <2>3, <2>4, NoneIsNoEvent
         DEF Started, Stage, SelectingEvents, TerminalEvents, StageFollows
  <1> QED
    BY <1>1, <1>2

stages == [p \in Prompts |-> Stage(p)]

\* A step of one prompt moves its stage and no other's.
LEMMA StagesMove ==
  ASSUME Inv, NEW p \in Prompts, NEW r \in PromptRun, runs' = [runs EXCEPT ![p] = r]
  PROVE  /\ stages' = [stages EXCEPT ![p] = Stage(p)']
         /\ r.pushed <=> (Started(p) /\ runs[p].pushed)
              => {q \in Prompts : runs[q] # None /\ runs[q].pushed}'
                   = {q \in Prompts : runs[q] # None /\ runs[q].pushed}
  <1>1. runs'[p] = r /\ r # None /\ \A q \in Prompts \ {p} : runs'[q] = runs[q]
    BY NoneIsNoRun DEF Inv, TypeOK
  <1>2. \A q \in Prompts \ {p} : Stage(q)' = Stage(q)
    BY <1>1 DEF Stage, IsStopped
  <1> QED
    BY <1>1, <1>2 DEF stages, Started

savedTurns == {p \in Prompts : runs[p] # None /\ runs[p].pushed}

\* The same, of a step that keeps the turn as it was and whose stages are known.
LEMMA MovesTo ==
  ASSUME Inv, NEW p \in Prompts, Started(p), NEW r \in PromptRun, runs' = [runs EXCEPT ![p] = r],
         r.pushed = runs[p].pushed, NEW to, Stage(p)' = to
  PROVE  /\ stages' = [stages EXCEPT ![p] = to]
         /\ savedTurns' = savedTurns
         /\ stages[p] = Stage(p)
  BY StagesMove DEF savedTurns, stages

Moved(p, from, to) == stages[p] \in from /\ stages' = [stages EXCEPT ![p] = to] /\ savedTurns' = savedTurns

\* Two stages that are the same leave the contract's state as it is.
LEMMA MovesNowhere ==
  ASSUME NEW p \in Prompts, NEW s, Moved(p, {s}, s), UNCHANGED activePromptByConversation
  PROVE  UNCHANGED Contract!vars
  BY DEF Moved, Contract!vars, stages, savedTurns

\* A prompt that is being answered holds its conversation.
LEMMA HeldWhileAnswering ==
  ASSUME Inv, NEW p \in Prompts, Started(p), runs[p].at # "done", ~IsStopped(p)
  PROVE  Answering(p) /\ Contract!Held(p)
  <1>1. Answering(p) /\ runs[p].conversation \in Conversations
    BY RunOfStarted DEF RunOK, Answering, IsAnswering, IsStopped, PromptRun
  <1> QED
    BY <1>1 DEF Contract!Held, Inv, MapsOK

LEMMA ReleasedByClaim ==
  ASSUME NEW p \in Prompts, ClaimTerminal(p)
  PROVE  activePromptByConversation' = Contract!Released(p)
  BY DEF ClaimTerminal, Contract!Released

\* A step that leaves the loop waiting elsewhere moves the stage as the await says.
LEMMA StageAfterStep ==
  ASSUME Inv, Inv', NEW p \in Prompts, Started(p), NEW r \in PromptRun,
         runs' = [runs EXCEPT ![p] = r], r.pushed = runs[p].pushed
  PROVE  /\ r.phase # "stopped" =>
              /\ r.at = "list" => Moved(p, {Stage(p)}, "selecting")
              /\ r.at = "step" => Moved(p, {Stage(p)}, "selecting")
              /\ r.at = "save" => Moved(p, {Stage(p)}, "selecting")
              /\ r.at = "ask" => Moved(p, {Stage(p)}, "asking")
              /\ r.at = "call" => Moved(p, {Stage(p)}, "calling")
         /\ r.phase = "stopped" /\ r.at # "done" => Moved(p, {Stage(p)}, "stopping")
         /\ r.at = "done" /\ r.event = "answer" => Moved(p, {Stage(p)}, "answered")
         /\ r.at = "done" /\ r.event = "error" => Moved(p, {Stage(p)}, "failed")
         /\ r.at = "done" /\ r.event = "stopped" => Moved(p, {Stage(p)}, "stopped")
  <1>1. runs'[p] = r /\ Started(p)'
    BY NoneIsNoRun DEF Inv, TypeOK, Started
  <1>2. IsStopped(p)' <=> r.phase = "stopped"
    BY <1>1 DEF IsStopped
  <1>3. ASSUME NEW to, Stage(p)' = to
        PROVE  Moved(p, {Stage(p)}, to)
    BY <1>3, MovesTo DEF Moved
  <1>4. /\ r.at # "done" /\ r.phase = "stopped" => Stage(p)' = "stopping"
        /\ r.phase # "stopped" =>
             /\ r.at \in {"list", "step", "save"} => Stage(p)' = "selecting"
             /\ r.at = "ask" => Stage(p)' = "asking"
             /\ r.at = "call" => Stage(p)' = "calling"
        /\ r.at = "done" =>
             /\ r.event = "answer" => Stage(p)' = "answered"
             /\ r.event = "error" => Stage(p)' = "failed"
             /\ r.event = "stopped" => Stage(p)' = "stopped"
    <2>1. (Inv => StagesFollow)'
      BY StageFacts, PTL
    <2>2. StageFollows(p)'
      BY <2>1 DEF StagesFollow
    <2> QED
      BY <1>1, <1>2, <2>2 DEF StageFollows
  <1> QED
    BY <1>3, <1>4

LEMMA StageAfterContinues ==
  ASSUME Inv, Inv', NEW p \in Prompts, Started(p), NEW phase \in AnsweringPhases,
         NEW await \in {"list", "step", "call", "save"}, NEW event \in EventsAt(await),
         Continues(p, phase, await, event)
  PROVE  /\ await # "call" => Moved(p, {Stage(p)}, "selecting")
         /\ await = "call" => Moved(p, {Stage(p)}, "calling")
         /\ UNCHANGED activePromptByConversation
         /\ ~IsStopped(p)
  <1> DEFINE r == [runs[p] EXCEPT !.phase = phase, !.at = await, !.event = event, !.pending = FALSE]
  <1>1. runs[p] \in PromptRun
    BY RunOfStarted
  <1>2. event \in {"selecting", "succeeded", "failed", "refused", "processing"}
    BY DEF EventsAt, SelectingEvents
  <1>3. r \in PromptRun
    BY <1>1, <1>2 DEF PromptRun
  <1>4. runs' = [runs EXCEPT ![p] = r]
    BY <1>1 DEF Continues, Inv, TypeOK, PromptRun
  <1>5. r.at = await /\ r.phase # "stopped" /\ r.pushed = runs[p].pushed
    BY <1>1 DEF PromptRun, AnsweringPhases
  <1> HIDE DEF r
  <1> QED
    BY <1>3, <1>4, <1>5, StageAfterStep DEF Continues, memoryVars

LEMMA InitRefines == Init => Contract!Init
  BY DEF Init, Contract!Init, Stage

LEMMA BeginRefines ==
  ASSUME Inv, Inv', NEW q \in Requests, StartResumes(q)
  PROVE  Contract!Next
  <1> DEFINE c == requests[q].conversation
             r == NewRun(c, requests[q].turns)
  <1>1. PICK p \in Prompts :
          /\ runs[p] = None
          /\ runs' = [runs EXCEPT ![p] = r]
          /\ activePromptByConversation' = [activePromptByConversation EXCEPT ![c] = p]
    BY DEF StartResumes
  <1>2. c \in Conversations /\ requests[q].turns \in Seq(Prompts) /\ activePromptByConversation[c] = None
    BY DEF StartResumes, Inv, TypeOK
  <1>3. r \in PromptRun /\ r.phase # "stopped" /\ r.at = "queued" /\ ~r.pushed
    BY <1>2, PromptRunnerAssumption DEF NewRun, PromptRun, AnsweringPhases
  <1> HIDE DEF r, c
  <1>4. runs'[p] = r /\ Started(p)' /\ ~IsStopped(p)' /\ ~Started(p)
    BY <1>1, <1>3, NoneIsNoRun DEF Inv, TypeOK, Started, IsStopped
  <1>5. stages[p] = "new" /\ Stage(p)' = "queued"
    <2>1. (Inv => StagesFollow)'
      BY StageFacts, PTL
    <2> QED
      BY <1>3, <1>4, <2>1, StageFacts DEF StagesFollow, StageFollows, stages
  <1>6. stages' = [stages EXCEPT ![p] = "queued"] /\ savedTurns' = savedTurns
    BY <1>1, <1>3, <1>4, <1>5, StagesMove DEF savedTurns
  <1>7. Contract!Begin(p, c)
    BY <1>1, <1>2, <1>5, <1>6 DEF Contract!Begin, Contract!Moves, stages, savedTurns
  <1> QED
    BY <1>2, <1>7 DEF Contract!Next

LEMMA ExecutesRefines ==
  ASSUME Inv, Inv', NEW p \in Prompts, Executes(p)
  PROVE  Contract!Next
  <1>1. Started(p) /\ runs[p].at = "queued" /\ ~IsStopped(p)
    BY DEF Executes, Waits, Started, Continues
  <1>2. Moved(p, {Stage(p)}, "selecting") /\ UNCHANGED activePromptByConversation
    BY <1>1, StageAfterContinues DEF Executes, AnsweringPhases, EventsAt
  <1>3. Stage(p) = "queued" /\ Contract!Held(p)
    BY <1>1, StageFacts, HeldWhileAnswering DEF StagesFollow, StageFollows
  <1>4. Contract!Step(p)
    BY <1>2, <1>3 DEF Contract!Step, Contract!Moves, Moved, stages, savedTurns
  <1> QED
    BY <1>4 DEF Contract!Next

\* The steps within the selection, and the last before the save, are not seen.
LEMMA SelectingStutters ==
  ASSUME Inv, Inv', NEW p \in Prompts, ListArrives(p) \/ ModelAnswers(p)
  PROVE  UNCHANGED Contract!vars
  <1>1. Started(p) /\ runs[p].at \in {"list", "step"} /\ ~IsStopped(p)
    BY DEF ListArrives, ModelAnswers, Waits, Started, Continues
  <1>2. runs[p].event \in SelectingEvents
    BY <1>1, RunOfStarted DEF RunOK, EventsAt, SelectingEvents
  <1>3. Moved(p, {Stage(p)}, "selecting") /\ UNCHANGED activePromptByConversation
    <2>1. CASE ListArrives(p)
      BY <1>1, <1>2, <2>1, StageAfterContinues DEF ListArrives, AnsweringPhases, EventsAt
    <2>2. CASE ModelAnswers(p)
      BY <1>1, <1>2, <2>2, StageAfterContinues DEF ModelAnswers, AnsweringPhases, EventsAt
    <2> QED
      BY <2>1, <2>2
  <1>4. Stage(p) = "selecting"
    BY <1>1, StageFacts DEF StagesFollow, StageFollows
  <1> QED
    BY <1>3, <1>4, MovesNowhere

LEMMA ModelSelectsRefines ==
  ASSUME Inv, Inv', NEW p \in Prompts, ModelSelects(p)
  PROVE  Contract!Next
  <1> DEFINE r == [runs[p] EXCEPT !.phase = "awaitingPermission", !.at = "ask",
                     !.event = "permission", !.pending = TRUE, !.steps = @ + 1]
  <1>1. Started(p) /\ runs[p].at = "step" /\ runs[p] \in PromptRun /\ ~IsStopped(p)
    BY RunOfStarted DEF ModelSelects, Waits, Started
  <1>2. runs[p].steps + 1 \in 0..MaxSteps
    BY <1>1, PromptRunnerAssumption DEF ModelSelects, PromptRun
  <1>3. r \in PromptRun
    BY <1>1, <1>2 DEF PromptRun, AnsweringPhases
  <1>4. runs' = [runs EXCEPT ![p] = r]
    BY <1>1 DEF ModelSelects, Inv, TypeOK, PromptRun
  <1>5. r.at = "ask" /\ r.phase # "stopped" /\ r.pushed = runs[p].pushed
    BY <1>1 DEF PromptRun
  <1> HIDE DEF r
  <1>6. Moved(p, {Stage(p)}, "asking")
    BY <1>1, <1>3, <1>4, <1>5, StageAfterStep
  <1>7. Stage(p) = "selecting" /\ Contract!Held(p)
    BY <1>1, StageFacts, HeldWhileAnswering DEF StagesFollow, StageFollows
  <1>8. Contract!Step(p)
    BY <1>6, <1>7 DEF Contract!Step, Contract!Moves, Moved, stages, savedTurns, ModelSelects, memoryVars
  <1> QED
    BY <1>8 DEF Contract!Next

LEMMA CallReturnsRefines ==
  ASSUME Inv, Inv', NEW p \in Prompts, NEW status \in {"succeeded", "failed"}, CallReturns(p, status)
  PROVE  Contract!Next
  <1>1. Started(p) /\ runs[p].at = "call" /\ ~IsStopped(p)
    BY DEF CallReturns, Waits, Started, Continues
  <1>2. Moved(p, {Stage(p)}, "selecting") /\ UNCHANGED activePromptByConversation
    BY <1>1, StageAfterContinues DEF CallReturns, AnsweringPhases, EventsAt, SelectingEvents
  <1>3. Stage(p) = "calling" /\ Contract!Held(p)
    BY <1>1, StageFacts, HeldWhileAnswering DEF StagesFollow, StageFollows
  <1>4. Contract!Step(p)
    BY <1>2, <1>3 DEF Contract!Step, Contract!Moves, Moved, stages, savedTurns
  <1> QED
    BY <1>4 DEF Contract!Next

LEMMA SettleRefines ==
  ASSUME Inv, Inv', NEW p \in Prompts, Permit(p) \/ Refuse(p)
  PROVE  Contract!Next
  <1>1. Started(p) /\ runs[p].at = "ask" /\ ~IsStopped(p)
    BY OpenAsk DEF Permit, Refuse, Continues
  <1>2. Stage(p) = "asking" /\ Contract!Held(p)
    BY <1>1, StageFacts, HeldWhileAnswering DEF StagesFollow, StageFollows
  <1>3. \E to \in {"calling", "selecting"} : Moved(p, {Stage(p)}, to) /\ UNCHANGED activePromptByConversation
    <2>1. CASE Permit(p)
      BY <1>1, <2>1, StageAfterContinues DEF Permit, AnsweringPhases, EventsAt
    <2>2. CASE Refuse(p)
      BY <1>1, <2>2, StageAfterContinues DEF Refuse, AnsweringPhases, EventsAt, SelectingEvents
    <2> QED
      BY <2>1, <2>2
  <1>4. Contract!Step(p)
    BY <1>2, <1>3 DEF Contract!Step, Contract!Moves, Moved, stages, savedTurns
  <1> QED
    BY <1>4 DEF Contract!Next

LEMMA AppendTurnRefines ==
  ASSUME Inv, Inv', NEW p \in Prompts, AppendTurn(p)
  PROVE  Contract!Next
  <1> DEFINE r == [runs[p] EXCEPT !.pushed = TRUE]
  <1>1. Started(p) /\ runs[p].at = "save" /\ runs[p] \in PromptRun /\ ~runs[p].pushed
    BY RunOfStarted DEF AppendTurn, Waits, Started
  <1>2. r \in PromptRun /\ r.at = "save" /\ r.phase = runs[p].phase /\ r.pushed
    BY <1>1 DEF PromptRun
  <1>3. runs' = [runs EXCEPT ![p] = r]
    BY <1>1 DEF AppendTurn, Inv, TypeOK, PromptRun
  <1> HIDE DEF r
  <1>4. runs'[p] = r /\ Started(p)' /\ \A q \in Prompts \ {p} : runs'[q] = runs[q]
    BY <1>2, <1>3, NoneIsNoRun DEF Inv, TypeOK, Started
  <1>5. Stage(p) \in {"selecting", "stopping"} /\ Stage(p)' = Stage(p)
    <2>1. (Inv => StagesFollow)'
      BY StageFacts, PTL
    <2>2. IsStopped(p)' <=> IsStopped(p)
      BY <1>2, <1>4 DEF IsStopped
    <2> QED
      BY <1>1, <1>2, <1>4, <2>1, <2>2, StageFacts DEF StagesFollow, StageFollows
  <1>6. stages' = stages
    BY <1>2, <1>3, <1>5, StagesMove DEF stages
  <1>7. p \notin savedTurns /\ savedTurns' = savedTurns \cup {p}
    BY <1>1, <1>2, <1>4 DEF savedTurns, Started
  <1>8. Contract!Save(p)
    BY <1>5, <1>6, <1>7 DEF Contract!Save, stages, savedTurns, AppendTurn, memoryVars
  <1> QED
    BY <1>8 DEF Contract!Next

LEMMA EmitStoppedRefines ==
  ASSUME Inv, Inv', NEW p \in Prompts, Started(p), runs[p].at # "done", IsStopped(p), EmitStopped(p)
  PROVE  Contract!Next
  <1> DEFINE r == [runs[p] EXCEPT !.at = "done", !.terminalEventSent = TRUE, !.event = "stopped"]
  <1>1. runs[p] \in PromptRun /\ ~runs[p].terminalEventSent
    BY RunOfStarted DEF RunOK
  <1>2. r \in PromptRun /\ r.at = "done" /\ r.event = "stopped" /\ r.pushed = runs[p].pushed
    BY <1>1 DEF PromptRun, TerminalEvents
  <1>3. runs' = [runs EXCEPT ![p] = r]
    BY <1>1 DEF EmitStopped, Inv, TypeOK, PromptRun
  <1> HIDE DEF r
  <1>4. Moved(p, {Stage(p)}, "stopped")
    BY <1>2, <1>3, StageAfterStep
  <1>5. Stage(p) = "stopping"
    BY StageFacts DEF StagesFollow, StageFollows
  <1>6. Contract!ReportStopped(p)
    BY <1>4, <1>5 DEF Contract!ReportStopped, Contract!Moves, Moved, stages, savedTurns,
                      EmitStopped, memoryVars
  <1> QED
    BY <1>6 DEF Contract!Next

LEMMA EndsRefines ==
  ASSUME Inv, Inv', NEW p \in Prompts, Started(p), runs[p].at \notin {"queued", "done"}, ~IsStopped(p),
         NEW phase, NEW event,
         \/ phase = "answered" /\ event = "answer" /\ runs[p].pushed
         \/ phase = "failed" /\ event = "error",
         Ends(p, phase, event)
  PROVE  Contract!Next
  <1> DEFINE r == [runs[p] EXCEPT !.phase = phase, !.at = "done", !.pending = FALSE,
                     !.terminalEventSent = TRUE, !.event = event]
  <1>1. runs[p] \in PromptRun /\ RunOK(runs[p])
    BY RunOfStarted
  <1>2. r \in PromptRun /\ r.at = "done" /\ r.event = event /\ r.pushed = runs[p].pushed
    BY <1>1 DEF PromptRun, TerminalEvents
  <1>3. runs' = [runs EXCEPT ![p] = r]
    BY <1>1 DEF Ends, Inv, TypeOK, PromptRun
  <1> HIDE DEF r
  <1>4. /\ event = "answer" => Moved(p, {Stage(p)}, "answered")
        /\ event = "error" => Moved(p, {Stage(p)}, "failed")
    BY <1>2, <1>3, StageAfterStep
  <1>5. /\ Stage(p) \in {"selecting", "asking", "calling"}
        /\ runs[p].pushed => Stage(p) = "selecting"
    BY <1>1, StageFacts DEF StagesFollow, StageFollows, RunOK, PromptRun
  <1>6. Contract!Held(p) /\ activePromptByConversation' = Contract!Released(p)
    BY HeldWhileAnswering, ReleasedByClaim DEF Ends
  <1>7. CASE event = "answer"
    <2>1. p \in savedTurns /\ runs[p].pushed
      BY <1>7 DEF savedTurns, Started
    <2>2. Contract!Answer(p)
      BY <1>4, <1>5, <1>6, <1>7, <2>1 DEF Contract!Answer, Contract!Moves, Moved, stages, savedTurns
    <2> QED
      BY <2>2 DEF Contract!Next
  <1>8. CASE event = "error"
    <2>1. Contract!Fail(p)
      BY <1>4, <1>5, <1>6, <1>8 DEF Contract!Fail, Contract!Moves, Moved, stages, savedTurns
    <2> QED
      BY <2>1 DEF Contract!Next
  <1> QED
    BY <1>7, <1>8

LEMMA StopRefines ==
  ASSUME Inv, Inv', NEW p \in Prompts, Stop(p)
  PROVE  Contract!Next
  <1> DEFINE r == [runs[p] EXCEPT !.phase = "stopped", !.pending = FALSE]
  <1>1. Answering(p) /\ runs[p] \in PromptRun /\ RunOK(runs[p])
    BY RunOfStarted DEF Stop, Inv, MapsOK, Answering
  <1>2. Started(p) /\ runs[p].at # "done" /\ ~IsStopped(p)
    BY <1>1 DEF RunOK, Answering, IsAnswering, IsStopped, AnsweringPhases
  <1>3. r \in PromptRun /\ r.phase = "stopped" /\ r.at = runs[p].at /\ r.pushed = runs[p].pushed
    BY <1>1 DEF PromptRun
  <1>4. runs' = [runs EXCEPT ![p] = r]
    BY <1>1 DEF Stop, Inv, TypeOK, PromptRun
  <1> HIDE DEF r
  <1>5. Moved(p, {Stage(p)}, "stopping")
    BY <1>2, <1>3, <1>4, StageAfterStep
  <1>6. Stage(p) \in {"queued", "selecting", "asking", "calling"}
    BY <1>1, <1>2, StageFacts DEF StagesFollow, StageFollows, PromptRun
  <1>7. Contract!Held(p) /\ activePromptByConversation' = Contract!Released(p)
    BY <1>2, HeldWhileAnswering, ReleasedByClaim DEF Stop
  <1>8. Contract!Stop(p)
    BY <1>5, <1>6, <1>7 DEF Contract!Stop, Contract!Moves, Moved, stages, savedTurns
  <1> QED
    BY <1>8 DEF Contract!Next

LEMMA SameRunnerRefines ==
  ASSUME UNCHANGED <<runs, memoryVars>>
  PROVE  UNCHANGED Contract!vars
  BY DEF Contract!vars, Stage, IsStopped, memoryVars

LEMMA NextRefines == Inv /\ Inv' /\ [Next]_vars => [Contract!Next]_(Contract!vars)
  <1> SUFFICES ASSUME Inv, Inv', [Next]_vars
               PROVE  Contract!Next \/ UNCHANGED Contract!vars
    OBVIOUS
  <1>1. CASE UNCHANGED vars
    BY <1>1, SameRunnerRefines DEF vars
  <1>2. ASSUME NEW q \in Requests,
               (\E c \in Conversations : Start(q, c)) \/ GetByIdForUser(q) \/ StartThrows(q)
        PROVE  UNCHANGED Contract!vars
    BY <1>2, SameRunnerRefines DEF Start, GetByIdForUser, StartThrows
  <1>3. ASSUME NEW q \in Requests, StartResumes(q)
        PROVE  Contract!Next
    BY <1>3, BeginRefines
  <1>4. ASSUME NEW p \in Prompts, Loop(p)
        PROVE  Contract!Next \/ UNCHANGED Contract!vars
    <2>1. CASE Executes(p) \/ ListArrives(p) \/ ModelSelects(p) \/ ModelAnswers(p) \/ AppendTurn(p)
      BY <2>1, ExecutesRefines, SelectingStutters, ModelSelectsRefines, AppendTurnRefines
    <2>2. CASE \E status \in {"succeeded", "failed"} : CallReturns(p, status)
      BY <2>2, CallReturnsRefines
    <2>3. CASE TurnIsSaved(p) \/ SaveFails(p)
      <3>1. Started(p) /\ runs[p].at = "save" /\ (TurnIsSaved(p) => runs[p].pushed)
        BY <2>3 DEF TurnIsSaved, SaveFails, Waits, Started
      <3> QED
        BY <2>3, <3>1, EmitStoppedRefines, EndsRefines DEF TurnIsSaved, SaveFails
    <2>4. CASE Fails(p)
      <3>1. Started(p) /\ runs[p].at \notin {"queued", "done"}
        BY <2>4 DEF Fails, Waits, Started
      <3> QED
        BY <2>4, <3>1, EndsRefines DEF Fails
    <2>5. CASE LoopFindsStop(p)
      <3>1. Started(p) /\ runs[p].at # "done"
        BY <2>5 DEF LoopFindsStop, Waits, Started
      <3> QED
        BY <2>5, <3>1, EmitStoppedRefines DEF LoopFindsStop
    <2> QED
      BY <1>4, <2>1, <2>2, <2>3, <2>4, <2>5 DEF Loop
  <1>5. ASSUME NEW p \in Prompts, Permit(p) \/ Refuse(p) \/ Stop(p)
        PROVE  Contract!Next
    BY <1>5, SettleRefines, StopRefines
  <1>6. ASSUME NEW c \in Conversations, DeleteConversation(c)
        PROVE  UNCHANGED Contract!vars
    BY <1>6, SameRunnerRefines DEF DeleteConversation
  <1> QED
    BY <1>1, <1>2, <1>3, <1>4, <1>5, <1>6 DEF Next

\* For any prompts and conversations, every behaviour of the runner is one of
\* PromptContract: one prompt holds a conversation, every call was allowed, each prompt
\* ends once and an answer is kept (start, settle, finishAnswer, claimTerminal).
THEOREM RunnerImplementsContract == Spec => ImplementsContract
  <1>1. Inv /\ Inv' /\ [Next]_vars => [Contract!Next]_(Contract!vars)
    BY NextRefines
  <1> QED
    BY <1>1, InitRefines, Invariance, PTL DEF Spec, ImplementsContract, Contract!Spec

=============================================================================
