------------------------------- MODULE Lifecycle -------------------------------
(***************************************************************************)
(* The two server processes side by side, each of them an implementation   *)
(* of ShutdownContract.  They share nothing: a behaviour is about one of   *)
(* them, process.                                                          *)
(***************************************************************************)
EXTENDS BackendProcess

CONSTANT MaxCalls

ASSUME McpAssumption == MaxCalls \in Nat /\ None \notin {"listener", "mcp", "monitor"}

VARIABLES ready, shuttingDown, created, teardown, handlers, calls, mcpCode, mcpExit, process

M == INSTANCE McpProcess

mcpVars == <<ready, shuttingDown, created, teardown, handlers, calls, mcpCode, mcpExit>>
lifecycleVars == <<backendVars, mcpVars, process>>

Init == BackendInit /\ M!McpInit /\ process \in {"backend", "mcp"}

Next ==
  \/ process = "backend" /\ BackendNext /\ UNCHANGED <<mcpVars, process>>
  \/ process = "mcp" /\ M!McpNext /\ UNCHANGED <<backendVars, process>>

Spec == Init /\ [][Next]_lifecycleVars

\* A timer that is armed fires, unless the process has exited; nothing else is sure to
\* happen: a stream may stay open for ever.
FairSpec ==
  /\ Spec
  /\ WF_lifecycleVars(process = "backend" /\ ShutdownTimesOut /\ UNCHANGED <<mcpVars, process>>)
  /\ WF_lifecycleVars(process = "mcp" /\ M!ShutdownFails /\ UNCHANGED <<backendVars, process>>)

\* Every variable of both processes has its type.
TypeOK == BackendTypeOK /\ M!McpTypeOK

\* At most one client of the backend is connected, whoever connects while whoever else
\* connects, fails or disconnects (MongoClientManager is to be the one owner of it).
ConnectionOK == TypeOK /\ OneConnection

\* What a process still works on keeps what it needs: a request its database, a call its
\* server, although the shutdown closes both.
WorkIsDrained == RequestsKeepDatabase /\ M!McpOutlivesCalls

-----------------------------------------------------------------------------
\* Refinement

BackendPhase ==
  IF phase = "booting" THEN "starting"
  ELSE IF phase = "listening" THEN "serving"
  ELSE IF phase = "exited" THEN "exited"
  ELSE IF stopCode = 0 THEN "stopping" ELSE "failing"

BackendContract ==
  INSTANCE ShutdownContract WITH phase <- BackendPhase, work <- Requests

McpPhase ==
  IF mcpExit # None THEN "exited"
  ELSE IF ~shuttingDown THEN IF ready THEN "serving" ELSE "starting"
  ELSE IF "listener" \in created THEN "stopping" ELSE "failing"

McpContract ==
  INSTANCE ShutdownContract WITH phase <- McpPhase, work <- calls, exitCode <- mcpExit

\* Each process keeps the promises of a graceful shutdown.
ProcessesShutDown == BackendContract!Spec /\ McpContract!Spec

=============================================================================
