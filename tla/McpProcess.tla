------------------------------ MODULE McpProcess ------------------------------
(***************************************************************************)
(* The life of the MCP server process (mcp-backend): server/index.ts       *)
(* starts it, server/shutdown.ts stops it, lifecycle is what its health    *)
(* route reports.  start() runs without an await up to its end, or to the  *)
(* await of the shutdown that a failed start runs into.                    *)
(***************************************************************************)
EXTENDS Naturals

CONSTANTS
  None,
  MaxCalls   \* bound: requests in progress at once

Signals == {"SIGTERM", "SIGINT"}

VARIABLES
  ready, shuttingDown,   \* lifecycle
  created,    \* what ShutdownResources holds: subset of {"listener", "mcp"}
  teardown,   \* where the shutdown stands: None, "listener", "mcp", "monitor"
  handlers,   \* signals whose handler is still installed
  calls,      \* requests in progress
  mcpCode,    \* exitCode of the shutdown in progress
  mcpExit     \* the process' exit code, or None; 2 stands for a kill by a signal

mcpVars == <<ready, shuttingDown, created, teardown, handlers, calls, mcpCode, mcpExit>>

McpInit ==
  /\ ready = FALSE /\ shuttingDown = FALSE
  /\ created = {} /\ teardown = None /\ handlers = {}
  /\ calls = 0 /\ mcpCode = None /\ mcpExit = None

Lives == mcpExit = None

\* What the health routes answer by.
isLive == ~shuttingDown
isReady == ~shuttingDown /\ ready

-----------------------------------------------------------------------------
\* shutdown()

\* From markShuttingDown to the first await; a resource that was not created is passed over.
ShutdownBegins(code, resources) ==
  /\ shuttingDown' = TRUE /\ ready' = FALSE
  /\ mcpCode' = code
  /\ teardown' = IF "listener" \in resources THEN "listener"
                 ELSE IF "mcp" \in resources THEN "mcp" ELSE "monitor"

\* Re-entry is a no-op.
Shutdown(code) ==
  IF shuttingDown THEN UNCHANGED <<ready, shuttingDown, teardown, mcpCode>>
  ELSE ShutdownBegins(code, created)

\* server.stop() resolves when the requests in progress have ended.
ListenerStops ==
  /\ Lives /\ teardown = "listener" /\ calls = 0
  /\ teardown' = "mcp"
  /\ UNCHANGED <<ready, shuttingDown, created, handlers, calls, mcpCode, mcpExit>>

McpCloses ==
  /\ Lives /\ teardown = "mcp"
  /\ teardown' = "monitor"
  /\ UNCHANGED <<ready, shuttingDown, created, handlers, calls, mcpCode, mcpExit>>

Exits(code) ==
  /\ mcpExit' = code /\ calls' = 0 /\ handlers' = {}
  /\ UNCHANGED <<ready, shuttingDown, created, teardown, mcpCode>>

MonitorCloses == Lives /\ teardown = "monitor" /\ Exits(mcpCode)

\* A step of the teardown rejects, or withTimeout does.
ShutdownFails == Lives /\ teardown # None /\ Exits(1)

-----------------------------------------------------------------------------
\* start()

Starting == Lives /\ isLive /\ ~isReady

Starts ==
  /\ Starting
  /\ created' = {"listener", "mcp"} /\ ready' = TRUE /\ handlers' = Signals
  /\ UNCHANGED <<shuttingDown, teardown, calls, mcpCode, mcpExit>>

\* A throw before or after the handler exists (a port in use): the same shutdown.
StartFails(resources) ==
  /\ Starting
  /\ created' = resources
  /\ ShutdownBegins(1, resources)
  /\ UNCHANGED <<handlers, calls, mcpExit>>

Listening == "listener" \in created /\ ~shuttingDown

CallArrives ==
  /\ Lives /\ Listening /\ calls < MaxCalls
  /\ calls' = calls + 1
  /\ UNCHANGED <<ready, shuttingDown, created, teardown, handlers, mcpCode, mcpExit>>

CallEnds ==
  /\ Lives /\ calls > 0
  /\ calls' = calls - 1
  /\ UNCHANGED <<ready, shuttingDown, created, teardown, handlers, mcpCode, mcpExit>>

\* process.once: the handler of a signal runs once, the signal kills when it comes again,
\* as it does before the handlers are installed.
McpSignal(signal) ==
  /\ Lives
  /\ IF signal \in handlers
     THEN /\ handlers' = handlers \ {signal}
          /\ Shutdown(0)
          /\ UNCHANGED <<created, calls, mcpExit>>
     ELSE Exits(2)

\* uncaughtException or unhandledRejection.
FatalError ==
  /\ Lives /\ "listener" \in created
  /\ Shutdown(1)
  /\ UNCHANGED <<created, handlers, calls, mcpExit>>

McpNext ==
  \/ Starts \/ StartFails({}) \/ StartFails({"mcp"})
  \/ CallArrives \/ CallEnds
  \/ \E signal \in Signals : McpSignal(signal)
  \/ FatalError
  \/ ListenerStops \/ McpCloses \/ MonitorCloses \/ ShutdownFails

-----------------------------------------------------------------------------
\* Properties

McpTypeOK ==
  /\ calls \in 0..MaxCalls
  /\ created \subseteq {"listener", "mcp"} /\ handlers \subseteq Signals
  /\ shuttingDown <=> teardown # None
  /\ ready => ~shuttingDown

\* "drain HTTP, close MCP": the MCP handler is not closed under a request in progress.
McpOutlivesCalls == calls > 0 => teardown \in {None, "listener"}

=============================================================================
