---------------------------- MODULE BackendProcess ----------------------------
(***************************************************************************)
(* The life of the backend process: main.ts, server/index.ts and           *)
(* server-initialize-db.ts bring it up, server-shutdown-manager.ts stops   *)
(* it, while requests, streams and job runs use the database of            *)
(* MongoManager.  Its callers are the boot and the runs that persist their *)
(* records; a request only ever finds the cached handle.                   *)
(***************************************************************************)
EXTENDS MongoManager

CONSTANTS
  Boot,        \* the caller of connect() that initialises
  MaxRetries,  \* config.maxDbRetries
  MaxRequests  \* bound: requests, streams included, in progress at once

ASSUME BackendAssumption ==
  /\ Boot \in Callers /\ MaxRetries \in Nat \ {0} /\ MaxRequests \in Nat
  /\ None \notin {0, 1, 2}   \* the exit codes

VARIABLES
  phase,      \* "booting", "listening", "stopping" (server.close), "disconnecting", "leaving", "exited"
  attempts,   \* failed attempts of the boot to connect
  requests,   \* requests in progress, [streams, others]
  timer,      \* shutdownTimeout is armed
  stopCode,   \* the exitCode option of the shutdown in progress
  exitCode    \* None while the process lives; 2 stands for a kill by the signal

processVars == <<phase, attempts, requests, timer, stopCode, exitCode>>
backendVars == <<mongoVars, processVars>>

Runs == Callers \ {Boot}
Requests == requests.streams + requests.others

BackendInit ==
  /\ MongoInit
  /\ phase = "booting" /\ attempts = 0
  /\ requests = [streams |-> 0, others |-> 0]
  /\ timer = FALSE /\ stopCode = None /\ exitCode = None

Exit(code) ==
  /\ phase' = "exited" /\ exitCode' = code /\ timer' = FALSE
  /\ requests' = [streams |-> 0, others |-> 0]
  /\ UNCHANGED <<attempts, stopCode>>

-----------------------------------------------------------------------------
\* Boot

BootConnects == phase = "booting" /\ Connect(Boot) /\ UNCHANGED processVars

\* retryWithFixedInterval
BootRetries ==
  /\ phase = "booting" /\ At(Boot, "failed") /\ attempts + 1 < MaxRetries
  /\ attempts' = attempts + 1
  /\ callers' = [callers EXCEPT ![Boot] = Idle]
  /\ UNCHANGED <<client, db, clients, indexes, legacy, phase, requests, timer, stopCode, exitCode>>

\* Mutant: a failed start goes through the shutdown with its default exit code.
BootFailsWithDefaults ==
  /\ phase = "booting" /\ Returned(Boot)
  /\ At(Boot, "failed") => attempts + 1 = MaxRetries
  /\ phase' = "disconnecting" /\ timer' = TRUE /\ stopCode' = 0
  /\ DisconnectStarts
  /\ UNCHANGED <<attempts, requests, exitCode>>

\* The attempts are used up, or the schedules cannot be restored: main.ts shuts down,
\* without a server to close.
BootFails ==
  /\ phase = "booting" /\ Returned(Boot)
  /\ At(Boot, "failed") => attempts + 1 = MaxRetries
  /\ phase' = "disconnecting" /\ timer' = TRUE /\ stopCode' = 1
  /\ DisconnectStarts
  /\ UNCHANGED <<attempts, requests, exitCode>>

Listen ==
  /\ phase = "booting" /\ At(Boot, "connected")
  /\ phase' = "listening"
  /\ UNCHANGED <<mongoVars, attempts, requests, timer, stopCode, exitCode>>

\* The 'error' event of the server: the port is in use.
ListenFails ==
  /\ phase = "booting" /\ At(Boot, "connected")
  /\ Exit(1)
  /\ UNCHANGED mongoVars

-----------------------------------------------------------------------------
\* Work

RequestArrives(kind) ==
  /\ phase = "listening" /\ Requests < MaxRequests
  /\ requests' = [requests EXCEPT ![kind] = @ + 1]
  /\ UNCHANGED <<mongoVars, phase, attempts, timer, stopCode, exitCode>>

\* The connection of a request ends: it is answered, or its client leaves.  The handler of a
\* client that has left goes on by itself, and nothing waits for it.
RequestEnds(kind) ==
  /\ phase \in {"listening", "stopping"} /\ requests[kind] > 0
  /\ requests' = [requests EXCEPT ![kind] = @ - 1]
  /\ UNCHANGED <<mongoVars, phase, attempts, timer, stopCode, exitCode>>

Alive == phase \notin {"booting", "exited"}

\* Delegator.persistResult, of a run that a schedule or a request has started; no shutdown
\* step waits for it.
RunPersists(r) == Alive /\ At(Boot, "connected") /\ Connect(r) /\ UNCHANGED processVars

\* The record is written, or the attempt has failed: another one, or none, follows.
RunHasTried(r) ==
  /\ Alive /\ Returned(r)
  /\ IF At(r, "failed") THEN UNCHANGED clients ELSE Operates(r) \/ UNCHANGED clients
  /\ callers' = [callers EXCEPT ![r] = Idle]
  /\ UNCHANGED <<client, db, indexes, legacy, processVars>>

ConnectProgresses(k) == phase # "exited" /\ Connecting(k) /\ UNCHANGED processVars

-----------------------------------------------------------------------------
\* Shutdown

\* SIGTERM or SIGINT: the handlers are registered once the server listens, and a signal
\* during a shutdown is ignored.
Signal ==
  \/ /\ phase = "listening"
     /\ phase' = "stopping" /\ timer' = TRUE /\ stopCode' = 0
     /\ UNCHANGED <<mongoVars, attempts, requests, exitCode>>
  \/ /\ phase = "booting"
     /\ Exit(2)
     /\ UNCHANGED mongoVars

\* Mutant: the database is closed without waiting for the server.
ServerClosesAtOnce ==
  /\ phase = "stopping"
  /\ phase' = "disconnecting"
  /\ DisconnectStarts
  /\ UNCHANGED <<attempts, requests, timer, stopCode, exitCode>>

\* server.close() calls back when the last connection has ended.
ServerCloses ==
  /\ phase = "stopping" /\ Requests = 0
  /\ phase' = "disconnecting"
  /\ DisconnectStarts
  /\ UNCHANGED <<attempts, requests, timer, stopCode, exitCode>>

\* disconnect() returns, or rejects, which is only logged.
Disconnected ==
  /\ phase = "disconnecting"
  /\ phase' = "leaving"
  /\ DisconnectEnds \/ UNCHANGED mongoVars
  /\ UNCHANGED <<attempts, requests, timer, stopCode, exitCode>>

ExitGracefully ==
  /\ phase = "leaving"
  /\ Exit(stopCode)
  /\ UNCHANGED mongoVars

ShutdownTimesOut ==
  /\ timer
  /\ Exit(1)
  /\ UNCHANGED mongoVars

-----------------------------------------------------------------------------

BackendNext ==
  \/ BootConnects \/ BootRetries \/ BootFails \/ Listen \/ ListenFails
  \/ \E kind \in {"streams", "others"} : RequestArrives(kind) \/ RequestEnds(kind)
  \/ \E r \in Runs : RunPersists(r) \/ RunHasTried(r)
  \/ \E k \in Callers : ConnectProgresses(k)
  \/ Signal \/ ServerCloses \/ Disconnected \/ ExitGracefully \/ ShutdownTimesOut

-----------------------------------------------------------------------------
\* Properties

BackendTypeOK ==
  /\ MongoTypeOK
  /\ attempts \in 0..MaxRetries
  /\ Requests \in 0..MaxRequests
  /\ timer => phase \in {"stopping", "disconnecting", "leaving"}
  /\ exitCode # None <=> phase = "exited"

\* As long as a request is in progress, the shutdown included, the database it was handed
\* is that of the open client.
RequestsKeepDatabase == Requests > 0 => db # None /\ client = db /\ clients[db] = "open"

\* "Assigning this.db only after success": whoever is handed the database finds the unique
\* indexes as configured, through failed attempts, conflicts and repeated initialisations; and
\* as long as the server takes or drains requests, all of them.  (Each initialisation drops and
\* creates the others anew, after the shutdown's disconnect under a handle that is cached too.)
IndexesAreConfigured ==
  /\ db # None => \A item \in Items \ NonUnique : indexes[item] = "right"
  /\ phase \in {"listening", "stopping"} => \A item \in Items : indexes[item] = "right"

=============================================================================
