---------------------------- MODULE LifecycleProofs ----------------------------
(***************************************************************************)
(* Theorems about Lifecycle: for any number of callers, of collections     *)
(* with whatever indexes, of retries, requests and client objects, the     *)
(* backend keeps one connection, hands out only a configured database and  *)
(* shuts down under no request; and both servers do only what a graceful   *)
(* shutdown allows.                                                        *)
(***************************************************************************)
EXTENDS Lifecycle, TLAPS

\* The types of the variables the process adds to those of the connection.
ProcessTyped ==
  /\ phase \in {"booting", "listening", "stopping", "disconnecting", "leaving", "exited"}
  /\ attempts \in 0..MaxRetries
  /\ requests \in [streams : Nat, others : Nat] /\ Requests <= MaxRequests
  /\ timer \in BOOLEAN /\ (timer => phase \in {"stopping", "disconnecting", "leaving"})
  /\ stopCode \in {None, 0, 1}
  /\ exitCode \in {None, 0, 1, 2} /\ (exitCode # None <=> phase = "exited")

\* The manager's client is the only one that may be unclosed, whatever client a call began with.
OneClient ==
  /\ \A c \in Clients : clients[c] \in {"new", "open"} => client = c
  /\ \A c \in {client, db} : c # None => clients[c] # "unused"
  /\ \A k \in Callers :
       /\ callers[k].pc \notin {"idle", "failed"} => callers[k].client # None
       /\ callers[k].client # None => clients[callers[k].client] # "unused"

\* Until the shutdown has disconnected no run initialises anew.
Undisturbed == phase \in {"booting", "listening", "stopping"}

\* The steps of connect() that change the index of the collection they have come to.
Rotating == {"drop", "create", "dropAgain", "createAgain"}

\* Up to its first return connect() is the boot's alone, and what the boot has passed is
\* configured; from then on everything is, and a repetition by a run, after the disconnect,
\* changes an index only where it is not unique.
Configured ==
  /\ ~At(Boot, "connected") => db = None /\ \A r \in Runs : At(r, "idle")
  /\ At(Boot, "connected") =>
       /\ \A item \in Items : item \notin NonUnique \/ Undisturbed => indexes[item] = "right"
       /\ \A r \in Runs : callers[r].pc \in Rotating => callers[r].item \in NonUnique
  /\ callers[Boot].pc # "connected" =>
        \A item \in Items : item < callers[Boot].item => indexes[item] = "right"

\* How far the process is, and what the connection is by then: serving, and draining, it has
\* the open client that connect() hands every run from its cache.
Phases ==
  /\ phase = "booting" =>
       /\ \A r \in Runs : At(r, "idle")
       /\ client # None => clients[client] # "closed"
       /\ ~At(Boot, "idle") => client # None /\ callers[Boot].client = client
       /\ At(Boot, "connected") => db = client /\ clients[client] = "open"
  /\ phase \in {"listening", "stopping"} =>
       /\ At(Boot, "connected") /\ db # None /\ client = db /\ clients[db] = "open"
       /\ \A r \in Runs :
            At(r, "idle") \/ (At(r, "connected") /\ callers[r].client = db)
  /\ phase = "disconnecting" => client # None /\ clients[client] = "closed"
  /\ phase \notin {"listening", "stopping"} => Requests = 0
  /\ phase = "stopping" => stopCode = 0
  /\ phase \in {"disconnecting", "leaving"} => stopCode \in {0, 1}

BackendInv == MongoTypeOK /\ ProcessTyped /\ OneClient /\ Configured /\ Phases

\* The types of the MCP server's variables.
McpTyped ==
  /\ ready \in BOOLEAN /\ shuttingDown \in BOOLEAN
  /\ created \in SUBSET {"listener", "mcp"} /\ handlers \in SUBSET M!Signals
  /\ teardown \in {None, "listener", "mcp", "monitor"}
  /\ calls \in 0..MaxCalls
  /\ mcpCode \in {None, 0, 1} /\ mcpExit \in {None, 0, 1, 2}

\* The two flags of the health routes say where the teardown stands.
McpFlags ==
  /\ shuttingDown <=> teardown # None
  /\ shuttingDown <=> mcpCode # None
  /\ ready <=> ~shuttingDown /\ "listener" \in created

\* Calls, and signal handlers, there are only with a listener; the teardown waits for the calls.
McpWork ==
  /\ calls > 0 =>
       "listener" \in created /\ teardown \in {None, "listener"} /\ mcpExit = None
  /\ handlers # {} => "listener" \in created
  /\ mcpCode = 0 => "listener" \in created

McpInv == McpTyped /\ McpFlags /\ McpWork

Inv == BackendInv /\ McpInv /\ process \in {"backend", "mcp"}

-----------------------------------------------------------------------------
\* Records of callers

LEMMA CallerFacts ==
  ASSUME MongoTypeOK, NEW k \in Callers
  PROVE  /\ callers[k] \in CallerStates
         /\ callers[k].pc \in Awaits /\ callers[k].client \in Clients \cup {None}
         /\ callers[k].item \in Items
  BY DEF MongoTypeOK, CallerStates

\* A caller that goes on keeps what it holds.
LEMMA GoesToTyped ==
  ASSUME MongoTypeOK, NEW k \in Callers, NEW pc \in Awaits, GoesTo(k, pc)
  PROVE  /\ callers' \in [Callers -> CallerStates]
         /\ callers'[k].pc = pc
         /\ callers'[k].client = callers[k].client /\ callers'[k].item = callers[k].item
         /\ \A l \in Callers : l # k => callers'[l] = callers[l]
  <1> DEFINE r == [callers[k] EXCEPT !.pc = pc]
  <1>1. r \in CallerStates /\ r.pc = pc /\ r.client = callers[k].client /\ r.item = callers[k].item
    BY CallerFacts DEF CallerStates
  <1>2. callers' = [callers EXCEPT ![k] = r]
    BY CallerFacts DEF GoesTo, MongoTypeOK, CallerStates
  <1> HIDE DEF r
  <1> QED
    BY <1>1, <1>2 DEF MongoTypeOK

LEMMA IdleIsState ==
  Idle \in CallerStates /\ Idle.pc = "idle" /\ Idle.client = None /\ Idle.item = 1
  BY MongoAssumption DEF CallerStates, Items, Idle, Awaits

\* A new call holds the client it is handed.
LEMMA BeginsTyped ==
  ASSUME MongoTypeOK, NEW k \in Callers, NEW pc \in Awaits, NEW c \in Clients,
         callers' = [callers EXCEPT ![k] = [Idle EXCEPT !.pc = pc, !.client = c]]
  PROVE  /\ callers' \in [Callers -> CallerStates]
         /\ callers'[k].pc = pc /\ callers'[k].client = c /\ callers'[k].item = 1
         /\ \A l \in Callers : l # k => callers'[l] = callers[l]
  <1> DEFINE idle == [Idle EXCEPT !.pc = pc]
             r == [Idle EXCEPT !.pc = pc, !.client = c]
  <1>1. /\ idle \in CallerStates /\ idle.pc = pc /\ idle.item = 1
        /\ r = [idle EXCEPT !.client = c]
    BY IdleIsState DEF CallerStates
  <1> HIDE DEF idle
  <1>2. r \in CallerStates /\ r.pc = pc /\ r.client = c /\ r.item = 1
    BY <1>1 DEF CallerStates
  <1>3. callers' = [callers EXCEPT ![k] = r]
    OBVIOUS
  <1> HIDE DEF r
  <1> QED
    BY <1>2, <1>3 DEF MongoTypeOK

LEMMA IdleTyped ==
  ASSUME MongoTypeOK, NEW k \in Callers, callers' = [callers EXCEPT ![k] = Idle]
  PROVE  /\ callers' \in [Callers -> CallerStates]
         /\ callers'[k].pc = "idle" /\ callers'[k].client = None /\ callers'[k].item = 1
         /\ \A l \in Callers : l # k => callers'[l] = callers[l]
  BY IdleIsState DEF MongoTypeOK

\* A collection begins with its legacy index or with its list of indexes.
LEMMA FirstStepTyped == \A item : FirstStep(item) \in {"legacy", "list"}
  BY DEF FirstStep

\* To the next collection, or to the return.
LEMMA NextItemTyped ==
  ASSUME MongoTypeOK, NEW k \in Callers, NextItem(k)
  PROVE  /\ callers' \in [Callers -> CallerStates]
         /\ callers'[k].client = callers[k].client
         /\ \A l \in Callers : l # k => callers'[l] = callers[l]
         /\ \/ /\ callers[k].item < Collections /\ callers'[k].pc \in {"legacy", "list"}
               /\ callers'[k].item = callers[k].item + 1 /\ db' = db
            \/ /\ callers[k].item = Collections /\ callers'[k].pc = "connected"
               /\ callers'[k].item = callers[k].item /\ db' = callers[k].client
  <1>1. CASE callers[k].item < Collections
    <2> DEFINE moved == [callers[k] EXCEPT !.pc = FirstStep(callers[k].item + 1)]
               r == [callers[k] EXCEPT !.pc = FirstStep(callers[k].item + 1),
                                       !.item = callers[k].item + 1]
    <2>1. /\ moved \in CallerStates /\ moved.pc = FirstStep(callers[k].item + 1)
          /\ moved.client = callers[k].client /\ r = [moved EXCEPT !.item = callers[k].item + 1]
          /\ callers[k].item + 1 \in Items
      BY <1>1, CallerFacts, FirstStepTyped, MongoAssumption DEF CallerStates, Awaits, Items
    <2> HIDE DEF moved
    <2>2. /\ r \in CallerStates /\ r.pc = FirstStep(callers[k].item + 1)
          /\ r.client = callers[k].client /\ r.item = callers[k].item + 1
      BY <2>1 DEF CallerStates
    <2>3. callers' = [callers EXCEPT ![k] = r] /\ db' = db
      BY <1>1, CallerFacts DEF NextItem, MongoTypeOK, CallerStates
    <2> HIDE DEF r
    <2> QED
      BY <1>1, <2>2, <2>3, FirstStepTyped DEF MongoTypeOK
  <1>2. CASE ~(callers[k].item < Collections)
    <2>1. callers[k].item = Collections
      BY <1>2, CallerFacts, MongoAssumption DEF Items
    <2>2. GoesTo(k, "connected") /\ db' = callers[k].client
      BY <1>2 DEF NextItem
    <2> QED
      BY <2>1, <2>2, GoesToTyped DEF Awaits
  <1> QED
    BY <1>1, <1>2

\* Whoever operates on a client that is not closed operates on the manager's.
LEMMA OperatesOpens ==
  ASSUME BackendInv, NEW k \in Callers, callers[k].client # None, Operates(k)
  PROVE  /\ callers[k].client = client /\ client \in Clients /\ clients[client] \in {"new", "open"}
         /\ clients' = [clients EXCEPT ![client] = "open"]
  <1>1. callers[k].client \in Clients
    BY CallerFacts DEF BackendInv
  <1>2. clients[callers[k].client] \in {"new", "open"}
    BY <1>1 DEF BackendInv, MongoTypeOK, OneClient, Operates
  <1> QED
    BY <1>1, <1>2 DEF BackendInv, OneClient, Operates

\* The awaits between the creation of the client and the return.
Underway == {"connecting", "ping", "legacy", "list", "drop", "create", "dropAgain", "createAgain"}

\* A step of k from one await of connect() to the next, or to its return.
Moves(k) ==
  /\ callers[k].client = client /\ client \in Clients /\ clients[client] \in {"new", "open"}
  /\ callers[k].pc \in Underway
  /\ clients' = [clients EXCEPT ![client] = "open"] /\ client' = client
  /\ callers' \in [Callers -> CallerStates] /\ callers'[k].client = client
  /\ \A l \in Callers : l # k => callers'[l] = callers[l]
  /\ indexes' \in [Items -> {"absent", "right", "other"}] /\ legacy' \subseteq legacy
  /\ \/ callers'[k].pc \in Underway /\ db' = db
     \/ callers'[k].pc = "connected" /\ db' = client

\* Before the handle is cached, and after it is dropped, are the only times connect() is underway.
LEMMA MovePhase ==
  ASSUME BackendInv, NEW k \in Callers, phase # "exited", Moves(k)
  PROVE  /\ phase \in {"booting", "leaving"}
         /\ phase = "booting" => k = Boot
         /\ At(Boot, "connected") => k # Boot /\ ~Undisturbed
  BY DEF BackendInv, ProcessTyped, Phases, Moves, Underway, Undisturbed, At, Runs

LEMMA MoveInv ==
  ASSUME BackendInv, NEW k \in Callers, phase # "exited", UNCHANGED processVars,
         Moves(k), Configured'
  PROVE  BackendInv'
  <1> USE DEF BackendInv
  <1>0. /\ client' = client /\ client \in Clients /\ client # None
        /\ clients'[client] = "open" /\ callers'[k].client = client
    BY MongoAssumption DEF MongoTypeOK, Moves, Clients
  <1>1. MongoTypeOK'
    BY DEF MongoTypeOK, Moves
  <1>2. ProcessTyped'
    BY DEF ProcessTyped, Requests, processVars
  <1>3. OneClient'
    <2>1. \A c \in Clients : clients'[c] \in {"new", "open"} => client' = c
      BY DEF MongoTypeOK, OneClient, Moves
    <2>2. \A c \in Clients : clients[c] # "unused" => clients'[c] # "unused"
      BY DEF MongoTypeOK, Moves
    <2>3. \A c \in {client', db'} : c # None => clients'[c] # "unused"
      BY <2>2 DEF MongoTypeOK, OneClient, Moves
    <2>4. ASSUME NEW l \in Callers
          PROVE  /\ callers'[l].pc \notin {"idle", "failed"} => callers'[l].client # None
                 /\ callers'[l].client # None => clients'[callers'[l].client] # "unused"
      <3>1. CASE l = k
        BY <3>1, <1>0 DEF Moves
      <3>2. CASE l # k
        BY <3>2, <2>2, CallerFacts DEF OneClient, Moves
      <3> QED
        BY <3>1, <3>2
    <2> QED
      BY <2>1, <2>3, <2>4 DEF OneClient
  <1>4. Phases'
    <2>1. CASE phase = "leaving"
      BY <2>1 DEF Phases, processVars, Requests
    <2>2. CASE phase = "booting"
      <3>1. k = Boot /\ \A r \in Runs : callers'[r] = callers[r]
        BY <2>2, MovePhase DEF Moves, Runs
      <3>2. phase' = "booting" /\ Requests' = 0 /\ \A r \in Runs : callers'[r].pc = "idle"
        BY <2>2, <3>1 DEF Phases, processVars, Requests, At
      <3>3. callers'[Boot].pc = "connected" => db' = client'
        BY <3>1, <1>0 DEF Moves, Underway
      <3> QED
        BY <1>0, <3>1, <3>2, <3>3 DEF Phases, At
    <2> QED
      BY <2>1, <2>2, MovePhase
  <1> QED
    BY <1>1, <1>2, <1>3, <1>4

-----------------------------------------------------------------------------
\* connect()

\* A call begins at boot, or for a run that persists its record in a process that is up.
MayConnect(k) ==
  /\ At(k, "idle")
  /\ \/ k = Boot /\ phase = "booting"
     \/ k \in Runs /\ phase \notin {"booting", "exited"} /\ At(Boot, "connected")

\* What a call that begins changes: its own record, with the client it holds.
LEMMA BeginsInv ==
  ASSUME BackendInv, NEW k \in Callers, MayConnect(k),
         UNCHANGED processVars, UNCHANGED <<db, indexes, legacy>>,
         NEW pc \in {"connecting", "ping", "connected"}, NEW c \in Clients,
         callers' = [callers EXCEPT ![k] = [Idle EXCEPT !.pc = pc, !.client = c]],
         (pc = "connected" /\ c = db) \/ (pc # "connected" /\ db = None /\ client' = c),
         clients' \in [Clients -> {"unused", "new", "open", "closed"}],
         clients'[c] # "unused",
         \/ UNCHANGED <<client, clients>>
         \/ /\ client = None /\ db = None /\ clients'[c] = "new"
            /\ \A d \in Clients : d # c => clients'[d] = clients[d]
  PROVE  BackendInv'
  <1> USE DEF BackendInv
  <1>1. /\ callers' \in [Callers -> CallerStates]
        /\ callers'[k].pc = pc /\ callers'[k].client = c /\ callers'[k].item = 1
        /\ \A l \in Callers : l # k => callers'[l] = callers[l]
    BY BeginsTyped DEF Awaits
  <1>2. None \notin Clients /\ callers[k].pc = "idle"
    BY MongoAssumption DEF Clients, MayConnect, At
  <1>3. client' \in {client, c} /\ client' \in Clients \cup {None} /\ db' = db
    BY <1>2 DEF MongoTypeOK
  <1>4. MongoTypeOK' /\ ProcessTyped'
    BY <1>1, <1>3 DEF MongoTypeOK, ProcessTyped, Requests, processVars
  <1>5. \A d \in Clients : clients[d] # "unused" => clients'[d] # "unused"
    OBVIOUS
  <1>6. OneClient'
    <2>1. \A d \in Clients : clients'[d] \in {"new", "open"} => client' = d
      BY <1>2 DEF OneClient
    <2>2. \A d \in {client', db'} : d # None => clients'[d] # "unused"
      BY <1>5, <1>3 DEF OneClient, MongoTypeOK
    <2>3. ASSUME NEW l \in Callers
          PROVE  /\ callers'[l].pc \notin {"idle", "failed"} => callers'[l].client # None
                 /\ callers'[l].client # None => clients'[callers'[l].client] # "unused"
      BY <1>1, <1>2, <1>5, CallerFacts DEF OneClient
    <2> QED
      BY <2>1, <2>2, <2>3 DEF OneClient
  <1>7. Configured'
    BY <1>1, <1>2 DEF Configured, MayConnect, Runs, Items, At, Rotating, Undisturbed, processVars
  <1>8. Phases'
    <2>1. CASE k = Boot
      BY <1>1, <1>2, <2>1
         DEF Phases, Configured, OneClient, MayConnect, Runs, Requests, processVars, At
    <2>2. CASE k # Boot
      BY <1>1, <1>2, <2>2, BackendAssumption
         DEF Phases, MayConnect, Runs, Requests, processVars, At
    <2> QED
      BY <2>1, <2>2
  <1> QED
    BY <1>4, <1>6, <1>7, <1>8

LEMMA ConnectInv ==
  ASSUME BackendInv, NEW k \in Callers, MayConnect(k), Connect(k), UNCHANGED processVars
  PROVE  BackendInv'
  <1> USE DEF BackendInv
  <1>0. UNCHANGED <<db, indexes, legacy>>
    BY DEF Connect
  <1>1. CASE ConnectReturnsCached(k)
    <2>1. db \in Clients /\ clients[db] # "unused" /\ UNCHANGED <<client, clients>> /\ db # None
      BY <1>1 DEF ConnectReturnsCached, MongoTypeOK, OneClient
    <2>2. callers' = [callers EXCEPT ![k] = [Idle EXCEPT !.pc = "connected", !.client = db]]
      BY <1>1 DEF ConnectReturnsCached
    <2> QED
      BY <1>0, <2>1, <2>2, BeginsInv DEF MongoTypeOK
  <1>2. CASE ConnectCreatesClient(k)
    <2>1. PICK c \in Clients :
            /\ client = None /\ db = None
            /\ clients' = [clients EXCEPT ![c] = "new"] /\ client' = c
            /\ callers' = [callers EXCEPT ![k] = [Idle EXCEPT !.pc = "connecting", !.client = c]]
      BY <1>2 DEF ConnectCreatesClient
    <2>2. /\ clients' \in [Clients -> {"unused", "new", "open", "closed"}]
          /\ clients'[c] = "new" /\ \A d \in Clients : d # c => clients'[d] = clients[d]
      BY <2>1 DEF MongoTypeOK
    <2> QED
      BY <1>0, <2>1, <2>2, BeginsInv
  <1>3. CASE ConnectReusesClient(k)
    <2>1. client \in Clients /\ clients[client] # "unused" /\ UNCHANGED <<client, clients>>
          /\ db = None
      BY <1>3 DEF ConnectReusesClient, MongoTypeOK, OneClient
    <2>2. callers' = [callers EXCEPT ![k] = [Idle EXCEPT !.pc = "ping", !.client = client]]
      BY <1>3 DEF ConnectReusesClient
    <2> QED
      BY <1>0, <2>1, <2>2, BeginsInv DEF MongoTypeOK
  <1> QED
    BY <1>1, <1>2, <1>3 DEF Connect

LEMMA ClientConnectsInv ==
  ASSUME BackendInv, NEW k \in Callers, ClientConnects(k), phase # "exited", UNCHANGED processVars
  PROVE  BackendInv'
  <1>1. callers[k].client \in Clients /\ clients[callers[k].client] \in {"new", "open"}
    BY CallerFacts DEF BackendInv, ClientConnects, MongoTypeOK, OneClient, At
  <1>2. callers[k].client = client /\ client # None
    BY <1>1, MongoAssumption DEF BackendInv, OneClient, Clients
  <1>3. /\ callers[k].pc = "connecting" /\ clients' = [clients EXCEPT ![client] = "open"]
        /\ UNCHANGED <<client, db, indexes, legacy>>
    BY <1>2 DEF ClientConnects, At
  <1>4. /\ callers' \in [Callers -> CallerStates]
        /\ callers'[k].pc = "ping" /\ callers'[k].client = client
        /\ callers'[k].item = callers[k].item
        /\ \A l \in Callers : l # k => callers'[l] = callers[l]
    <2> DEFINE moved == [callers[k] EXCEPT !.pc = "ping"]
               r == [callers[k] EXCEPT !.pc = IF client = None THEN "failed" ELSE "ping",
                                       !.client = client]
    <2>1. /\ moved \in CallerStates /\ moved.pc = "ping" /\ moved.item = callers[k].item
          /\ r = [moved EXCEPT !.client = client]
      BY <1>2, CallerFacts DEF BackendInv, CallerStates, Awaits
    <2> HIDE DEF moved
    <2>2. r \in CallerStates /\ r.pc = "ping" /\ r.client = client /\ r.item = callers[k].item
      BY <1>1, <1>2, <2>1 DEF CallerStates
    <2>3. callers' = [callers EXCEPT ![k] = r]
      BY DEF ClientConnects, BackendInv, MongoTypeOK
    <2> HIDE DEF r
    <2> QED
      BY <2>2, <2>3 DEF BackendInv, MongoTypeOK
  <1>5. Moves(k)
    BY <1>1, <1>2, <1>3, <1>4 DEF Moves, Underway, BackendInv, MongoTypeOK
  <1>6. Configured'
    BY <1>3, <1>4, <1>5, MovePhase, BackendAssumption
       DEF BackendInv, Configured, At, Runs, Rotating, Undisturbed, processVars
  <1> QED
    BY <1>5, <1>6, MoveInv

LEMMA ConnectFailsInv ==
  ASSUME BackendInv, NEW k \in Callers, ConnectFails(k), phase # "exited", UNCHANGED processVars
  PROVE  BackendInv'
  <1>1. /\ callers[k].pc \notin {"idle", "connected", "failed"}
        /\ UNCHANGED <<client, db, clients, indexes, legacy>>
    BY DEF ConnectFails
  <1>2. /\ callers' \in [Callers -> CallerStates]
        /\ callers'[k].pc = "failed" /\ callers'[k].client = callers[k].client
        /\ callers'[k].item = callers[k].item
        /\ \A l \in Callers : l # k => callers'[l] = callers[l]
    BY GoesToTyped DEF ConnectFails, Awaits, BackendInv
  <1>3. MongoTypeOK' /\ ProcessTyped'
    BY <1>1, <1>2 DEF BackendInv, MongoTypeOK, ProcessTyped, processVars, Requests
  <1>4. OneClient'
    <2>1. \A l \in Callers :
            /\ callers'[l].client = callers[l].client
            /\ callers'[l].pc \notin {"idle", "failed"} => callers[l].pc \notin {"idle", "failed"}
      BY <1>2
    <2> QED
      BY <1>1, <2>1 DEF BackendInv, OneClient
  <1>5. Configured' /\ Phases'
    <2>1. CASE k = Boot
      BY <1>1, <1>2, <2>1
         DEF BackendInv, Configured, Phases, At, Runs, processVars, Requests, Rotating, Undisturbed
    <2>2. CASE k # Boot
      BY <1>1, <1>2, <2>2, BackendAssumption
         DEF BackendInv, ProcessTyped, Configured, Phases, At, Runs, processVars, Requests,
             Rotating, Undisturbed
    <2> QED
      BY <2>1, <2>2
  <1> QED
    BY <1>3, <1>4, <1>5 DEF BackendInv

LEMMA PingInv ==
  ASSUME BackendInv, NEW k \in Callers, Ping(k), phase # "exited", UNCHANGED processVars
  PROVE  BackendInv'
  <1>1. callers[k].client = client /\ client \in Clients /\ clients[client] \in {"new", "open"}
        /\ clients' = [clients EXCEPT ![client] = "open"]
    BY OperatesOpens DEF BackendInv, OneClient, At, Ping
  <1>2. callers[k].pc = "ping" /\ UNCHANGED <<client, db, indexes, legacy>>
    BY DEF Ping, At
  <1>3. /\ callers' \in [Callers -> CallerStates]
        /\ callers'[k].pc \in {"legacy", "list"} /\ callers'[k].client = client
        /\ callers'[k].item = callers[k].item
        /\ \A l \in Callers : l # k => callers'[l] = callers[l]
    <2>1. PICK pc \in {"legacy", "list"} : GoesTo(k, pc)
      BY FirstStepTyped DEF Ping
    <2> QED
      BY <1>1, <2>1, GoesToTyped DEF BackendInv, Awaits
  <1>4. Moves(k)
    BY <1>1, <1>2, <1>3 DEF Moves, Underway, BackendInv, MongoTypeOK
  <1>5. Configured'
    BY <1>2, <1>3, <1>4, MovePhase, BackendAssumption
       DEF BackendInv, Configured, At, Runs, Rotating, Undisturbed, processVars
  <1> QED
    BY <1>4, <1>5, MoveInv

LEMMA DropLegacyIndexInv ==
  ASSUME BackendInv, NEW k \in Callers, DropLegacyIndex(k), phase # "exited", UNCHANGED processVars
  PROVE  BackendInv'
  <1>1. callers[k].client = client /\ client \in Clients /\ clients[client] \in {"new", "open"}
        /\ clients' = [clients EXCEPT ![client] = "open"]
    BY OperatesOpens DEF BackendInv, OneClient, At, DropLegacyIndex
  <1>2. callers[k].pc = "legacy" /\ legacy' \subseteq legacy /\ UNCHANGED <<client, db, indexes>>
    BY DEF DropLegacyIndex, At
  <1>3. /\ callers' \in [Callers -> CallerStates]
        /\ callers'[k].pc \in {"list"} /\ callers'[k].client = client
        /\ callers'[k].item = callers[k].item
        /\ \A l \in Callers : l # k => callers'[l] = callers[l]
    <2>1. PICK pc \in {"list"} : GoesTo(k, pc)
      BY FirstStepTyped DEF DropLegacyIndex
    <2> QED
      BY <1>1, <2>1, GoesToTyped DEF BackendInv, Awaits
  <1>4. Moves(k)
    BY <1>1, <1>2, <1>3 DEF Moves, Underway, BackendInv, MongoTypeOK
  <1>5. Configured'
    BY <1>2, <1>3, <1>4, MovePhase, BackendAssumption
       DEF BackendInv, Configured, At, Runs, Rotating, Undisturbed, processVars
  <1> QED
    BY <1>4, <1>5, MoveInv

LEMMA ListIndexesInv ==
  ASSUME BackendInv, NEW k \in Callers, ListIndexes(k), phase # "exited", UNCHANGED processVars
  PROVE  BackendInv'
  <1>1. callers[k].client = client /\ client \in Clients /\ clients[client] \in {"new", "open"}
        /\ clients' = [clients EXCEPT ![client] = "open"]
    BY OperatesOpens DEF BackendInv, OneClient, At, ListIndexes
  <1>2. callers[k].pc = "list" /\ UNCHANGED <<client, indexes, legacy>>
    BY DEF ListIndexes, At
  <1>3. /\ callers' \in [Callers -> CallerStates] /\ callers'[k].client = client
        /\ \A l \in Callers : l # k => callers'[l] = callers[l]
        /\ \/ /\ indexes[callers[k].item] = "right"
              /\ \/ callers[k].item < Collections /\ callers'[k].pc \in {"legacy", "list"}
                    /\ callers'[k].item = callers[k].item + 1 /\ db' = db
                 \/ callers[k].item = Collections /\ callers'[k].pc = "connected"
                    /\ callers'[k].item = callers[k].item /\ db' = client
           \/ /\ indexes[callers[k].item] # "right" \/ callers[k].item \in NonUnique
              /\ callers'[k].pc \in {"drop", "create"}
              /\ callers'[k].item = callers[k].item /\ db' = db
    <2>1. CASE Recognised(callers[k].item)
      <3>1. NextItem(k) /\ indexes[callers[k].item] = "right"
        BY <2>1 DEF ListIndexes, Recognised
      <3> QED
        BY <1>1, <3>1, NextItemTyped DEF BackendInv
    <2>2. CASE ~Recognised(callers[k].item)
      <3>1. /\ GoesTo(k, "drop") \/ GoesTo(k, "create")
            /\ db' = db
        BY <2>2 DEF ListIndexes
      <3> QED
        BY <1>1, <2>2, <3>1, GoesToTyped DEF Recognised, Awaits, BackendInv
    <2> QED
      BY <2>1, <2>2
  <1>4. Moves(k)
    BY <1>1, <1>2, <1>3 DEF Moves, Underway, BackendInv, MongoTypeOK
  <1>5. Configured'
    <2>1. CASE k = Boot /\ ~At(Boot, "connected")
      <3>1. indexes[callers[k].item] = "right" =>
              \A item \in Items : item <= callers[k].item => indexes[item] = "right"
        BY <2>1, CallerFacts DEF BackendInv, Items, Configured, At
      <3> QED
        BY <1>2, <1>3, <2>1, <3>1, CallerFacts
           DEF BackendInv, Configured, At, Runs, Items, Rotating
    <2>2. CASE At(Boot, "connected")
      <3>1. k # Boot /\ ~Undisturbed /\ callers[k].item \in Items
        BY <1>4, <2>2, MovePhase, CallerFacts DEF BackendInv
      <3>2. callers'[k].pc \in Rotating => callers'[k].item \in NonUnique
        BY <1>3, <2>2, <3>1 DEF BackendInv, Configured, Rotating
      <3> QED
        BY <1>2, <1>3, <2>2, <3>1, <3>2, BackendAssumption
           DEF BackendInv, Configured, At, Runs, Undisturbed, processVars
    <2> QED
      BY <1>2, <2>1, <2>2 DEF BackendInv, Configured, At, Runs
  <1> QED
    BY <1>4, <1>5, MoveInv

\* Once the boot has connected, a step that rotates an index, a run's after the disconnect, goes
\* about one that is not unique.
LEMMA RotationSpares ==
  ASSUME BackendInv, NEW k \in Callers, phase # "exited", UNCHANGED processVars, Moves(k),
         At(Boot, "connected"), callers[k].pc \in Rotating,
         NEW index \in {"absent", "right"},
         indexes' \in {indexes, [indexes EXCEPT ![callers[k].item] = index]},
         callers'[k].pc \in Rotating => callers'[k].item = callers[k].item
  PROVE  Configured'
  <1>1. k # Boot /\ k \in Runs /\ ~Undisturbed' /\ callers[k].item \in NonUnique
    BY MovePhase DEF BackendInv, Configured, Runs, Undisturbed, processVars
  <1>2. callers'[Boot] = callers[Boot]
    BY <1>1, BackendAssumption DEF Moves
  <1>3. \A item \in Items : item \notin NonUnique => indexes'[item] = indexes[item]
    BY <1>1 DEF BackendInv, MongoTypeOK
  <1>4. \A r \in Runs : callers'[r].pc \in Rotating => callers'[r].item \in NonUnique
    BY <1>1 DEF BackendInv, Configured, Moves, Runs
  <1> QED
    BY <1>1, <1>2, <1>3, <1>4 DEF BackendInv, Configured, At

LEMMA DropIndexInv ==
  ASSUME BackendInv, NEW k \in Callers, DropIndex(k), phase # "exited", UNCHANGED processVars
  PROVE  BackendInv'
  <1>1. callers[k].client = client /\ client \in Clients /\ clients[client] \in {"new", "open"}
        /\ clients' = [clients EXCEPT ![client] = "open"]
    BY OperatesOpens DEF BackendInv, OneClient, At, DropIndex
  <1>2. /\ callers[k].pc \in {"drop", "dropAgain"} /\ UNCHANGED <<client, db, legacy>>
        /\ indexes' = [indexes EXCEPT ![callers[k].item] = "absent"] \/ indexes' = indexes
    BY DEF DropIndex, At
  <1>3. /\ callers' \in [Callers -> CallerStates]
        /\ callers'[k].pc \in {"create", "createAgain"} /\ callers'[k].client = client
        /\ callers'[k].item = callers[k].item
        /\ \A l \in Callers : l # k => callers'[l] = callers[l]
    <2>1. PICK pc \in {"create", "createAgain"} : GoesTo(k, pc)
      BY FirstStepTyped DEF DropIndex
    <2> QED
      BY <1>1, <2>1, GoesToTyped DEF BackendInv, Awaits
  <1>4. Moves(k)
    BY <1>1, <1>2, <1>3 DEF Moves, Underway, BackendInv, MongoTypeOK
  <1>5. Configured'
    <2>1. CASE ~At(Boot, "connected")
      <3>1. k = Boot
        BY <1>2, <2>1 DEF BackendInv, Configured, Runs, At
      <3>2. \A item \in Items : item < callers[k].item => indexes'[item] = indexes[item]
        BY <1>2, CallerFacts, MongoAssumption DEF BackendInv, MongoTypeOK, Items
      <3> QED
        BY <1>2, <1>3, <2>1, <3>1, <3>2 DEF BackendInv, Configured, At, Runs
    <2>2. CASE At(Boot, "connected")
      BY <1>2, <1>3, <1>4, <2>2, RotationSpares DEF Rotating
    <2> QED
      BY <2>1, <2>2
  <1> QED
    BY <1>4, <1>5, MoveInv

LEMMA CreateIndexInv ==
  ASSUME BackendInv, NEW k \in Callers, CreateIndex(k), phase # "exited", UNCHANGED processVars
  PROVE  BackendInv'
  <1>1. callers[k].client = client /\ client \in Clients /\ clients[client] \in {"new", "open"}
        /\ clients' = [clients EXCEPT ![client] = "open"]
    BY OperatesOpens DEF BackendInv, OneClient, At, CreateIndex
  <1>2. /\ callers[k].pc \in {"create", "createAgain"} /\ UNCHANGED <<client, legacy>>
        /\ indexes' = [indexes EXCEPT ![callers[k].item] = "right"]
    BY DEF CreateIndex, At
  <1>3. /\ callers' \in [Callers -> CallerStates] /\ callers'[k].client = client
        /\ \A l \in Callers : l # k => callers'[l] = callers[l]
        /\ \/ callers[k].item < Collections /\ callers'[k].pc \in {"legacy", "list"}
              /\ callers'[k].item = callers[k].item + 1 /\ db' = db
           \/ callers[k].item = Collections /\ callers'[k].pc = "connected"
              /\ callers'[k].item = callers[k].item /\ db' = client
    <2>1. NextItem(k)
      BY DEF CreateIndex
    <2> QED
      BY <1>1, <2>1, NextItemTyped DEF BackendInv
  <1>4. Moves(k)
    BY <1>1, <1>2, <1>3 DEF Moves, Underway, BackendInv, MongoTypeOK
  <1>5. Configured'
    <2>1. CASE ~At(Boot, "connected")
      <3>1. k = Boot
        BY <1>2, <2>1 DEF BackendInv, Configured, Runs, At
      <3>2. \A item \in Items : item <= callers[k].item => indexes'[item] = "right"
        BY <1>2, <2>1, <3>1, CallerFacts DEF BackendInv, MongoTypeOK, Items, Configured, At
      <3> QED
        BY <1>3, <2>1, <3>1, <3>2, CallerFacts
           DEF BackendInv, Configured, At, Runs, Items, Rotating
    <2>2. CASE At(Boot, "connected")
      <3>1. callers'[k].pc \notin Rotating /\ callers[k].pc \in Rotating
        BY <1>2, <1>3 DEF Rotating
      <3> QED
        BY <1>2, <1>4, <2>2, <3>1, RotationSpares
    <2> QED
      BY <2>1, <2>2
  <1> QED
    BY <1>4, <1>5, MoveInv

LEMMA CreateConflictsInv ==
  ASSUME BackendInv, NEW k \in Callers, CreateConflicts(k), phase # "exited", UNCHANGED processVars
  PROVE  BackendInv'
  <1>1. callers[k].client = client /\ client \in Clients /\ clients[client] \in {"new", "open"}
        /\ clients' = [clients EXCEPT ![client] = "open"]
    BY OperatesOpens DEF BackendInv, OneClient, At, CreateConflicts
  <1>2. callers[k].pc = "create" /\ UNCHANGED <<client, db, indexes, legacy>>
    BY DEF CreateConflicts, At
  <1>3. /\ callers' \in [Callers -> CallerStates]
        /\ callers'[k].pc \in {"dropAgain"} /\ callers'[k].client = client
        /\ callers'[k].item = callers[k].item
        /\ \A l \in Callers : l # k => callers'[l] = callers[l]
    <2>1. PICK pc \in {"dropAgain"} : GoesTo(k, pc)
      BY FirstStepTyped DEF CreateConflicts
    <2> QED
      BY <1>1, <2>1, GoesToTyped DEF BackendInv, Awaits
  <1>4. Moves(k)
    BY <1>1, <1>2, <1>3 DEF Moves, Underway, BackendInv, MongoTypeOK
  <1>5. Configured'
    <2>1. CASE ~At(Boot, "connected")
      <3>1. k = Boot
        BY <1>2, <2>1 DEF BackendInv, Configured, Runs, At
      <3> QED
        BY <1>2, <1>3, <2>1, <3>1 DEF BackendInv, Configured, At, Runs
    <2>2. CASE At(Boot, "connected")
      BY <1>2, <1>3, <1>4, <2>2, RotationSpares DEF Rotating
    <2> QED
      BY <2>1, <2>2
  <1> QED
    BY <1>4, <1>5, MoveInv

-----------------------------------------------------------------------------
\* The process around connect()

\* A step of the process alone leaves what is said of the connection.
LEMMA ConnectionFrame ==
  ASSUME BackendInv, UNCHANGED mongoVars, Undisturbed' => Undisturbed
  PROVE  MongoTypeOK' /\ OneClient' /\ Configured'
  BY DEF BackendInv, MongoTypeOK, OneClient, Configured, mongoVars, At

LEMMA ProcessStepInv ==
  ASSUME BackendInv,
         \/ Listen \/ ListenFails \/ Signal \/ ExitGracefully \/ ShutdownTimesOut
         \/ \E kind \in {"streams", "others"} : RequestArrives(kind) \/ RequestEnds(kind)
  PROVE  BackendInv'
  <1> USE DEF BackendInv
  <1>0. Undisturbed' => Undisturbed
    BY DEF Listen, ListenFails, Signal, ExitGracefully, ShutdownTimesOut, RequestArrives,
           RequestEnds, Exit, Undisturbed
  <1>1. UNCHANGED mongoVars
    BY DEF Listen, ListenFails, Signal, ExitGracefully, ShutdownTimesOut, RequestArrives,
           RequestEnds
  <1>2. MongoTypeOK' /\ OneClient' /\ Configured'
    BY <1>0, <1>1, ConnectionFrame
  <1>3. CASE Listen
    BY <1>1, <1>2, <1>3
       DEF ProcessTyped, Phases, Configured, MongoTypeOK, Requests, Listen, At, mongoVars
  <1>4. ASSUME NEW code \in {0, 1, 2}, Exit(code)
        PROVE  BackendInv'
    <2>1. ProcessTyped'
      <3>1. Requests' = 0 /\ requests' \in [streams : Nat, others : Nat]
        BY <1>4 DEF Exit, Requests
      <3>2. phase' = "exited" /\ exitCode' = code /\ timer' = FALSE /\ UNCHANGED <<attempts, stopCode>>
        BY <1>4 DEF Exit
      <3>3. Requests' <= MaxRequests
        BY <3>1, BackendAssumption
      <3>4. exitCode' \in {None, 0, 1, 2} /\ exitCode' # None
        BY <3>2, BackendAssumption
      <3> QED
        BY <3>1, <3>2, <3>3, <3>4 DEF ProcessTyped
    <2>2. Phases'
      BY <1>4 DEF Phases, Requests, Exit
    <2> QED
      BY <1>2, <2>1, <2>2
  <1>5. CASE ListenFails \/ ExitGracefully \/ ShutdownTimesOut \/ Signal
    <2>1. CASE \E code \in {0, 1, 2} : Exit(code)
      BY <1>4, <2>1
    <2>2. CASE Signal /\ phase = "listening"
      <3>1. /\ phase' = "stopping" /\ timer' = TRUE /\ stopCode' = 0
            /\ UNCHANGED <<attempts, requests, exitCode>>
        BY <2>2 DEF Signal
      <3>2. ProcessTyped'
        BY <2>2, <3>1 DEF ProcessTyped, Requests
      <3>3. Phases'
        BY <1>1, <2>2, <3>1 DEF Phases, Requests, At, mongoVars
      <3> QED
        BY <1>2, <3>2, <3>3
    <2> QED
      BY <1>5, <2>1, <2>2 DEF ListenFails, ExitGracefully, ShutdownTimesOut, Signal, Phases
  <1>6. ASSUME NEW kind \in {"streams", "others"}, RequestArrives(kind) \/ RequestEnds(kind)
        PROVE  BackendInv'
    BY <1>1, <1>2, <1>6, BackendAssumption
       DEF ProcessTyped, Phases, Requests, RequestArrives, RequestEnds, At, mongoVars
  <1> QED
    BY <1>3, <1>4, <1>5, <1>6

\* The shutdown closes the one client there is.
LEMMA ClosesClient ==
  ASSUME BackendInv, DisconnectStarts, client # None, ~Undisturbed'
  PROVE  /\ MongoTypeOK' /\ OneClient' /\ Configured'
         /\ client' # None /\ clients'[client'] = "closed"
  <1> USE DEF BackendInv
  <1>1. client \in Clients /\ clients' = [clients EXCEPT ![client] = "closed"]
        /\ UNCHANGED <<client, db, callers, indexes, legacy>>
    BY DEF MongoTypeOK, DisconnectStarts
  <1>2. \A c \in Clients : clients[c] # "unused" => clients'[c] # "unused"
    BY <1>1 DEF MongoTypeOK
  <1>3. \A c \in Clients : clients'[c] \notin {"new", "open"}
    BY <1>1 DEF MongoTypeOK, OneClient
  <1>4. MongoTypeOK'
    BY <1>1 DEF MongoTypeOK
  <1>5. OneClient'
    BY <1>1, <1>2, <1>3, CallerFacts DEF OneClient, MongoTypeOK
  <1> QED
    BY <1>1, <1>4, <1>5 DEF MongoTypeOK, Configured, At

LEMMA BootRetriesInv == BackendInv /\ BootRetries => BackendInv'
  <1> SUFFICES ASSUME BackendInv, BootRetries PROVE BackendInv'
    OBVIOUS
  <1> USE DEF BackendInv
  <1>1. /\ callers' \in [Callers -> CallerStates]
        /\ callers'[Boot].pc = "idle" /\ callers'[Boot].client = None /\ callers'[Boot].item = 1
        /\ \A l \in Callers : l # Boot => callers'[l] = callers[l]
    BY IdleTyped, BackendAssumption DEF BootRetries
  <1>2. phase = "booting" /\ callers[Boot].pc = "failed" /\ attempts' = attempts + 1
        /\ attempts + 1 < MaxRetries
        /\ UNCHANGED <<client, db, clients, indexes, legacy, phase, requests, timer, stopCode,
                       exitCode>>
    BY DEF BootRetries, At
  <1>3. MongoTypeOK' /\ ProcessTyped'
    BY <1>1, <1>2, BackendAssumption DEF MongoTypeOK, ProcessTyped, Requests
  <1>4. OneClient' /\ Configured'
    BY <1>1, <1>2 DEF OneClient, Configured, Items, Runs, At, Rotating, Undisturbed
  <1>5. Phases'
    BY <1>1, <1>2 DEF Phases, Requests, Runs, At
  <1> QED
    BY <1>3, <1>4, <1>5

LEMMA BootFailsInv == BackendInv /\ BootFails => BackendInv'
  <1> SUFFICES ASSUME BackendInv, BootFails PROVE BackendInv'
    OBVIOUS
  <1> USE DEF BackendInv
  <1>1. client # None
    BY DEF Phases, BootFails, Returned, At
  <1>2. MongoTypeOK' /\ OneClient' /\ Configured' /\ client' # None /\ clients'[client'] = "closed"
    BY <1>1, ClosesClient DEF BootFails, Undisturbed
  <1>3. ProcessTyped' /\ Phases'
    BY <1>2 DEF ProcessTyped, Phases, Requests, BootFails
  <1> QED
    BY <1>2, <1>3

LEMMA ServerClosesInv == BackendInv /\ ServerCloses => BackendInv'
  <1> SUFFICES ASSUME BackendInv, ServerCloses PROVE BackendInv'
    OBVIOUS
  <1> USE DEF BackendInv
  <1>1. client # None
    BY DEF Phases, ServerCloses
  <1>2. MongoTypeOK' /\ OneClient' /\ Configured' /\ client' # None /\ clients'[client'] = "closed"
    BY <1>1, ClosesClient DEF ServerCloses, Undisturbed
  <1>3. ProcessTyped' /\ Phases'
    BY <1>2 DEF ProcessTyped, Phases, Requests, ServerCloses
  <1> QED
    BY <1>2, <1>3

\* When the manager forgets its client, the shutdown has closed it: no other is in use.
LEMMA DisconnectedInv == BackendInv /\ Disconnected => BackendInv'
  <1> SUFFICES ASSUME BackendInv, Disconnected PROVE BackendInv'
    OBVIOUS
  <1> USE DEF BackendInv
  <1>1. \A c \in Clients : clients[c] \notin {"new", "open"}
    BY DEF MongoTypeOK, OneClient, Phases, Disconnected
  <1>2. MongoTypeOK' /\ OneClient' /\ Configured'
    <2>1. CASE DisconnectEnds
      BY <1>1, <2>1
         DEF MongoTypeOK, OneClient, Configured, Disconnected, DisconnectEnds, Undisturbed, At
    <2>2. CASE UNCHANGED mongoVars
      BY <2>2, ConnectionFrame DEF Disconnected, Undisturbed
    <2> QED
      BY <2>1, <2>2 DEF Disconnected
  <1>3. ProcessTyped' /\ Phases'
    BY DEF ProcessTyped, Phases, Requests, Disconnected
  <1> QED
    BY <1>2, <1>3

LEMMA RunHasTriedInv ==
  ASSUME BackendInv, NEW r \in Runs, RunHasTried(r)
  PROVE  BackendInv'
  <1> USE DEF BackendInv
  <1>1. r \in Callers /\ r # Boot
    BY DEF Runs
  <1>2. /\ callers' \in [Callers -> CallerStates]
        /\ callers'[r].pc = "idle" /\ callers'[r].client = None
        /\ \A l \in Callers : l # r => callers'[l] = callers[l]
    BY <1>1, IdleTyped DEF RunHasTried
  <1>3. \/ UNCHANGED clients
        \/ client \in Clients /\ clients[client] \in {"new", "open"}
           /\ clients' = [clients EXCEPT ![client] = "open"]
    BY <1>1, OperatesOpens DEF RunHasTried, Returned, At, OneClient
  <1>4. /\ phase \notin {"booting", "exited"}
        /\ UNCHANGED <<client, db, indexes, legacy, processVars>>
    BY DEF RunHasTried, Alive
  <1>5. MongoTypeOK' /\ ProcessTyped'
    BY <1>2, <1>3, <1>4 DEF MongoTypeOK, ProcessTyped, Requests, processVars
  <1>6. \A c \in Clients :
          /\ clients[c] # "unused" => clients'[c] # "unused"
          /\ clients'[c] \in {"new", "open"} => clients[c] \in {"new", "open"}
          /\ clients[c] = "open" => clients'[c] = "open"
          /\ clients[c] = "closed" => clients'[c] = "closed"
    BY <1>3 DEF MongoTypeOK
  <1>7. OneClient'
    BY <1>1, <1>2, <1>4, <1>6, CallerFacts DEF OneClient, MongoTypeOK
  <1>8. Configured'
    BY <1>1, <1>2, <1>4, BackendAssumption
       DEF Configured, Runs, At, Rotating, Undisturbed, processVars
  <1>9. Phases'
    BY <1>1, <1>2, <1>4, <1>6, BackendAssumption
       DEF ProcessTyped, MongoTypeOK, Phases, Requests, processVars, Runs, At
  <1> QED
    BY <1>5, <1>7, <1>8, <1>9

LEMMA BackendInitInv == BackendInit => BackendInv
  <1> SUFFICES ASSUME BackendInit PROVE BackendInv
    OBVIOUS
  <1>1. /\ callers = [k \in Callers |-> Idle] /\ client = None /\ db = None
        /\ clients = [c \in Clients |-> "unused"] /\ legacy \subseteq Legacy
        /\ indexes \in [Items -> {"absent", "right", "other"}]
        /\ phase = "booting" /\ attempts = 0 /\ requests = [streams |-> 0, others |-> 0]
        /\ timer = FALSE /\ stopCode = None /\ exitCode = None
    BY DEF BackendInit, MongoInit
  <1>2. \A k \in Callers : callers[k].pc = "idle" /\ callers[k].client = None /\ callers[k].item = 1
    BY <1>1, IdleIsState
  <1>3. MongoTypeOK
    BY <1>1, IdleIsState DEF MongoTypeOK
  <1>4. ProcessTyped
    <2>1. requests \in [streams : Nat, others : Nat] /\ Requests = 0
      BY <1>1 DEF Requests
    <2>2. attempts \in 0..MaxRetries /\ Requests <= MaxRequests
      BY <1>1, <2>1, BackendAssumption
    <2> QED
      BY <1>1, <2>1, <2>2 DEF ProcessTyped
  <1>5. OneClient /\ Configured /\ Phases
    BY <1>1, <1>2, MongoAssumption, BackendAssumption
       DEF OneClient, Configured, Phases, Requests, Runs, Items, At
  <1> QED
    BY <1>3, <1>4, <1>5 DEF BackendInv

LEMMA BackendNextInv == BackendInv /\ [BackendNext]_backendVars => BackendInv'
  <1> SUFFICES ASSUME BackendInv, [BackendNext]_backendVars PROVE BackendInv'
    OBVIOUS
  <1>1. CASE UNCHANGED backendVars
    BY <1>1, ConnectionFrame
       DEF backendVars, processVars, mongoVars, BackendInv, ProcessTyped, Phases, Requests, At,
           Undisturbed
  <1>2. CASE BootConnects
    <2>1. MayConnect(Boot)
      BY <1>2 DEF BootConnects, Connect, MayConnect
    <2> QED
      BY <1>2, <2>1, BackendAssumption, ConnectInv DEF BootConnects
  <1>3. ASSUME NEW r \in Runs, RunPersists(r)
        PROVE  BackendInv'
    <2>1. r \in Callers /\ MayConnect(r)
      BY <1>3 DEF RunPersists, Connect, MayConnect, Alive, Runs
    <2> QED
      BY <1>3, <2>1, ConnectInv DEF RunPersists
  <1>4. ASSUME NEW k \in Callers, ConnectProgresses(k)
        PROVE  BackendInv'
    BY <1>4, ClientConnectsInv, ConnectFailsInv, PingInv, DropLegacyIndexInv, ListIndexesInv,
       DropIndexInv, CreateIndexInv, CreateConflictsInv
       DEF ConnectProgresses, Connecting
  <1>5. CASE BootRetries \/ BootFails \/ ServerCloses \/ Disconnected
    BY <1>5, BootRetriesInv, BootFailsInv, ServerClosesInv, DisconnectedInv
  <1>6. ASSUME NEW r \in Runs, RunHasTried(r)
        PROVE  BackendInv'
    BY <1>6, RunHasTriedInv
  <1>7. CASE \/ Listen \/ ListenFails \/ Signal \/ ExitGracefully \/ ShutdownTimesOut
             \/ \E kind \in {"streams", "others"} : RequestArrives(kind) \/ RequestEnds(kind)
    BY <1>7, ProcessStepInv
  <1> QED
    <2>1. CASE \E r \in Runs : RunPersists(r) \/ RunHasTried(r)
      BY <1>3, <1>6, <2>1
    <2>2. CASE \E k \in Callers : ConnectProgresses(k)
      BY <1>4, <2>2
    <2> QED
      BY <1>1, <1>2, <1>5, <1>7, <2>1, <2>2 DEF BackendNext

-----------------------------------------------------------------------------
\* The MCP server process

LEMMA McpInitInv == M!McpInit => McpInv
  <1> SUFFICES ASSUME M!McpInit PROVE McpInv
    OBVIOUS
  <1>1. McpTyped
    <2>1. 0 \in 0..MaxCalls
      BY McpAssumption
    <2> QED
      BY <2>1 DEF M!McpInit, McpTyped
  <1>2. McpFlags /\ McpWork
    BY BackendAssumption DEF M!McpInit, McpFlags, McpWork
  <1> QED
    BY <1>1, <1>2 DEF McpInv

\* Re-entry leaves a shutdown as it is; otherwise the listener is the first to stop.
LEMMA ShutdownFacts ==
  ASSUME McpInv, "listener" \in created, NEW code \in {0, 1}, M!Shutdown(code)
  PROVE  \/ shuttingDown /\ UNCHANGED <<ready, shuttingDown, teardown, mcpCode>>
         \/ /\ ~shuttingDown /\ shuttingDown' = TRUE /\ ready' = FALSE
            /\ mcpCode' = code /\ teardown' = "listener"
  BY DEF M!Shutdown, M!ShutdownBegins

\* A shutdown begins, or not, while the process goes on.
LEMMA ShutdownInv ==
  ASSUME McpInv, "listener" \in created, NEW code \in {0, 1}, M!Shutdown(code), mcpExit = None,
         handlers' \subseteq handlers, UNCHANGED <<created, calls, mcpExit>>
  PROVE  McpInv'
  <1> USE DEF McpInv
  <1>1. McpTyped'
    BY ShutdownFacts DEF McpTyped
  <1>2. McpFlags'
    BY ShutdownFacts, McpAssumption, BackendAssumption DEF McpTyped, McpFlags
  <1>3. McpWork'
    BY ShutdownFacts, McpAssumption, BackendAssumption DEF McpTyped, McpFlags, McpWork
  <1> QED
    BY <1>1, <1>2, <1>3

LEMMA ExitsInv ==
  ASSUME McpInv, NEW code \in {0, 1, 2}, M!Exits(code)
  PROVE  McpInv'
  <1> USE DEF McpInv
  <1>1. /\ mcpExit' = code /\ calls' = 0 /\ handlers' = {}
        /\ UNCHANGED <<ready, shuttingDown, created, teardown, mcpCode>>
    BY DEF M!Exits
  <1>2. mcpExit' \in {None, 0, 1, 2} /\ calls' \in 0..MaxCalls
    BY <1>1, McpAssumption
  <1>3. McpTyped'
    BY <1>1, <1>2 DEF McpTyped
  <1>4. McpFlags' /\ McpWork'
    BY <1>1 DEF McpFlags, McpWork
  <1> QED
    BY <1>3, <1>4

LEMMA McpNextInv == McpInv /\ [M!McpNext]_mcpVars => McpInv'
  <1> SUFFICES ASSUME McpInv, [M!McpNext]_mcpVars PROVE McpInv'
    OBVIOUS
  <1> USE DEF McpInv
  <1>1. CASE UNCHANGED mcpVars
    <2>1. McpTyped'
      BY <1>1 DEF McpTyped, mcpVars
    <2>2. McpFlags'
      BY <1>1, McpAssumption, BackendAssumption DEF McpTyped, McpFlags, mcpVars
    <2>3. McpWork'
      BY <1>1, McpAssumption, BackendAssumption DEF McpTyped, McpFlags, McpWork, mcpVars
    <2> QED
      BY <2>1, <2>2, <2>3
  <1>2. CASE M!Starts
    <2>1. McpTyped'
      BY <1>2 DEF McpTyped, M!Starts, M!Starting, M!isLive, M!isReady, M!Lives
    <2>2. McpFlags'
      BY <1>2, McpAssumption, BackendAssumption
         DEF McpTyped, McpFlags, M!Starts, M!Starting, M!isLive, M!isReady, M!Lives
    <2>3. McpWork'
      BY <1>2, McpAssumption, BackendAssumption
         DEF McpTyped, McpFlags, McpWork, M!Starts, M!Starting, M!isLive, M!isReady, M!Lives
    <2> QED
      BY <2>1, <2>2, <2>3
  <1>3. ASSUME NEW resources \in {{}, {"mcp"}}, M!StartFails(resources)
        PROVE  McpInv'
    <2>1. McpTyped'
      BY <1>3 DEF McpTyped, M!StartFails, M!Starting, M!isLive, M!isReady, M!Lives, M!ShutdownBegins
    <2>2. McpFlags'
      BY <1>3, McpAssumption, BackendAssumption
         DEF McpTyped, McpFlags, M!StartFails, M!Starting, M!isLive, M!isReady, M!Lives,
             M!ShutdownBegins
    <2>3. McpWork'
      BY <1>3, McpAssumption, BackendAssumption
         DEF McpTyped, McpFlags, McpWork, M!StartFails, M!Starting, M!isLive, M!isReady,
             M!Lives, M!ShutdownBegins
    <2> QED
      BY <2>1, <2>2, <2>3
  <1>4. CASE M!CallArrives \/ M!CallEnds
    <2>1. calls' \in 0..MaxCalls
      BY <1>4, McpAssumption DEF McpTyped, M!CallArrives, M!CallEnds
    <2>2. "listener" \in created /\ mcpExit = None /\ (calls = 0 => ~shuttingDown)
      BY <1>4 DEF McpTyped, McpFlags, McpWork, M!CallArrives, M!CallEnds, M!Listening, M!Lives
    <2>3. UNCHANGED <<ready, shuttingDown, created, teardown, handlers, mcpCode, mcpExit>>
      BY <1>4 DEF M!CallArrives, M!CallEnds
    <2>4. McpTyped'
      BY <2>1, <2>3 DEF McpTyped
    <2>5. McpFlags'
      BY <2>3 DEF McpFlags
    <2>6. McpWork'
      BY <2>2, <2>3 DEF McpTyped, McpFlags, McpWork
    <2> QED
      BY <2>4, <2>5, <2>6
  <1>5. ASSUME NEW signal \in M!Signals, M!McpSignal(signal), signal \in handlers
        PROVE  McpInv'
    BY <1>5, ShutdownInv DEF M!McpSignal, M!Lives, McpWork
  <1>6. ASSUME NEW signal \in M!Signals, M!McpSignal(signal), signal \notin handlers
        PROVE  McpInv'
    BY <1>6, ExitsInv DEF M!McpSignal
  <1>7. CASE M!FatalError
    BY <1>7, ShutdownInv DEF M!FatalError, M!Lives
  <1>8. CASE M!ListenerStops \/ M!McpCloses
    <2>1. McpTyped'
      BY <1>8 DEF McpTyped, M!ListenerStops, M!McpCloses, M!Lives
    <2>2. McpFlags'
      BY <1>8, McpAssumption, BackendAssumption
         DEF McpTyped, McpFlags, M!ListenerStops, M!McpCloses, M!Lives
    <2>3. McpWork'
      BY <1>8, McpAssumption, BackendAssumption
         DEF McpTyped, McpFlags, McpWork, M!ListenerStops, M!McpCloses, M!Lives
    <2> QED
      BY <2>1, <2>2, <2>3
  <1>9. CASE M!MonitorCloses \/ M!ShutdownFails
    <2>1. PICK code \in {0, 1} : M!Exits(code)
      BY <1>9, McpAssumption DEF M!MonitorCloses, M!ShutdownFails, McpTyped, McpFlags
    <2> QED
      BY <2>1, ExitsInv
  <1> QED
    BY <1>1, <1>2, <1>3, <1>4, <1>5, <1>6, <1>7, <1>8, <1>9 DEF M!McpNext

-----------------------------------------------------------------------------
\* Theorems

\* The inductive invariant of the two processes.
THEOREM Invariance == Spec => []Inv
  <1>1. Init => Inv
    BY BackendInitInv, McpInitInv DEF Init, Inv
  <1>2. Inv /\ [Next]_lifecycleVars => Inv'
    <2> SUFFICES ASSUME Inv, [Next]_lifecycleVars PROVE Inv'
      OBVIOUS
    <2>1. [BackendNext]_backendVars /\ [M!McpNext]_mcpVars /\ process' = process
      BY DEF Next, lifecycleVars
    <2> QED
      BY <2>1, BackendNextInv, McpNextInv DEF Inv
  <1> QED
    BY <1>1, <1>2, PTL DEF Spec

LEMMA TypesHold == Inv => TypeOK
  <1> SUFFICES ASSUME Inv PROVE TypeOK
    OBVIOUS
  <1>1. Requests \in 0..MaxRequests
    BY BackendAssumption DEF Inv, BackendInv, ProcessTyped, Requests
  <1>2. BackendTypeOK
    BY <1>1 DEF Inv, BackendInv, ProcessTyped, BackendTypeOK
  <1>3. M!McpTypeOK
    BY DEF Inv, McpInv, McpTyped, McpFlags, M!McpTypeOK
  <1> QED
    BY <1>2, <1>3 DEF TypeOK

\* However many callers of connect() meet, fail, retry or come after a shutdown, no two clients
\* are left unclosed: MongoClientManager stays the owner of the one connection.
THEOREM ConnectionsAreOK == Spec => []ConnectionOK
  <1>1. Inv => ConnectionOK
    BY TypesHold DEF Inv, BackendInv, OneClient, ConnectionOK, OneConnection
  <1> QED
    BY <1>1, Invariance, PTL

\* However many collections, unique or not, in whatever state their indexes were found: a
\* database handle is only ever cached when the unique ones are configured, no later repetition
\* of the initialisation, by a run that persists its record, takes one of these away; and while
\* the server takes or drains requests every index is the configured one, although each
\* repetition rotates those that are not unique.
THEOREM HandlesAreConfigured == Spec => []IndexesAreConfigured
  <1>1. Inv => IndexesAreConfigured
    BY DEF Inv, BackendInv, Configured, Phases, Undisturbed, IndexesAreConfigured
  <1> QED
    BY <1>1, Invariance, PTL

\* A request that is in progress keeps the open database it was handed, and an MCP call the
\* handler that answers it, up to the end of any shutdown.
THEOREM WorkStaysDrained == Spec => []WorkIsDrained
  <1>1. Inv => WorkIsDrained
    BY DEF Inv, BackendInv, ProcessTyped, Phases, McpInv, McpWork, WorkIsDrained,
           RequestsKeepDatabase,
           M!McpOutlivesCalls, Requests
  <1> QED
    BY <1>1, Invariance, PTL

-----------------------------------------------------------------------------
\* Refinement

\* The process exits with a code its contract allows there.
LEMMA BackendExits ==
  ASSUME BackendInv, phase # "exited", NEW code \in {0, 1, 2}, Exit(code),
         code = 0 => phase = "leaving" /\ stopCode = 0
  PROVE  BackendContract!Exit(code)
  BY DEF BackendInv, ProcessTyped, Phases, Exit, BackendContract!Exit, BackendPhase, Requests

LEMMA BackendRefines ==
  BackendInv /\ [BackendNext]_backendVars
    => BackendContract!Next \/ UNCHANGED BackendContract!contractVars
  <1> SUFFICES ASSUME BackendInv, [BackendNext]_backendVars
               PROVE  BackendContract!Next \/ UNCHANGED BackendContract!contractVars
    OBVIOUS
  <1> USE DEF BackendInv
  <1>1. CASE /\ UNCHANGED <<phase, requests, stopCode, exitCode>>
    BY <1>1 DEF BackendContract!contractVars, BackendPhase, Requests
  <1>2. CASE Listen
    <2>1. BackendContract!Serve
      BY <1>2 DEF Listen, BackendContract!Serve, BackendPhase, Requests
    <2> QED
      BY <2>1 DEF BackendContract!Next
  <1>3. CASE ListenFails
    <2>1. BackendContract!Exit(1)
      BY <1>3, BackendExits DEF ListenFails
    <2> QED
      BY <2>1 DEF BackendContract!Next, BackendContract!Failure
  <1>4. ASSUME NEW kind \in {"streams", "others"}, RequestArrives(kind)
        PROVE  BackendContract!Next
    <2>1. BackendContract!Take
      BY <1>4 DEF RequestArrives, ProcessTyped, BackendContract!Take, BackendPhase, Requests
    <2> QED
      BY <2>1 DEF BackendContract!Next
  <1>5. ASSUME NEW kind \in {"streams", "others"}, RequestEnds(kind)
        PROVE  BackendContract!Next
    <2>1. BackendContract!Finish
      BY <1>5 DEF RequestEnds, ProcessTyped, Phases, BackendContract!Finish, BackendPhase, Requests
    <2> QED
      BY <2>1 DEF BackendContract!Next
  <1>6. CASE BootFails
    <2>1. BackendContract!Stop(TRUE)
      BY <1>6 DEF BootFails, BackendContract!Stop, BackendPhase, Requests
    <2> QED
      BY <2>1 DEF BackendContract!Next
  <1>7. CASE Signal
    <2>1. CASE phase = "listening"
      <3>1. BackendContract!Stop(FALSE)
        BY <1>7, <2>1 DEF Signal, BackendContract!Stop, BackendPhase, Requests
      <3> QED
        BY <3>1 DEF BackendContract!Next
    <2>2. CASE phase = "booting"
      <3>1. BackendContract!Exit(2)
        BY <1>7, <2>2, BackendExits DEF Signal
      <3> QED
        BY <3>1 DEF BackendContract!Next, BackendContract!Killed
    <2> QED
      BY <1>7, <2>1, <2>2 DEF Signal
  <1>8. CASE ServerCloses \/ Disconnected
    BY <1>8
       DEF ServerCloses, Disconnected, Phases, BackendContract!contractVars, BackendPhase,
           Requests
  <1>9. CASE ExitGracefully
    <2>1. stopCode \in {0, 1} /\ BackendContract!Exit(stopCode)
      BY <1>9, BackendExits DEF ExitGracefully, Phases
    <2> QED
      BY <2>1 DEF BackendContract!Next, BackendContract!Failure
  <1>10. CASE ShutdownTimesOut
    <2>1. BackendContract!Exit(1)
      BY <1>10, BackendExits DEF ShutdownTimesOut, ProcessTyped
    <2> QED
      BY <2>1 DEF BackendContract!Next, BackendContract!Failure
  <1>11. BootConnects \/ BootRetries \/ (\E k \in Callers : ConnectProgresses(k))
           \/ (\E r \in Runs : RunPersists(r) \/ RunHasTried(r)) \/ UNCHANGED backendVars
         => UNCHANGED <<phase, requests, stopCode, exitCode>>
    BY DEF BootConnects, BootRetries, ConnectProgresses, RunPersists, RunHasTried, backendVars,
           processVars
  <1> QED
    BY <1>1, <1>2, <1>3, <1>4, <1>5, <1>6, <1>7, <1>8, <1>9, <1>10, <1>11 DEF BackendNext

LEMMA McpRefines ==
  McpInv /\ [M!McpNext]_mcpVars => McpContract!Next \/ UNCHANGED McpContract!contractVars
  <1> SUFFICES ASSUME McpInv, [M!McpNext]_mcpVars
               PROVE  McpContract!Next \/ UNCHANGED McpContract!contractVars
    OBVIOUS
  <1>0. None \notin {0, 1, 2, "listener", "mcp", "monitor"}
    BY McpAssumption, BackendAssumption
  <1> USE <1>0 DEF McpInv, McpTyped, McpFlags, McpWork
  <1>1. CASE UNCHANGED mcpVars
    BY <1>1 DEF mcpVars, McpContract!contractVars, McpPhase
  <1>2. CASE M!Starts
    <2>1. McpContract!Serve
      BY <1>2 DEF M!Starts, M!Starting, M!Lives, M!isLive, M!isReady, McpContract!Serve, McpPhase
    <2> QED
      BY <2>1 DEF McpContract!Next
  <1>3. ASSUME NEW resources \in {{}, {"mcp"}}, M!StartFails(resources)
        PROVE  McpContract!Next
    <2>1. McpContract!Stop(TRUE)
      BY <1>3 DEF M!StartFails, M!ShutdownBegins, M!Starting, M!Lives, M!isLive, M!isReady,
                  McpContract!Stop, McpPhase
    <2> QED
      BY <2>1 DEF McpContract!Next
  <1>4. CASE M!CallArrives
    <2>1. McpContract!Take
      BY <1>4 DEF M!CallArrives, M!Lives, M!Listening, McpContract!Take, McpPhase
    <2> QED
      BY <2>1 DEF McpContract!Next
  <1>5. CASE M!CallEnds
    <2>1. McpContract!Finish
      BY <1>5 DEF M!CallEnds, M!Lives, McpContract!Finish, McpPhase
    <2> QED
      BY <2>1 DEF McpContract!Next
  <1>6. ASSUME NEW code \in {0, 1}, M!Shutdown(code), "listener" \in created, mcpExit = None,
               UNCHANGED <<created, calls, mcpExit>>
        PROVE  McpContract!Next \/ UNCHANGED McpContract!contractVars
    <2>1. CASE shuttingDown
      BY <1>6, <2>1, ShutdownFacts DEF McpContract!contractVars, McpPhase
    <2>2. CASE ~shuttingDown
      <3>1. McpContract!Stop(FALSE)
        BY <1>6, <2>2, ShutdownFacts DEF McpContract!Stop, McpPhase
      <3> QED
        BY <3>1 DEF McpContract!Next
    <2> QED
      BY <2>1, <2>2
  <1>7. ASSUME NEW signal \in M!Signals, M!McpSignal(signal)
        PROVE  McpContract!Next \/ UNCHANGED McpContract!contractVars
    <2>1. CASE signal \in handlers
      BY <1>6, <1>7, <2>1 DEF M!McpSignal, M!Lives
    <2>2. CASE signal \notin handlers
      <3>1. McpContract!Exit(2)
        BY <1>7, <2>2 DEF M!McpSignal, M!Exits, M!Lives, McpContract!Exit, McpPhase
      <3> QED
        BY <3>1 DEF McpContract!Next, McpContract!Killed
    <2> QED
      BY <2>1, <2>2
  <1>8. CASE M!FatalError
    BY <1>6, <1>8 DEF M!FatalError, M!Lives
  <1>9. CASE M!ListenerStops \/ M!McpCloses
    BY <1>9 DEF M!ListenerStops, M!McpCloses, M!Lives, McpContract!contractVars, McpPhase
  <1>10. CASE M!MonitorCloses
    <2>1. mcpCode \in {0, 1} /\ McpContract!Exit(mcpCode)
      BY <1>10 DEF M!MonitorCloses, M!Exits, M!Lives, McpContract!Exit, McpPhase
    <2> QED
      BY <2>1 DEF McpContract!Next, McpContract!Failure
  <1>11. CASE M!ShutdownFails
    <2>1. McpContract!Exit(1)
      BY <1>11 DEF M!ShutdownFails, M!Exits, M!Lives, McpContract!Exit, McpPhase
    <2> QED
      BY <2>1 DEF McpContract!Next, McpContract!Failure
  <1> QED
    BY <1>1, <1>2, <1>3, <1>4, <1>5, <1>7, <1>8, <1>9, <1>10, <1>11 DEF M!McpNext

\* Both servers do only what a graceful shutdown allows: work is taken between start and stop
\* alone, and exit code 0 means that the process had started and finished every piece of it.
\* (That a shutdown ends, the rest of the contract, is left to the model checker.)
THEOREM ProcessesShutDownSafely == Spec => BackendContract!Safety /\ McpContract!Safety
  <1>1. Init => BackendContract!Init /\ McpContract!Init
    BY DEF Init, BackendInit, M!McpInit, BackendContract!Init, McpContract!Init,
           BackendPhase, McpPhase, Requests
  <1>2. Inv /\ [Next]_lifecycleVars
        => [BackendContract!Next]_(BackendContract!contractVars)
           /\ [McpContract!Next]_(McpContract!contractVars)
    <2> SUFFICES ASSUME Inv, [Next]_lifecycleVars
                 PROVE  /\ BackendContract!Next \/ UNCHANGED BackendContract!contractVars
                        /\ McpContract!Next \/ UNCHANGED McpContract!contractVars
      OBVIOUS
    <2>1. [BackendNext]_backendVars /\ [M!McpNext]_mcpVars
      BY DEF Next, lifecycleVars
    <2> QED
      BY <2>1, BackendRefines, McpRefines DEF Inv
  <1> QED
    BY <1>1, <1>2, Invariance, PTL DEF Spec, BackendContract!Safety, McpContract!Safety

=============================================================================
