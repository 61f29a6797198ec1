----------------------------- MODULE MongoManager -----------------------------
(***************************************************************************)
(* backend/src/aop/db/mongo/client/index.ts: MongoClientManager, the one   *)
(* client of the process, its cached database handle and the indexes it    *)
(* brings into the configured form before it caches the handle.            *)
(*                                                                         *)
(* connect() may be called by several callers; what it does between two    *)
(* awaits is one step.  The driver connects a client that is not connected *)
(* at its first operation, and refuses operations on one that was closed.  *)
(***************************************************************************)
EXTENDS Naturals

CONSTANTS
  None,         \* null
  Callers,      \* callers of connect()
  Collections,  \* bound: the configured collections are 1..Collections, in this order
  Legacy,       \* those with a legacy index to drop
  NonUnique,    \* those whose index is configured with unique: false
  MaxClients    \* bound: MongoClient objects

ASSUME MongoAssumption ==
  /\ Collections \in Nat \ {0} /\ Legacy \subseteq 1..Collections /\ NonUnique \subseteq 1..Collections
  /\ MaxClients \in Nat
  /\ None \notin 1..MaxClients

VARIABLES
  client,    \* MongoClientManager.client
  db,        \* MongoClientManager.db: the client it belongs to, or None
  clients,   \* client -> "unused", "new" (not connected), "open" or "closed"
  callers,   \* caller -> [pc, client, item], where its connect() stands
  indexes,   \* collection -> its index: "absent", "right" (as configured) or "other"
  legacy     \* collections that still have their legacy index

mongoVars == <<client, db, clients, callers, indexes, legacy>>

Clients == 1..MaxClients
Items == 1..Collections

Idle == [pc |-> "idle", client |-> None, item |-> 1]

MongoInit ==
  /\ client = None /\ db = None
  /\ clients = [c \in Clients |-> "unused"]
  /\ callers = [k \in Callers |-> Idle]
  /\ indexes \in [Items -> {"absent", "right", "other"}]
  /\ legacy \in SUBSET Legacy

\* Where a call of connect() may stand: at an await, before it, or after it has returned.
Awaits == {"idle", "connecting", "ping", "legacy", "list", "drop", "create", "dropAgain",
           "createAgain", "connected", "failed"}

CallerStates == [pc : Awaits, client : Clients \cup {None}, item : Items]

At(k, pc) == callers[k].pc = pc

GoesTo(k, pc) == callers' = [callers EXCEPT ![k].pc = pc]

-----------------------------------------------------------------------------
\* connect()

ConnectReturnsCached(k) ==
  /\ db # None
  /\ callers' = [callers EXCEPT ![k] = [Idle EXCEPT !.pc = "connected", !.client = db]]
  /\ UNCHANGED <<client, clients>>

ConnectCreatesClient(k) ==
  /\ db = None /\ client = None
  /\ \E c \in Clients :
       /\ clients[c] = "unused" /\ \A b \in 1..(c - 1) : clients[b] # "unused"
       /\ clients' = [clients EXCEPT ![c] = "new"]
       /\ client' = c
       /\ callers' = [callers EXCEPT ![k] = [Idle EXCEPT !.pc = "connecting", !.client = c]]

\* Mutant: every call without a handle makes a client of its own.
ConnectReplacesClient(k) ==
  /\ db = None /\ client # None
  /\ \E c \in Clients :
       /\ clients[c] = "unused"
       /\ clients' = [clients EXCEPT ![c] = "new"]
       /\ client' = c
       /\ callers' = [callers EXCEPT ![k] = [Idle EXCEPT !.pc = "connecting", !.client = c]]

\* A client that another call is connecting, or failed to connect, is used as it is.
ConnectReusesClient(k) ==
  /\ db = None /\ client # None
  /\ callers' = [callers EXCEPT ![k] = [Idle EXCEPT !.pc = "ping", !.client = client]]
  /\ UNCHANGED <<client, clients>>

Connect(k) ==
  /\ At(k, "idle")
  /\ ConnectReturnsCached(k) \/ ConnectCreatesClient(k) \/ ConnectReusesClient(k)
  /\ UNCHANGED <<db, indexes, legacy>>

\* client.connect() resolves: the manager's client, whichever it is by now, is asked for the
\* database; there is none after a disconnect.
ClientConnects(k) ==
  /\ At(k, "connecting") /\ clients[callers[k].client] # "closed"
  /\ clients' = [clients EXCEPT ![callers[k].client] = "open"]
  /\ callers' = [callers EXCEPT ![k] =
       [@ EXCEPT !.pc = IF client = None THEN "failed" ELSE "ping", !.client = client]]
  /\ UNCHANGED <<client, db, indexes, legacy>>

\* Any await of connect() but those of a drop rejects: the error leaves connect(), the client stays.
ConnectFails(k) ==
  /\ callers[k].pc \notin {"idle", "connected", "failed"}
  /\ GoesTo(k, "failed")
  /\ UNCHANGED <<client, db, clients, indexes, legacy>>

-----------------------------------------------------------------------------
\* initializeDb()

\* An operation of k's client: connects it if need be, unless it was closed.
Operates(k) ==
  /\ clients[callers[k].client] # "closed"
  /\ clients' = [clients EXCEPT ![callers[k].client] = "open"]

FirstStep(item) == IF item \in Legacy THEN "legacy" ELSE "list"

Ping(k) ==
  /\ At(k, "ping") /\ Operates(k)
  /\ GoesTo(k, FirstStep(1))
  /\ UNCHANGED <<client, db, indexes, legacy>>

\* A drop that fails is a warning.
DropLegacyIndex(k) ==
  /\ At(k, "legacy") /\ Operates(k)
  /\ legacy' \in {legacy, legacy \ {callers[k].item}}
  /\ GoesTo(k, "list")
  /\ UNCHANGED <<client, db, indexes>>

\* To the next collection, or, after the last, the handle is cached and connect() returns.
NextItem(k) ==
  LET item == callers[k].item IN
  IF item < Collections
  THEN /\ callers' = [callers EXCEPT ![k] = [@ EXCEPT !.pc = FirstStep(item + 1), !.item = item + 1]]
       /\ UNCHANGED db
  ELSE /\ GoesTo(k, "connected") /\ db' = callers[k].client

\* areIndexesTheSame: MongoDB lists the option unique only where it is true, so that an index
\* configured with unique: false is never found to be the configured one.
Recognised(item) == indexes[item] = "right" /\ item \notin NonUnique

ListIndexes(k) ==
  LET item == callers[k].item IN
  /\ At(k, "list") /\ Operates(k)
  /\ CASE indexes[item] = "absent" -> GoesTo(k, "create") /\ UNCHANGED db
       [] Recognised(item) -> NextItem(k)
       [] OTHER -> GoesTo(k, "drop") /\ UNCHANGED db
  /\ UNCHANGED <<client, indexes, legacy>>

\* rotateIndex(), from the check or from the conflict it runs into; a drop that fails is a warning.
DropIndex(k) ==
  /\ At(k, "drop") \/ At(k, "dropAgain")
  /\ Operates(k)
  /\ \/ indexes' = [indexes EXCEPT ![callers[k].item] = "absent"]
     \/ UNCHANGED indexes
  /\ GoesTo(k, IF At(k, "drop") THEN "create" ELSE "createAgain")
  /\ UNCHANGED <<client, db, legacy>>

CreateIndex(k) ==
  /\ At(k, "create") \/ At(k, "createAgain")
  /\ Operates(k)
  /\ indexes[callers[k].item] # "other"
  /\ indexes' = [indexes EXCEPT ![callers[k].item] = "right"]
  /\ NextItem(k)
  /\ UNCHANGED <<client, legacy>>

\* Mutant: an index in conflict is taken for the configured one.
CreateConflictsIgnored(k) ==
  /\ At(k, "create") /\ Operates(k)
  /\ indexes[callers[k].item] = "other"
  /\ NextItem(k)
  /\ UNCHANGED <<client, indexes, legacy>>

\* Error 86: one retry by rotation; the second conflict leaves connect() (ConnectFails).
CreateConflicts(k) ==
  /\ At(k, "create") /\ Operates(k)
  /\ indexes[callers[k].item] = "other"
  /\ GoesTo(k, "dropAgain")
  /\ UNCHANGED <<client, db, indexes, legacy>>

-----------------------------------------------------------------------------
\* disconnect()

DisconnectStarts ==
  /\ clients' = IF client = None THEN clients ELSE [clients EXCEPT ![client] = "closed"]
  /\ UNCHANGED <<client, db, callers, indexes, legacy>>

DisconnectEnds ==
  /\ client' = None /\ db' = None
  /\ UNCHANGED <<clients, callers, indexes, legacy>>

Returned(k) == At(k, "connected") \/ At(k, "failed")

Connecting(k) ==
  \/ ClientConnects(k) \/ ConnectFails(k) \/ Ping(k) \/ DropLegacyIndex(k) \/ ListIndexes(k)
  \/ DropIndex(k) \/ CreateIndex(k) \/ CreateConflicts(k)

-----------------------------------------------------------------------------

MongoTypeOK ==
  /\ client \in Clients \cup {None} /\ db \in Clients \cup {None}
  /\ clients \in [Clients -> {"unused", "new", "open", "closed"}]
  /\ callers \in [Callers -> CallerStates]
  /\ indexes \in [Items -> {"absent", "right", "other"}]
  /\ legacy \subseteq Legacy

\* "Singleton pattern ensures one connection per application": at most one client is not closed.
OneConnection ==
  \A c, d \in Clients : clients[c] \in {"new", "open"} /\ clients[d] \in {"new", "open"} => c = d

=============================================================================
