------------------------------ MODULE UserData ------------------------------
(***************************************************************************)
(* The conversations and jobs of the users (repository/conversations,      *)
(* repository/jobs) and the handlers that read and write them by id        *)
(* (mcp-controller.ts, jobs-controller.ts), over histories of calls.       *)
(*                                                                         *)
(* A store keeps the two collections in the order of their insertion and   *)
(* how many ids were made for each user: ObjectIds are never used twice.   *)
(* A call is [user, op, owner, n]: the id it carries is the n-th of its    *)
(* owner, whoever the user is.  The op "legacy" is no call: it leaves a    *)
(* job in the collection that no longer fits the schema of its documents.  *)
(***************************************************************************)
EXTENDS Absent

EmptyStore(users) ==
  [conversations |-> <<>>, jobs |-> <<>>, made |-> [user \in users |-> 0]]

newId(store, user) == [owner |-> user, n |-> store.made[user] + 1]

\* The id in the path of a call.
idOf(call) == [owner |-> call.owner, n |-> call.n]

Miss == [status |-> "ResourceNotFoundException", data |-> <<>>]
Broken == [status |-> "SchemaValidationException", data |-> <<>>]
Answer(data) == [status |-> "ok", data |-> data]

\* The filter { _id, userId } of every query by id.
IsAsked(document, call) == document.id = idOf(call) /\ document.userId = call.user

Done(store, answer) == [store |-> store, answer |-> answer]

Inserted(store, collection, document) ==
  [store EXCEPT ![collection] = Append(@, document), !.made[document.userId] = @ + 1]

-----------------------------------------------------------------------------
\* Conversations

\* create()
createConversation(store, call) ==
  LET id == newId(store, call.user) IN
  Done(Inserted(store, "conversations", [id |-> id, userId |-> call.user, turns |-> <<>>]),
       Answer(<<id>>))

toConversationSummary(document) == document.id

\* listForUser(): find({ userId }), the oldest first.
listConversations(store, call) ==
  LET own == Where(store.conversations, LAMBDA d : d.userId = call.user) IN
  Done(store, Answer(Mapped(toConversationSummary, own)))

\* getByIdForUser() and toConversationRead().
getConversation(store, call) ==
  LET document == FirstOf(store.conversations, LAMBDA d : IsAsked(d, call)) IN
  Done(store, IF document = None THEN Miss ELSE Answer(document.turns))

\* deleteForUser()
deleteConversation(store, call) ==
  LET kept == Where(store.conversations, LAMBDA d : ~IsAsked(d, call)) IN
  IF ~\E i \in DOMAIN store.conversations : IsAsked(store.conversations[i], call)
  THEN Done(store, Miss)
  ELSE Done([store EXCEPT !.conversations = kept], Answer(<<idOf(call)>>))

\* appendTurn(): the turns stay in the order they were saved.
appendTurn(store, call) ==
  LET Appended(d) == IF IsAsked(d, call) THEN [d EXCEPT !.turns = Append(@, Len(@) + 1)] ELSE d
      written == Mapped(Appended, store.conversations)
      document == FirstOf(written, LAMBDA d : IsAsked(d, call)) IN
  IF document = None THEN Done(store, Miss)
  ELSE Done([store EXCEPT !.conversations = written], Answer(document.turns))

-----------------------------------------------------------------------------
\* Jobs

getJobWithNormalizedId(document) == [id |-> document.id, version |-> document.version]

newJob(store, user, valid) == [id |-> newId(store, user), userId |-> user, version |-> 1, valid |-> valid]

\* create()
createJob(store, call) ==
  LET document == newJob(store, call.user, TRUE) IN
  Done(Inserted(store, "jobs", document), Answer(<<getJobWithNormalizedId(document)>>))

legacyJob(store, call) == Done(Inserted(store, "jobs", newJob(store, call.user, FALSE)), Answer(<<>>))

JobAnswer(jobs, call) ==
  LET document == FirstOf(jobs, LAMBDA d : IsAsked(d, call)) IN
  CASE document = None -> Miss
    [] document # None /\ ~document.valid -> Broken
    [] OTHER -> Answer(<<getJobWithNormalizedId(document)>>)

\* update() replaces the content by one that fits.
updateJob(store, call) ==
  LET Set(d) == IF IsAsked(d, call) THEN [d EXCEPT !.version = @ + 1, !.valid = TRUE] ELSE d
      written == Mapped(Set, store.jobs) IN
  Done([store EXCEPT !.jobs = written], JobAnswer(written, call))

getJob(store, call) == Done(store, JobAnswer(store.jobs, call))

\* delete()
deleteJob(store, call) ==
  LET kept == Where(store.jobs, LAMBDA d : ~IsAsked(d, call)) IN
  IF ~\E i \in DOMAIN store.jobs : IsAsked(store.jobs[i], call) THEN Done(store, Miss)
  ELSE Done([store EXCEPT !.jobs = kept], Answer(<<idOf(call)>>))

\* A page: skip(offset), then limit(limit), where 0 is no limit.
Page(documents, limit, offset) ==
  LET rest == SubSeq(documents, offset + 1, Len(documents)) IN
  IF limit = 0 THEN rest ELSE SubSeq(rest, 1, IF limit < Len(rest) THEN limit ELSE Len(rest))

\* getAllByUserId(): one document that does not fit refuses the whole page.
getAllByUserId(store, user, limit, offset) ==
  LET page == Page(Where(store.jobs, LAMBDA d : d.userId = user), limit, offset) IN
  IF \E i \in DOMAIN page : ~page[i].valid THEN Broken ELSE Answer(Mapped(getJobWithNormalizedId, page))

getAllJobs(store, call) == Done(store, getAllByUserId(store, call.user, 0, 0))

\* getAll(): what the boot reads, of every user.
getAll(store) ==
  IF \E i \in DOMAIN store.jobs : ~store.jobs[i].valid THEN Broken
  ELSE Answer(Mapped(getJobWithNormalizedId, store.jobs))

-----------------------------------------------------------------------------

Operations ==
  {"createConversation", "listConversations", "getConversation", "deleteConversation", "appendTurn",
   "createJob", "updateJob", "getJob", "deleteJob", "getAllJobs", "legacy"}

Handled(store, call) ==
  CASE call.op = "createConversation" -> createConversation(store, call)
    [] call.op = "listConversations" -> listConversations(store, call)
    [] call.op = "getConversation" -> getConversation(store, call)
    [] call.op = "deleteConversation" -> deleteConversation(store, call)
    [] call.op = "appendTurn" -> appendTurn(store, call)
    [] call.op = "createJob" -> createJob(store, call)
    [] call.op = "updateJob" -> updateJob(store, call)
    [] call.op = "getJob" -> getJob(store, call)
    [] call.op = "deleteJob" -> deleteJob(store, call)
    [] call.op = "getAllJobs" -> getAllJobs(store, call)
    [] call.op = "legacy" -> legacyJob(store, call)

\* The store after a history of calls, and the answer to each with the user who was given it.
Replayed(users, calls) ==
  LET run[n \in 0..Len(calls)] ==
        IF n = 0 THEN [store |-> EmptyStore(users), answers |-> <<>>]
        ELSE LET before == run[n - 1]
                 done == Handled(before.store, calls[n]) IN
             [store |-> done.store,
              answers |-> Append(before.answers, [user |-> calls[n].user, answer |-> done.answer])] IN
  run[Len(calls)]

-----------------------------------------------------------------------------
\* Properties of a history

\* What a user is answered is what the user would be answered alone: a document of somebody
\* else is the same miss as one that was never there, for reads and for writes.
OthersAreUnseen(users, calls) ==
  \A user \in users :
    LET IsOwn(x) == x.user = user IN
    Where(Replayed(users, calls).answers, IsOwn) = Replayed(users, Where(calls, IsOwn)).answers

\* The pages of a list are the list, whatever their size: each job of the user once, in order.
PagesAreTheList(users, calls, limits) ==
  LET store == Replayed(users, calls).store IN
  \A user \in users : \A limit \in limits :
    LET all == getAllByUserId(store, user, 0, 0)
        page(i) == getAllByUserId(store, user, limit, (i - 1) * limit) IN
    all.status = "ok" =>
      FlattenSeq([i \in 1..(Len(calls) + 1) |-> page(i).data]) = all.data

=============================================================================
