------------------------------ MODULE TargetRun ------------------------------
(***************************************************************************)
(* What the scraper's targets share: one run(config, signal) per target,   *)
(* its browser, the abort listener and the retries.  A run is suspended at *)
(* one await at a time; run[t].at names it.  Playwright's answers are the  *)
(* environment's choice: any call may fail, and once the abort listener    *)
(* has begun to close the browser a call may still succeed or fail.        *)
(***************************************************************************)
EXTENDS Naturals, Sequences, SequencesExt, Absent

CONSTANTS
  Targets,         \* targetIds of the tool
  TotalAttempts,   \* constants.listing.totalAttempts
  SitePages        \* bound: pages of results a site has

ASSUME TargetRunAssumption == TotalAttempts \in Nat \ {0} /\ SitePages \in Nat

VARIABLES
  aborted,   \* signal.aborted, shared by all targets
  run,       \* target -> the local variables of its run
  browser    \* target -> "none", "open", "closing" (by the listener), "closed", or "stuck":
             \* the last close(), that of the finally block, was rejected

\* Awaits at which the abort listener is registered.
Working ==
  {"search", "goto", "scrape", "navigate", "more", "moreDelay", "rows", "row", "escape"}

Idle == [at |-> "idle", attempt |-> 0, cursor |-> 0, items |-> <<>>, listings |-> <<>>]

\* A listing is of an item (a vacancy found), or of None: a whole-target error.
Listing(item, code) == [item |-> item, code |-> code]

Set(t, r) == run' = [run EXCEPT ![t] = r]

\* return listings: the finally block removes the listener and closes the browser.
Leave(r, listings) == [r EXCEPT !.at = "closing", !.listings = listings]

\* The outer catch of run().
LeaveFailed(r) ==
  IF aborted THEN Leave(r, <<>>) ELSE Leave(r, <<Listing(None, "TARGET_FAILED")>>)

\* Mutant: the count of attempts starts over.
RetryForever(r, exhausted) ==
  IF r.attempt <= TotalAttempts THEN [r EXCEPT !.attempt = (@ % TotalAttempts) + 1] ELSE exhausted

\* retryWithFixedInterval(): a failed attempt is repeated after a delay, which does
\* not look at the signal; after the last one the caller's catch runs.
Retry(r, exhausted) ==
  IF r.attempt < TotalAttempts THEN [r EXCEPT !.attempt = @ + 1] ELSE exhausted

\* Mutant: an item that fails after an abort is recorded as a failure.
ItemFailedAlways(r, code) == [r EXCEPT !.listings = Append(@, Listing(r.items[r.cursor], code))]

\* The listings after an item failed.
ItemFailed(r, code) ==
  IF aborted THEN r ELSE [r EXCEPT !.listings = Append(@, Listing(r.items[r.cursor], code))]

\* The head of a loop over the items found: at the await where item i begins.
ToItem(r, i, await) ==
  IF aborted \/ i > Len(r.items) THEN Leave(r, r.listings)
  ELSE [r EXCEPT !.at = await, !.cursor = i, !.attempt = 1]

\* chromium.launch(), outside the try: a failure rejects run().
Launch(t) ==
  /\ run[t].at = "launch"
  /\ \/ Set(t, [run[t] EXCEPT !.at = "newPage"]) /\ browser' = [browser EXCEPT ![t] = "open"]
     \/ Set(t, [run[t] EXCEPT !.at = "rejected"]) /\ UNCHANGED browser
  /\ UNCHANGED aborted

\* browser.newPage(), outside the try too: a failure leaves the browser open.
NewPageFails(t) ==
  /\ run[t].at = "newPage"
  /\ Set(t, [run[t] EXCEPT !.at = "rejected"])
  /\ UNCHANGED <<aborted, browser>>

\* The abort event: the listeners begin to close their browsers.  A run that has
\* not registered its listener yet learns of the abort from signal.aborted only.
Abort ==
  /\ ~aborted
  /\ aborted' = TRUE
  /\ browser' = [t \in Targets |->
                   IF run[t].at \in Working /\ browser[t] = "open" THEN "closing" ELSE browser[t]]
  /\ UNCHANGED run

\* The close() of the listener is rejected, which is only logged: the browser stays open.
ListenerFails(t) ==
  /\ browser[t] = "closing"
  /\ browser' = [browser EXCEPT ![t] = "open"]
  /\ UNCHANGED <<aborted, run>>

=============================================================================
