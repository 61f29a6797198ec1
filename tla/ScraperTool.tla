----------------------------- MODULE ScraperTool -----------------------------
(***************************************************************************)
(* backend/src/aop/delegator/tools/scraper/index.ts: execute() runs every  *)
(* target of the tool concurrently and announces each once it is screened. *)
(***************************************************************************)
EXTENDS JobsChTarget, JobIchTarget, ScraperParsing

CONSTANTS
  Tool,      \* [keywords, maxPages] of the tool: defaults of its targets
  Settings   \* target -> [target, keywords, maxPages]

VARIABLES
  reports,   \* target -> the listings of each of its onTargetFinish calls
  resolved   \* execute() has resolved

vars == <<aborted, run, browser, reports, resolved>>

Keywords(t) == mapToKeywords(Settings[t].keywords, Tool.keywords)
MaxPages(t) == mapToMaxPages(Settings[t].maxPages, Tool.maxPages)

Init ==
  /\ aborted = FALSE
  /\ run = [t \in Targets |-> Idle]
  /\ browser = [t \in Targets |-> "none"]
  /\ reports = [t \in Targets |-> <<>>]
  /\ resolved = FALSE

\* targetRegistry
targetRegistry == {"jobs-ch", "job-ich"}

\* The error a target finishes with before it runs, or None.
Refusal(t) ==
  CASE aborted -> "CANCELLED"
    [] ~aborted /\ Settings[t].target \notin targetRegistry -> "UNKNOWN_TARGET"
    [] ~aborted /\ Settings[t].target \in targetRegistry
         /\ (Keywords(t) = None \/ MaxPages(t) = None) -> "INVALID_CONFIGURATION"
    [] OTHER -> None

\* The synchronous part of execute(): every target's callback up to its first await.
Execute ==
  /\ \A t \in Targets : run[t] = Idle
  /\ run' = [t \in Targets |-> [Idle EXCEPT !.at = IF Refusal(t) = None THEN "launch" ELSE "settled"]]
  /\ reports' = [t \in Targets |->
                   IF Refusal(t) = None THEN <<>> ELSE <<<<Listing(None, Refusal(t))>>>>]
  /\ UNCHANGED <<aborted, browser, resolved>>

\* newPage() answers: the listener is registered and the target's own code begins.
NewPage(t) ==
  /\ run[t].at = "newPage"
  /\ Set(t, IF Settings[t].target = "jobs-ch" THEN ToPage(run[t], 1, MaxPages(t))
            ELSE [run[t] EXCEPT !.at = "navigate", !.attempt = 1])
  /\ UNCHANGED <<aborted, browser>>

\* Mutant: after an abort the closing is left to the listener.
FinishTrustsListener(t) ==
  /\ run[t].at = "closing"
  /\ \E after \in {"closed", "stuck"} :
       browser' = IF aborted /\ browser[t] = "open" THEN browser ELSE [browser EXCEPT ![t] = after]
  /\ Set(t, [run[t] EXCEPT !.at = "settled"])
  /\ reports' = [reports EXCEPT ![t] =
       Append(@, IF aborted /\ run[t].listings = <<>> THEN <<Listing(None, "CANCELLED")>>
                 ELSE run[t].listings)]
  /\ UNCHANGED <<aborted, resolved>>

\* The finally block of run(), whatever has become of the listener's close(), and the rest of
\* the target's callback: a close() that is rejected is only logged, and a cancelled run that
\* kept some listings is announced like a finished one.
Finish(t) ==
  /\ run[t].at = "closing"
  /\ \E after \in {"closed", "stuck"} : browser' = [browser EXCEPT ![t] = after]
  /\ Set(t, [run[t] EXCEPT !.at = "settled"])
  /\ reports' = [reports EXCEPT ![t] =
       Append(@, IF aborted /\ run[t].listings = <<>> THEN <<Listing(None, "CANCELLED")>>
                 ELSE run[t].listings)]
  /\ UNCHANGED <<aborted, resolved>>

\* Mutant: Promise.all() rejects with the first run that does, and the tool resolves.
ResolveAtFirstRejection ==
  /\ ~resolved
  /\ \/ \A t \in Targets : run[t].at \in {"settled", "rejected"}
     \/ \E t \in Targets : run[t].at = "rejected"
  /\ resolved' = TRUE
  /\ UNCHANGED <<aborted, run, browser, reports>>

\* Promise.allSettled(): a rejected run is as good as a finished one.
Resolve ==
  /\ ~resolved /\ \A t \in Targets : run[t].at \in {"settled", "rejected"}
  /\ resolved' = TRUE
  /\ UNCHANGED <<aborted, run, browser, reports>>

-----------------------------------------------------------------------------
\* Specification

RunStep(t) ==
  /\ \/ Launch(t) \/ NewPage(t) \/ NewPageFails(t)
     \/ SearchAnswers(t, MaxPages(t)) \/ SearchFails(t) \/ Goto(t) \/ Scrape(t)
     \/ Navigate(t, MaxPages(t)) \/ MoreAbsent(t) \/ MoreClicked(t)
     \/ MoreDelayEnds(t, MaxPages(t)) \/ SearchPageFails(t)
     \/ CountRows(t) \/ ScrapeRow(t) \/ Escape(t)
  /\ UNCHANGED <<reports, resolved>>

Next ==
  \/ Execute \/ Resolve
  \/ Abort /\ UNCHANGED <<reports, resolved>>
  \/ \E t \in Targets :
       RunStep(t) \/ Finish(t) \/ (ListenerFails(t) /\ UNCHANGED <<reports, resolved>>)

Spec == Init /\ [][Next]_vars

\* Playwright bounds every awaited call by its default timeout, and a timer fires.
FairSpec ==
  /\ Spec
  /\ WF_vars(Execute) /\ WF_vars(Resolve)
  /\ \A t \in Targets : WF_vars(RunStep(t)) /\ WF_vars(Finish(t))

-----------------------------------------------------------------------------
\* Properties

Codes == {"ok", "CANCELLED", "UNKNOWN_TARGET", "INVALID_CONFIGURATION",
          "TARGET_FAILED", "NAVIGATION_FAILED", "SCRAPE_FAILED"}

IsListings(s) == \A i \in DOMAIN s : s[i].code \in Codes

\* The variables keep their types, in particular the retries stay within their number.
TypeOK ==
  /\ aborted \in BOOLEAN /\ resolved \in BOOLEAN
  /\ browser \in [Targets -> {"none", "open", "closing", "closed", "stuck"}]
  /\ \A t \in Targets :
       /\ run[t].at \in Working \cup {"idle", "launch", "newPage", "closing", "settled", "rejected"}
       /\ run[t].attempt \in 0..TotalAttempts
       /\ IsListings(run[t].listings)
       /\ \A i \in DOMAIN reports[t] : IsListings(reports[t][i])

\* No target is announced before its browser was asked to close after the last call that used
\* it, whichever of the returns and catches of run() was taken, wherever the abort met it and
\* whatever became of the listener's own close() ("always closes the browser and page",
\* jobs-ch.test.ts).  So once the tool has resolved, a browser still runs only where that last
\* close() was rejected, or where newPage() failed and nobody announced the target.
NoBrowserForgotten ==
  /\ TypeOK
  /\ \A t \in Targets :
       /\ reports[t] # <<>> => browser[t] \in {"none", "closed", "stuck"}
       /\ resolved /\ browser[t] \in {"open", "closing"} => run[t].at = "rejected"

IsTargetError(listings) == Len(listings) = 1 /\ listings[1].item = None

Position(items, item) == CHOOSE i \in DOMAIN items : items[i] = item

\* The listings are of the first items found, in order, at most one success each.
ArePrefixOf(listings, items) ==
  \E k \in 0..Len(items) :
    /\ {listings[i].item : i \in DOMAIN listings} = {items[i] : i \in 1..k}
    /\ \A i, j \in DOMAIN listings : i < j =>
         /\ Position(items, listings[i].item) <= Position(items, listings[j].item)
         /\ ~(listings[i] = listings[j])

\* What is announced for a target accounts for every vacancy found, once and in the
\* order it was found; after a cancellation for those before it, without a gap.
EveryVacancyAccounted ==
  \A t \in Targets : \A n \in DOMAIN reports[t] :
    LET listings == reports[t][n] IN
    \/ IsTargetError(listings)
    \/ /\ ArePrefixOf(listings, run[t].items)
       /\ aborted \/ Range(run[t].items) = {listings[i].item : i \in DOMAIN listings}

\* The abort closes the browser under the run, so that every call in flight fails:
\* no such failure is recorded as one of the site.
CancelIsNotBlamed ==
  [][\A t \in Targets :
       (aborted /\ run'[t].listings # run[t].listings) =>
         \A i \in DOMAIN run'[t].listings :
           \/ i \in DOMAIN run[t].listings /\ run'[t].listings[i] = run[t].listings[i]
           \/ run'[t].listings[i].code = "ok"]_vars

\* The tool resolves whatever the sites do, with or without an abort.
ExecuteResolves == <>resolved

Fate(t) ==
  CASE Len(reports[t]) > 1 -> "reported twice"
    [] Len(reports[t]) = 1 -> "reported"
    [] reports[t] = <<>> /\ run[t].at = "rejected" -> "lost"
    [] OTHER -> "pending"

Contract == INSTANCE ToolContract WITH fate <- [t \in Targets |-> Fate(t)], done <- resolved

\* The tool keeps what the delegator relies on: one announcement per target, none
\* after it has resolved, and no resolution while a target is still at work.
ImplementsContract == Contract!Spec

=============================================================================
