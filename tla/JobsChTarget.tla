---------------------------- MODULE JobsChTarget ----------------------------
(***************************************************************************)
(* targets/jobs-ch/index.ts: the pages of the search API are read until    *)
(* they run out, then each vacancy found is opened and scraped in turn.    *)
(***************************************************************************)
EXTENDS TargetRun

CONSTANT Documents   \* the sequences of vacancy ids a page of the search may hold

ASSUME DocumentsAssumption == \A documents \in Documents : documents \in Seq(Range(documents))

\* Mutant: the URLs are kept in an array.
FoundWithDuplicates(items, documents) == items \o documents

\* jobDetailUrlSet: a Set keeps the first occurrence of each URL.
Found(items, documents) ==
  FoldLeft(LAMBDA found, id : IF id \in Range(found) THEN found ELSE Append(found, id),
           items, documents)

\* The head of the loop over pages: at page p.
ToPage(r, p, maxPages) ==
  IF maxPages # 0 /\ p > maxPages THEN ToItem(r, 1, "goto")
  ELSE IF aborted THEN Leave(r, <<>>)
  ELSE [r EXCEPT !.at = "search", !.cursor = p, !.attempt = 1]

\* fetchSemanticSearchPage() answers with the documents of the page and numPages.
SearchAnswers(t, maxPages) ==
  /\ run[t].at = "search"
  /\ \E documents \in Documents, numPages \in 0..SitePages :
       LET r == [run[t] EXCEPT !.items = Found(@, documents)] IN
       Set(t, IF documents = <<>> \/ r.cursor >= numPages
              THEN ToItem(r, 1, "goto") ELSE ToPage(r, r.cursor + 1, maxPages))
  /\ UNCHANGED <<aborted, browser>>

SearchFails(t) ==
  /\ run[t].at = "search"
  /\ Set(t, Retry(run[t], LeaveFailed(run[t])))
  /\ UNCHANGED <<aborted, browser>>

NextUrl(r) == ToItem(r, r.cursor + 1, "goto")

\* page.goto(url), retried; then scrapeDetailListing() begins.
Goto(t) ==
  /\ run[t].at = "goto"
  /\ \/ Set(t, [run[t] EXCEPT !.at = "scrape"])
     \/ Set(t, Retry(run[t], NextUrl(ItemFailed(run[t], "NAVIGATION_FAILED"))))
  /\ UNCHANGED <<aborted, browser>>

\* scrapeDetailListing(): its awaits as one, answered by a listing or an error.
Scrape(t) ==
  /\ run[t].at = "scrape"
  /\ LET r == run[t] IN
     \/ Set(t, NextUrl([r EXCEPT !.listings = Append(@, Listing(r.items[r.cursor], "ok"))]))
     \/ Set(t, NextUrl(ItemFailed(r, "SCRAPE_FAILED")))
  /\ UNCHANGED <<aborted, browser>>

=============================================================================
