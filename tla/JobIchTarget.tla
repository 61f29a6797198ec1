---------------------------- MODULE JobIchTarget ----------------------------
(***************************************************************************)
(* targets/job-ich/index.ts: one search page whose "Show more" button adds *)
(* batches of rows; then each row is opened in an overlay, scraped and     *)
(* closed with Escape.                                                     *)
(***************************************************************************)
EXTENDS TargetRun

CONSTANT Rows   \* bound: rows a search page may show

ASSUME RowsAssumption == Rows \in Nat

\* The head of the "Show more" loop: before click i of maxPages - 1, or without limit.
ToMore(r, i, maxPages) ==
  IF maxPages # 0 /\ i > maxPages - 1 THEN [r EXCEPT !.at = "rows"]
  ELSE IF aborted THEN Leave(r, <<>>)
  ELSE [r EXCEPT !.at = "more", !.cursor = i]

\* page.goto() and the results container, retried together.
Navigate(t, maxPages) ==
  /\ run[t].at = "navigate"
  /\ LET r == run[t] IN
     \/ Set(t, ToMore(r, 1, maxPages))
     \/ Set(t, Retry(r, IF aborted THEN Leave(r, <<>>)
                        ELSE Leave(r, <<Listing(None, "NAVIGATION_FAILED")>>)))
  /\ UNCHANGED <<aborted, browser>>

\* The button is missing, disabled or hidden (a closed browser answers "hidden").
MoreAbsent(t) ==
  /\ run[t].at = "more"
  /\ Set(t, [run[t] EXCEPT !.at = "rows"])
  /\ UNCHANGED <<aborted, browser>>

\* The button is clicked, while the site still has a batch to show.
MoreClicked(t) ==
  /\ run[t].at = "more" /\ run[t].cursor < SitePages
  /\ Set(t, [run[t] EXCEPT !.at = "moreDelay"])
  /\ UNCHANGED <<aborted, browser>>

MoreDelayEnds(t, maxPages) ==
  /\ run[t].at = "moreDelay"
  /\ Set(t, ToMore(run[t], run[t].cursor + 1, maxPages))
  /\ UNCHANGED <<aborted, browser>>

\* Counting or clicking the button, or counting the rows, throws.
SearchPageFails(t) ==
  /\ run[t].at \in {"more", "rows"}
  /\ Set(t, LeaveFailed(run[t]))
  /\ UNCHANGED <<aborted, browser>>

\* rows.count()
CountRows(t) ==
  /\ run[t].at = "rows"
  /\ \E n \in 0..Rows :
       Set(t, ToItem([run[t] EXCEPT !.items = [i \in 1..n |-> i]], 1, "row"))
  /\ UNCHANGED <<aborted, browser>>

NextRow(r) == ToItem(r, r.cursor + 1, "row")

\* The row is clicked and its overlay scraped.
ScrapeRow(t) ==
  /\ run[t].at = "row"
  /\ LET r == run[t] IN
     \/ Set(t, [r EXCEPT !.listings = Append(@, Listing(r.items[r.cursor], "ok")), !.at = "escape"])
     \/ Set(t, NextRow(ItemFailed(r, "SCRAPE_FAILED")))
  /\ UNCHANGED <<aborted, browser>>

\* Escape closes the overlay; whether it is detached in time is ignored.  A failing
\* key press puts an error beside the listing the row already has.
Escape(t) ==
  /\ run[t].at = "escape"
  /\ \/ Set(t, NextRow(run[t]))
     \/ Set(t, NextRow(ItemFailed(run[t], "SCRAPE_FAILED")))
  /\ UNCHANGED <<aborted, browser>>

=============================================================================
