------------------------------ MODULE MCScraper ------------------------------
(***************************************************************************)
(* A small instance of ScraperTool for TLC: one target of each site, one   *)
(* of an unknown site and one without keywords.                            *)
(***************************************************************************)
EXTENDS ScraperTool

MCTool == [keywords |-> None, maxPages |-> 2]

Setting(target, keywords, maxPages) ==
  [target |-> target, keywords |-> keywords, maxPages |-> maxPages]

\* jobs.ch takes the tool's limit, jobich.ch is unlimited.
MCSettings ==
  [t \in Targets |->
     CASE t = "ch" -> Setting("jobs-ch", <<"k">>, None)
       [] t = "ich" -> Setting("job-ich", <<"k">>, 0)
       [] t = "unknown" -> Setting("other", <<"k">>, 1)
       [] t = "bare" -> Setting("jobs-ch", <<>>, 1)]

\* A page without vacancies, pages that repeat one, pages in any order.
MCDocuments == {<<>>, <<"v1">>, <<"v2", "v1">>, <<"v1", "v1">>}

=============================================================================
