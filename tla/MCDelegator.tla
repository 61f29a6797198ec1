----------------------------- MODULE MCDelegator -----------------------------
(***************************************************************************)
(* Small instances of Delegator for TLC.                                   *)
(***************************************************************************)
EXTENDS Delegator

\* On demand with one tool, once and recurring with two.
MCDelegations ==
  {[scheduleType |-> None, tools |-> 1],
   [scheduleType |-> "once", tools |-> 2],
   [scheduleType |-> "daily", tools |-> 2]}

=============================================================================
