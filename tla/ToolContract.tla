---------------------------- MODULE ToolContract ----------------------------
(***************************************************************************)
(* What the delegator relies on when it awaits a tool's execute() with an  *)
(* onTargetFinish callback (backend/src/aop/delegator/index.ts): a target  *)
(* is announced at most once, never after the tool has resolved, and the   *)
(* tool resolves only when no target can announce anything any more.  A    *)
(* target may be lost: its run rejects and nobody announces it.            *)
(***************************************************************************)
CONSTANT Targets

VARIABLES
  fate,   \* target -> "pending", "reported" or "lost"
  done    \* execute() has resolved

cvars == <<fate, done>>

Init == fate = [t \in Targets |-> "pending"] /\ done = FALSE

\* Some pending targets are settled in one synchronous step.
Settle ==
  /\ ~done
  /\ \E S \in (SUBSET Targets) \ {{}} :
       \E how \in [S -> {"reported", "lost"}] :
         /\ \A t \in S : fate[t] = "pending"
         /\ fate' = [t \in Targets |-> IF t \in S THEN how[t] ELSE fate[t]]
  /\ UNCHANGED done

Resolve ==
  /\ ~done /\ \A t \in Targets : fate[t] # "pending"
  /\ done' = TRUE
  /\ UNCHANGED fate

Spec == Init /\ [][Settle \/ Resolve]_cvars

=============================================================================
