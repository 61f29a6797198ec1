--------------------------- MODULE ShutdownContract ---------------------------
(***************************************************************************)
(* What a process that shuts down gracefully promises: it takes work only  *)
(* between its start and its stop, a stop that has begun ends, and exit    *)
(* code 0 says that the process had started and finished all its work.     *)
(***************************************************************************)
EXTENDS Naturals

CONSTANT None
VARIABLES phase, work, exitCode

Failure == 1
Killed == 2    \* stands for the death by a signal

contractVars == <<phase, work, exitCode>>

Init == phase = "starting" /\ work = 0 /\ exitCode = None

Serve == phase = "starting" /\ phase' = "serving" /\ UNCHANGED <<work, exitCode>>

Take == phase = "serving" /\ work' = work + 1 /\ UNCHANGED <<phase, exitCode>>

Finish ==
  /\ phase \in {"serving", "stopping"} /\ work > 0
  /\ work' = work - 1
  /\ UNCHANGED <<phase, exitCode>>

\* From a failed start, or from a signal or a fatal error.
Stop(failed) ==
  /\ phase = IF failed THEN "starting" ELSE "serving"
  /\ phase' = IF failed THEN "failing" ELSE "stopping"
  /\ UNCHANGED <<work, exitCode>>

Exit(code) ==
  /\ phase # "exited" /\ phase' = "exited"
  /\ code = 0 => phase = "stopping" /\ work = 0
  /\ exitCode' = code
  /\ work' = 0

Next ==
  \/ Serve \/ Take \/ Finish
  \/ \E failed \in BOOLEAN : Stop(failed)
  \/ \E code \in {0, Failure, Killed} : Exit(code)

\* What it never does.
Safety == Init /\ [][Next]_contractVars

\* The exit of a process that stops is not put off for ever.
Spec ==
  /\ Safety
  /\ (phase \in {"stopping", "failing"}) ~> (phase = "exited")

=============================================================================
