----------------------------- MODULE JobPhases -----------------------------
(***************************************************************************)
(* What a job supervisor promises, as the state machine of its phases:     *)
(* Idle, Running, Stopping, ErrorBackoff, FailureFreeze.  A job moves only *)
(* along the edges below, and the window decides which: it starts only     *)
(* while its window is open, is told to stop only once it has closed, and  *)
(* has failed (rather than stopped) only if it exits while the window is  *)
(* open.  One advance may take two edges at once (stop sent and the exit  *)
(* seen in the same call), and the clock may end several freezes at once. *)
(*                                                                         *)
(* TimeoutPhase is the phase a stop that times out leads to.               *)
(***************************************************************************)

CONSTANTS
    Jobs,           \* the jobs of the schedule
    TimeoutPhase    \* the phase after a stop times out

VARIABLES
    phase,          \* phase[j]: the phase of job j
    open            \* open[j]: the window of job j is open now

Phases == {"Idle", "Running", "Stopping", "ErrorBackoff", "FailureFreeze"}

Init ==
    /\ phase = [j \in Jobs |-> "Idle"]
    /\ open \in [Jobs -> BOOLEAN]

\* The phases job j may go to in one step, from phase ph with the window
\* open or closed at the start of the step.
Succ(ph, isOpen) ==
    CASE ph = "Idle" ->
           IF isOpen THEN {"Running", "ErrorBackoff"} ELSE {}
      [] ph = "Running" ->
           IF isOpen THEN {"FailureFreeze"}
           ELSE {"Stopping", "Idle", "ErrorBackoff"}
      [] ph = "Stopping" -> {"Idle", TimeoutPhase}
      [] ph = "ErrorBackoff" -> {"Idle", "Running", "Stopping"}
      [] ph = "FailureFreeze" -> {"Idle"}

Next ==
    /\ open' \in [Jobs -> BOOLEAN]
    /\ phase' \in [Jobs -> Phases]
    /\ \A j \in Jobs :
          phase'[j] = phase[j] \/ phase'[j] \in Succ(phase[j], open[j])

Spec == Init /\ [][Next]_<<phase, open>>
=============================================================================
