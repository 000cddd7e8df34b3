---------------------------- MODULE StartCourier ----------------------------
(***************************************************************************)
(* The starter script src/test/StartCourier.js: the main loop that calls   *)
(* handleTimeSlice on every ScheduledProc of glSchedule in array order and *)
(* then sleeps, composed with the wall clock and with the external         *)
(* processes the jobs start.                                               *)
(*                                                                         *)
(* A loop round is modelled step by step: one step per job, then, for a   *)
(* job whose process is still held, one step per stderr line the loop      *)
(* reads (StdErr.AtEndOfStream/ReadLine, up to ten) and one for the end of *)
(* the drain.  On a WSH Exec pipe AtEndOfStream waits until the child      *)
(* writes or exits; StdErrBlocks says whether the model lets it wait       *)
(* (TRUE) or makes it answer "end" at once when no line is ready (FALSE).  *)
(*                                                                         *)
(* The clock moves one tick at a time, between rounds (the loop sleeps     *)
(* glMainLoopSleepPeriod, far less than a tick) or while the loop waits on *)
(* a child's stderr.                                                       *)
(***************************************************************************)
EXTENDS Naturals, Sequences, ScheduledProc

CONSTANTS
    Schedule,       \* the windows of glSchedule, in array order
    StdErrBlocks    \* whether reading a silent child's stderr waits

Jobs == 1 .. Len(Schedule)

VARIABLES
    now,            \* the time of day, in ticks
    i,              \* the main loop's index into glSchedule; Len + 1: asleep
    draining,       \* job i is in the stderr loop of unsafeHandleTimeSlice
    glSchedule,     \* the ScheduledProc objects
    errReady,       \* the child of a job has written stderr lines to read
    drained         \* lines the current drain has read

vars == <<now, i, draining, glSchedule, errReady, drained>>

\* for (var i = 0; i < 10; i++) in the drain of unsafeHandleTimeSlice.
DrainLines == 10

TypeOK ==
    /\ now \in TimeOfDay
    /\ i \in 1 .. Len(Schedule) + 1
    /\ draining \in BOOLEAN
    /\ glSchedule \in [Jobs -> ProcState]
    /\ errReady \in [Jobs -> BOOLEAN]
    /\ drained \in 0 .. DrainLines - 1

\* for (var i = 0; ...): each round starts at the first entry of glSchedule.
FirstJob == 1

\* The script starts at any time of day with every job idle.
Init ==
    /\ now \in TimeOfDay
    /\ i = FirstJob
    /\ draining = FALSE
    /\ glSchedule = [j \in Jobs |-> InitProc]
    /\ errReady = [j \in Jobs |-> FALSE]
    /\ drained = 0

\* glSchedule[i].handleTimeSlice(), up to the stderr drain.
HandleJob ==
    /\ i \in Jobs
    /\ ~draining
    /\ \E r \in HandleTimeSlice(glSchedule[i], Action(Schedule[i], now)) :
          /\ glSchedule' = [glSchedule EXCEPT ![i] = r.st]
          /\ draining' = r.drain
          /\ i' = IF r.drain THEN i ELSE i + 1
    /\ UNCHANGED <<now, errReady, drained>>

\* The drain of job i is over: on to the next job.
EndDrain == draining' = FALSE /\ i' = i + 1 /\ drained' = 0

\* AtEndOfStream is false and WScript.Echo(StdErr.ReadLine()) reads a line;
\* more may be left.  The tenth line ends the loop.
ReadErrLine ==
    /\ i \in Jobs
    /\ draining
    /\ errReady[i]
    /\ errReady' \in {[errReady EXCEPT ![i] = more] : more \in BOOLEAN}
    /\ IF drained + 1 = DrainLines
       THEN EndDrain
       ELSE drained' = drained + 1 /\ UNCHANGED <<i, draining>>
    /\ UNCHANGED <<now, glSchedule>>

\* if (StdErr.AtEndOfStream) break: no line is ready and the child has
\* exited, or the read does not wait.
DrainStdErr ==
    /\ i \in Jobs
    /\ draining
    /\ ~errReady[i]
    /\ ~StdErrBlocks \/ glSchedule[i].execObj # Running
    /\ EndDrain
    /\ UNCHANGED <<now, glSchedule, errReady>>

\* The wall clock advances one tick: every timestamp ages.
AdvanceClock ==
    /\ now' = (now + 1) % Day
    /\ glSchedule' = [j \in Jobs |-> AgeProc(glSchedule[j])]
    /\ UNCHANGED drained

\* WScript.Sleep(glMainLoopSleepPeriod), then the next round; the sleep is
\* far shorter than a tick, so a tick passes during at most one sleep.
Sleep ==
    /\ i = Len(Schedule) + 1
    /\ i' = FirstJob
    /\ UNCHANGED <<now, draining, glSchedule, errReady, drained>>

SleepTick ==
    /\ i = Len(Schedule) + 1
    /\ i' = FirstJob
    /\ AdvanceClock
    /\ UNCHANGED <<draining, errReady>>

\* The loop waits in AtEndOfStream on the silent, live child of job i while
\* time passes.
LoopBlocked ==
    /\ i \in Jobs /\ draining /\ ~errReady[i]
    /\ StdErrBlocks /\ glSchedule[i].execObj = Running

BlockedTick ==
    /\ LoopBlocked
    /\ AdvanceClock
    /\ UNCHANGED <<i, draining, errReady>>

\* The child of job j exits on its own (crash, or obeying the stop command).
ProcessExits(j) ==
    /\ glSchedule[j].execObj = Running
    /\ glSchedule' = [glSchedule EXCEPT ![j].execObj = Exited]
    /\ UNCHANGED <<now, i, draining, errReady, drained>>

\* The child of job j writes lines to its stderr.
WritesStdErr(j) ==
    /\ glSchedule[j].execObj = Running
    /\ ~errReady[j]
    /\ errReady' = [errReady EXCEPT ![j] = TRUE]
    /\ UNCHANGED <<now, i, draining, glSchedule, drained>>

Loop == HandleJob \/ ReadErrLine \/ DrainStdErr \/ Sleep

Tick == SleepTick \/ BlockedTick

Next ==
    \/ Loop
    \/ Tick
    \/ \E j \in Jobs : ProcessExits(j) \/ WritesStdErr(j)

Spec == Init /\ [][Next]_vars

\* The loop never stops on its own and time always passes; the children
\* owe nothing: they may hang or stay silent forever.
FairSpec == Spec /\ WF_vars(Loop) /\ SF_vars(Tick)

-----------------------------------------------------------------------------
(* Refinement: the phase of a job (spec 4.2) read off its fields.  The      *)
(* early returns of handleTimeSlice come first, as in the code.             *)

Phase(p) ==
    CASE ErrorFrozen(p) -> "ErrorBackoff"
      [] FailureFrozen(p) -> "FailureFreeze"
      [] p.stopping -> "Stopping"
      [] p.execObj # Null -> "Running"
      [] OTHER -> "Idle"

\* The phase machine with the edge the code takes on a stop timeout: the
\* Terminate() call on null throws, so the job goes into ErrorBackoff.
CodePhases ==
    INSTANCE JobPhases
        WITH phase <- [j \in Jobs |-> Phase(glSchedule[j])],
             open <- [j \in Jobs |-> Action(Schedule[j], now)],
             TimeoutPhase <- "ErrorBackoff"

-----------------------------------------------------------------------------
(* Properties *)

\* Every job moves only along the edges of the phase machine, as the window
\* dictates: it starts only while its window is open, is stopped only once
\* it has closed, is frozen for failure only when its child died inside the
\* window, and leaves a freeze only when the delay has passed.
PhasesRefined == CodePhases!Spec

\* Every live process the job lets go of (by overwriting or clearing
\* this.execObj while the child still runs) had been sent the stop command:
\* no child is ever abandoned that was never asked to stop.  Exec overwrites
\* the handle whenever handleAction sees the window open and !isActive(),
\* which is also the case while the job is stopping.
OrphansWereStopped == \A j \in Jobs : "noStop" \notin glSchedule[j].lost

\* The forced stop of StopTimeout really ends the child: the job never lets
\* go of a live process at all (the timeout branch calls stopped() and then
\* execObj.Terminate()).
NoOrphanProcess == \A j \in Jobs : glSchedule[j].lost = {}

\* The stop command is written at most once to each process: later time
\* slices of a closed window do not resend "stop" (handleAction's
\* !this.stopping, set right after StdIn.Write).
StopWrittenOnce == \A j \in Jobs : glSchedule[j].stopWrites <= 1

\* A stop request always ends: the job leaves the stopping state, by seeing
\* the exit or by the StopTimeout branch.
StopResolved ==
    \A j \in Jobs : glSchedule[j].stopping ~> ~glSchedule[j].stopping

\* A child that has exited is eventually noticed and its handle released,
\* whether it died inside the window (failure freeze) or outside it.
DeadHandleReleased ==
    \A j \in Jobs :
        glSchedule[j].execObj = Exited ~> glSchedule[j].execObj # Exited

\* The loop keeps serving every job: each job's time slice is taken again and
\* again, so no job's child can hold up another job (the main loop calls
\* handleTimeSlice for every glSchedule entry in each round).
EveryJobServed == \A j \in Jobs : []<>(i = j /\ ~draining)
=============================================================================
