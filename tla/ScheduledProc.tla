--------------------------- MODULE ScheduledProc ---------------------------
(***************************************************************************)
(* One supervised job: the ScheduledProc object of src/test/StartCourier.js *)
(* and its handleTimeSlice, called once per loop round.  The object's      *)
(* fields are a record; handleTimeSlice is an operator from that record    *)
(* and the window test of this instant to the set of records it may leave  *)
(* behind (the set covers what the external process does meanwhile:        *)
(* whether Exec succeeds, whether a write to a dead process's stdin fails). *)
(*                                                                         *)
(* Timestamps (stopTime, errorTime, processFailedTime) are kept as their   *)
(* age, now - timestamp, capped just past the only bound they are compared *)
(* with, so the record stays finite while the clock runs forever.          *)
(*                                                                         *)
(* The external process behind this.execObj is folded into the handle:    *)
(* Null (execObj == null), Running (execObj.Status == 0), or Exited.       *)
(* `stopWrites' and `lost' are history fields that the code does not keep: *)
(* how many stop commands the current process got, and which kinds of live *)
(* process the job ever let go of without terminating it.                  *)
(***************************************************************************)
EXTENDS Naturals, CourierWindow

CONSTANTS
    StopTimeout,         \* this.stopTimeout, in ticks
    ErrorDelay,          \* this.errorDelay, in ticks
    ProcessFailedDelay,  \* this.processFailedDelay, in ticks, or a model
                         \* value for NaN (parseInt of a non-number)
    NotSet               \* a model value: a timestamp that is undefined/null

Null == "null"
Running == "running"
Exited == "exited"

\* The kinds of live process a job can let go of: one it had asked to stop,
\* or one that never got the stop command.
LostKinds == {"afterStop", "noStop"}

\* initSchedule sets processFailedDelay = parseInt(attribute) with no check;
\* a comparison with the NaN it gives is false.
FailedDelayIsNumber == ProcessFailedDelay \in Nat

\* The largest age the failure timestamp needs to keep apart.
FailedAgeCap == IF FailedDelayIsNumber THEN ProcessFailedDelay ELSE 0

ProcState ==
    [execObj : {Null, Running, Exited},
     stopping : BOOLEAN,
     stopAge : {NotSet} \cup 0 .. StopTimeout + 1,
     errorAge : {NotSet} \cup 0 .. ErrorDelay,
     processFailedAge : {NotSet} \cup 0 .. FailedAgeCap,
     stopWrites : 0 .. 2,
     lost : SUBSET LostKinds]

\* The constructor: no process, not stopping, no timestamps.
InitProc ==
    [execObj |-> Null, stopping |-> FALSE, stopAge |-> NotSet,
     errorAge |-> NotSet, processFailedAge |-> NotSet,
     stopWrites |-> 0, lost |-> {}]

\* One clock tick: every timestamp gets older, up to the cap.
Older(age, cap) == IF age = NotSet \/ age = cap THEN age ELSE age + 1

AgeProc(p) ==
    [p EXCEPT !.stopAge = Older(@, StopTimeout + 1),
              !.errorAge = Older(@, ErrorDelay),
              !.processFailedAge = Older(@, FailedAgeCap)]

\* isActive()
IsActive(p) == p.execObj # Null /\ ~p.stopping

\* What the job lets go of when it overwrites or clears a live handle.
Dropped(p) ==
    IF p.execObj = Running
    THEN {IF p.stopWrites > 0 THEN "afterStop" ELSE "noStop"}
    ELSE {}

\* Mutant of Stopped: the stopping flag is not reset.
StoppedKeepsStopping(p) ==
    [p EXCEPT !.stopAge = NotSet, !.execObj = Null, !.lost = @ \cup Dropped(p)]

\* stopped()
Stopped(p) ==
    [p EXCEPT !.stopping = FALSE, !.stopAge = NotSet, !.execObj = Null,
              !.lost = @ \cup Dropped(p)]

\* Outcomes of a stage of unsafeHandleTimeSlice: the object's new fields and
\* whether an exception left the stage.
Ok(p) == [st |-> p, fault |-> FALSE]
Fault(p) == [st |-> p, fault |-> TRUE]

\* this.execObj = glShell.Exec(this.execStr); on an exception execObj = null
\* and a new Error is thrown.  Either way the old handle is overwritten.
Exec(p) ==
    {Ok([p EXCEPT !.execObj = Running, !.stopWrites = 0,
                  !.lost = @ \cup Dropped(p)]),
     Fault([p EXCEPT !.execObj = Null, !.lost = @ \cup Dropped(p)])}

\* Mutant of WriteStop: the stop command is written but stopping not set.
WriteStopNoFlag(p) ==
    LET sent == [p EXCEPT !.stopWrites = @ + 1, !.stopAge = 0]
    IN  IF p.execObj = Exited THEN {Fault(p), Ok(sent)} ELSE {Ok(sent)}

\* this.execObj.StdIn.Write(this.stopStr + "\n"); stopping = true;
\* stopTime = now.  Writing to a process that has exited may throw.
WriteStop(p) ==
    LET sent == [p EXCEPT !.stopWrites = IF @ < 2 THEN @ + 1 ELSE 2,
                          !.stopping = TRUE, !.stopAge = 0]
    IN  IF p.execObj = Exited THEN {Fault(p), Ok(sent)} ELSE {Ok(sent)}

\* handleAction(): start the process when the window opens, send the stop
\* command when it closes, judged against isActive().
HandleAction(p, action) ==
    IF action = IsActive(p) THEN {Ok(p)}
    ELSE IF action THEN Exec(p)
    ELSE IF p.stopping THEN {Ok(p)}
    ELSE WriteStop(p)

\* curTime - this.stopTime > this.stopTimeout; after stopped() stopTime is
\* null and curTime - null is curTime, far past any timeout.
StopTimedOut(p) == p.stopAge = NotSet \/ p.stopAge > StopTimeout

\* Mutant of StopOrFailureCheck: on timeout only Terminate() is tried (and
\* throws), stopped() is never called.
StopCheckNoRelease(p) ==
    CASE p.stopping /\ p.execObj = Null -> {Ok(p)}
      [] p.stopping /\ p.execObj = Exited -> {Ok(Stopped(p))}
      [] p.stopping /\ StopTimedOut(p) -> {Fault(p)}
      [] p.stopping -> {Ok(p)}
      [] IsActive(p) /\ p.execObj = Exited ->
            {Ok([Stopped(p) EXCEPT !.processFailedAge = 0])}
      [] OTHER -> {Ok(p)}

\* Mutant of StopOrFailureCheck: a dead process is never noticed while active.
StopCheckNoFailureDetect(p) ==
    CASE p.stopping /\ p.execObj = Null -> {Ok(p)}
      [] p.stopping /\ p.execObj = Exited -> {Ok(Stopped(p))}
      [] p.stopping /\ StopTimedOut(p) -> {Fault(Stopped(p))}
      [] OTHER -> {Ok(p)}

\* Mutant of StopOrFailureCheck: a dead process is released without
\* setting processFailedTime.
StopCheckNoFailureFreeze(p) ==
    CASE p.stopping /\ p.execObj = Null -> {Ok(p)}
      [] p.stopping /\ p.execObj = Exited -> {Ok(Stopped(p))}
      [] p.stopping /\ StopTimedOut(p) -> {Fault(Stopped(p))}
      [] p.stopping -> {Ok(p)}
      [] IsActive(p) /\ p.execObj = Exited -> {Ok(Stopped(p))}
      [] OTHER -> {Ok(p)}

\* The rest of unsafeHandleTimeSlice after handleAction: finish a stop
\* (exit seen, or timeout), or notice that an active process has died.
\* On timeout the code calls this.stopped() and then
\* this.execObj.Terminate() on the null it just stored, which throws.
StopOrFailureCheck(p) ==
    CASE p.stopping /\ p.execObj = Null -> {Ok(p)}
      [] p.stopping /\ p.execObj = Exited -> {Ok(Stopped(p))}
      [] p.stopping /\ StopTimedOut(p) -> {Fault(Stopped(p))}
      [] p.stopping -> {Ok(p)}
      [] IsActive(p) /\ p.execObj = Exited ->
            {Ok([Stopped(p) EXCEPT !.processFailedAge = 0])}
      [] OTHER -> {Ok(p)}

\* unsafeHandleTimeSlice(), up to the stderr drain.
UnsafeHandleTimeSlice(p, action) ==
    UNION {IF r.fault THEN {r} ELSE StopOrFailureCheck(r.st) :
             r \in HandleAction(p, action)}

\* The early returns of handleTimeSlice.
ErrorFrozen(p) == p.errorAge # NotSet /\ p.errorAge < ErrorDelay
FailureFrozen(p) ==
    /\ p.processFailedAge # NotSet
    /\ FailedDelayIsNumber /\ p.processFailedAge < ProcessFailedDelay

\* handleTimeSlice(): the outcomes are the new fields and whether the call
\* goes on to drain the process's stderr (it does when it ends without an
\* exception holding a handle).  A caught exception sets errorTime = now.
HandleTimeSlice(p, action) ==
    LET p1 == [p EXCEPT !.errorAge = NotSet]
        p2 == [p1 EXCEPT !.processFailedAge = NotSet]
    IN  CASE ErrorFrozen(p) -> {[st |-> p, drain |-> FALSE]}
          [] FailureFrozen(p1) -> {[st |-> p1, drain |-> FALSE]}
          [] OTHER ->
               {IF r.fault
                THEN [st |-> [r.st EXCEPT !.errorAge = 0], drain |-> FALSE]
                ELSE [st |-> r.st, drain |-> r.st.execObj # Null] :
                  r \in UnsafeHandleTimeSlice(p2, action)}
=============================================================================
