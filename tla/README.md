# TLA+ models of the Courier starter

These modules model two Windows Script Host (JScript) scripts:
- `src/test/StartCourier.js` is the starter that runs Courier instances, and other commands, inside daily time windows. The TLC configurations check the supervisor's safety and liveness, and that it refines the phase machine of the spec.
- `src/docs/release-notes/form-release-notes-html.js` builds `release-notes.html` from `release-notes.xml` by XSLT.

The other scripts under `src/test/` are small, one-shot I/O. They are listed in `PROJECT.json` as not modelled.

## 1. The system

### Parts and how they interact

| Part | Code | Role |
|---|---|---|
| Configuration | `openXml`, `initLogger`, `initSchedule`, `ScheduledCourier` (lines 60–250) | Reads `StartCourier.xml` once and builds `glLogger` and the array `glSchedule` of `ScheduledProc` objects. |
| Main loop | lines 159–169 | `while (true) { for each job: glSchedule[i].handleTimeSlice(); WScript.Sleep(period) }`. It is one thread, and jobs are served in array order. |
| Job supervisor | `ScheduledProc` (249–441) | Each job has a window (begin and end `hh:mm`), a command line, a stop command, a stop timeout, an error delay and a failure delay. `handleTimeSlice` starts the child when the window opens. It writes the stop command to the child's stdin when the window closes. It waits for the exit or the timeout, notices a child that died inside its window, and drains up to ten lines of the child's stderr. |
| Window | `createDate`, `timeBefore`, `beyondDay`, the `action` of `handleAction` | This is the test "should the child run now". A window whose end is not after its begin spans midnight. |
| Logger | `Logger` (500–610) | This is a leveled log. The file rotates between `logName` and `logName-2` after `maxLines` lines. Severe messages are also mailed (`sendMailEx`). |
| Release notes generator | `form-release-notes-html.js` (1–17) | Loads the XML and the XSL into two MSXML documents, transforms them, and writes the page over `release-notes.html`. This is a separate script; it shares nothing with the starter. |
| Children | external processes (`WScript.Shell.Exec`) | They run, obey or ignore the stop command, die, and write (or don't write) to stderr. |

The loop calls each job in turn. Each job changes only its own fields and its child. Jobs interact only through
the single loop thread: a job's slice that waits (the stderr read) delays every other job. Every part logs
through `glLogger`.

### State

- Per job:
  - `execObj`: a child handle, or null;
  - `stopping`;
  - the timestamps `stopTime`, `errorTime` and `processFailedTime`.
- The loop: the index `i` and the wall clock.
- The logger: `stream`, `fileSwitcher`, and the two files.

### Hard behaviours

- A child may exit at any moment, or hang past the stop timeout.
- A write to the stdin of a dead child throws.
- `Exec` may throw.
- The window may reopen before a pending stop is over.
- The stderr read waits on a silent child.
- Each of a job's three timestamps gates a branch through a wall-clock difference.
- Log rotation works at the `maxLines` boundary, and some messages span several lines.

### Correctness properties

The spec (`spec.md` §4–5, §8) promises the following:
- a stop command is sent once and a stop always ends;
- a hung child is force-terminated;
- a dead child is noticed, and the job is frozen for the failure delay;
- errors freeze a job without stopping the others;
- no job starves another;
- the log keeps the most recent lines and grows past `maxLines` lines per file by no more than one message. This is the repository's only reading of `max-file-lines`; the spec leaves rotation out of scope.

## 2. Modules

| Module | Models | State / actions |
|---|---|---|
| `CourierWindow` | the window test (`timeBefore`, `createDate`, `beyondDay`, `action`) | Pure operators over a clock of `HoursPerDay` × `MinutesPerHour` × `TicksPerMinute` instants. |
| `WindowCheck` | checks `CourierWindow!Action` against a reference | The variables are a window `w` and an instant `t`. The reference `InWindow` states the open arc from begin to end, taken modulo the day. |
| `ScheduledProc` | one job's `handleTimeSlice` | The job's fields are a record (`ProcState`). Timestamps are kept as ages (`now − t`), capped just past the bound they are compared with. `NotSet` stands for undefined or null. `HandleAction`, `StopOrFailureCheck` and `HandleTimeSlice` map a record to the *set* of records the call may leave. That set covers what the child does meanwhile: `Exec` failing, or the stop write to a dead child throwing. Two history fields, which the code does not have, record what the job did: `stopWrites` counts stop commands sent to the current child, and `lost` records which kinds of live child the job let go of. `ProcessFailedDelay` may be a model value standing for NaN; `FailureFrozen` is then false, as JavaScript's `<` is. |
| `StartCourier` | the main loop, the clock and the children | The variables are `now`, `i`, `draining`, `glSchedule`, `errReady` and `drained`. Each loop step is one action: `HandleJob` is a job's `handleTimeSlice` up to the stderr drain. `ReadErrLine` reads one stderr line; lines may be left, and the tenth line (`DrainLines`) ends the drain. `DrainStdErr` is the `break` on `AtEndOfStream`. `Sleep` goes to the next round. `SleepTick` and `BlockedTick` advance the clock; `BlockedTick` is the loop waiting in `AtEndOfStream` on a live child that has written nothing. The environment actions are `ProcessExits(j)` and `WritesStdErr(j)`. |
| `MCStartCourier` | schedules for TLC | `LongGapSchedule` is a short window followed by a long gap. `ShortGapSchedule` spans midnight and is closed for only two ticks. `TwoJobSchedule` has two jobs. |
| `JobPhases` | the phase machine of spec §4.2 | The variables are `phase[j]` and `open[j]`. `Succ(ph, isOpen)` gives the phases a job may move to in one step. It may start only while its window is open, be told to stop only once the window has closed, and go into FailureFreeze only from an exit inside the window. `TimeoutPhase` is where a stop timeout leads. |
| `ReleaseNotes` | `form-release-notes-html.js` | `pc` is the statement the script is at, and `status` says whether it is running, done, stopped on an exception, or killed. The other variables are the two documents, `html`, and the file `out`. There is one action per statement. `Kill` stops the script at any statement. `Rerun` starts the script again, up to `MaxRuns` runs, with new input validity; `out` survives between runs and `before` records it at the start of each run. |
| `Logger` | `Logger` | The variables are `stream`, `fileSwitcher`, `files`, `written` and `mailed`. A line is its sequence number. A message at debug or severe level may span up to `MaxMsgLines` lines (`MessageLines`): the `Exec string:` debug message and the Exec error logged by `handleTimeSlice` contain a line break. `LogMessage(sev)` is `logMessage` together with the `sendMail` paths. |

`StartCourier` also defines `Phase(p)`, which reads a job's phase off its fields in the order of `handleTimeSlice`'s early returns:
1. frozen on error: ErrorBackoff;
2. frozen on failure: FailureFreeze;
3. `stopping`: Stopping;
4. a handle held: Running;
5. otherwise: Idle.

`CodePhases` is `INSTANCE JobPhases WITH phase <- Phase(glSchedule[j]), open <- Action(Schedule[j], now)` for each job `j`. Its `Spec` is checked as the property `PhasesRefined`.

A call is a single step of `HandleJob`: the loop is single-threaded and nothing else touches a job's fields.
The drain is a separate step because it is the only place where the call can wait.

### Fairness

`FairSpec` is `WF_vars(Loop) /\ SF_vars(Tick)`:
- The loop never stops on its own, so it gets weak fairness.
- The clock always advances, so ticks get strong fairness. A tick is enabled only between rounds, or while the loop is blocked, so it is enabled only intermittently.
- The children get no fairness. A child may never exit, may ignore the stop command, and may stay silent on stderr.

## 3. Runs

All runs of `StartCourier` use a clock of 3 hours of 3 minutes with one tick per minute (9 instants), `StopTimeout = 1`,
`ErrorDelay = 2` and `ProcessFailedDelay = 2`. Each delay is short enough to expire inside the day and long enough
that a freeze covers more than one round.

| Run | Config | Expect | What it shows |
|---|---|---|---|
| `supervisor_two_jobs` | `MCStartCourier.cfg` | pass | Two jobs, and the stderr read never waits. No child that never got the stop command is abandoned (`OrphansWereStopped`). The stop is written at most once (`StopWrittenOnce`). Every stop ends (`StopResolved`). Every dead child is released (`DeadHandleReleased`). The windows have gaps longer than a stop can take. |
| (same run) | | | `PhasesRefined`: the detailed model implements `JobPhases` with `TimeoutPhase = "ErrorBackoff"`. With the spec's own `TimeoutPhase = "Idle"` the refinement fails at the stop timeout: this is finding A seen from the state machine, so no separate run states it. |
| `supervisor_silent_child` | `SilentChild.cfg` | pass | Two jobs whose children may stay silent, so the loop may wait in one job's drain while the clock runs and the other job's window opens and closes unseen. Every job still follows the phase machine (`PhasesRefined`), with 2,004,198 distinct states. In this run a long gap does not prevent finding B: a stopping child that stays silent holds the loop until its window reopens. That is finding C causing B, so no separate run states it. |
| `forced_stop_orphans` | `ForcedStopOrphans.cfg` | violation | `NoOrphanProcess`. See finding A. |
| `restart_while_stopping` | `RestartWhileStopping.cfg` | violation | `OrphansWereStopped` with a two-tick gap. See finding B. |
| `silent_child_starves_loop` | `SilentChildStarves.cfg` | violation | `EveryJobServed`. See finding C. |
| `unparsed_freeze_period` | `UnparsedFreezePeriod.cfg` | violation | `PhasesRefined` with `ProcessFailedDelay = NaN`, a model value that compares false with every number. See finding D. |
| `window_reference` | `WindowCheck.cfg` | pass | `Action` equals the reference for every window of a 3 h × 3 min clock, at every half minute. This covers boundaries, midnight-spanning windows, begin = end, and an end at 24:00. |
| `release_notes_runs` | `ReleaseNotes.cfg` | pass | Three runs, with the input files valid or not, and an exception or a kill possible at every statement. A run that stops before `CreateTextFile` leaves `release-notes.html` exactly as the previous run left it (`DamageOnlyInWriteWindow`). |
| `logger_rotation` | `Logger.cfg` | pass | For `maxLines = 3`, messages of up to two lines and up to 16 lines, the last `maxLines` lines are kept (`RecentLinesKept`). No file holds more than `maxLines + MaxMsgLines - 1` lines (`LogSizeBounded`): `writeLn` checks `stream.Line` only before a message, so a file with `maxLines - 1` lines takes a whole two-line message. This includes the extra line of a severe message whose mail fails. |

Every property of a passing run has a mutant in `PROJECT.json`. A mutant is a plausible bug in the code: a
missing flag, a lost release, a missing failure timestamp, an off-by-one, a file switch left out, or a file truncated too early.
TLC finds each mutant's property violated.

### Why the bounds are enough

- Two jobs are enough for the cross-job properties: `EveryJobServed` (finding C) needs one job holding the loop and one job waiting.
- The drain reads up to ten lines, as the code does (`DrainLines`).
- Nine instants give a window, a gap, and the time to run a stop timeout and a freeze.
- The gap between windows decides whether a stop can still be pending when the window reopens. `LongGapSchedule` and `ShortGapSchedule` cover both cases.
- For the window test, two ticks per minute put an instant strictly between the boundaries.
- For the logger, 16 lines are several rotations of a 3-line file. Two-line messages reach the file boundary at every offset.
- For the release notes, three runs are enough for one run to damage the page, a second to fail early and keep the damage, and a third to repair it.

## 4. Findings

- **A.** The timeout path of a stop does not kill the child (line 346). `stopped()` sets `execObj = null`. Then `this.execObj.Terminate()` throws on the null. The job goes into the error freeze, and the hung child keeps running, untracked. The log line and the spec both say the child "will be terminated".
- **B.** A job can start a child while it is still stopping one (line 391). `handleAction` compares the window with `isActive()`, which is false while stopping. If the window reopens before the stop ends, `Exec` overwrites the handle of the child being stopped. In the same slice, the stop timeout (which still sees the old `stopTime`) drops the new child, which never got the stop command.
- **C.** One silent child stalls the loop (line 364). `StdErr.AtEndOfStream` and `ReadLine` on a WSH `Exec` pipe wait for output. A child that writes nothing to stderr therefore holds the single loop, and no other job is served. This contradicts spec §5, which says process control is non-blocking and no job starves another.

- **D.** A failure freeze period that is not a number disables the freeze (line 153). `initSchedule` stores `parseInt(process-failure-freeze-period)` unchecked. For a value like `""` or `"min15"`, that is NaN (`parseInt("15min")` is 15). `curErrorDelay < NaN` is false, so the next slice clears `processFailedTime`, and a child that keeps dying is restarted on every round. The spec gives each job a failure freeze (§3, §4.2, §8), and says loose configuration values fall back to defaults (§9). In the model, the job goes from Running to Idle while its window is open, which the phase machine forbids.

## 5. Not modelled, and the plan

Not modelled:
- Configuration parsing (XML, `parseInt`, command-line assembly). It runs once, and its results become the model's constants. The one parse result that can change the supervisor's control flow is a NaN failure freeze period, and that is modelled as the constant NaN (finding D). Out-of-range hours and minutes (for example `18:70`) are accepted by the constructor but are not modelled: spec §3 requires them in range.
- The mail transport (CDO).
- Console echo and message text.
- The other scripts (`courier.js`, `UpdateDistr.js`, `TestMail.js`). They are sequential one-shot I/O.
- The XSLT itself. A page is one of a few values: the notes, the page with no notes, or some other page.

The release-notes generator replaces its output in place. `CreateTextFile` truncates the file before `Write`, so a `Write` that fails leaves an empty or partial page. Nothing in the repository promises an atomic replacement, so this is listed as a hazard rather than a finding.

The hazards that no property covers are listed with a note in `PROJECT.json`. These are the parts that are left out, and why:
1. **Liveness of the phase machine.** The property would be that a job whose window stays open runs again. It holds only if `Exec` does not fail for ever. The code retries every `errorDelay` and bounds nothing, so no fairness on `Exec` is justified.
2. **A restart of the starter.** The Logger constructor truncates `logName` (line 536), which may hold the report of the crash that caused the restart. Spec §6 treats the log as fire-and-forget, and nothing in the repository promises that log lines survive a restart. A property would state a promise the code never made.
3. **A system clock set back.** If the system clock is set back, the `getTime()` ages become negative and freezes and timeouts stretch. Spec §5 takes the clock as monotone. The end of daylight saving time does not reopen a window: `createDate` fixes each day's window bounds as `getTime()` instants, and `getTime()` never goes back.
4. **Logger configuration edges.** These are an unknown severity name (line 531) and a `max-file-lines` that is not a number (line 547). The first leaves `severity` undefined. The second makes `stream.Line > NaN` false, so the file never rotates. Both happen once, at start-up, on configuration text. No property in the repository would be violated beyond the unbounded file that the `logger_rotation` bound already excludes.
5. **A logger exception escaping `handleTimeSlice`'s catch (line 306).** This ends the loop, and spec §4.1 says the process then terminates. Every child is left running. The composition would add nothing beyond "the loop stops", which needs a model of the mail and file I/O failing.
