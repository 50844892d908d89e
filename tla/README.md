# relayScheduler in TLA+

relayScheduler runs tasks on a schedule: it keeps their definitions in
`tasks.json`, checks every 30 seconds which are due, runs each as a chat session
or a terminal through relay, and tells WebSocket clients what happens. Beside it,
`cmd/devboxverify` grades an installed scheduler before a pull request is merged.
This directory holds a specification of both: TLA+ modules, the TLC
configurations that check them on small instances, and TLAPS proofs of results
that hold for every instance.

## 1. The system

| Component | State | Operations | Talks to |
|---|---|---|---|
| Scheduling core, `scheduler.go` | `tasks` (entries with a next run) and `running`, under `Scheduler.mu`; a goroutine per run | tick, `ScheduleTask`, `UnscheduleTask`, `UnscheduleByProject`, `RunTaskNow`, `LoadAllTasks`, end of a run, `Stop` | store, relay client, history, hub |
| Task store, `store.go` | `tasks.json`, under `TaskStore.mu`; every operation reads it, most rewrite it whole | `Create`, `Update`, `Delete`, `DeleteByProject`, `SetLastRun`, `SetLastSessionID`, `SetLastTerminalID`, `SetEnabled` | the file system |
| HTTP API, `api.go` | none; a goroutine per request | validate, then store and scheduler, one after the other | store, scheduler, history |
| Run lifecycle, `scheduler.go` | locals of `executeTask` and `runPtyTask` | remove the previous run, mark, create, save the id, announce, wait, stop, log, record, announce, re-arm | everything |
| Relay client transport, `client.go` | one WebSocket per wait; its deadline | join, send, read frames until the run's end; HTTP calls for the rest | relay |
| Schedule calculation, `schedule.go` | none | next run of a daily, hourly, weekly, interval, cron or once schedule; validation | the clock |
| Run history, `logstore.go` | a file per project and task, newest first, 100 records, no lock | `Log`, `Load` | the file system |
| Event hub, `hub.go`, `wshandler.go` | `clients`, under `Hub.mu`, which is held while frames are written | `Register`, `SendStatus`, `Broadcast`, `Unregister` | store, WebSocket clients |
| Output file, `output.go` | none | read one file of a terminal run, if the run wrote it | the file system |
| Start-up and shutdown, `main.go`, `launch.go`, `bridge.go`, `manifest.go` | identity, socket file | Hello, load, listen, register routes, shut down | relay's bridge |
| Logging, `logging.go`; authentication, `auth.go` | log level with a 30-minute debug window; none | | |
| devboxverify, `cmd/devboxverify` | the WORLD lock, which `devlock` leases; a routine and its terminal on the machine; a comment and a status on the pull request | check the build, lock, check again, create, run, poll, clean up, post, release | devlock, relay, the scheduler, GitHub |

What is hard about it:

- **Two locks, never together.** Only the tick holds `Scheduler.mu` while it
  writes the file. Every handler, and the end of every run, visits the store and
  the schedule one after the other, and anything may come in between: another
  handler, the tick, a run.
- **A chain that must not break.** A due task leaves the schedule when it is
  fired. It is back only if its run, minutes and many failure paths later, puts
  it there.
- **Crashes.** The status `running`, the enabled flag of a once task, the id of a
  session and the record of a run are written at different moments, each in three
  system calls. The process may die between any two of them.
- **An external world that outlives the process.** Sessions and terminals live
  in relay. Clean-up is best effort and replies can get lost.
- **One stream for all.** A wait for the end of a run reads a WebSocket on which
  relay may send frames of other sessions, break off, or say nothing.
- **Two orders of delivery.** The file and the event stream tell the same story
  under different locks.
- **The clock.** Next runs are computed on a wall clock that may jump by an
  hour; the machine sleeps; the scheduler restarts.
- **A judge among moving parts.** devboxverify looks at the build before and
  after it queues for a lock whose other holders install builds, and everything
  it starts has to be undone on every way out, within its lease.

What makes each part correct is stated as properties below; the hazards behind
them, with the line at which each bites, are listed in `PROJECT.json`.

## 2. Modules

| Module | Models | Extends |
|---|---|---|
| `RunStatus` | abstract: what a client that polls `lastStatus` may see | |
| `AtomicStore` | abstract: what a caller of `TaskStore` may rely on | |
| `Scheduler` | tick, requests, end of a run, start-up, shutdown, crash | |
| `TaskRun` | the runs of one task, call by call, against relay | |
| `Waits` | the wait for a run's end, frame by frame | |
| `Files` | `tasks.json` and the histories, system call by system call | |
| `Hub` | what WebSocket clients are told | |
| `Recurrence` | when one recurring task runs, in a zone with a clock change | |
| `Verify` | one run of devboxverify | |
| `SchedulerProofs`, `TaskRunProofs`, `WaitsProofs`, `FilesProofs`, `HubProofs`, `RecurrenceProofs`, `VerifyProofs` | theorems about the module each is named after | that module, `TLAPS` |
| `ScheduleProofs` | theorems about what becomes of entries of the schedule | `SchedulerProofs` |
| `MC...` | constants for TLC | the module each is named after |

How they fit together. `Scheduler` is the core. Its step `RunBody` is most of
`TaskRun`, whose step `WaitEnds` is `Waits`; the phases "early", "due" and
"missed" of its entries are what `Recurrence` computes; each of its file accesses
is a call of `AtomicStore`, which `Files` shows the store to implement. `Scheduler`
and `TaskRun` both implement `RunStatus`, one for all tasks, one for a single task
in more detail. `TaskRun`, `Files` and `Hub` take from `Scheduler` that runs of a
task do not overlap (`NoOverlap`, proved).

A definition named `Bug...` is no part of a model. It is a plausible slip in a
definition that follows it; with it in place TLC finds the property violated that
`PROJECT.json` names beside it.

### Scheduler

| Model | Code |
|---|---|
| `store` | `tasks.json`: per task the definition and `lastStatus` |
| `schedule`, `running` | `Scheduler.tasks`, `Scheduler.running` |
| `runs` | `executeTask` goroutines, with the next thing each does to shared state |
| `requests` | handlers between their first and their second critical section |
| `instant`, `schedule[t].phase` | the clock, as far as the tick looks at it |
| `proc` | before start-up, serving, after `Stop` |

One action is one critical section. `CheckAndFireTasks` is the whole tick.
`Create`, `Update`, `Unschedule`, `UnscheduleByProject` and `ReadForRun` are the
first halves of the five requests; `ScheduleTask`, `Delete`, `DeleteByProject`
and `Claim` the second. A run goes through `MarkRunning`, `RunBody`,
`RecordOutcome`, `Reread`, then `DisableOnce` and `DropOnce`, or `Rearm`, or
neither, and `Release`. `LoadAllTasks`, `Stop` and `Exit` are the process.

Faults are constants: `io` lets any file access fail, `crash` lets the process
die at any point, `stop` lets it be told to stop. `Carried` is what clients send as
`lastStatus` with a POST or PUT: the store keeps its own only where the body has none
(`store.go:147`). `unsure` remembers the tasks whose status in the file is a client's,
or could not be written, since the scheduler last wrote it.

Properties: `NoOverlap` (one live run per task, and the claims are those of the
live runs), `StatusTracksRun` and `ImplementsRunStatus` (the file tells the
truth, and a client's status or a failed write breaks that up to the next write
only), `NothingLost` (an enabled task that nothing holds is scheduled),
`OnceFiresOnce`, `OnceSettles`, `RunsEnd`, `KeepsFiring`, `DeletedGoesQuiet`,
`DisabledNeverFires`.

### TaskRun

One action is one call that `executeTask`, `runPtyTask` or `failRun` makes, in
their order: `RemovePrevious`, `MarkRunning`, `FailToCreate` or `Create`,
`SaveId`, `AnnounceStart`, `WaitEnds`, `Reap`, `Log`, `RecordOutcome`,
`AnnounceEnd`. `sessions`, `terminals` and `working` are relay's state, which a
crash of the scheduler leaves alone. Clients change the type or the project of the
task, send a status and ids of their own (`Bodies`), or delete it, between any two
calls. Faults: `crash`; `io`, any access to `tasks.json` or the history fails, which
the code logs and goes on; `lostReply`, a create that relay did and the scheduler
believes failed; `cleanupFails`, a delete or stop without effect; `evict`, relay
loses a session or terminal. `mishaps` remembers which have occurred and `amiss` which
of status, id and record on file is not the last run's, so that each property claims
what the code can promise then. `AccountsAgree` compares history, status and events of
a run pair by pair: of these only the one whose write failed, or that a client has
overwritten, is left out. `ImplementsRunStatus` holds throughout, with such a status
`unsure`. `OneLiveRun` (what relay holds) is claimed as long as nothing has come
between an id and its place in the file, `LastRunStaysOpen` and `TimeoutStopsWork`
except under the mishaps their comments name.

### Waits

`RunChatAndWait` is `Dial`, a `Write` of the join, one of the prompt, and reads;
`AttachTerminalAndWait` has no prompt. `left` is what remains of the deadline,
which is set once, after the last write. Relay is the environment: `up` is what it
has not read yet, `down` what it has sent; it streams the turn to connections that
have joined, sends frames of other sessions and terminals without end (`Chatter`),
refuses, dies, or drops the connection with a part of its frames. A frame names this
session (`own`), another (`other`), or no session: then it is an answer to this run
(`none`) or of someone else's (`stray`), and the wait sees no difference.

Properties: `ReplyIsWhole`, `ExitIsReal`, `FailureIsOwn` and, for liveness,
`Returns`. `misled` says whose frame has ended a wait it was not meant for, which the
code cannot always tell (§5): a stray error is the one way in which a chat run fails by
what is not its own, and no frame that names another session is.

### Files and AtomicStore

`AtomicStore` is the promise: one list of tasks; every call takes effect at one
instant between its begin and its end, or reports an error and has none; what took
effect is there after a crash. `Files` has what the code does instead: `Lock`,
`Read`, `Open`, `Fill`, `Rename`, `Unlock`, with a temporary file that a failure
or crash leaves behind half written. A run begins with a `mark` that makes the status
"running" (`StartRun`). Its end (`EndRun`) goes through `LogStore.Log` first (`LoadLog`,
`OpenDraft`, `FillDraft`, `RenameDraft`), which takes no lock and whose errors the run
ignores (`DropRecord`), then through the store. After a crash, and before anything else
runs, `LoadAllTasks` resets what was left running, one task at a time (`stale`,
`Reset`), without a record. In the status field an outcome is the number of its run;
`Running`, `Lost` (the reset's "error") and `Sent` (a client's own) are no run's. A PUT
keeps the run state where its body has none.

Properties: `ImplementsAtomicStore` (refinement; value and calls of `AtomicStore`
are what `tasks.json` holds and what an observer can tell of a call),
`HistoryIsRecent` (what a history holds between runs is exactly the newest
records), `OutcomeHasRecord` (an outcome of a run that clients read can be looked up),
`CallsReturn`.

### Hub

`frames[c]` is all that was written to connection `c`, in order. A handler goes
through `Register`, `LoadStatus`, `WriteStatus` and `PumpEnds`; a `Broadcast` is
one step because `Hub.mu` is held throughout. Any write may fail; a `Broadcast`
then closes the connection, `SendStatus` leaves it for the next write to notice.
The runs of one task, numbered, write the file and broadcast; tasks do not
influence one another here, so one is enough. The task may be deleted (`DeleteTask`),
a client may send it a status of its own (`PutStatus`), and a run's write may fail
(`SetLastRun`) at any time: `amiss` says that the file is not as the run that wrote
last meant it, and `unsure` for which runs a client could not know from the
`task_status` it got then. Those runs, and no others, are left out of `NoRunUnheard`
and `EndIsHeard`; broadcasts do not depend on the file, so the order of events and
everything announced after the status hold whatever becomes of it.

Properties: `NoRunUnheard`, `EndIsHeard`, `EventsInOrder`, `EventsFollowFile`,
`ClosedLeaves`.

### Recurrence

`NextDaily`, `NextHourly`, `NextWeekly`, `NextCron` and `CalculateNextRun` are
the functions of `schedule.go`. `Date` is Go's `time.Date`: for a wall time that
comes twice or never it takes one of the two offsets, and since its documentation
leaves open which, both are checked. `Duration` wraps round as a 64-bit count of
nanoseconds does. The actions are the occasions on which a next run is computed or
looked at: the tick (`Fire`, `Skip`), the end of a run, a PUT, a restart, with a
machine that sleeps and a manual run.

Properties: `ArmedForTheFuture`, `ArmedForTheNextSlot` (against a reference that
scans minute by minute), `OncePerDay`.

### Verify

`at` is what the tool does next: `Preflight`, `TakeWorldLock` or `LockFails`,
`Recheck`, the journey (`Create`, `RunNow`, `Poll`), its clean-up (`Look`,
`Close`, `Delete`, `Confirm`), `Tally`, `PostComment`, `PostStatus`, `Release`.
`held` is the time since the lock was taken: every request of the tool may use up
its limit. Around it, other holders of the lock install builds and restart the
service, `devlock` ends leases, the service runs the routine or never ends it,
requests are refused or their answers lost, and an interrupt comes at any point.
The clock that `checkBuild` compares start and write times with counts whole
seconds.

Properties: `WorldIsOurs` (the tool never acts without the lock),
`SuccessIsEarned` (what is posted is true of the commit it is posted on),
`RecordAgrees` (exit code, comment and status), `LeftoverIsNamed`, `LockReleased`,
`Finishes`.

## 3. Runs

Each run's sentence in `PROJECT.json` says what it shows. The bounds:

| Run | Instance | Why it is enough |
|---|---|---|
| `core` | 1 task, 2 clients, 2 generations, every request, bodies with and without an old "running", `io`, `crash`, `stop`, two definitions (one enabled without catch-up, one disabled) | an overlap, and a status that is wrong, need a run and one other actor; the theorems lift the bound |
| `serial` | 1 task, 1 client, recurring, bodies with and without an old "running", crash, a file left by a crash or edited by hand | actors: tick, one handler, one run; `NoTaskIsLost` and `StatusIsTruthful` lift the bound for safety, fairness makes larger instances slow |
| `once` | 1 task, 2 clients, once with and without catch-up, no edit, no fault | the two writers of the enabled flag, the tick and the run, meet a delete and a manual run |
| `stale_rearm`, `crash_once` | 1 task, 1 client | counterexamples |
| `task_run` | 2 runs, 2 ids, 2 projects, every edit and deletion, bodies without run state and with that of a copy read in the first run, every fault, at most two kinds of mishap at a time (`MaxMishaps`) | the accounts are those of one run; the second starts on what the first left; two mishaps can mask one another; the theorems lift the bound |
| `waits` | chat and terminal, deadline 2, 2 text frames, 3 frames on the way, a socket that takes one; frames of others with and without their session | order needs two of a kind, with one of another session between; a full socket and a full queue both occur |
| `files` | 2 callers, 1 task, create, delete, updates with and without an old copy's "running", 3 runs, a cap of 2 records, the reset at start-up, `io`, `crash` | one caller between the other's read and write; a record that has to leave; the store is one list and replaces a definition whole, so more tasks and definitions add no interaction |
| `hub` | 1 connection, 3 runs, 3 mishaps to the file | order is between two runs, with one before them in the file; a broadcast treats each connection by itself, and the theorems are for any number |
| `recurrence` | 30 minutes, days of 4 hours of 2 minutes, weeks of 3 days, sleep and down-time of 1 or 4 minutes, all types, intervals of 3 and of the longest that fits (here 6), both directions of a clock change and both readings of `time.Date` | nearly four days: the change on the second, every schedule before, in and after it, and one whole week |
| `fall_back` | the same clock | counterexample |
| `verify` | with `--post`; requests of 1, poll pause 1, run deadline 3, journey 6, `gh` 2, lease 15, 3 seconds in which builds are installed, every fault | every limit can be used up, the lease is one longer than their sum; a build can be installed before, while and after the tool waits for the lock |

`CHECK_DEADLOCK` is off where the system may rightly stop: without requests and
due tasks the scheduler does nothing, a wait that has ended does nothing more, and
bounds end the runs of `TaskRun`, `Files`, `Hub` and `Recurrence`. In `verify` it is
on: the other holders of the lock always can do something, so there it shows no
more than that.

**Fairness.**

- `Scheduler`: the clock advances, the ticker ticks, and a goroutine that can take
  a step takes it. Nothing makes a client send a request, a fault happen, or anyone
  restart the process. That the body of a run ends rests on the HTTP client's
  2-minute timeout (`client.go:89`), on the deadline of both waits
  (`maxDurationSeconds`, or 30 minutes), and on one thing the code does not bound:
  the writes of the join and the prompt (§5).
- `Waits`: the run's goroutine and time. Relay owes nothing; `Returns` is claimed
  for a relay that takes what it is sent.
- `Files`: system calls return (weak fairness), and a caller that waits for the
  lock gets it if it becomes free again and again (strong fairness), as Go's mutex
  guarantees by its starvation mode.
- `Hub`: handlers that can go on do. Nothing makes a run start or a client leave.
- `Verify`: the tool, all of whose requests and commands have limits of their own,
  and devlock, which ends leases. The routine's run need not end.
- `TaskRun` and `Recurrence` state none: their properties are safety.

## 4. Proofs

For every value of the constants:

| Theorem | Property | Assumes |
|---|---|---|
| `SchedulerProofs.TypeCorrect` | `TypeOK` | |
| `SchedulerProofs.OneRunPerTask` | `NoOverlap` | |
| `SchedulerProofs.StatusIsTruthful` | `StatusTracksRun` | |
| `SchedulerProofs.Implementation` | `ImplementsRunStatus` | no `stop` |
| `ScheduleProofs.NoTaskIsLost` | `NothingLost` | `OrdersApart` always, `OnceUnedited`, `ProjectsKept`; no `io` |
| `ScheduleProofs.OneClientLosesNoTask` | `NothingLost` | one client, `OnceUnedited`, `ProjectsKept`; no `io` |
| `ScheduleProofs.WithoutEditsNoTaskIsLost` | `NothingLost` | no edits; no `io` |
| `ScheduleProofs.DeletedWindsDown` | (the safety behind `DeletedGoesQuiet`) | |
| `ScheduleProofs.OnceIsOnce` | `OnceFiresOnce` | no edits; no crash and no stop |
| `TaskRunProofs.TaskRunTypeCorrect`, `OneRunLives`, `ThreeAccountsAgree`, `LastRunIsOpen`, `TimeoutsStopWork`, `RunsImplementStatus` | `TypeOK`, `OneLiveRun`, `AccountsAgree`, `LastRunStaysOpen`, `TimeoutStopsWork`, `ImplementsRunStatus` | |
| `WaitsProofs.WaitsTypeCorrect`, `WaitsReplyIsWhole`, `WaitsExitIsReal`, `WaitsFailureIsOwn` | `TypeOK`, `ReplyIsWhole`, `ExitIsReal`, `FailureIsOwn` | |
| `FilesProofs.FilesTypeCorrect`, `FilesImplementStore` | `TypeOK`, `ImplementsAtomicStore` | |
| `FilesProofs.OutcomesHaveRecords`, `HistoriesAreRecent` | `OutcomeHasRecord`, `HistoryIsRecent` | no `readHistory` |
| `HubProofs.HubTypeCorrect`, `HubNoRunUnheard`, `HubEndIsHeard`, `HubEventsInOrder`, `HubEventsFollowFile` | `TypeOK`, `NoRunUnheard`, `EndIsHeard`, `EventsInOrder`, `EventsFollowFile` | |
| `RecurrenceProofs.RecurrenceTypeCorrect`, `NextRunLiesAhead`, `NextRunIsNextSlot`, `OneRunPerDay` | `TypeOK`, `ArmedForTheFuture`, `ArmedForTheNextSlot`, `OncePerDay` | `TameZones`, `IntervalsFit` |
| `VerifyProofs.VerifyTypeCorrect`, `VerifyWorldIsOurs`, `VerifySuccessIsEarned`, `VerifyRecordAgrees`, `VerifyLeftoverIsNamed`, `VerifyLockReleased` | `TypeOK`, `WorldIsOurs`, `SuccessIsEarned`, `RecordAgrees`, `LeftoverIsNamed`, `LockReleased` | |

They also rest on the assumptions named in the modules (what the constants are),
which TLC evaluates in every run. Two of these carry weight: `LeaseAssumption` of
`Verify` (the lease exceeds the sum of the tool's limits, as the constants of the
code do) and `CasesAssumption` of `Recurrence` (a schedule has passed
`ValidateSchedule`). The theorems about `Recurrence` take two more: an interval fits
into a `time.Duration` (`IntervalsFit`), and a change of the clocks is by at most an
hour and concerns wall times of one day only, for an hourly schedule a change forward
by a whole hour (`TameZones`). Without either the properties are false, as §5 tells:
the overflow, `fall_back`, and the change at midnight; and where clocks go forward by
half an hour, an hourly schedule passes over the minute that thereby comes early
(`schedule.go:153`). Every case of the run `recurrence` meets both. The type invariants of `TaskRun`, `Waits` and `Hub` are proved
and need no run.

**Scheduler.** `NoOverlap` is claimed while the process is up. It is not inductive,
because handlers and runs outlive `Stop`, which empties `running`. `ClaimInv` is the
invariant with the two cases: while the process is up, claims and live runs
correspond; while it is down, there are none. `StatusTracksRun` needs in addition
that ids are not reused: a run of a deleted task must not set the status of a new
one with its id. `IdsKnown` says that every id in the schedule, in a run or in a
request was born. Their conjunction `StatusInv` is inductive; lemmas say what
`SetLastRun` and `SetEnabled` do to statuses and which steps change the set of runs
in progress, and a write that fails, like a client's own status, adds its task to
`unsure`. The refinement maps `status` to the `lastStatus` fields of `store`, `known` to
`born` and `up` to "not down"; that `MarkRunning` is a `Begin` and `RecordOutcome` a
`Finish` of a task that is not `unsure` uses `StatusInv`, which says nothing of a
process that has been told to stop.

**Schedule.** `CoverInv` says who is responsible for an enabled task that is not in
the schedule: a run that has yet to look at it again or to put back a definition that
has a next run (`Returning`, `HeldByRun`), or a request that is about to schedule or
delete it; and that a pending `ScheduleTask` has the definition of the
file. Any number of clients may work at once; what they must not do is named:
`OrdersApart` (two PUTs of one task at the same time leave the map with the definition
that lost in the file, `api.go:149`), `ProjectsKept` (a DELETE by project goes by copies
in the map, which a PUT that moves the task leaves behind, so it takes out an entry of a
task that it does not delete) and `OnceUnedited` (§5). Without PUT no two requests order
the same task (`NextOrdersApart`) and every copy names the project of the file
(`CopiesInv`), so nothing more is asked of clients. `DeletedWindsDown` is the step on
which `DeletedGoesQuiet` rests: a deleted task stays deleted, whatever its last run
still writes, and only a run or a request that was past its look at the file then can
put an entry back, each once. `OnceInv` says that a once task that has fired has no entry and no request that
would give it one (`Passed`), and that file, entries, requests and runs agree on the
kind of every task, which without edits never changes (`Agree`).

**TaskRun.** `RunInv` collects what holds at each `pc`: `Locals` (what the run's own
variables say), `Logged` (its record), `Says` (the status in the file), `Announced`
(its events), `Steady` (its copy of the task has the type that is stored), `Saved`
and `Kept` (the id in the file is its own, and relay has what it names), `Left` (relay
has nothing else). Each claims of an account only what `amiss` does not except, and
`Blamed` says that an id is amiss only after a failed access or a client's own. The
refinement is shown under this invariant, step by step, with the status `Unsure` while
it is amiss.

**Waits.** `Control` says that a session is joined before the one message that starts
the turn. `Reading` says that the frames on their way continue what has been read:
their values grow from the last one taken in to the last one sent (`Stream`), no text
is left out before one that is there (`Gapless`), and the end of the turn comes
behind all of them. `Exits` says that exits on their way to a terminal's wait are its
own process's.

**Files.** `LockInv` says that the holder is the one call between `Lock` and
`Unlock`, that what it has read is what the file holds, and that `tmp` at `Rename`
is the changed list. `Rename` is `TakeEffect`; a call that changes nothing takes
effect at `Read`; `GiveUp` is `Fail`. For `OutcomeHasRecord`, `HistoryInv` says that a
history is short and descends, that a task has one run being written down at a time
(`RunsAlone`), and that past `RenameDraft` the run's number is `Covered`: it is in the
history, its record could not be written, or the history is full of newer ones. That
is asked of a status that is a run's number: `Running`, `Lost` and `Sent` are none.
`Pushed` says what taking in one more record and keeping the newest does to that.
`HistoryIsRecent` needs `OwnRuns`: a history has records of its own task's
runs only, no two tasks have a run in common, and a run that is not covered is being
written down. With `readHistory` both theorems are false, and §5 has the consequence: a history that
cannot be read is written back with one record.

**Hub.** `RunInv` relates the stages of the runs to the file and the claim: runs go
one by one (`InOrder`), the file of a deleted task is amiss (`Deleted`), and one that is
not amiss is that of the last run to have written it (`FileIsLatest`). `Told` says that
clients hear of a start and an end no sooner than they have happened, `Serves` where
the handler of a registered client can be, and `ReadIsTimely` that what `SendStatus`
has read and not yet written is completed by the events the client got since, but for
the runs it was `unsure` of.

**Recurrence.** Division comes first (`Parts`, `Whole`, `SameRest`), then days, hours
and minutes on the wall (`DayOfAt`, `HourIs`). For a schedule by the day, `DaysInOrder`
says that the days on the wall come in their order although the clock may go back, and
`DatesOnTheirDay` that `time.Date` stays on the day it is asked for, whichever offset it
takes. So a schedule has one minute on each day, `Slot`, and these are in the order of
the days (`SlotsInOrder`); the first of them ahead is what `NextDaily` and `NextWeekly`
return (`NextDailyIs`, `NextWeeklyIs`), and every minute the schedule names is one of
them (`OnlySlots`). The minutes of an hourly schedule leave one remainder by the hour,
also after a change by a whole hour (`SameGrid`, `SlotsOfHours`), and `NextHourlyIs`
shows that the one after now is taken, on both sides of the change. `SlotInv` says for
`OncePerDay` that the entry and the slot fired last are each the minute of their day,
one before the other.

**Verify.** `Budget` bounds `held` at each `at` by the limits used up so far, which
with `LeaseAssumption` gives `WorldIsOurs`. `BuildInv` says that a process that is not
older than its binary runs it, and that from `Recheck` on it is the checked build;
`JourneyInv` what the verdict means and what has become of the routine; `ReportInv`
what has been told to the pull request and to the shell.

Only model-checked: liveness (`RunsEnd`, `KeepsFiring`, `DeletedGoesQuiet`,
`OnceSettles`, `CallsReturn`, `ClosedLeaves`, `Returns`, `Finishes`), which needs
`ENABLED`, out of the prover's reach.

## 5. Where the code and its documents disagree

Found by a run (`PROJECT.json`, "findings"):

1. `stale_rearm`: a run that ends while its task is deleted or disabled can put
   it back in the schedule, where it fires once more.
2. `crash_once`: a once task whose process dies in its run fires again after the
   restart.
3. `fall_back`: an hourly task is armed for the past in the hour that comes
   twice, and then fires at every tick until that hour is over.

Found while modelling; the passing runs leave these cases out, as noted:

- `catchUp` has no effect on a recurring task whose scheduler was down: `README.md:123`
  implies that the run it missed is made up for, `LoadAllTasks` computes the next one
  from the current time (`scheduler.go:158`).
- `store.go:127-129` gives as the reason for keeping the run state that clients send
  definitions and not run state; a client that PUTs back what an earlier GET returned
  does send it, and POST and PUT store `lastStatus` and the two ids as they come
  (`store.go:105-125`, `store.go:147-155`). A task that was read in its run and is put
  back after its end stays "running" without a run until its next one or a restart, and
  an old id makes the next run remove the wrong session and leave the right one.
  `StatusTracksRun` and `AccountsAgree` leave such a status out until the scheduler
  writes the next, `LastRunStaysOpen` such an id; `OneLiveRun` is not claimed after one.
- Run state and history records are written as the run goes on, and a failure is logged
  and ignored (`store.go:227-243`, `logstore.go:29-53`, `scheduler.go:276`). After one
  the status, the record or the id on file is an earlier run's, the events are right,
  and if the id is lost or cannot be read the session it names is never removed. Every
  property names what it excepts for that.
- A run whose task is deleted goes on, but its client's `task_status` comes from the
  file (`hub.go:62`, `store.go:233-243`): one that connects after the DELETE is told of
  the run's end and not of the run. `NoRunUnheard` leaves out runs announced before.
- `README.md:136-137` says that a run in which the scheduler dies has no history entry.
  If it dies between `Log` and the status write (`scheduler.go:359`,
  `scheduler.go:360`) the entry is there, with the true outcome, and the status is
  reset to "error" all the same. `OutcomeHasRecord` is about the outcomes of runs and
  not about that "error".
- A `task_status` can name a run whose end the client has been told already:
  `README.md:178` calls it the tasks currently executing, but it is read before
  `Hub.mu` is taken and after the connection is registered (`hub.go:62`, `hub.go:98`).
- A once task that is edited while it runs is disabled when the run ends, or left
  enabled and unscheduled if the edit lands between `SetEnabled` and the removal
  from the map (`scheduler.go:401-405`). `once` has no edits; with `"put"` in
  `Ops` it refutes `NothingLost` and `OnceSettles`.
- A history that is there but cannot be read counts as empty (`logstore.go:59`), and
  the next run overwrites it with a single record. With `"readHistory"` in `Faults`,
  `files` refutes `HistoryIsRecent` and `OutcomeHasRecord`.
- `client.go:197-202` says of the chat wait that the only bound is the caller's
  timeout. The writes of the join and the prompt come before the deadline is set and
  have none of their own (`client.go:214-228`): a relay that keeps the connection
  open and does not read blocks the run, and so the task, for ever. `Returns` leaves
  that relay out.
- The chat wait passes over frames of other sessions because the stream is shared
  (`client.go:257`); the terminal's wait takes any `terminal_exit` or `error` for
  its own (`client.go:455`), and the chat's takes an `error` that names no session
  (`client.go:259`, `client.go:284`), though terminals' frames name none.
  `ExitIsReal` leaves out waits that were misled, `FailureIsOwn` those ended by an
  error that names none and is another's.
- An interval of more than 292 years overflows `time.Duration` (`schedule.go:81`), and
  the task is armed for the past for ever. With an interval beyond `Longest`,
  `recurrence` refutes `ArmedForTheFuture`.
- After an edit from chat to terminal or back, the previous run is not removed
  from relay (`scheduler.go:277`). `OneLiveRun` and `LastRunStaysOpen` leave
  histories with such an edit out.
- devboxverify deletes its routine "whatever the outcome"
  (`journey_shell_routine.go:37`), unless the reply to the creation is lost
  (`journey_shell_routine.go:44`): then it knows no id, and the routine stays without
  being named. `LeftoverIsNamed` leaves that case out.
- `failRun` announces a run without an id, and `taskView` then fills in the
  previous run's (`scheduler.go:386`, `task.go:43`), though `README.md:183` says
  `view.runId` is the run being announced.
- A run logs under the project of the copy it started with, history is read under
  the current one (`scheduler.go:359`, `api.go:187`): a task that moves loses
  sight of its history.
- `docs/FEATURES.md:33` says that deleting a routine removes its last session or
  terminal; the handler makes no call to relay (`api.go:162`).
- `Stop` says that runs in flight finish on their own; `main` returns right after
  it (`main.go:131`).
- Where clocks change at midnight, a weekly task can be armed for the day before
  its own (`schedule.go:185`).

## 6. Not modelled, and limits

- Parsing and validation of requests, the text of schedules, headers and JSON;
  authentication, tracing and logging. They are sequential and have tests.
- The launch identity, the bridge's Hello and the registration of the manifest
  (`launch.go`, `bridge.go`, `manifest.go`): one exchange each, tried once, before
  anything runs beside it.
- `output.go` takes part as its verdict only, a file that is there or is not. Its
  check is by modification time (`output.go:40`), and whether a clock's resolution
  hides a stale file depends on the file system.
- Relay is a set of sessions and terminals with unique ids that does what it is
  asked, or fails where a fault constant says so. A stop that overtakes the prompt it
  is to stop (`client.go:309`) is not distinguished from one that fails.
- Two clients that edit one task at the same time: PUT writes the file and the
  schedule in two steps, so they can end up with different definitions.
  `NothingLost` is proved for any number of clients that do not do this, `NoOverlap`,
  `StatusTracksRun` and the refinement for any that do; the liveness properties are
  checked with one client, `OnceSettles` with two that do not edit.
- `DELETE` by project goes by the copies in the schedule and by the file, which may
  disagree about a task that is being moved; of the runs, `core` alone has it, and
  `NothingLost` is proved with it where nobody edits.
- With failing file accesses `TypeOK`, `NoOverlap`, `OnceFiresOnce`, `StatusTracksRun`
  and `ImplementsRunStatus` are claimed of `Scheduler`, the last two with the status
  excepted that could not be written, up to the next write. The others are not: the
  code logs a failed re-read or `SetEnabled` and goes on, and the task stays
  unscheduled, or a once task enabled.
- Saving a task recomputes its next run (`scheduler.go:169`): a run that is due and
  not yet seen by the 30-second tick is dropped. That is so in `Scheduler` and
  `Recurrence` as well, and no property forbids it.
- A half-open connection is indistinguishable from a silent client until a write
  fails, and is treated so.
- In `Scheduler` an armed recurring entry always lies ahead, which `Recurrence`
  confirms except for the hour of `fall_back`.
- One process. Two instances on one data directory would break every lock; the
  second takes over the socket of the first (`main.go:95`), and whichever ends first
  removes it (`main.go:130`).
- `Verify`: the checks of the machine, the VM, grants and credentials
  (`machine.go`, `vm_*.go`) are one choice that may refuse. The other holders of the
  lock install and restart only while they hold it, and a build takes longer than a
  second; without either the check of two times in whole seconds could not work. The
  clean-up asks once for the terminal (`journey_shell_routine.go:164`), so a terminal
  that the service creates after that stays; it is closed by nobody and no property
  forbids it.

## 7. What remains

- `Startup`: the order of `main`, the launch identity exchange, and the socket file.
- `Hub` with several tasks whose runs share `Broadcast`, for the order among them.
