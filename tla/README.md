# Formal models of LitePan (desstg/mypan)

LitePan is a server that mounts many cloud drives behind one web interface. This directory holds
TLA+ models of the parts of it whose correctness depends on interleavings, failures and restarts,
the TLC configurations that check them, and theorems about them checked by TLAPS. `PROJECT.json`
lists the components, runs, mutants, source lines of every definition, findings, hazards and theorems.
Source paths below are relative to `src/`.

## 1. Inventory

The server (`cmd/litepan`, `internal/app`) constructs services around one SQLite store and shuts them
down in reverse order. Everything below runs in one process; "calls" are Go calls, "events" go through
the bus, and the only shared memory is inside each service.

| Component | State it keeps | Operations | Talks to | What makes it hard | What makes it correct |
|---|---|---|---|---|---|
| upload queue (`internal/upload`: manager, queue, worker, lifecycle, state, delete) | the task map, `queueOrder`, two slot counters, a `runDone` channel and cancel function per run, `stopping` | create a batch, pause, resume, delete, worker run, change of the limit, stop | drivers, store, bus, file service, startup gate | one goroutine per run against many handlers, steps between two critical sections, a condition variable shared by two queues, cancellation | one worker per task, slots counted and bounded, no transfer of a deleted task, every pending task served, pause and stop take effect |
| upload persistence (persist, resume, temp, source) | rows, checkpoint timers, temporary files | persist, delete row, restore, flush, clean up | store, disk | rows written outside the lock, failing writes, crash at any step | acknowledged tasks survive, sources kept until stored, deleted stays deleted, refused leaves nothing |
| upload broadcast (sse) | subscribers, two sets of marks, `broadcastPending` | subscribe, broadcast, flush, window timer | web pages | coalescing of concurrent changes, slow readers | one flush at a time, pages converge |
| account authentication (`internal/auth`), driver executor (`internal/core/driverexec`), driver manager, saving of an account | state per account (active, cooldown, failed, expired), a lock per account, the cached driver instance, back-off counters, the row with the tokens | check, call with retry, refresh, building a driver, saving the account | drivers, store, bus | single-use refresh tokens, requests that fail together, cancellation between the exchange and its storing, a network call inside a read-modify-write | one exchange at a time and none too many, the newest token kept, events agree with the row |
| authentication scheduler (`auth/scheduler.go`) | one loop goroutine, its stop channel, the startup gate | start, stop with a time limit, switch by a setting | auth, the queues behind the gate | a stop that gives up, a start meanwhile | one loop, the gate opens |
| event bus | bounded queue, one dispatcher | publish, subscribe, close | most services | close against publish, full queue, handlers that panic | order, accepted events handled, no handler after close |
| metadata cache, single flight, file service, mutation events | lists, calls under way, the fence, a snapshot file | list, create, delete, apply a change, save and load | drivers, bus | loads that overlap changes, shared errors, events that arrive late | no list from before a change outlives it, every reader answered |
| backup and restore | staging directory, plan file, rollback copy, result file | prepare, cancel, apply at the next start | store, disk | a crash in the middle of replacing files, failing undo | old or new data, never a mixture |
| STRM tasks (`internal/strm`) | rows, marks of running tasks and accounts, file locks, the pending set | scheduler's round, run now, pause, resume, toggle, update, delete, forced stop | files, auth events | marks, locks and rows that change at different times | one owner of a task's files, no mark left behind, pauses kept |
| automation | queue of runs, counters, one running rule, the gate | triggers, scheduler, run now, end of a run | bus, files, STRM, organising | the end of a run against a submission, the opening of the gate | one rule at a time, in order, none forgotten |
| media organising tasks (`internal/mediaorganize`) | row, plan file, running mark, progress | plan, apply, run, stop, update, delete | files, store | check, prepare, then start | one runner, a plan carried out once, progress ends |
| offline download | records and rows, slots, one torrent client, directories | add, delete, runner, hand-over, clean-up, settings, shutdown | uploads, bus | hand-over between two queues, the restart of the client, clean-up against new tasks | nothing accepted is lost, the client is never closed in use, waiting tasks are served |
| upload target directories, cross transfer | a short cache of folder ids; lists of results | ensure a path; plan, rapid upload, copy, relay | drivers, uploads | check, then create; remote steps that fail | no duplicate folder; an item ends in one place |
| cache retention, task authorisation waits | marks, timers | round, pause, resume | files, auth events | overlapping rounds | as STRM tasks |
| read cache, FUSE mount, WebDAV, playback, proxies | blocks, links, handles | read, list, redirect | drivers, cache | kernel and client protocols | bytes of the right version |
| accounts, API keys, admin log-in, settings, favourites, notifications | rows and small files | CRUD | store | little | validation |
| search transfer, QR log-in, organisation rules, media libraries, Telegram subscriptions | jobs over file lists | remote sequences, parsing | drivers, HTTP | text rules, remote quirks | outside these models |
| cloud drivers (11), web interface | tokens; the page's task list | HTTP | remote services | remote quirks | outside these models |

Interactions that matter to the models: HTTP handlers call the services; workers call drivers through the
executor, which asks the authentication service before a call and after a failed one; every change of an
upload is written to table `upload_tasks`, announced to the subscribed pages, and its completion is
published on the bus. The authentication scheduler opens the gate that the queues wait for after a
start. A failed or recovered account is an event that pauses and resumes uploads, STRM and organising
tasks. A finished download becomes an upload. `App.Shutdown` stops HTTP, then the offline downloads, then the
uploads (stop with a budget of 20 s, then `FlushPendingResume`), then the bus and the database.

The upload subsystem was modelled first because it is the product's core transaction: it moves the user's
data, deletes the local copies, promises to survive restarts, and all of its hard behaviour is concurrency.
Then came what it depends on (credentials, gate, bus), and then the other services with goroutines and
files of their own.

## 2. Modules

| Module | Models | Role |
|---|---|---|
| `UploadQueue` | upload: manager, queue, worker, lifecycle, state, delete, progress | scheduling of runs |
| `SlotPool` | | abstract pool of slots that each of the queue's two pools implements |
| `UploadPersist` | upload: persist, resume, temp, source, the row side of manager, worker, delete; shutdown in `app.go` | durability |
| `UploadBroadcast` | upload: sse, `api/sse.go`, the page's merge in `useUploadTaskStore.ts` | notification |
| `AccountAuth` | auth, driverexec, `driver/manager.go`, account | credentials of one account |
| `AuthScheduler` | `auth/scheduler.go`, the handler of its setting | loop and startup gate |
| `EventBus` | eventbus | delivery of events |
| `FileCache` | cache, `pkg/singleflight`, file, mutation | the cached list of a directory |
| `PendingRestore` | backuprestore | restore at the next start |
| `StrmTasks` | strm: service, schedule, pause, stop | runs of STRM tasks |
| `Automation` | automation: service, run, schedule | queue of rules |
| `OrganizeTasks` | mediaorganize: service | one organising task |
| `OfflineTasks` | offlinedownload: builtin, maintenance, temp | the built-in downloader |
| `MCUploadQueue`, `MCUploadPersist`, `MCAccountAuth` | | batches and the symmetry of driver instances for TLC |
| `MCServices`, `MCJobs` | | `EventBus` with instances of four modules, `OfflineTasks` with instances of three |
| `UploadQueueProofs`, `UploadPersistProofs`, `UploadBroadcastProofs`, `AccountAuthProofs`, `AutomationProofs`, `OfflineTasksProofs` | | theorems about one module |
| `ServicesProofs`, `JobsProofs` | | theorems about the components of `MCServices` and of `MCJobs` |

The modules are not composed into one state machine. Two services that interact do so through a call or an event
whose effect the other's model takes as a free choice of its environment (an account's failure is a
pause in `StrmTasks` and `UploadQueue`, the gate opens in `Automation` and `UploadQueue` when it likes, the
upload queue takes a download over in one step of `OfflineTasks`), so each module is checked against
more behaviours than the real neighbour has. What a neighbour guarantees about that choice is a property of its
own module (`AuthScheduler` for the gate, `AccountAuth` for the events, `UploadPersist` for what an accepted
upload becomes).

### UploadQueue

One action is one critical section under `Manager.mu` or one step between two of them. `task[t]` is the
record `taskState` (`prio` is `resumePriority`, `mode` is `cancelMode`, `run` identifies `runDone`,
`cancel` the stored `CancelFunc`, whose owner may be an earlier run); `pc[<<t, n>>]` is the goroutine
`runTask` of the n-th run of t; `call[c]` is what a handler has still to do after its first critical
section (`pauseCancel`, `resumeWait`, `delCancel`, `delWait`, `delPop`); `note` holds the local variables a
worker read under the lock and uses after it, which is where its races are.

`RunStart`, `RunGate`, `Acquire`/`Park`/`GiveUp`, `TransferRefused`/`TransferStart`, `Progress`,
`TransferFails`, `FailureVerdict`, `TransferPatch`, `Release` and `Exit` are a worker; `Create`,
`CreateStart`, `CreateRollback` are `createBatch`; `Pause`, `CallCancel`, `Resume`, `ResumeQueue`,
`ResumeAbandoned`, `Delete`, `DeleteWaited`, `DeleteTimeout`, `DeletePop` are handlers; then
`RefreshConcurrencyLimit`, `Stop` and `OpenGate`. The answer of a driver (`TransferReturns`) is external:
success at any time, failure at any time. `success` and `skipped` are one status.

### UploadPersist

A writer (handler, worker, timer, or the goroutine of start and stop) in the middle of `persistTask` or
`deletePersisted` has an entry in `io`: it first reads the record, without the lock, then writes the row;
others act between the two. `mem[t]` is the `taskState` object, which goroutines keep using after it has
left the map. `Crash` may happen at any step and keeps `row` and `file`; `Restore` and `Started` are
`restoreTasks` and `initTempCleanup`. `promised`, `stored`, `deleted` and `refused` are history variables:
what the user was told, and what the driver has reported.

### UploadBroadcast

A task is its version (it stands for `updated_at`); `truth` is the task map, `view[c]` what a page shows.
A goroutine changes a task, marks it (`Broadcast`, `BroadcastDeleted`), and the one that finds
`broadcastPending` unset flushes: `TakeMarks`, `BuildPayload`, `Send`, for full channels `BuildSnapshot`
and `Resend`, then `ArmWindow`; `FinishWindow` is the timer's callback. A page is `Subscribe`,
`WriteSnapshot`, `Receive`, `Unsubscribe`, and merges messages as `useUploadTaskStore.ts` does: an
older version never replaces a newer one, a deletion removes the task. A batch that is rolled back is left
out: its tasks are never announced as gone (`manager.go:187`), so that a page that connected meanwhile
keeps them and `Converged` cannot hold. `LastLeaves` says whether the last page may leave.

### AccountAuth

One account stands for all, since accounts share only the maps that hold their state. A request is
`Executor.Run`: `GateCheck` (state and back-off), the driver from the cache or built under the lock
(`Get`, `UseCached`, `Build`), `Call`, and after an expired credential `Report` and `Refresh`, which queues for
the account's lock and may find that somebody else has refreshed meanwhile (`recentlyRefreshed`). The
scheduler's refresh and the saving of the account (`SaveStep`) are processes beside it. A token is reduced to
whether it is the newest, because the remote service accepts each once; `lost` records that a canceled
exchange or a connection test has spent one whose successor nobody stored. `Settle` writes the row, the
back-off and the events together with the end of the tenure of the lock, which is one critical section.
A failure whose row cannot be written is announced all the same (`state_machine.go:153-158`, `:168-173`):
`announced` is then `"unstored"`, and `EventsFollow` only asks that the row is not bad, until the next event. The code has
no way back from there other than that event: a success that finds the row active publishes no recovery.
Left out: the legacy repair in `loadState`, validation errors of a driver's `Init`, a success that cannot be
written (`state_machine.go:64`: an error to the caller, the row and the events stay), the dates inside tokens
(expiry is a free choice).

### AuthScheduler, EventBus, Automation

`AuthScheduler` numbers the goroutines of the loop; `stopped` and `done` are their channels, `stuck` is a
second stop that panics with the mutex held. `EventBus` has `Publish` split at its two selects (`Enqueue`,
`Discard`), the dispatcher (`Take`, `CallHandler`, `Drain`, `Exit`) and `Close` with its time limit; a handler
that panics has handled its event as far as the bus is concerned. `Automation` keeps the runs queued before
and after the gate opens, the four sources of runs, `EndRun` and `StartNext`; a run is one of two goroutines,
the one that ends and the one it has started. The scheduler looks at one rule at a time (`ScheduleRule`): it is
left for later, which is also what a failed write comes to, its next time is corrected, or it is due.

### FileCache

`remote` is the directory, `cached` its list or `NoList`. Readers are `List` with `group.Do`: the first loads
(`again`, `fetch`, `set`, `close`, `drop`), the others wait for its call and may give up. A writer changes the
directory, applies the change to the cache (the list and the fence in steps of their own) and publishes it; the bus applies it once more. `late` records
that a list was already stale when it was stored, which the code accepts until the list expires.

### PendingRestore

Files outlive the process; `Start` begins `ApplyPending` and each file operation is a step, between any two of
which the process may crash and each of which may fail. A database is known by whose settings it
has, by the secret its credentials are encrypted with, and by the number of changes users made in it.

### StrmTasks, OrganizeTasks, OfflineTasks

In `StrmTasks` a run is known by three things that are not changed together: the marks of the service, the file
lock of its task, and the status in its row. Each is written where the code writes it, by the handler,
the scheduler or the goroutine of the run, and handlers read rows outside `s.mu`. Whether another service
works on the account is a free choice. In `OrganizeTasks` handlers and runner store the whole row they have read;
a plan is known by its number and the settings it was made for. In `OfflineTasks` a runner goes through
`Acquire`, `Open`, `Work`, `Release`, `Close`, `Leave`; slots, the restart of the torrent client, the hand-over,
the clean-up of directories, shutdown, crash and restart are there; the transfer itself is one step between its
start and its end.

### MCServices and MCJobs

Components that share no state are checked in one state space: `SumInit` chooses a `focus`, only the component
in the focus moves, and the others stay in their first state. The reachable states are therefore the sum of
the components' (not their product), each component's behaviours are exactly those of its own
specification, and fairness of each is conditional on its focus (`SumFairness`). A property of one component is
as strong in the sum as alone: where the component is not in the focus it is in its initial state.
Both modules leave the sizes of their components as constants (`ServicesAssumption`, `JobsAssumption`), which the
`.cfg` chooses small and the proofs leave open.

## 3. Runs

Passing runs:

| Run | Instance | Properties | Question |
|---|---|---|---|
| `queue_serial` | 1 cross-drive task, 1 handler, 3 runs | `OneRunPerTask ChannelClosedOnce NoTransferAfterDelete` | with one call at a time, do workers overlap, close a channel twice, or outlive their task? |
| `queue_race` | 1 task, 2 handlers, 2 runs, gate, failing writes, shutdown, transfers that return only when canceled | `NoSilentOrphan StopsAreObeyed ResumeIsAnswered` | what can two handlers do to one task, and do pause, stop and resume take effect on hanging transfers? |
| `queue_pool` | 2 tasks, limits 1 and 2 | `SlotAccounting SlotsArePooled` | are slots counted and the limit kept while it moves? |
| `queue_serve` | a batch of 2 uploads, limit 1 | `PendingIsServed` | is a parked task woken? |
| `persist_crash` | 1 task, failing writes, checkpoints and timer, shutdown that waits for its workers, 1 restart | `TypeOK PromisesAreKept ActiveHasWorker` | does anything lose a task or its file, or leave it active without a worker? |
| `persist_delete` | batch of 2, 1 handler that deletes and renames, failing writes, driver without checkpoints, shutdown that may give up | `NoRowComesBack` | can a deleted or refused task come back? |
| `accounts` | 1 request with its retry, the scheduler's refresh, one saving with unchanged credentials, 2 driver instances, thresholds 2 and 1 | `ExchangesAreOrderly TokenKept EventsFollow BackoffLimitsFailures FreshTokenIsReused` | are single-use tokens spent in order, kept, and not wasted, and do the events agree with the row? |
| `services` | see below | `InOrder DrainedAtClose QuietAfterClose AcceptedIsHandled` (bus), `RestoreIsWhole RestoreEnds` (restore), `ListsAreFresh ReadersAnswered` (cache), `LoopIsOrderly` (scheduler), `PagesAgree PagesCatchUp` (broadcast) | do the five services keep their promises under close, crash, failure, overlap and slow readers? |
| `jobs` | see below | `FilesAndMarksMatch ScanEndKeepsPause AccountIsFreed` (STRM), `RunsQueueUp AcceptedIsStarted` (automation), `OnePlanOneRunner ProgressSettles` (organising), `ClientStaysOpen AcceptedIsKept CleanUpKeepsData HttpIsServed` (offline) | do runs of one task or account exclude each other, is anything accepted lost, does everything that waits go on? |

Violation runs; each is the counterexample of a finding in `PROJECT.json`, against a sentence of the
repository (a test's failure message, a comment or the description of a setting):

| Run | Property | What the code does |
|---|---|---|
| `queue_double_resume` | `OneRunPerTask` | two Resumes that waited for the same `runDone` both start a worker when a pause falls between them |
| `accounts_overwritten` | `EventsFollow` | an account saved with new credentials writes back a row read before the connection test: a failure in between is wiped out without the recovery event |
| `offline_settings` | `MagnetsAreServed` | of two overlapping saves the second leaves a restart of the client pending that nobody carries out |

The instance of a passing run and that of a violation run of the same property differ in one assumption,
so that the pair names the condition: `OneRunPerTask` needs handler calls that do not overlap,
`EventsFollow` that an account is saved with unchanged credentials. `MagnetsAreServed` has no passing
counterpart; `HttpIsServed` is the same promise for tasks that do not need the client.

**Bounds.** `MaxRun`, `MaxCkpt`, `MaxBoot`, `MaxVersion`, `MaxSaves`, `MaxWrites`, `MaxSubmits`, `MaxPlans`,
`MaxEdits`, `MaxRuns`, `MaxLoops`, `MaxChanges`, `MaxPrepares`, `MaxFaults`, `MaxEvents`, `Restarts` and `Quota`
cap counters that grow for ever; each is as large as the shortest interesting story needs.

- *Uploads*: three runs (the one that ends, the one a Resume starts, the one a second Resume starts); two
  checkpoints for the flush, one saved and one not; one restart after a crash that may itself interrupt anything. Two
  tasks suffice for the order in a queue and for a batch that fails half-way; properties speak of one
  task or of two tasks in the same queue. Two handlers suffice for every race found, one of them in the middle
  of its call; `persist_crash` has one handler because its writers are already the handler, the worker,
  the timer and the process.
- *Accounts*: the lock is what orders callers, and two of them (a request and the scheduler) with the saving
  beside them already meet at each step; the two driver instances are interchangeable (`SYMMETRY`); a network threshold of 1 and a failure threshold of 2
  reach cool-down, failure and recovery.
- *services*: two publishers with two events each, one closer, two handlers and a queue of 1, which is full after one
  event; a restore with one crash or failure (anywhere but inside CancelPending, see the table below), two preparations and one change; two readers, a writer and
  the bus on a directory of at most one file with two changes; two loops of the scheduler, two handlers
  and three saves; one task with two versions and its removal, two pages that do not both leave, two mutators
  and channels of 1 (the code's capacity of 8 only delays the overflow).
- *jobs*: one STRM task with a caller of any operation, two goroutines of runs (one that was stopped and is
  still ending, and its successor) and one restart; two rules and three submissions, enough for one to run and two
  to wait; a plan, an edit and a caller of any operation; two downloads of which one is a magnet, one saver of
  settings, limits up to 2 and one event (change, clean-up, shutdown or crash).

Larger instances were explored without a violation: `StrmTasks` with two tasks on one account, forced stops,
limit 2 and three goroutines (4.7 million states); `OfflineTasks` with two events and `Unreliable = TRUE` (1.3 million);
`PendingRestore` with three faults (`StageKept`, `PreparedEndsWithResult`, `StartsAgain`); `AccountAuth!RecoversWithTheService`
(the account becomes active again when the service works) under its `FairSpec` with one request and no
saving. `PublishReturns` of `EventBus` also holds.

**Deadlock** is not checked: when every task has ended and the bounds are used up nothing is left to do,
which is the system at rest. That nothing waits for ever is what the liveness properties say.

**Fairness** is weak fairness of each goroutine's own steps, since the Go scheduler runs a goroutine that
can run; nothing forces a user, a remote service or a setting to do anything. Beyond that:

- `UploadQueue`: `createBatch` returns and the startup gate is opened (the scheduler opens it also when it
  is stopped or disabled). A transfer is only assumed to return once its context is canceled, since
  every driver is given that context; `FairSpec` adds that a remote call returns anyway, and is used only for
  `PendingIsServed`. Handlers' waits (`ResumeQueue`, `DeleteWaited`) are steps they take when
  the channel is closed.
- `UploadBroadcast`: goroutines finish their flush, the timer fires, a connected page reads.
- `EventBus`: handlers return and a sender that finds room takes it. `FileCache`: the driver answers, as its HTTP clients have time limits.
- `AuthScheduler`: the start-up delay and the rounds end; a select that finds the timer and the stop channel
  ready again and again takes the stop some time, which is strong fairness of `ObeysStop` (Go chooses at
  random among ready cases).
- `StrmTasks`, `OrganizeTasks`: scans and calls to the drive return. `Automation`: the gate opens (which is
  `LoopIsOrderly` of the scheduler) and the actions of a rule end. `OfflineTasks`: a transfer ends or notices its
  cancellation. `PendingRestore`: a stopped process is started again.
- `FairSpec` of `AccountAuth`, used only for the exploration named above, has strong fairness for the waiters of
  the account's lock, a channel that serves them in order.

### Further properties the code does not have

They are stated in the modules and fail within minutes on the instance given; the hazards they belong to say so.
None of them is in a run, either because no sentence of the repository promises them or because
another run already shows the same race.

| Property | Instance | What the code does |
|---|---|---|
| `UploadQueue!NoTransferAfterDelete` | 2 handlers | a Resume between Delete's two critical sections transfers a removed task (`delete.go:26`, `state.go:53`) |
| `UploadQueue!NoSilentOrphan` | 1 cross-drive task, 2 handlers, 3 runs, limit 2 | of two workers of one task (the double Resume of `queue_double_resume`) the older one patches the status under the newer and leaves the task pending without a worker; `NoTaskForgotten` below says that there is no other way |
| `UploadQueue!DownloadedIsUploaded` | 1 cross-drive task, 1 handler, `FairSpec` | the end of a download overwrites a pause or delete under way (`worker.go:267`): pending without a worker |
| `UploadQueue!CanceledOnlyByDelete` | 1 plain task, no handler, `Shutdown = TRUE` | mode and context are read at different times (`worker.go:357`): an upload interrupted by the shutdown ends as canceled |
| `UploadQueue!PendingIsServed` | `queue_serve` with `Cross = {t1, t2}` | such an orphan stays the head of the upload queue, and what is parked behind it is not started, not even when a Delete takes it away without waking anyone |
| `UploadPersist!FinishedIsSaved` | 1 task, 1 handler, `MaxCkpt = 1` | an older record is written over the row of a finished upload |
| `UploadPersist!NoRowComesBack` | `persist_delete` with 2 handlers | a pause of a task of a batch being rolled back writes its row again |
| `UploadPersist!PromisesAreKept` | `"list"` in `Failing`, `MaxBoot = 1` | with an unreadable task table the start-up clean-up removes every task's file |
| `UploadPersist!FlushedAtShutdown` | 1 task, `MaxCkpt = 2`, shutdown | a timer that fired is not waited for (`resume.go:33`, `:44`): the last checkpoint is not in the database |
| `UploadBroadcast!Converged` | `LastLeaves = TRUE` | the last page leaves during a flush: the next page gets the old delta after its snapshot and keeps a deleted task (`sse.go:36`, `:98`, `:107`) |
| `AuthScheduler!EnabledHasLoop` | as in `services` | two saves of the setting store it in one order and act in the other, or a start meets a stop that gave up and is ignored: switched on, without a loop (`scheduler.go:75`) |
| `FileCache!NoWriteBackWhileCooling` | as in `services` | the fence is looked at before the load, and the list stored after it (`fence.go:89`) |
| `PendingRestore!StartsWhole`, `!RolledBackIsUntouched` | `MaxFaults = 2` | an undo that fails too leaves a mixture, reported as rolled back |
| `PendingRestore!SettingsRestoreKeepsAccounts` | as in `services` | what is changed between preparation and restart is not in the restored file |
| `PendingRestore!NeverEmpty`, `!StartsWhole` | `"cancel"` in `Breakable` | CancelPending removes the staged files before `restore.pending` (`service.go:556`): after a crash in between, the next start opens, and thereby creates, an empty database and installs it |
| `StrmTasks!RunsKeepPauses`, `!AccountIsSerial` | as in `jobs` (two tasks for the second) | the opening of a run and the repair of stale rows overwrite a pause; after a forced stop the end of the old run takes the mark of the new one |
| `Automation!OffStaysOff` | as in `jobs` | the end of a run stores the row it read before its actions, which switches a rule on again |
| `OrganizeTasks!DeleteStops`, `!SettingsSurvive`, `!ActiveRuns`; `!ProgressSettles` with 2 callers | as in `jobs` | a row read before is stored after; the loser of two starts leaves its announced progress |
| `OrganizeTasks!PlanAppliedOnce` | 2 callers | an apply that has read the plan and found no runner goes on after another apply has carried the plan out, and carries it out again (`mediaorganize/service.go:873` checks only for a runner) |
| `OfflineTasks!ShutdownKeepsTasks` | `MaxEvents = 1` | a download interrupted by the shutdown may be recorded as failed (`docs/GUIDE.md:288` says tasks are resumed) |

One disagreement was found by reading alone: the comment at `app.go:258` says that publishing after the bus is closed
panics, while `Publish` drops the event silently (`bus.go:61`). And `OfflineTasks` cleans up in a way that `CleanUpKeepsData`
excuses: the directory of a task that was added after the clean-up took its snapshot may go.

## 4. Proofs

Each theorem holds for every set of processes, tasks, rules and callers, and every bound, under the assumptions on
the constants in the modules (`QueueAssumption`, `PersistAssumption`, `AuthAssumption`, `BusAssumption`, `OfflineAssumption`,
`ServicesAssumption`, `JobsAssumption`), which TLC evaluates in every run that extends them. They say that bounds are
numbers, that goroutines of different kinds have different names and, where the code counts them, that there are
finitely many. A theorem that needs more says so with a hypothesis of its own; each of these is explained below.

Every safety invariant of a passing run is a theorem, and so are the action properties `FreshTokenIsReused`,
`SlotsArePooled`, `QuietAfterClose`, `ScanEndKeepsPause`, `CleanUpKeepsData` and the two of `RestoreEnds`.

### UploadQueueProofs

- `TypeCorrect` (`TypeOK`), `SlotsAccounted` (the counters equal the numbers of holders), `PoolsImplemented`
  (`SlotsArePooled`: the upload pool and the download pool each implement `SlotPool`).
- `OneWorkerWhenSerial`, `ChannelsClosedOnceWhenSerial`, `NoTransferAfterDeleteWhenSerial`: with at most one handler (`Serial`).
- `NoTaskForgotten` (`NoSilentOrphan`) for any number of handlers, in the behaviours in which no task ever has two workers.

`SlotAccounting` alone is not inductive: a release decrements the counter of the slot's kind, and that is the kind
the worker acquired only if its control state says so; the accounting also needs that every step moves at most
one worker in or out of a pool. `Inv` therefore adds `TypeOK`, `NoteReady` (a worker about to patch has
its verdict) and `RunsFresh` (a run that has not been given to the task yet has not begun, so that a Resume
cannot restart a live goroutine). From `Inv`, each step is an `Enter`, a `Leave`, a `SetCap` or a stutter
of either pool: `Acquire` enters only under `SlotFree`. `RunOrder`, inductive with `Inv` under `Serial`, orders
the runs of a task: all but the newest have ended and closed their channel, which a waiting Resume has checked,
and nobody else can start one in between, because there is nobody else.

`NoTaskForgotten` has the temporal hypothesis `[]OneRunPerTask`, which is `OneWorkerWhenSerial` with one handler and which
the run `queue_double_resume` refutes with two: the theorem says that every task that is left pending without a
worker is a consequence of that double start (or of the races with the end of a download which `NoSilentOrphan`
itself excepts). The invariants behind it are `CancelKnown` (a run whose cancel function was called has begun, and while it
lives its task is marked as paused or deleted) and `Served` (a pending task that is not so marked is in a batch being
created or has a worker that has not decided to end).
`NoTransferAfterDeleteWhenSerial` adds to `RunOrder` that the only handler, between the two critical sections of a
Delete, has waited for the run whose channel it saw.

### UploadPersistProofs

- `TypesPersist` (`TypeOK`), `ActiveTasksRun` (`ActiveHasWorker`), `AcknowledgedSurvives` (`AckedSurvives`, a part of
  `PromisesAreKept`), without hypotheses.
- `PromisesKept` (`PromisesAreKept`) where the table can be listed, i.e. `"list"` is not among the writes and reads that may fail.
  The table of further properties above shows the assumption to be needed.
- `RowsStayGone` (`NoRowComesBack`) under `Undisturbed`: one caller (two break it: a pause of a task of a batch being
  rolled back), no checkpoints (a timer that fired before the deletion writes after it), and deletions of rows that do not fail
  (one that does leaves the row to the next start). This is the condition of the run `persist_delete`.

The promise is inductive in `Sound`, which says for every goroutine between two of its steps what it may still do.
`WorkerSound` reads off the control state of a worker how far its record and its file are; `Owned`
gives every worker that is owed to at most one caller; `WriterSound` says that a row is only deleted of a task
that is `Doomed` (out of the map for good, not promised); `CallSound` relates a batch under way to the rows it has written.
A step of one goroutine leaves the others' parts true because it spares the tasks they own (`Spared`, `Onward`):
this frame argument is stated once and cited for every action. `Quieted` adds, under `Undisturbed`,
who may still write a row: a worker its own task's, a caller that of a task in the map, and of a batch being rolled
back only the rows not yet undone (`OnlyStanding`) exist.

### UploadBroadcastProofs

`FlushesAreSerial` (`OneFlusher`), `ChannelsKeepTheirCapacity` (`TypeOK`) and `PagesConverge` (`Converged`).
`OneFlusher` is inductive once it is known that `pc` is a function on the goroutines (`FlushInv`). Four lemmas say
how a goroutine's step relates to the flush (stays out, stays in, enters, leaves), and each action is an instance of one.

For `Converged`, `PagesInv` follows every task and page: the page has been `Told` of the task as it is when its
state is about to be marked or is marked (`Announced`), is in the payload under way, or in a snapshot being
sent (`Coming`), is the last word about the task in the page's channel (`Brings`), or is shown and nothing in the channel
mentions it (`Silent`). Besides, what is marked as deleted is gone for good (`Goners`), no message is ahead of the tasks (`Past`), and
the message under way is right about each task in it unless another one will follow (`Fresh`). The hypothesis `~LastLeaves` is the condition the table
above shows to be needed; that `"timer"` is no mutator only separates names.

### AccountAuthProofs

- `ExchangesSerial` (`ExchangesAreOrderly`) from `CoreInv == Typed /\ Locked /\ Tenure`: whoever is at a step that
  needs the lock holds it, and a tenure has used no token before the step that exchanges one. Four lemmas
  (`MovesOutside`, `MovesIn`, `MovesOn`, `MovesOut`) say how a step relates to the lock.
- `FreshTokensAreReused` (`FreshTokenIsReused`) adds `Reuse`: between the check for a recent refresh and the exchange
  the row cannot have become recent, because only the holder of the lock makes it so.
- `TokensAreKept` (`TokenKept`) adds `Kept`: the newest token is in the row, in the hands of the holder of the lock, or `lost`.
- `EventsFollowTheRow` (`EventsFollow`) adds `Renamed`, under `OnlyRenamed` (`SaveKinds` has at most `"same"`), the
  assumption the run `accounts_overwritten` shows to be needed; failures that could not be written are set apart
  (`"unstored"`, section 2). `TypeOK` of this module is covered by `Typed`.
- `BackoffBounds` (`BackoffLimitsFailures`): once the threshold is reached only requests that were under way by then are
  still counted, which stays below the threshold and the number of requests together. The invariant counts, with the
  failures so far, the requests that may still add one; it needs finitely many of them (`AuthAssumption`).

### AutomationProofs

`RulesRunOneAtATime` and `RunsStartInOrder` from `AutoInv == Typed /\ Alone /\ Held /\ Order` (one
active goroutine, the rule marked as running is its rule, nothing waits unless something runs or the gate is
closed), `CountsMatchTheQueue` from `CountInv`, with lemmas about the places of a rule in a sequence
after `Append` and `Tail`; `QueueTypes` (`TypeOK`), which rests on it, as the counter of a rule would otherwise go below zero.
`Ids` says that `NoRule` is not a rule.

### OfflineTasksProofs

`ClientIsNeverClosedInUse` (`ClientStaysOpen`), `AcceptedDownloadsAreKept`
(`AcceptedIsKept`), `SlotsAreCounted` (`TypeOK`) from `OffInv`: types, the two counters equal to the numbers of
holders (`Counted`), a restart of the client has no magnet task at work (`Restart`), and a task that was handed
over is in the upload queue before its record goes (`Handed`). `CleanUpsKeepData` (`CleanUpKeepsData`, an action property)
from `CleanInv`: what the clean-up could know of and has still to keep is kept, first by its record and, once the uploads
have been read, by its upload too (`Seen`). The order matters: the clean-up looks at the records before it looks at the uploads, and a
hand-over puts the upload there before the record goes, so a task that neither look has found needs nothing any more.

### ServicesProofs

- *Bus*, from `BusInv == TypeOK /\ Split /\ Logged /\ Promise /\ Waited /\ Numbered`:
  `HandlersSeeEventsInOrder` (`InOrder`), `CloseDrainsTheQueue` (`DrainedAtClose`), `NoHandlerAfterClose`
  (`QuietAfterClose`). The accepted events are those taken followed by those in the queue (`Split`); each
  handler's log is the taken ones up to its turn (`Logged`); what was promised before Close is in
  one of the two (`Promise`).
- *Cache*: `CachedListsAreFresh` (`ListsAreFresh`) from `CacheInv`. Being fresh when all is quiet is not inductive; what
  is, is that a list that is not the directory's has something coming that heals it (`CacheHeals`: a
  writer that has still to apply its change, or a change in the bus), unless it was stale when it was stored (`late`).
- *Restore*: `StagedFilesStay` and `RestoresEndWithResult` for any number of faults, `RestoresAreWhole` (`RestoreIsWhole`) and
  `RollbacksTouchNothing` under `OneFault`; all under `NoCancelCrash`. Both hypotheses are those of the run, and the table above has
  a row for what happens without each. `BackupInv` ties the step of the process to the plan; `WholeInv` follows the three files
  through a replacement and through an undo (`BackupKeys`, `BackupSettings`, `BackupFull`, `BackupEven`): an undo is entered
  only by the one fault, so the rollback directory is from before anything was replaced, and the undo itself cannot
  fail. `EndedInv` keeps a plan until its result is written; `UntouchedInv` says where, at each step, the files
  are that the application last had.
- *Scheduler*: `RoundsAreSerial`, the safety part of `LoopIsOrderly`, from `SchedOne`: a goroutine of the loop that has not
  yet cleared `running` is the only one, and `startLoop` looks at `running`.
- *Pages*: `PagesComeToAgree` (`PagesAgree`) carries `UploadBroadcastProofs` over to the instance of `MCServices`:
  `PageP` is an instance of the proof module, and the lemmas show that the two instances have the same steps.

### JobsProofs

- *Organising*: `OneOrganizeRunner` from `OrganizeInv` (a runner has the mark, which `startRunner` takes in the section that
  starts it). `PlansAreCarriedOutOnce` (`OnePlanOneRunner`) from `PlansInv`, under `OneOrganizer`: the plan somebody is
  about to carry out has not been carried out, since the runner that did removes the file before it gives the mark back,
  and a caller that has read the file and found no runner is the only one who could start one. Two callers break this (table above).
- *STRM*: `FilesAndMarksAreKept` (`FilesAndMarksMatch`) from `StrmInv`: the file lock of a task has one owner, a
  goroutine or a call (`OneOwner`), and a mark is that of a run that has not cleared it (`MarkedRuns`).
  `PausesOutliveScans` (`ScanEndKeepsPause`) from `PauseInv`: a run that owes a pause stands for a row that has
  one (`PauseStands`), which needs that only tasks that exist are worked on (`Born`).
- *Automation*: `RulesQueueUp` (`RunsQueueUp`), carried over from `AutomationProofs` by the instance `RuleP`.

Proved about their module and checked by a run only as part of a conjunction: `FlushesAreSerial`, `ChannelsKeepTheirCapacity` and
`PagesConverge` (in `PagesAgree`), `RulesRunOneAtATime`, `RunsStartInOrder`, `CountsMatchTheQueue` and `QueueTypes` (in `RunsQueueUp`),
`OneOrganizeRunner` (in `OnePlanOneRunner`), `AcknowledgedSurvives` (in `PromisesAreKept`), `StagedFilesStay` (in `RestoreIsWhole`),
`RestoresEndWithResult` and `RollbacksTouchNothing` (in `RestoreEnds`), `RoundsAreSerial` (in `LoopIsOrderly`).

Model-checked only: the liveness properties (`StopsAreObeyed`, `ResumeIsAnswered`, `PendingIsServed`, `AcceptedIsHandled`,
`StartsAgain` of `RestoreEnds`, `ReadersAnswered`, `GateOpens` and `StopIsObeyed` of `LoopIsOrderly`, `PagesCatchUp`, `AccountIsFreed`,
`AcceptedIsStarted`, `ProgressSettles`, `HttpIsServed`). Liveness under fairness and `ENABLED` are out of this prover's reach,
and so is induction over data. No module declares a `RECURSIVE` operator.

## 5. Not modelled

The map covers the parts of these services that change shared state, some 5,500 lines of about 179,000. Most
of the remainder is sequential: eleven clients of remote HTTP services, parsers and scrapers
(`strm/jav_metadata.go`, `jav/catalog.go`, `strmscrape`, `tgsubscribe`), HTTP handlers and their encoding, proxies,
SQL statements and an administrative web interface. Drivers and remote services are nondeterministic
answers in the models; parsers, protocol translations and user interfaces keep no state that interleaves, and a
model of them would be a transcript.

Within the modelled components: contents, speeds and messages of progress; batch deletion (a loop over the steps of
Delete); de-duplication by `client_task_id` and the announcement of completed groups; cross-transfer and
server-local sources in `UploadPersist`; move, copy and rename in `FileCache`, which apply the same mutation to more
directories; eviction; archive formats and encryption; single-directory generation of STRM files; the steps of an
automation run; edits of single actions of a plan; downloads carried out by a cloud drive. A row is
written atomically (one SQL upsert over one connection). `PROJECT.json` gives the reason for each component.

Hazards known and not covered, besides those of `PROJECT.json` without a property: the rollback of a batch
removes the head of a queue without waking the workers and announces nothing to pages (`manager.go:187`); the message of
a parked task is changed without telling the subscribers (`queue.go:162`); a create that repeats a `client_task_id`
is answered with a task whose batch may still be rolled back (`manager.go:171`); the completion of a group is
announced by whichever member finishes last (`manager.go:606`); two uploads into the same new folder may both create it
(`target_dir.go:107`).

## 6. Plan

Done: the upload subsystem, what it depends on (credentials, scheduler, bus), the cache, backup, and the
task services; a theorem for every safety property the runs check. Next, in this order:

1. Weaker hypotheses: `PlansAreCarriedOutOnce` for callers that do not apply the same plan, `RowsStayGone` for callers of
   different batches, `RestoresAreWhole` for any number of crashes as long as at most one file operation fails.
2. Abstract specifications with their refinements proved, after the pattern of `SlotPool`: a mutual exclusion that the file lock of
   `StrmTasks`, the mark of `OrganizeTasks` and the lock of `AccountAuth` implement, and an atomic restore for `PendingRestore`.
3. `CacheRetention`, with the marks and pauses of `StrmTasks`, and `taskauth`, which routes the account events to the pauses;
   then `AccountAuth`, `EventBus` and `StrmTasks` composed, to state that a recovered account's tasks go on.
4. `client_task_id` and groups in `UploadPersist`, composed with `OfflineTasks`: a group is announced once.
