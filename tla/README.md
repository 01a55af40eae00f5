# X-Factory in TLA+

X-Factory takes a ticket and moves it, stage by stage, to a pull request: it
prepares a worktree, lets a model understand the ticket, plan the change, write
it and review it, waits for a human at each gate, and delivers. This directory
specifies the parts of it where several processes meet, checks them with TLC and
proves the most important of them with TLAPS. All paths below are relative to
the repository root.

## The system

Two kinds of process share one SQLite database (WAL, one writer at a time) and a
directory of files:

* the **API process** (`src/server.ts`) serves the operator: it creates runs,
  approves, restarts, requeues, resumes, stops and abandons them, and streams
  events;
* any number of **workers** (`src/worker.ts`) claim jobs and commands, run stage
  executors and commit what they return.

| Component | State | Operations | What makes it correct |
|---|---|---|---|
| Run policy and routes (`src/shared/run-status-policy.ts`, `src/workflow.ts`) | none | `canTransition`, routes per stage outcome and operator action | every route is a move the table permits |
| Run service (`src/runs.ts`, `src/db/run-repository.ts`) | `runs` | create, approve, restart, requeue, retry review, resume, stop, abandon, create PR | a run in a live status has work; a terminal run stays terminal |
| Job queue (`src/db/job-repository.ts`) | `jobs` | create, claim, renew, release, complete, fail, reject, requeue, cancel | one active job per run, of the stage the run is in; nothing stranded |
| Lease module (`src/lease.ts`) | the lease columns | claim, renew, release, sweeps, settlement, orphan recovery | lost workers lose no run, and late ones change nothing |
| Stage attempts (`src/db/stage-attempt-repository.ts`) | `stage_attempts` | start, complete, fail, cancel, latest | a job is completed by one attempt |
| Stage runner (`src/stage-runner.ts`) | an attempt in flight | gate, heartbeat, re-read, five commits | a commit is all or nothing, and only by the leaseholder |
| Worker (`src/worker.ts`) | `currentJob`, loops | startup recovery, job loop, command loop, pull request loop, shutdown | a stop gives back what it took |
| Run commands (`src/db/command-repository.ts`) | `run_commands` | insert or retry, claim, renew, complete, fail | one deliver per run; every request is decided |
| Delivery and ledger (`src/executors/deliver.ts`, `src/db/operation-ledger-repository.ts`) | `operation_ledger`, the worktree, the remote | commit, push, open a pull request, reconcile | the ledger says completed of what has happened; run and command end together |
| Creation claim (`src/services/creation-claim.ts`) | a claim file per project id | acquire, reclaim, renew, release, assertHeld | one holder at a time; a crashed one does not block the id |
| Project creation (`src/services/project-creation.ts`, `src/config.ts`) | `projects.json`, the secret store | create, update, migrate | a record has its own secrets; a losing creation writes nothing |
| App events (`src/db/event-repository.ts`, `src/http/app-event-hub.ts`, `src/frontend/lib/app-events.ts`) | `run_events`, the hub's head and subscribers, a cursor per browser tab | append, snapshot, subscribe, catch up, poll, apply, reconnect | no gap below a cursor, order within a connection, every event arrives in the end |
| Pull request checker (`src/pull-request-checker.ts`) | due times and lost projects, per process | check, back off, record an outcome | one outcome per run, for good |
| Attempt loop (`src/attempt-loop.ts`) | the attempt, the script's process | run the script, count its iterations, verify, repair | verified work was paid for; a stop ends it |
| Model gateway and budgets (`src/model-gateway.ts`, `src/model-budgets.ts`) | slots and queue per model, calls of the day | check, acquire, count, retry, hand over | no slot lost; the overshoot of a budget is bounded |
| Migrations (`src/db/migrator.ts`) | `schema_migrations` | open, migrate, serve | each applied once, in order, before anybody serves |
| A run's page (`src/frontend/lib/run-state.ts`, `useRunDetail.ts`, `src/http/runs-controller.ts`) | the cached run, the log, a stream per page | load, poll, replay, follow, patch, resubscribe | a page at rest shows the run's end and the whole log up to it |
| Providers, inspection, HTTP, the frontend's rendering, backup | none shared, or client-side | I/O | not modelled, see below |

They meet in four ways: in the tables (an API transaction cancels the job a
worker is running), through the lease (a worker's silence is another's chance),
through commands (a stop or a deliver for a worker), and in files (the claim).
What is hard: a worker may stall past its lease and wake up later; it may die
between any two writes; the operator may act at any moment; sweeps act on lists
read earlier; and every retry must neither lose work nor do it twice.

## Modules

* **RunPolicy** has the status table, the status sets and the routes, as data.
* **JobLease** is the core: runs, jobs, stage attempts, workers, operator. Its
  actions are the transactions of the code.
* **RunWork** says what a run promises with jobs, workers and leases left out: a
  status, and work that is none, pending or claimed. JobLease implements it
  (`ImplementsRunWork`, with `work` mapped to `workOf`).
* **RunCommands** has the statements on the `run_commands` table, as operators.
* **Delivery** composes them with the workers' command loop, the deliver
  executor, the operation ledger, and git, the remote and the host as external
  actors. It shares with JobLease the pattern of a lease and a compare-and-set
  commit, and no state: a run is in Delivery's hands from `ready_for_pr` on, where
  it has no job.
* **RunDelivery** says what a delivery promises with commands, leases, workers and
  the ledger left out: asked for, committed, pushed, opened, delivered, in this order
  and once each, or given up or abandoned. Delivery implements it
  (`ImplementsRunDelivery`, with `request` read off the command and `branch` off git).
* **CreationClaim** has the steps of a call of `withCreationClaim` outside its
  action: the claim file, its takeover and its release.
* **ProjectCreation** composes it with the action: what creations and updates
  write to the project while they hold the claim.
* **AppEvents** is the app-wide event stream from the worker's insert to the event's
  application in a browser tab.
* **ModelGateway** is one lane of the gateway with the model's daily budget.
* **AttemptLoop** is the execute stage's loop around the script it runs.
* **PrChecker** is the checks of one delivered run by the two loops of each worker.
* **SchemaMigration** is how several processes bring one file to their schema.
* **RunPage** is the page of one run with its own event stream, both ends of it, racing
  the answers to its GETs; it uses RunPolicy's transition table, as the reducer does.
* **MCJobLease**, **MCDelivery**, **MCProjectCreation** and **MCServices** instantiate
  them for TLC; the `.cfg` files set the bounds.
* **Services** composes the last six, which share no state, side by side. MCServices
  starts one of them at a time: each of its behaviours is one of one of them.
* **JobLeaseProofs** (types), **JobQueueProofs** (the queue and the runs),
  **AttemptProofs** (attempts, retry budget, bounds) and **RunWorkProofs** (the
  refinement) prove theorems of JobLease; **DeliveryProofs**, **CreationProofs** and
  **AppEventsProofs** those of their modules; **ServiceProofs** those of the other five
  services and of the composition.

### How JobLease corresponds to the code

| JobLease | code |
|---|---|
| `status` | `runs.status`, `"absent"` before the row exists |
| `jobs`, `njobs` | the `jobs` table in order of `created_at`; `expired` stands for `lease_until` in the past, `waiting` for `available_at` in the future |
| `rows`, `nrows` | `stage_attempts` in order of start; `job` is ours, the table has no such column, and only properties read it |
| `pc[w]` | where `Worker.start`, `pollLoop`, `StageRunner.run` and `Worker.stop` are |
| `task[w]` | the job in the worker's hands: its id, the attempt number and row it began, and the run status it read at the gate (`expectedRunStatus`) |

An action is one transaction or one autocommit statement with the synchronous
code around it. Where the code makes two writes in two transactions there are two
actions: `Claim` then `ClosePrior`, `RejectAttempt` then `CommitRejected`. The
executor runs between `BeginStage` and `ExecutorReturns`; what it returned nobody
else can see until it is committed, so the outcome is chosen at the commit, among
those the stage's executor can return (`Outcomes`).

Time is two flags per job. Any unrenewed lease may lapse (`AbandonedLeaseLapses`);
a lease under a worker that is still on the job lapses as a fault (`LeaseLapses`),
because nothing bounds how long an event loop stalls. Crashes, shutdowns and
failed writes (`SQLITE_BUSY`, a full disk) are faults too. `faults` counts the
shutdowns, which give attempts back, apart from the others, which do not.

### How Delivery corresponds to the code

| Delivery | code |
|---|---|
| `cmd` | `run_commands`: deliver commands by their run, stop and check commands by name; `lapsed` stands for `lease_until < now` |
| `run` | `runs.status` of a reviewed run: ready, delivered, or abandoned (`failed`) |
| `ledger` | `operation_ledger`, an entry per run and operation; `pre` is the metadata of a pending commit, `preCommitSha` |
| `git` | per run: whether the worktree is dirty, and the delivery commits of its HEAD, of its remote branch, and its open pull requests |
| `worker[w]` | a process for its lifetime (worker ids are fresh uuids): `mode`, its heartbeat row (`fresh`), the rest of the batch `commandPollingLoop` iterates, and its executor: `step`, operation, and what it read (`pre`) |
| `stray` | the subprocesses and requests of dead workers: each may still take effect, at any later time |

The executor is a sequence of awaits, and every action is the code between two of
them: `Look` reads the entry and decides, `Prepare` and `Reconcile` ask git or the
host, `RecordPending`, `DoOperation` and `RecordCompleted`/`RecordFailed` are the
three writes of `executeWithLedger`. `DoOperation` covers the four ways an
operation ends: not at all, done, done but reported failed (a timeout or an abort
after the effect), and cut off by the worker's death (`LeftBehind`, `Land`).
`AfterClaim` is one action because `claimCommands` runs its statements in one
immediate transaction; the batch is a set because `UPDATE ... RETURNING` promises
no order. The stage attempt row of a delivery is left out: nothing reads it.

External, by how the code uses them: a clean worktree cannot be committed
(`safeCommitAll` throws), a push takes the branch as it is, the host refuses a pull
request for a branch without commits and a second one for a branch. Nobody else
commits in a run's worktree.

### How the creation modules correspond to the code

| CreationClaim, ProjectCreation | code |
|---|---|
| `path`, `tomb[c]` | the file at the claim path, and at the call's `.stale-` or `.rel-` tombstone; a file is named by the call that created it, which is its token and tells its pid |
| `written` | the files whose token has been written |
| `seen[c]` | the token of `observed`, or the call's own in `release` |
| `at[c]` | the next await of call `c` |
| `record` | the project's entry in `projects.json`, as the call that wrote it |
| `env`, `loaded[c]` | the env file, and the copy a call has loaded to write back |
| `shared` | history, not in the code: the claim has failed to be exclusive |

There is one project id. An action is the code between two awaits, so the token
may change between `Observe`, `Judge`, `MoveAside` and `Verify`, and the claim may
be lost between `Fence` and the write it guards. `reclaimIfAbandoned` and `release`
share `MoveAside`, `Verify` and `GiveBack`, which are the same code twice; `seen[c] =
c` tells them apart. Time is left out: any claim may be found past its TTL or not,
whatever the heartbeat did, and any waiting call may find its deadline passed. A pid
is not used again. A file is written at once or not at all; a half-written env or
config file is not modelled. `migrateProject` writes its successor as a creation
does and is not modelled beyond that, `deleteProject` not at all.

### How the service modules correspond to the code

| AppEvents | code |
|---|---|
| `top`, `app` | the highest id of `run_events`; the ids of the types the stream carries |
| `hub` | `AppEventHub`: `head`, whether `timer` is set, the subscribers with a live connection, and how many have lost theirs and were not cancelled yet (`ghosts`) |
| `loop` | the loop the API process is in: a `tick`, or a `catchUp` with its `since` and `wasPolling` |
| `tab[t]` | a browser tab: its snapshot's cursor (`base`), `currentCursor`, `seenEventIds`, and what its connection carries (`pipe`) |

JavaScript runs `tick` and `catchUp` to their ends, but each page is a query of its
own and the worker appends from another process: a page is an action, and nothing
of the API process moves between the pages of a loop (`loop`). SQLite allows one
writer, so ids appear in order.

| ModelGateway | code |
|---|---|
| `active`, `waiting` | a lane's fields |
| `at[c]` | where `ModelGateway.run` is for a caller; `"granted"` has a slot and sent nothing yet |
| `aborted` | the callers whose `signal` is aborted |
| `spent` | today's rows of `model_calls` for the model |

| AttemptLoop | code |
|---|---|
| `step`, `attempt`, `result` | where `runAttemptLoop` is and what it returned |
| `script` | the process: how many iterations it announced, how many of the lines were read, and how many counted |
| `budgetStop`, `stopSignal` | the variables of these names (`signal`), either of which aborts `loopAbort` |
| `calls` | as `spent` above; `OtherCall` is another stage's |

| PrChecker | code |
|---|---|
| `due[p]`, `unresolvable` | `nextDueAt` (passed or not) and `unresolvableRuns` of each process |
| `check[p][l]` | where `checkRun` is, called by `prPollingLoop` or by a command, and what the host answered |
| `recorded` | the `pr_merged` and `pr_closed` events of the run |
| `request` | the run's `check_pr` command is active; how it is claimed is RunCommands' matter |

`appendEvent` looks for an outcome and then inserts one, two statements of one
process between which another may insert (`"insert"`); the unique index decides.

| SchemaMigration | code |
|---|---|
| `schema`, `ran` | the rows of `schema_migrations`; the migrations in the order they took effect |
| `writer` | the write lock `BEGIN IMMEDIATE` takes |
| `opener[p]` | a process in `openProcessDatabase`, and the migration it comes to |

| RunPage | code |
|---|---|
| `events` | the run's rows of `run_events`, by `sequence`; the last status event is the run's status and its `updatedAt`, written in one transaction |
| `page` | the query cache: `["runs", id]` (`status`, `at` for `updatedAt`), `["run-events", id]` (`log`), and the timer of `scheduleRunInvalidation` |
| `get` | the GET of the run in flight: asked, or answered and not arrived |
| `stream` | the `EventSource` with `replayOnly`; `taken` is the last id it received, `sent` the server's `lastSequence`, `checking` the server between the two reads of `pollEvents` |

The answer of a GET replaces the cached run whatever has patched it since, and an
invalidation cancels the GET in flight: so TanStack Query does it. A stream that dies
silently (`"deaf"`) is why the page polls. Events are compared by sequence number
where `reduceRun` compares timestamps, which are taken in that order.

## Runs

| run | configuration | shows |
|---|---|---|
| `job_lease` | MCJobLease.cfg | all safety, the retry budget, and `ImplementsRunWork` |
| `job_lease_live` | MCJobLeaseLive.cfg | `RunsComeToRest` under fairness |
| `stop_spends` | MCStopSpends.cfg | finding 1 |
| `reclaim_closes` | MCReclaimCloses.cfg | finding 2 |
| `revises_plan` | MCRevisesPlan.cfg | finding 3 |
| `delivery` | MCDelivery.cfg | one delivery under faults: safety, `ImplementsRunDelivery`, and `RequestsSettle` under fairness |
| `delivery_batch` | MCDeliveryBatch.cfg | two executors of one delivery with no fault at all |
| `commit_recoverable` | MCCommitRecoverable.cfg | finding 4 |
| `abandon_leaves_remote` | MCAbandonLeavesRemote.cfg | finding 5 |
| `creation` | MCProjectCreation.cfg | two creations and an update of one project: safety, and `EveryCallEnds` under fairness |
| `claim_exclusive` | MCClaimExclusive.cfg | finding 6 |
| `services` | MCServices.cfg | the six service modules, one at a time: safety, and three liveness properties under fairness |

**What `job_lease` asks.** `OneActiveJobPerRun`, `ActiveJobFitsRun` and
`LiveRunHasWork` relate the queue to the runs: one active job, of the right stage,
exactly while the run can execute. `PendingJobsAreClaimable` says no path that
hands a job back strands it. `CompletedOnce` says late workers complete nothing
twice. `LeaseholderSeesItsRun` is why the commits that skip a check are safe:
`commitRejected` looks at no status and `pauseForBudget` looks at it only after it
has ended the job, and neither loses anything because every action that moves a
run also takes its jobs away. `PassedStageCommits` says `commitPassed` never
throws in `transitionRun`. `EndedStaysEnded` says terminal runs, ended jobs and
completed attempts are final. `RetryBudgetKept` counts what the budget is for: how
often a job's stage was begun, at most `MaxAttempts` times and once more for each
shutdown. Only shutdowns are in that bound, so a crash, a failed write, a lapsed
lease or the takeover after it must leave what it broke off counted; the mutant that
does not count a takeover breaks it. Each property has a mutant: a plausible change
of the code under which TLC finds it violated.

**Bounds.** One run: no action but `Claim`'s choice of the oldest job relates two
runs, and the proofs cover any number. Two workers are enough for every race
between a late worker and its successor. `MaxAttempts = 2` has a retry and an
exhausted budget. `MaxJobs = 3` has prepare and understand (or plan and execute),
then one job an operator's action or a resume adds. `MaxFaults = 1` has any one
crash, shutdown, failed write or lapsed lease at any point, with everything the
other worker and the operator do around it. The importer's two statuses are one
at rest and one executable without a job. `RoomFor` keeps an operator's action
from using the last job ids that stages already under way will need, so that the
bound never blocks a commit (`PassedJobsFit`). With its runs at rest the system only polls, so
deadlock is not checked.

**Fairness** (`Fairness`, used by `job_lease_live` alone). The worker loops go on
(`while (this.isRunning)`), a process that is down is started again, an executor
ends because every model call and subprocess has a timeout, an unrenewed lease
lapses and a backoff elapses by the clock. No fairness on the operator, on faults,
or on a lease that lapses under a running worker. Faults are bounded: a system
whose workers crash for ever need not make progress. A run the importer wrote
without a job is excluded (`HasJobs`): it waits for some worker's next startup.

**What `delivery` asks.** `LedgerTellsTheTruth`: two executors of one run, a retry
after a crash and a stray push write the ledger in any order, and an entry that
says completed is true. `DeliveredTogether`: run and command end in one
transaction, by whichever executor still holds the command, and the pull request
is then open on the commit. `ImplementsRunDelivery` is the promise as a whole: nothing
touches the branch of a run nobody asked for, the commit, the push and the pull request
come in this order and once each, whatever is retried and whoever is still at it, and
run and request end together after all three. `EndsStayEnded`: an executor under way does not revive an abandoned run.
`RequestsSettle`: a deliver command ends completed or failed, so `createPR` does
not answer "queued" for ever.

**Bounds.** One run: commands of different runs meet only in a batch, and the
proofs cover any number. Two workers: the holder and its successor. `MaxAttempts =
2` has a retry and an exhausted command. `delivery` has one stop command and one
fault; the same safety properties also hold with two faults. `delivery_batch` has a check in front of
the delivery, whose lease nobody renews meanwhile, so that a second worker takes it
over without any fault; it drops the faults to stay small.

**Fairness** (in `FairSpec`). Command loops go on and claim; an executor's next
step comes, as its subprocesses and requests have timeouts and its database calls
return; a stopping process exits; a lease that nobody renews lapses and a dead
worker's heartbeat gets too old, by the clock. Workers start, at least the two. None
on the operator, on faults, on renewals, or on stray effects. Faults are bounded:
if every worker crashes for ever nothing is delivered.

**What `creation` asks.** `ExclusiveAmongTheLiving`: while no process has died, no
waiting call takes over the claim of a slow holder. `DestroysOnlyTheDead`: a call
that moved the wrong claim aside puts it back. `RecordHasItsSecret` and
`LoserWritesNothing` say what the claim is for: no project without its secret
between any two writes, whatever fails or dies, and a creation that loses changes
neither record nor secrets. Both are stated for as long as the claim has been
exclusive (`~shared`), since finding 6 shows that a death can end that.
`EveryCallEnds`: nobody waits for ever, not even for a claim nobody will release.

**Bounds.** Three calls, one in a process of its own; one process dies at any point.
With three calls a death cannot make two of them share the claim, with four it can:
`claim_exclusive` has the fourth, and the theorems hold for any number. One env key
is shared by the update and a creation, so that an update keeps or replaces the key.

**Fairness.** A call of a live process goes on, and a waiting call eventually finds
its deadline passed (strong fairness of `TimesOut`: the deadline is checked in each
iteration and stays passed).

**What `services` asks.** Of the stream: `NoGap`, since the cursor is all a tab
brings to its next connection, an event the cursor passes over is lost for that tab;
`StreamAscends`, across the replay and the shared poll; `PollsWhileWatched`; and
`EveryEventReachesEveryTab`, the recovery contract of `app-events.ts:105`, through
lost connections, failed reads and restarts. Of the gateway: `SlotsAccountedFor` and
`QueueOnlyWhenFull`, because a slot passes from a release to a waiter that a stop may
take out of the queue; `OvershootBounded`, because a call is counted some time after
its check; `QueueDrains`. Of the attempt loop: `VerifiedIsCounted`, although the
script never waits for the count, and `StopEndsTheLoop`. Of the checks:
`OneOutcomeForGood` when two workers see different answers, `OutcomeIsRecorded`. Of
the migrations: `AppliedInOrder` and `ServesMigrated`, although the version that
selects the pending ones was read outside the lock. Of a run's page:
`RestsAtTheEnd`. A finished run is never polled and its stream stops at the first
error, so what a page shows once it has nothing left to do must be right: a late answer
may have overwritten the end with an earlier status, the stream may have died without
a word, and the run may have ended between the two reads of a poll that then closes a
stream that never carried the end. The type of `page.log` says that the log has no
hole, since its last entry is where a reopened stream goes on.

**Bounds.** Two tabs, three events, pages of two: a replay and a tick of more than one
page, beside another tab. One fault anywhere (it may be a lost connection, a failed
read or a restart). Three callers of one slot: a holder, a waiter and a newcomer; a
budget of two, one backoff. Three attempts of two iterations against four calls and one
call of another stage, so that the budget ends in any of the attempts. Two workers,
each with both loops, one mishap, one reopening of the pull request. Three processes
of two builds, two faults, the file new or left at any version. A run with up to two
events after its first, whose review is retried or fails, and one fault; the same
holds with four events, a stop and two faults. Loops that returned
and processes that serve have nothing left to do, so deadlock is not checked.

**Fairness.** The API process goes on with its loops and its interval
(`HubGoesOn`); a tab goes on with what its connection brings and reconnects
(`TabGoesOn`: `scheduleReconnect` has no limit). A caller of the gateway goes on and a
call ends, by its stage's time limit (`CallerGoesOn`). A worker's loops poll for ever
and their awaits end (`LoopGoesOn`), and a due time comes (`Elapses`). None on the
worker's inserts, on faults, on a tab that never takes a snapshot, on stops, or on
the host. Faults are bounded.

## Findings

1. **A stop in time keeps the lease.** `docs/reference/state-machine-matrix.md:120`
   says stops never use up a job's retry budget. `Worker.stop` waits for the
   processing promise and then releases `currentJob`; if the executor ends within
   the grace, `runClaimedJob`'s `finally` has cleared `currentJob` by then. The
   job stays claimed until its lease lapses and the attempt stays spent.
2. **A reclaim may close another job's attempt.** `getLatestAttempt` orders by
   attempt number over every job the stage ever had; the first attempt of a job a
   resume created is not the latest. Its row stays `running` (`src/lease.ts:566`).
3. **A requeued run may be executed without a new plan.**
   `docs/reference/state-machine-matrix.md:93` says the plan is revised first.
   `resumeRun` goes by the last recorded attempt: if the plan job is lost before it
   records one, the resume re-enters at execute.
4. **A commit reported failed is lost.** `executeWithLedger` records `failed`
   whenever the operation throws, also when the commit was made and only its answer
   was lost, or when a second executor's attempt fails on the tree the first one
   cleaned. Only pending entries are reconciled, so each later delivery prepares
   anew and `safeCommitAll` throws "Nothing to commit" (`src/git.ts:297`).
   `src/db/operation-ledger-repository.ts:168` says the mutation is executed
   idempotently. The safety properties hold all the same: the run stays ready.
5. **An abandon does not reach a delivery.** `docs/reference/state-machine-matrix.md:117`
   says `abandon` changes nothing on the remote. The executor's watch aborts on
   `stopped` only, and a ready run has no job to stop, so a delivery under way
   pushes and opens a pull request for a run that has ended. Its commit is refused
   (`EndsStayEnded`).
6. **A takeover can let two calls in.** `reclaimIfAbandoned` renames whatever is at
   the path and compares the token afterwards. Two calls judge a dead holder's claim
   abandoned; one takes over and holds it; the other moves that live claim away; a
   third call creates its own before it is linked back. Both are inside.
   `src/services/creation-claim.ts:294` says this cannot happen. `assertHeld` narrows
   the window and does not close it: the write after a fence is a step of its own.

## Proofs

All theorems hold for any sets of runs, commands and workers and any bounds.

Of **JobLease**, from `ConstantsAssumption`:

* `TypeCorrect`: `Spec => []TypeOK`. `TypeOK` is inductive because it says more
  than types: tables have no gaps (`JobsTable`, `RowsTable`), a claimed job has an
  owner and counts its claim, and a working worker's job and row exist
  (`WorkersOK`). One lemma per group of actions (`ApiType`, `SweepType`, ...).
* `QueueInvariant`: `Spec => []QueueInv`. `QueueInv` is `TypeOK` and, for each
  run, that it has at most one active job, that this job fits the run's status,
  that a run with an executable status has one or was imported, that an absent run
  has none (`AbsentRunHasNoJobs`), and that pending jobs have attempts left and
  leaseholders see their run. The parts need each other: `CommitRejected` keeps
  `ActiveJobFitsRun` because the leaseholder's job is the run's only one and so
  nothing else is left active when the run fails; `LeaseholderSeesItsRun` holds
  because an action that moves a run ends its active job, which is the
  leaseholder's own; an operator's action creates a job without looking for one
  because a run at rest has none. `AbsentRunHasNoJobs` is what `CreateRun` needs.
  The argument is per run: `OtherRunsStay` frames the runs an action does not
  touch, and a few safe moves (`RouteSafe`, `JobFailsSafe`, `HandedBackSafe`,
  `QuietSafe`) cover all the actions.
* `OneJobCorrect`, `FitCorrect`, `WorkCorrect`, `PendingCorrect`,
  `LeaseholderCorrect`, `PassedCorrect` follow from it.
* `CompletedCorrect` and `EndedCorrect`: `CompletedOnce` and `EndedStaysEnded`, from
  `AttemptInv`: `QueueInv` and, besides `CompletedOnce`, that a worker at an attempt
  has a row of its own which is not completed (`OwnRowOpen`, `RowsNotShared`), and that
  a backoff holds back pending jobs only (`OnlyPendingWait`). `CompletedOnce` alone is
  not inductive: a late commit could complete a row that another worker shares. All
  actions but `BeginStage` and the passed commit only write jobs that can still run and
  rows that run (`Kept`); those two have a lemma each.
* `RetryBudgetCorrect`: `RetryBudgetKept`, from `BudgetInv`. A claim counts an attempt
  and begins at most one, so the attempt numbers of a job's rows lie in
  `1..MaxAttempts` (`RowsCounted`), and two rows of one job have one number only where
  a shutdown gave an attempt back. What it gave back is followed as a refund, from the
  worker that stops (`Indebted`) to the job it releases (`Refunded`), the worker that
  claims that job next, and the row that worker begins (`Repeated`). A step moves a
  refund or drops it, and only a shutdown makes one: there are never more refunds
  than shutdowns (`RefundsPaid`), and the other faults make none (`FaultUncounted`,
  `ClockUncounted`). The rows of a job are its fresh numbers and its repeated rows,
  `MaxAttempts` and `faults.shutdowns` at most (`TwoParts`).
* `AttemptsFit`: `Spec => []RoomForAttempt`, from the same invariant: a worker about to
  begin an attempt finds a free row, so `MaxRows`, which is a bound of the model and not
  of the code, disables nothing.
* `PassedJobsFit`: `Spec => []RoomToPass`, from `RoomKept`: the jobs there are and one
  more for each active prepare job never exceed `MaxJobs`. So `MaxJobs`, which only
  operator's actions look ahead for (`RoomFor`), keeps no passed stage from its commit.
* `QueueImplementsRunWork`: `Spec => ImplementsRunWork`, from `QueueInv`. A step writes
  one run and that run's jobs; as a run has at most one active job, its `work` is that
  job's status, and the step is RunWork's move of that run or leaves it as it is. A
  spent job is settled out of a worker's hands, never out of the queue, because
  pending jobs have attempts left; a recovered run was executable without a job.

Of **Delivery**, from `CommandsAssumption` and `DeliveryAssumption`:

* `DeliveryTypeCorrect`: `Spec => []TypeOK`. Inductive because a pending command
  has counted no attempt, so that a claim stays within `MaxAttempts`, and because a
  task names a run exactly while an executor is under way (`TaskFits`).
* `DeliveryInvariant`: `Spec => []DeliveryInv`. Besides the types: branches are
  `BranchOK` (effects happen once and in order), `LedgerTrue`, `EndsAgree`, and
  `ExecutorsKnow`: an executor that is on the push knows the commit was made, one
  that is done knows its operation has happened. The argument is monotonicity
  (`Grows`): no step of anybody takes an effect back, so what an executor once knew
  stays true however long it stalls, and what it writes is true whenever it writes
  it. `Together` reassembles the parts for each action.
* `LedgerCorrect`, `OneCommitCorrect` (no branch has a second delivery commit) and
  `TogetherCorrect` follow from it.
* `DeliveryImplementsRunDelivery`: `Spec => ImplementsRunDelivery`, from `RefineInv`,
  which adds `OnlyAsked` to `DeliveryInv`: workers and the strays of dead ones only name
  runs that have a command, and a command is never deleted, so that no effect comes
  unasked. An effect happens at most once because the preceding one is still there and
  a clean tree is not committed; one statement of the claim gives up several requests
  at once, which is why RunDelivery's `GiveUp` takes a set of runs.
* `EndsCorrect`: `Spec => EndsStayEnded`, from the types alone: every statement that
  writes a command or a run compares its status first (`InsertWrites`,
  `SettleWrites`, `ClaimWrites`, `LeaseWrites`).

Of **ProjectCreation**, from `ClaimAssumption` and `CreationAssumption`:

* `CreationTypeCorrect`: `Spec => []TypeOK`.
* `ClaimExclusive`: `Spec => []ExclusiveAmongTheLiving`, from `LiveInv`: while all
  processes live a call's claim is at the path from its creation until the call
  moves it away itself (`ClaimPlace`), since only a dead process's claim is moved
  by others.
* `DestroysCorrect`: `Spec => DestroysOnlyTheDead`, from `SeenInv`: what a call moves
  it has seen to be its own, or a dead process's, and the dead stay dead.
* `SecretsCorrect` and `LosersCorrect`: `RecordHasItsSecret` and `LoserWritesNothing`,
  from `ProjectInv`: only a call inside its action writes to the project, no other
  call is inside, so what it has learnt of the project stays true (`Knows`).

Of **AppEvents**, from `StreamAssumption`:

* `CursorsLeaveNoGap`, `ConnectionsAscend` and `HubPollsWhileWatched`, all from
  `FeedInv`. Of a tab (`Sound`): what it applied and what its pipe holds leave no hole,
  neither below its cursor nor below any event of the pipe. Of a connection
  (`SentUpTo`): it was sent what lies above the cursor up to a mark, and nothing above
  the mark. The mark is the shared head for a subscriber; for a replay it is how far it
  has read, or the shared head when others poll and it has read past that
  (`ReplayedTo`). A mark moves only with the page that covers the step. The case that is
  not obvious is a tab that joins while its own cursor is ahead of the shared head: it is
  owed nothing, and the next tick may send it what it has, which its `seen` forgives.

Of **ModelGateway**, from `GatewayAssumption`:

* `SlotsAreAccountedFor` and `QueuesOnlyWhenFull`, from `LaneInv`: the callers with a
  slot are as many as `active` says, and the queue lists exactly the queued ones. A
  release with a queue changes one holder for another.
* `BudgetOvershootIsBounded`, from `BudgetInv`: a check that passes finds `spent` below
  the budget and adds one caller to the uncounted, of whom there are at most as many
  as callers; a count moves one from the uncounted to `spent`.

Of the other four, in **ServiceProofs**:

* `MigrationsApplyInOrder` and `ServingIsMigrated`, from `SchemaInv`: a process has
  every migration below its next one applied, since `ran` only grows.
* `VerifiedWorkIsCounted` and `StopIsFinal`, from `LoopInv`: as long as no spent budget
  was met, what was read was counted, and the end of the script is looked at only
  when everything was read.
* `OutcomeIsForGood`, from the unique index.
* `PageTypes` and `PageRestsAtTheEnd`, from `PageInv`: a status on the page, or on its
  way to it, is one the run has had, so a terminal one is the run's (no status follows
  it); a replay-only stream exists only when the run has ended, and one that was served
  has been sent the end, or is going to be; what a stream brought is in the log.

Of **Services**:

* `ServicesTypeCorrect` collects the six type invariants. The composition only
  interleaves the services, so a behaviour of it satisfies each service's specification
  (the lemma `EachServiceAlone`) and the theorems above hold in it.

Every safety invariant and every action property that a run expects to pass is the
statement of a theorem. Only model-checked are the six liveness properties
`RunsComeToRest`, `RequestsSettle`, `EveryCallEnds`, `EveryEventReachesEveryTab`,
`QueueDrains` and `OutcomeIsRecorded`: liveness under fairness is beyond the prover.
The properties of the violation runs are false and have no theorem.

## Where comments and code part, without a run

Met while modelling the services; they are small, and the properties above hold
regardless.

* `src/http/app-event-hub.ts:17` says a subscriber gets "never an id at or below the
  subscriber's cursor". A tab whose snapshot is newer than the shared head of a poll
  already running joins at that head, and the next tick sends what lies between. The
  tab applies those events although its snapshot contains them; order is kept.
* `src/model-budgets.ts:6` says a budget of N "allows exactly N calls per UTC day".
  Concurrent callers that checked before any of them counted exceed it, by the bound of
  `OvershootBounded`.
* `src/attempt-loop.ts:236` says the budget is "Checked after each counted iteration";
  the code checks before it counts (`src/attempt-loop.ts:464`). The iteration that
  meets the spent budget has begun by then.
* `src/db/migrator.ts:97` says "Fails fast if the database schema is newer than the
  application code". The version is compared once, before the first migration: an
  older build that opens while a newer one migrates goes on to serve the newer schema.
  `ServesMigrated` therefore says "at least".
* `src/pull-request-checker.ts:297`: a worker whose insert the unique index refuses
  answers with the outcome it saw, not with the one recorded. Nothing reads it but
  the command's result.
* A check that finds the pull request open overwrites a longer `Retry-After` a
  concurrent check had set, and a run whose project was missing once is not checked
  again before the worker restarts. `OutcomeIsRecorded` makes its exception for that.

* `docs/explanation/ui-state-and-event-streaming.md:40` says of a finished run that
  "The replay already carries the full history". The server closes the stream at the
  terminal status event (`src/http/runs-controller.ts:205`), so what comes after it (the
  outcome of a pull request, the last lines of an executor that was being stopped) is
  not in the log of a page opened later; and a replay cut by an error stays cut until
  the page is opened again. `RestsAtTheEnd` therefore says "up to that end" and makes
  an exception for a failed replay.
* The same document says the user interface "always reflects true system state". The
  status does, in the end. The outcome of a merged pull request may be overwritten on
  the page of a finished run by an answer read before it, and nothing asks again until
  the window is focused.

## Not modelled

Contents: prompts, plans, diffs, outputs, event payloads, costs (the USD half of a
budget too). I/O without shared state: git and worktrees, subprocesses, providers
(`src/providers`, a mapping of requests per service), HTTP routing and its OpenAPI
description, inspection, configuration schemas, and the frontend's components, which
are most of the repository's lines: they hold tables, markup and wording, and no
order of steps to check. What the frontend does have of that kind is its event
streams, and those are AppEvents and RunPage; of a run RunPage has the status and the
log, not the verification, the review or the pull request. SQLite itself: a transaction is atomic and
isolated, or fails and rolls back (`WriteFails`). Backups run outside the life of the
processes. `claimJobForRun` claims by the same predicate as `claimNextJob` and is used
by single-step tools only. The deliver resume route is unreachable: no run with a
deliver attempt reaches `recovery_required`.

## Plan

1. **JobLease** with RunWork: done, its safety and the refinement proved.
2. **RunCommands** and **Delivery** with RunDelivery: done, their safety and the
   refinement proved.
3. **CreationClaim** and **ProjectCreation**: done for one project id, safety proved.
   Next: the other projects in the shared file, migration and deletion, half-written
   files, and the empty claim that blocks an id.
4. **AppEvents**, **ModelGateway**, **AttemptLoop**, **PrChecker**, **SchemaMigration**,
   **RunPage**: done, and their safety proved. Next: the USD budget.
5. Proofs: done for every safety property, both refinements and the model's bounds.
   Next: abstract specifications of the event feed of one tab and of a project's
   creation, with their refinements proved.
