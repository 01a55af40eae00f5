------------------------------ MODULE JobLease ------------------------------
(***************************************************************************)
(* The core of X-Factory: runs, their jobs, the lease a worker holds on a  *)
(* job, the stage attempts it records, and the operator's actions.         *)
(*                                                                         *)
(* The API process and the workers share one SQLite database.  An action   *)
(* is one transaction (or one autocommit statement) of the code, taken     *)
(* together with the synchronous code around it that no other process can  *)
(* tell apart from it.  Between two actions any other process may write.   *)
(*                                                                         *)
(* Wall-clock time is reduced to two facts per job: expired (lease_until   *)
(* has passed) and waiting (available_at lies in the future).  Nothing     *)
(* bounds how long a worker's event loop stalls, so a lease may lapse      *)
(* under a worker that is still running the stage.                         *)
(***************************************************************************)
EXTENDS Naturals, FiniteSets, RunPolicy

CONSTANTS
  Runs,          (* run ids                                                *)
  ImportStatus,  (* the statuses the legacy importer writes runs in        *)
  Workers,       (* worker ids; a restarted process keeps its id here,     *)
                 (* which is exact as the old process runs nothing any more *)
  MaxAttempts,   (* jobs.max_attempts                                      *)
  MaxJobs,       (* bound: jobs ever created                               *)
  MaxFaults,     (* bound: what goes wrong: crashes, shutdowns, failed     *)
                 (* writes, leases that lapse under a worker               *)
  NoRun, NoWorker

ASSUME ConstantsAssumption ==
  /\ MaxAttempts \in Nat \ {0}
  /\ MaxJobs \in Nat
  /\ MaxFaults \in Nat
  /\ ImportStatus \subseteq RunStatus
  /\ NoRun \notin Runs
  /\ NoWorker \notin Workers

VARIABLES
  status,   (* runs.status, or "absent"                                    *)
  jobs,     (* the jobs table, in order of creation                        *)
  njobs,    (* how many jobs there are                                     *)
  rows,     (* the stage_attempts table, in order of start                 *)
  nrows,    (* how many stage attempts there are                           *)
  pc,       (* where each worker's job loop is                             *)
  task,     (* the job each worker is on and what it remembers of it       *)
  faults    (* how much has gone wrong so far: shutdowns, and the rest      *)

db   == <<status, jobs, njobs, rows, nrows>>
vars == <<status, jobs, njobs, rows, nrows, pc, task, faults>>

JobIds == 1..MaxJobs

(* Every stage attempt uses up an attempt of a job, and only a shutdown gives *)
(* one back: more stage attempts than this are never recorded.                *)
MaxRows == MaxJobs * MaxAttempts + MaxFaults
RowIds == 1..MaxRows

NoJob  == [run |-> NoRun, stage |-> "none", status |-> "absent", attempts |-> 0,
           owner |-> NoWorker, expired |-> FALSE, waiting |-> FALSE]
NoRow  == [run |-> NoRun, stage |-> "none", attempt |-> 0, status |-> "absent",
           job |-> 0]
NoTask == [job |-> 0, attempt |-> 0, row |-> 0, seen |-> "absent"]

ActiveJobStatus == {"pending", "claimed"}
Active(j)       == jobs[j].status \in ActiveJobStatus
ActiveJobsOf(r) == {j \in JobIds : jobs[j].run = r /\ Active(j)}
ClaimedJobsOf(r) == {j \in JobIds : jobs[j].run = r /\ jobs[j].status = "claimed"}

JobOf(w)   == jobs[task[w].job]
RunOf(w)   == JobOf(w).run
StageOf(w) == JobOf(w).stage

-----------------------------------------------------------------------------
(* The repositories: what one statement writes.                            *)

(***************************************************************************)
(* createJob: a pending job of the run, after every job created before.    *)
(* next = "none" creates nothing.                                          *)
(***************************************************************************)
NewJob(r, stage) ==
  [run |-> r, stage |-> stage, status |-> "pending", attempts |-> 0,
   owner |-> NoWorker, expired |-> FALSE, waiting |-> FALSE]

Created(js, r, next) ==
  IF next = "none" THEN js ELSE [js EXCEPT ![njobs + 1] = NewJob(r, next)]

CreateJob(js, r, next) ==
  /\ next # "none" => njobs < MaxJobs
  /\ jobs' = Created(js, r, next)
  /\ njobs' = IF next = "none" THEN njobs ELSE njobs + 1

(***************************************************************************)
(* transitionRun: refuses a move the policy does not permit.               *)
(***************************************************************************)
transitionRun(r, to) ==
  /\ canTransition(status[r], to)
  /\ status' = [status EXCEPT ![r] = to]

(* A job that no worker holds any more, in the given status. *)
Ended(job, to) ==
  [job EXCEPT !.status = to, !.owner = NoWorker, !.expired = FALSE, !.waiting = FALSE]

(* Mutants of Cancelled: ended jobs are cancelled too; claimed ones are left. *)
CancelledEnded(js, r) ==
  [j \in JobIds |-> IF js[j].run = r THEN Ended(js[j], "cancelled") ELSE js[j]]

CancelledPending(js, r) ==
  [j \in JobIds |-> IF js[j].run = r /\ js[j].status = "pending"
                    THEN Ended(js[j], "cancelled") ELSE js[j]]

(* cancelJobsForRun *)
Cancelled(js, r) ==
  [j \in JobIds |-> IF js[j].run = r /\ js[j].status \in ActiveJobStatus
                    THEN Ended(js[j], "cancelled") ELSE js[j]]

(* Mutant of Released: the attempt stays spent. *)
ReleasedUnrefunded(job) == Ended(job, "pending")

(* transitionClaimedJob to pending: the attempt the claim counted is returned. *)
Released(job) ==
  [Ended(job, "pending") EXCEPT !.attempts = IF @ = 0 THEN 0 ELSE @ - 1]

(* Mutant of ClaimedBy: a job taken over from a lapsed lease keeps its count. *)
ClaimedUncounted(w, job) ==
  [job EXCEPT !.status = "claimed", !.owner = w, !.expired = FALSE,
              !.attempts = IF job.status = "claimed" THEN @ ELSE @ + 1]

(* claimNextJob's UPDATE: available_at, already past, is not reset. *)
ClaimedBy(w, job) ==
  [job EXCEPT !.status = "claimed", !.owner = w, !.expired = FALSE,
              !.attempts = @ + 1]

(* The lease is held by this worker: expiry is not looked at. *)
holdsLease(w) == JobOf(w).status = "claimed" /\ JobOf(w).owner = w

Stale(j) == jobs[j].status = "claimed" /\ jobs[j].expired

Exhausted(j) == jobs[j].attempts >= MaxAttempts

(* Mutants of Claimable: a claim past the retry budget; an expired lease, never. *)
ClaimableUnbounded(j) ==
  (jobs[j].status = "pending" \/ Stale(j)) /\ ~jobs[j].waiting
    /\ status[jobs[j].run] \in EXECUTABLE

ClaimableUnclaimed(j) ==
  jobs[j].status = "pending" /\ ~jobs[j].waiting /\ ~Exhausted(j)
    /\ status[jobs[j].run] \in EXECUTABLE

Claimable(j) ==
  /\ jobs[j].status = "pending" \/ Stale(j)
  /\ ~jobs[j].waiting
  /\ ~Exhausted(j)
  /\ status[jobs[j].run] \in EXECUTABLE

(***************************************************************************)
(* getLatestAttempt picks the highest attempt NUMBER recorded for the run  *)
(* and stage, of any job; among equals the query picks any.                *)
(***************************************************************************)
RowsOf(r, stage) == {k \in RowIds : rows[k].run = r /\ rows[k].stage = stage}

LatestRows(r, stage) ==
  {k \in RowsOf(r, stage) :
     \A m \in RowsOf(r, stage) : rows[m].attempt <= rows[k].attempt}

(* closeRunningStageAttempt *)
CloseRunning(r, stage) ==
  IF RowsOf(r, stage) = {} THEN rows' = rows
  ELSE \E k \in LatestRows(r, stage) :
         rows' = [rows EXCEPT ![k].status = IF @ = "running" THEN "failed" ELSE @]

SetRow(w, to) == [rows EXCEPT ![task[w].row].status = to]

(* listForRun: the stage of the run's newest attempt, "none" without one. *)
LastStages(r) ==
  LET mine == {k \in RowIds : rows[k].run = r}
  IN  IF mine = {} THEN {"none"}
      ELSE {rows[k].stage : k \in {n \in mine : \A m \in mine : m <= n}}

-----------------------------------------------------------------------------
Init ==
  /\ status = [r \in Runs |-> "absent"]
  /\ jobs = [j \in JobIds |-> NoJob]
  /\ njobs = 0
  /\ rows = [k \in RowIds |-> NoRow]
  /\ nrows = 0
  /\ pc = [w \in Workers |-> "startup"]
  /\ task = [w \in Workers |-> NoTask]
  /\ faults = [shutdowns |-> 0, others |-> 0]

Goto(w, l) == pc' = [pc EXCEPT ![w] = l]

Remember(w, t) == task' = [task EXCEPT ![w] = t]

Forget(w) == Remember(w, NoTask)

(* The worker's step is over: it polls again and forgets its job. *)
BackToPoll(w) == Goto(w, "poll") /\ Forget(w)

-----------------------------------------------------------------------------
(* The API process.  Each operator action is one transaction.              *)

(***************************************************************************)
(* Room for the job an operator's action creates, and for the one that a   *)
(* passed prepare job, this one or one under way, creates in turn (a bound *)
(* on the model, not on the code).                                         *)
(***************************************************************************)
RoomFor(next) ==
  njobs + (IF next = "prepare" THEN 2 ELSE IF next = "none" THEN 0 ELSE 1)
        + Cardinality({j \in JobIds : Active(j) /\ jobs[j].stage = "prepare"})
    <= MaxJobs

(* createRun: the run and its prepare job. *)
CreateRun(r) ==
  /\ status[r] = "absent"
  /\ RoomFor("prepare")
  /\ status' = [status EXCEPT ![r] = "preparing"]
  /\ CreateJob(jobs, r, "prepare")
  /\ UNCHANGED <<rows, nrows, pc, task, faults>>

(* importLegacyRuns: the run alone, in the status its manifest names. *)
ImportRun(r) ==
  /\ status[r] = "absent"
  /\ \E s \in ImportStatus : status' = [status EXCEPT ![r] = s]
  /\ UNCHANGED <<jobs, njobs, rows, nrows, pc, task, faults>>

(* The run takes a route: its status moves and the route's job is created. *)
TakeRoute(r, js, route) ==
  /\ RoomFor(route.next)
  /\ transitionRun(r, route.to)
  /\ CreateJob(js, r, route.next)
  /\ UNCHANGED <<rows, nrows, pc, task, faults>>

Approve(r) ==
  /\ status[r] \in DOMAIN APPROVE_ROUTES
  /\ TakeRoute(r, jobs, APPROVE_ROUTES[status[r]])

(* Restart cancels the run's jobs only when one of them is claimed. *)
Restart(r) ==
  /\ status[r] \in RESTARTABLE
  /\ TakeRoute(r, IF ClaimedJobsOf(r) = {} THEN jobs ELSE Cancelled(jobs, r),
               [to |-> "understanding", next |-> "understand"])

Requeue(r) ==
  /\ status[r] = "awaiting_review"
  /\ TakeRoute(r, jobs, [to |-> "planning", next |-> "plan"])

RetryReview(r) ==
  /\ status[r] = "review_retry_required"
  /\ TakeRoute(r, jobs, [to |-> "executing", next |-> "review"])

(***************************************************************************)
(* resumeRun.  The model role it resolves first is looked up outside the   *)
(* transaction; the transaction checks the status and the attempts again.  *)
(* A spent model budget refuses the resume and changes nothing.            *)
(***************************************************************************)
Resume(r) ==
  /\ status[r] = "recovery_required"
  /\ \E stage \in LastStages(r) : TakeRoute(r, jobs, RESUME_ROUTES[stage])

(* The run ends and its jobs are cancelled (stopRun, abandonRun). *)
EndByOperator(r, to) ==
  /\ transitionRun(r, to)
  /\ jobs' = Cancelled(jobs, r)
  /\ UNCHANGED <<njobs, rows, nrows, pc, task, faults>>

Stop(r) == status[r] \in STOPPABLE /\ EndByOperator(r, "stopped")

Abandon(r) ==
  /\ status[r] \in {"ready_for_pr", "recovery_required", "review_retry_required"}
  /\ EndByOperator(r, "failed")

-----------------------------------------------------------------------------
(* Time.                                                                   *)

(* One of the things that go wrong happens: a shutdown, or one of the others. *)
Fault(kind) ==
  /\ faults.shutdowns + faults.others < MaxFaults
  /\ faults' = [faults EXCEPT ![kind] = @ + 1]

(***************************************************************************)
(* A lease lapses: one that nobody renews any more, or, as a fault, one    *)
(* whose worker is on the job still and stalled.                           *)
(***************************************************************************)
HeldByNobody(j) == \A w \in Workers : task[w].job = j => jobs[j].owner # w

LeaseExpires(j) ==
  /\ jobs[j].status = "claimed" /\ ~jobs[j].expired
  /\ jobs' = [jobs EXCEPT ![j].expired = TRUE]
  /\ UNCHANGED <<status, njobs, rows, nrows, pc, task>>

AbandonedLeaseLapses(j) ==
  /\ HeldByNobody(j)
  /\ LeaseExpires(j)
  /\ UNCHANGED faults

LeaseLapses(j) ==
  /\ ~HeldByNobody(j)
  /\ Fault("others")
  /\ LeaseExpires(j)

BackoffElapses(j) ==
  /\ jobs[j].waiting
  /\ jobs' = [jobs EXCEPT ![j].waiting = FALSE]
  /\ UNCHANGED <<status, njobs, rows, nrows, pc, task, faults>>

-----------------------------------------------------------------------------
(* The lease module: settling jobs nobody can claim, and claiming.         *)

(* Mutants of Settle: the job fails and the run stays; the run moves, the job stays. *)
SettleJobOnly(j) ==
  /\ jobs' = [jobs EXCEPT ![j] = Ended(@, "failed")]
  /\ CloseRunning(jobs[j].run, jobs[j].stage)
  /\ status' = status

SettleRunOnly(j) ==
  /\ transitionRun(jobs[j].run, "recovery_required")
  /\ CloseRunning(jobs[j].run, jobs[j].stage)
  /\ jobs' = jobs

(***************************************************************************)
(* The job is spent: it fails, and its run goes to recovery_required when  *)
(* the policy lets it; otherwise the run is left alone (and, for a pending *)
(* job, so is the stage attempt).                                          *)
(***************************************************************************)
Settle(j) ==
  LET r == jobs[j].run IN
  /\ jobs' = [jobs EXCEPT ![j] = Ended(@, "failed")]
  /\ IF canTransition(status[r], "recovery_required")
     THEN /\ transitionRun(r, "recovery_required")
          /\ CloseRunning(r, jobs[j].stage)
     ELSE /\ status' = status
          /\ IF jobs[j].status = "pending" THEN rows' = rows
             ELSE CloseRunning(r, jobs[j].stage)

(* settleExhaustedPendingJob; settleStaleJob with the retry budget spent *)
SettleExhausted(w, j) ==
  /\ pc[w] \in {"startup", "poll"}
  /\ Exhausted(j)
  /\ jobs[j].status = "claimed" => jobs[j].expired
  /\ Active(j)
  /\ Settle(j)
  /\ UNCHANGED <<njobs, nrows, pc, task, faults>>

(* settleStaleJob in the claim sweep, attempts left: the attempt is closed. *)
SettleExpired(w, j) ==
  /\ pc[w] = "poll"
  /\ Stale(j) /\ ~Exhausted(j)
  /\ CloseRunning(jobs[j].run, jobs[j].stage)
  /\ UNCHANGED <<status, jobs, njobs, nrows, pc, task, faults>>

(* settleStaleJob at startup, attempts left: the job is pending again. *)
SettleRequeued(w, j) ==
  LET r == jobs[j].run IN
  /\ pc[w] = "startup"
  /\ Stale(j) /\ ~Exhausted(j)
  /\ jobs' = [jobs EXCEPT
       ![j] = Ended(@, IF status[r] \in EXECUTABLE THEN "pending" ELSE "failed")]
  /\ CloseRunning(r, jobs[j].stage)
  /\ UNCHANGED <<status, njobs, nrows, pc, task, faults>>

(* Mutant of RecoverOrphan: the run is recovered under its job. *)
RecoverWithJob(w, r) ==
  /\ pc[w] = "orphans"
  /\ status[r] \in RunStatus \ (TERMINAL \cup AWAITING_HUMAN)
  /\ transitionRun(r, "recovery_required")
  /\ UNCHANGED <<jobs, njobs, rows, nrows, pc, task, faults>>

(* recoverOrphanedRuns, one run *)
RecoverOrphan(w, r) ==
  /\ pc[w] = "orphans"
  /\ status[r] \in RunStatus \ (TERMINAL \cup AWAITING_HUMAN)
  /\ canTransition(status[r], "recovery_required")
  /\ ActiveJobsOf(r) = {}
  /\ rows' = [k \in RowIds |->
       IF rows[k].run = r /\ rows[k].status = "running"
       THEN [rows[k] EXCEPT !.status = "failed"] ELSE rows[k]]
  /\ transitionRun(r, "recovery_required")
  /\ UNCHANGED <<jobs, njobs, nrows, pc, task, faults>>

(***************************************************************************)
(* Worker.start: the stale sweep, then the orphans, then the loops.  Each  *)
(* sweep works through a list it read at its start and looks at each entry *)
(* again in that entry's transaction, so moving on while something is left *)
(* to settle is a lease that lapsed after the list was read.  A worker     *)
(* whose process is down is at "startup" too: it has not swept anything.   *)
(***************************************************************************)
StaleJobsSwept(w) ==
  /\ pc[w] = "startup"
  /\ Goto(w, "orphans")
  /\ UNCHANGED <<status, jobs, njobs, rows, nrows, task, faults>>

OrphansSwept(w) ==
  /\ pc[w] = "orphans"
  /\ Goto(w, "poll")
  /\ UNCHANGED <<status, jobs, njobs, rows, nrows, task, faults>>

(***************************************************************************)
(* claimNextJob: the oldest claimable job, whoever held it before.  A job  *)
(* claimed before may have an attempt to close.                            *)
(***************************************************************************)
Claim(w, j) ==
  LET attempt == jobs[j].attempts + 1 IN
  /\ pc[w] = "poll"
  /\ Claimable(j)
  /\ \A i \in JobIds : Claimable(i) => j <= i
  /\ jobs' = [jobs EXCEPT ![j] = ClaimedBy(w, @)]
  /\ Remember(w, [job |-> j, attempt |-> attempt, row |-> 0, seen |-> "absent"])
  /\ Goto(w, IF attempt > 1 THEN "claimed" ELSE "starting")
  /\ UNCHANGED <<status, njobs, rows, nrows, faults>>

(* closePriorAttempt, a statement of its own *)
ClosePrior(w) ==
  /\ pc[w] = "claimed"
  /\ CloseRunning(RunOf(w), StageOf(w))
  /\ Goto(w, "starting")
  /\ UNCHANGED <<status, jobs, njobs, nrows, task, faults>>

-----------------------------------------------------------------------------
(* The stage runner: one claimed job, from its gate to its commit.         *)

(* The run was stopped under the work, or the job itself was cancelled. *)
StoppedUnder(w) == status[RunOf(w)] = "stopped" \/ JobOf(w).status = "cancelled"

(***************************************************************************)
(* The early cancellation gate drops the work without a write; past it the *)
(* attempt is recorded and the run's status remembered for the commit.     *)
(***************************************************************************)
SkipStage(w) ==
  /\ pc[w] = "starting"
  /\ StoppedUnder(w)
  /\ BackToPoll(w)
  /\ UNCHANGED <<status, jobs, njobs, rows, nrows, faults>>

BeginStage(w) ==
  /\ pc[w] = "starting"
  /\ ~StoppedUnder(w)
  /\ nrows < MaxRows
  /\ rows' = [rows EXCEPT ![nrows + 1] =
                [run |-> RunOf(w), stage |-> StageOf(w),
                 attempt |-> task[w].attempt, status |-> "running",
                 job |-> task[w].job]]
  /\ nrows' = nrows + 1
  /\ Remember(w, [task[w] EXCEPT !.row = nrows + 1, !.seen = status[RunOf(w)]])
  /\ Goto(w, "running")
  /\ UNCHANGED <<status, jobs, njobs, faults>>

(* The heartbeat timer: renewLease asks only for the owner, not the expiry. *)
RenewLease(w) ==
  /\ pc[w] = "running"
  /\ holdsLease(w) /\ JobOf(w).expired
  /\ jobs' = [jobs EXCEPT ![task[w].job].expired = FALSE]
  /\ UNCHANGED <<status, njobs, rows, nrows, pc, task, faults>>

(***************************************************************************)
(* The executor returns, throws, or could not be given its project; the    *)
(* run is looked at once more, and a stop drops the outcome.  What the     *)
(* outcome is nobody else can see: it is chosen when it is committed.      *)
(***************************************************************************)
DiscardStopped(w) ==
  /\ pc[w] = "running"
  /\ StoppedUnder(w)
  /\ rows' = SetRow(w, "cancelled")
  /\ BackToPoll(w)
  /\ UNCHANGED <<status, jobs, njobs, nrows, faults>>

ExecutorReturns(w) ==
  /\ pc[w] = "running"
  /\ ~StoppedUnder(w)
  /\ Goto(w, "commit")
  /\ UNCHANGED <<status, jobs, njobs, rows, nrows, task, faults>>

Committing(w, outcome) == pc[w] = "commit" /\ outcome \in Outcomes(StageOf(w))

(* Mutants of MayCommit: without the lease check; without either check. *)
MayCommitUnleased(w) == status[RunOf(w)] = task[w].seen
MayCommitUnchecked(w) == w \in Workers

(* The check a commit makes inside its transaction. *)
MayCommit(w) == holdsLease(w) /\ status[RunOf(w)] = task[w].seen

(* The job of this worker, ended, in the jobs table. *)
JobEnded(w, to) == [jobs EXCEPT ![task[w].job] = Ended(@, to)]

(***************************************************************************)
(* commitPassed: attempt, run, next job and this job in one transaction.   *)
(* A completed job keeps its worker_id.                                    *)
(***************************************************************************)
CommitPassed(w) ==
  LET r == RunOf(w)
      route == PASSED_ROUTES[StageOf(w)] IN
  /\ Committing(w, "passed")
  /\ MayCommit(w)
  /\ rows' = SetRow(w, "completed")
  /\ IF status[r] = route.to THEN status' = status ELSE transitionRun(r, route.to)
  /\ CreateJob([jobs EXCEPT ![task[w].job].status = "completed",
                            ![task[w].job].expired = FALSE], r, route.next)
  /\ BackToPoll(w)
  /\ UNCHANGED <<nrows, faults>>

(***************************************************************************)
(* fail: the attempt, the job (pending again with a backoff while attempts *)
(* are left and the error is retryable) and, without a retry, the run.     *)
(***************************************************************************)
CommitFailure(w, outcome) ==
  LET r == RunOf(w)
      willRetry == outcome = "error" /\ JobOf(w).attempts < MaxAttempts IN
  /\ Committing(w, outcome)
  /\ MayCommit(w)
  /\ rows' = SetRow(w, "failed")
  /\ jobs' = IF willRetry
             THEN [jobs EXCEPT ![task[w].job] =
                     [Ended(@, "pending") EXCEPT !.waiting = TRUE]]
             ELSE JobEnded(w, "failed")
  /\ IF ~willRetry /\ canTransition(status[r], "failed")
     THEN transitionRun(r, "failed") ELSE status' = status
  /\ BackToPoll(w)
  /\ UNCHANGED <<njobs, nrows, faults>>

(* Either of them, refused: nothing is committed and the attempt is closed. *)
CommitRefused(w) ==
  /\ \E o \in {"passed", "error", "fatal"} : Committing(w, o)
  /\ ~MayCommit(w)
  /\ rows' = SetRow(w, "cancelled")
  /\ BackToPoll(w)
  /\ UNCHANGED <<status, jobs, njobs, nrows, faults>>

(***************************************************************************)
(* pauseForBudget and holdForReviewRetry.  The job is rejected first, and  *)
(* that throws without the lease: the whole transaction is rolled back and *)
(* the attempt left as it is.  The status is looked at after that, so a    *)
(* run that moved keeps the job's rejection and nothing else.              *)
(***************************************************************************)
HoldTarget == [paused |-> "recovery_required",
               review_retry |-> "review_retry_required"]

CommitHold(w, outcome) ==
  LET r == RunOf(w)
      to == HoldTarget[outcome] IN
  /\ Committing(w, outcome)
  /\ holdsLease(w)
  /\ jobs' = JobEnded(w, "failed")
  /\ IF status[r] = task[w].seen
     THEN /\ rows' = SetRow(w, "failed")
          /\ IF canTransition(status[r], to) THEN transitionRun(r, to)
             ELSE status' = status
     ELSE UNCHANGED <<rows, status>>
  /\ BackToPoll(w)
  /\ UNCHANGED <<njobs, nrows, faults>>

HoldRefused(w) ==
  /\ \E o \in DOMAIN HoldTarget : Committing(w, o)
  /\ ~holdsLease(w)
  /\ BackToPoll(w)
  /\ UNCHANGED <<status, jobs, njobs, rows, nrows, faults>>

(* commitRejected: the attempt first, outside the transaction ... *)
RejectAttempt(w) ==
  /\ Committing(w, "rejected")
  /\ rows' = SetRow(w, "failed")
  /\ Goto(w, "rejecting")
  /\ UNCHANGED <<status, jobs, njobs, nrows, task, faults>>

(* ... then job and run, whatever status the run is in by now. *)
CommitRejected(w) ==
  LET r == RunOf(w) IN
  /\ pc[w] = "rejecting"
  /\ holdsLease(w)
  /\ jobs' = JobEnded(w, "failed")
  /\ IF canTransition(status[r], "failed") THEN transitionRun(r, "failed")
     ELSE status' = status
  /\ BackToPoll(w)
  /\ UNCHANGED <<njobs, rows, nrows, faults>>

RejectRefused(w) ==
  /\ pc[w] = "rejecting"
  /\ ~holdsLease(w)
  /\ BackToPoll(w)
  /\ UNCHANGED <<status, jobs, njobs, rows, nrows, faults>>

-----------------------------------------------------------------------------
(* What goes wrong.                                                        *)


(***************************************************************************)
(* A write fails (SQLITE_BUSY, a full disk): the transaction is rolled     *)
(* back, the error logged, and the worker polls again without the job.     *)
(* Only a rejection goes on without the attempt it could not record.       *)
(***************************************************************************)
WriteFails(w) ==
  /\ pc[w] \in {"claimed", "starting", "running", "commit", "rejecting"}
  /\ pc[w] = "running" => StoppedUnder(w)
  /\ Fault("others")
  /\ \/ BackToPoll(w)
     \/ Committing(w, "rejected") /\ Goto(w, "rejecting") /\ task' = task
  /\ UNCHANGED db

(* A crash in the shutdown's grace is ShutdownInTime. *)
Crash(w) ==
  /\ pc[w] \notin {"startup", "stopping"}
  /\ Fault("others")
  /\ Goto(w, "startup") /\ Forget(w)
  /\ UNCHANGED db

(* Worker.stop with a job in flight: the heartbeat ends, the grace begins. *)
ShutdownBegins(w) ==
  /\ pc[w] = "running"
  /\ Fault("shutdowns")
  /\ Goto(w, "stopping")
  /\ UNCHANGED <<status, jobs, njobs, rows, nrows, task>>

(***************************************************************************)
(* The executor ends within the grace.  The stage runner returns without a *)
(* write and runClaimedJob clears currentJob, before stop() wakes up and   *)
(* looks for a job to release: there is none any more.                     *)
(***************************************************************************)
ShutdownInTime(w) ==
  /\ pc[w] = "stopping"
  /\ Goto(w, "startup") /\ Forget(w)
  /\ UNCHANGED <<status, jobs, njobs, rows, nrows, faults>>

(* The grace is over with the executor still busy: releaseJobLease. *)
ShutdownReleases(w) ==
  /\ pc[w] = "stopping"
  /\ IF holdsLease(w)
     THEN /\ jobs' = [jobs EXCEPT ![task[w].job] = Released(@)]
          /\ CloseRunning(RunOf(w), StageOf(w))
     ELSE UNCHANGED <<jobs, rows>>
  /\ Goto(w, "startup") /\ Forget(w)
  /\ UNCHANGED <<status, njobs, nrows, faults>>

-----------------------------------------------------------------------------
ApiStep ==
  \E r \in Runs : \/ CreateRun(r) \/ ImportRun(r)
                  \/ Approve(r) \/ Restart(r) \/ Requeue(r) \/ RetryReview(r)
                  \/ Resume(r) \/ Stop(r) \/ Abandon(r)

ClockStep ==
  \E j \in JobIds : AbandonedLeaseLapses(j) \/ LeaseLapses(j) \/ BackoffElapses(j)

SweepStep(w) ==
  \/ \E j \in JobIds : \/ SettleExhausted(w, j) \/ SettleExpired(w, j)
                       \/ SettleRequeued(w, j)
  \/ \E r \in Runs : RecoverOrphan(w, r)

StageStep(w) ==
  \/ ClosePrior(w) \/ SkipStage(w) \/ BeginStage(w)
  \/ DiscardStopped(w) \/ ExecutorReturns(w)
  \/ CommitPassed(w) \/ CommitRefused(w)
  \/ \E o \in {"error", "fatal"} : CommitFailure(w, o)
  \/ \E o \in DOMAIN HoldTarget : CommitHold(w, o)
  \/ HoldRefused(w)
  \/ RejectAttempt(w) \/ CommitRejected(w) \/ RejectRefused(w)

LoopStep(w) ==
  \/ StaleJobsSwept(w) \/ OrphansSwept(w)
  \/ \E j \in JobIds : Claim(w, j)
  \/ ShutdownInTime(w) \/ ShutdownReleases(w)

FaultStep(w) == WriteFails(w) \/ Crash(w) \/ ShutdownBegins(w)

Next ==
  \/ ApiStep
  \/ ClockStep
  \/ \E w \in Workers : \/ SweepStep(w) \/ StageStep(w) \/ LoopStep(w)
                        \/ RenewLease(w) \/ FaultStep(w)

Spec == Init /\ [][Next]_vars

-----------------------------------------------------------------------------
(***************************************************************************)
(* Fairness.  A worker that is down is started again, its loops go on, and *)
(* an executor ends (every model call and every command it runs has a      *)
(* timeout).  A lease nobody renews any more lapses and a backoff elapses: *)
(* that is the clock.  Nothing is assumed of the operator, of the faults,   *)
(* or of leases that lapse under a running worker.                         *)
(***************************************************************************)
Fairness ==
  /\ \A w \in Workers :
       /\ WF_vars(StaleJobsSwept(w) \/ OrphansSwept(w))
       /\ WF_vars(StageStep(w))
       /\ WF_vars(ShutdownInTime(w) \/ ShutdownReleases(w))
       /\ WF_vars(pc[w] = "poll" /\ \E j \in JobIds : SettleExhausted(w, j))
       /\ WF_vars(\E j \in JobIds : Claim(w, j))
  /\ \A j \in JobIds : WF_vars(AbandonedLeaseLapses(j)) /\ WF_vars(BackoffElapses(j))

FairSpec == Spec /\ Fairness

-----------------------------------------------------------------------------
(* Types.                                                                  *)

Job == [run : Runs, stage : JobStage,
        status : ActiveJobStatus \cup {"completed", "failed", "cancelled"},
        attempts : 0..MaxAttempts, owner : Workers \cup {NoWorker},
        expired : BOOLEAN, waiting : BOOLEAN]

Row == [run : Runs, stage : JobStage, attempt : 1..MaxAttempts,
        status : {"running", "completed", "failed", "cancelled"}, job : JobIds]

(* The job loop's labels: with no job, with one claimed, with its attempt begun. *)
Idle    == {"startup", "orphans", "poll"}
Begun   == {"running", "commit", "rejecting", "stopping"}
Working == {"claimed", "starting"} \cup Begun

Task == [job : 0..MaxJobs, attempt : 0..MaxAttempts, row : 0..MaxRows,
         seen : RunStatus \cup {"absent"}]

(***************************************************************************)
(* The tables hold what was created, in order, and no more.  A claimed job *)
(* has an owner and counts the claim.                                      *)
(***************************************************************************)
JobsTable(js, n) ==
  /\ n \in 0..MaxJobs
  /\ js \in [JobIds -> Job \cup {NoJob}]
  /\ \A j \in JobIds : js[j] = NoJob <=> j > n
  /\ \A j \in JobIds : js[j].status = "claimed" =>
       js[j].owner \in Workers /\ js[j].attempts > 0

RowsTable(rs, n) ==
  /\ n \in 0..MaxRows
  /\ rs \in [RowIds -> Row \cup {NoRow}]
  /\ \A k \in RowIds : rs[k] = NoRow <=> k > n

(* A working worker has a job, and the row of its attempt once that has begun. *)
WorkersOK ==
  /\ pc \in [Workers -> Idle \cup Working]
  /\ task \in [Workers -> Task]
  /\ \A w \in Workers :
       /\ pc[w] \in Working => task[w].job \in 1..njobs /\ task[w].attempt > 0
       /\ pc[w] \in Begun => task[w].row \in 1..nrows
       /\ pc[w] \in Idle => task[w] = NoTask

(* Every variable keeps its type, and every reference leads to what it names. *)
TypeOK ==
  /\ status \in [Runs -> RunStatus \cup {"absent"}]
  /\ JobsTable(jobs, njobs)
  /\ RowsTable(rows, nrows)
  /\ WorkersOK
  /\ faults \in [shutdowns : 0..MaxFaults, others : 0..MaxFaults]
  /\ faults.shutdowns + faults.others <= MaxFaults

-----------------------------------------------------------------------------
(* What the lease, the sweeps and the commits promise together.            *)

(***************************************************************************)
(* A run never has two jobs that a worker could be on or could still take: *)
(* neither a resume racing a lease that has not lapsed yet, nor a late     *)
(* commit that enqueues the next stage, nor a restart doubles its work.    *)
(***************************************************************************)
OneActiveJobPerRun ==
  \A i, j \in JobIds : Active(i) /\ Active(j) /\ jobs[i].run = jobs[j].run => i = j

(* The status a run is in while a job of the stage is pending or claimed. *)
StatusDuring ==
  [ prepare |-> "preparing", understand |-> "understanding", plan |-> "planning",
    execute |-> "executing", review |-> "executing" ]

(***************************************************************************)
(* A job that can still run belongs to the stage its run is in: no stale   *)
(* job runs under a run that was stopped, recovered or moved on.           *)
(***************************************************************************)
ActiveJobFitsRun ==
  \A j \in JobIds : Active(j) => status[jobs[j].run] = StatusDuring[jobs[j].stage]

(***************************************************************************)
(* A run in an executable status has a job that will move it.  Only a run  *)
(* the importer wrote may lack one, until a worker's startup recovers it.  *)
(***************************************************************************)
LiveRunHasWork ==
  \A r \in Runs : status[r] \in EXECUTABLE =>
    \/ ActiveJobsOf(r) # {}
    \/ \A j \in JobIds : jobs[j].run # r

(***************************************************************************)
(* No job waits in the queue with its attempts spent, where no claim would *)
(* ever take it: releasing, requeuing and retrying each leave an attempt.  *)
(***************************************************************************)
PendingJobsAreClaimable ==
  \A j \in JobIds : jobs[j].status = "pending" => ~Exhausted(j)

(***************************************************************************)
(* A job is completed by exactly one attempt, and an attempt is completed  *)
(* only with its job, however many workers thought they held the lease.    *)
(***************************************************************************)
CompletedOnce ==
  \A j \in JobIds :
    LET done == {k \in RowIds : rows[k].job = j /\ rows[k].status = "completed"}
    IN  IF jobs[j].status = "completed" THEN \E k \in done : done = {k} ELSE done = {}

(***************************************************************************)
(* The retry budget holds however its workers crash, stall and take jobs   *)
(* over from each other: a job's stage is begun at most MaxAttempts times, *)
(* and once more for each shutdown, which returns the attempt it broke     *)
(* off.  A crash, a write that fails, a lease that lapses and a takeover   *)
(* give nothing back: what they broke off stays counted.                   *)
(***************************************************************************)
RetryBudgetKept ==
  \A j \in JobIds : Cardinality({k \in RowIds : rows[k].job = j}) <= MaxAttempts + faults.shutdowns

(***************************************************************************)
(* A passed stage's commit never meets a run status it cannot move: past   *)
(* the lease and status check, transitionRun does not throw, so the commit *)
(* is not lost to a rollback.                                              *)
(***************************************************************************)
PassedStageCommits ==
  \A w \in Workers :
    Committing(w, "passed") /\ MayCommit(w) =>
      LET to == PASSED_ROUTES[StageOf(w)].to
      IN  status[RunOf(w)] = to \/ canTransition(status[RunOf(w)], to)

(***************************************************************************)
(* While a worker holds its lease, its run has not moved since the attempt *)
(* began: the commits that look at the lease alone (a rejection) or at the *)
(* status only after they have ended the job (a hold) lose nothing by it.  *)
(***************************************************************************)
LeaseholderSeesItsRun ==
  \A w \in Workers : pc[w] \in Begun /\ holdsLease(w) =>
    task[w].seen = status[RunOf(w)]

(***************************************************************************)
(* What has ended stays ended: a terminal run, a job that was completed,   *)
(* failed or cancelled, and a completed attempt are not touched again by   *)
(* any worker that was late, nor by any sweep.                             *)
(***************************************************************************)
EndedStaysEnded ==
  [][/\ \A r \in Runs : status[r] \in TERMINAL => status'[r] = status[r]
     /\ \A j \in JobIds : j <= njobs /\ ~Active(j) => jobs'[j] = jobs[j]
     /\ \A k \in RowIds : rows[k].status = "completed" => rows'[k] = rows[k]]_vars

(***************************************************************************)
(* However its workers crash, stall, lose leases and retry, a run that has *)
(* work does not stay in an executable status: it ends, or it waits for    *)
(* the operator.                                                           *)
(***************************************************************************)
HasJobs(r) == \E j \in JobIds : jobs[j].run = r

RunsComeToRest ==
  \A r \in Runs : status[r] \in EXECUTABLE /\ HasJobs(r) ~> status[r] \notin EXECUTABLE

(***************************************************************************)
(* The queue implements RunWork: a run's work is that of its active job.   *)
(***************************************************************************)
workOf ==
  [r \in Runs |-> IF ClaimedJobsOf(r) # {} THEN "claimed"
                  ELSE IF ActiveJobsOf(r) # {} THEN "pending" ELSE "none"]

RW == INSTANCE RunWork WITH work <- workOf

ImplementsRunWork == RW!Spec

-----------------------------------------------------------------------------
(* What the repository says and the code does not do.                      *)

(***************************************************************************)
(* docs/reference/state-machine-matrix.md:120: a worker that releases a    *)
(* job on shutdown gives back the attempt the claim counted.  Here: a      *)
(* worker that has stopped cleanly leaves no job claimed in its name.      *)
(***************************************************************************)
StopSpendsNoAttempt ==
  [][\A w \in Workers :
       pc[w] = "stopping" /\ pc'[w] = "startup" =>
         \A j \in JobIds : jobs'[j].status = "claimed" => jobs'[j].owner # w]_vars

(***************************************************************************)
(* src/lease.ts: "the prior running attempt must be closed" when an        *)
(* expired job is reclaimed.                                               *)
(***************************************************************************)
ReclaimClosesPriorAttempt ==
  \A w \in Workers : pc[w] = "starting" /\ holdsLease(w) =>
    \A k \in RowIds : rows[k].job = task[w].job => rows[k].status # "running"

(***************************************************************************)
(* docs/reference/state-machine-matrix.md:93: a requeue from the review    *)
(* goes back to planning, "so the plan is revised before re-execution".    *)
(* Here: when a job writes code, the newest of the run's earlier prepare,  *)
(* understand and plan jobs, if it has any, is a completed plan.           *)
(***************************************************************************)
RevisesPlanBeforeReexecution ==
  \A j \in JobIds : Active(j) /\ jobs[j].stage \in {"execute", "review"} =>
    LET earlier == {i \in 1..j : /\ jobs[i].run = jobs[j].run
                                /\ jobs[i].stage \in {"prepare", "understand", "plan"}}
    IN  earlier # {} =>
          \E i \in earlier : /\ \A h \in earlier : h <= i
                             /\ jobs[i].stage = "plan" /\ jobs[i].status = "completed"
=============================================================================
