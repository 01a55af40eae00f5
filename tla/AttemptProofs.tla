---------------------------- MODULE AttemptProofs ----------------------------
(***************************************************************************)
(* A job is completed by one attempt and what has ended stays ended, for   *)
(* any number of runs, workers, jobs and attempts.  The argument:          *)
(*                                                                         *)
(*  - every statement that writes the jobs table writes a job that can     *)
(*    still run, or a new one, and only commitPassed completes one;        *)
(*  - a backoff is set on a job that goes back to the queue and is over    *)
(*    when a worker claims it, so it never elapses on a job that ended;    *)
(*  - a worker at an attempt has a row of its own, which nobody completes  *)
(*    but that worker, in the transaction that completes the row's job;    *)
(*  - closing an attempt and recovering an orphan settle running rows only.*)
(*                                                                         *)
(* And the retry budget holds.  A claim counts one attempt and begins at   *)
(* most one; what a shutdown gives back is traced as a refund, from the    *)
(* worker that stops to the job it releases, to the worker that claims the *)
(* job next and to the row it begins, which repeats an earlier one.  There *)
(* are never more refunds than shutdowns: a fault of another kind, the     *)
(* takeover after it included, makes none.                                 *)
(*                                                                         *)
(* And the model's bounds on jobs and attempts keep no worker from its     *)
(* step: there is a row for each attempt and a place for each next job.    *)
(***************************************************************************)
EXTENDS JobQueueProofs, FiniteSetTheorems

(* A backoff holds back a job in the queue. *)
OnlyPendingWait == \A j \in JobIds : jobs[j].waiting => jobs[j].status = "pending"

(* A worker at an attempt has the row it began, and that is not completed yet. *)
OwnRowOpen ==
  \A w \in Workers : pc[w] \in Begun =>
    /\ rows[task[w].row].job = task[w].job
    /\ rows[task[w].row].status # "completed"

(* No two workers are at one attempt. *)
RowsNotShared ==
  \A v, w \in Workers :
    pc[v] \in Begun /\ pc[w] \in Begun /\ task[v].row = task[w].row => v = w

AttemptSafe == CompletedOnce /\ OnlyPendingWait /\ OwnRowOpen /\ RowsNotShared

AttemptInv == QueueInv /\ AttemptSafe

-----------------------------------------------------------------------------
(* What a step does to the tables.                                         *)

(* Only a job that can still run is written, or the place of a new one. *)
Writes(j) ==
  /\ Active(j) \/ jobs[j] = NoJob
  /\ jobs'[j].waiting => jobs'[j].status = "pending"

JobsKept == \A j \in JobIds : jobs'[j] = jobs[j] \/ Writes(j)

NoneCompleted ==
  \A j \in JobIds : jobs'[j].status = "completed" <=> jobs[j].status = "completed"

(* No attempt is completed, and a completed one is not written. *)
RowsKept ==
  \A k \in RowIds : \/ rows'[k] = rows[k]
                    \/ /\ rows[k].status # "completed" /\ rows'[k].status # "completed"
                       /\ rows'[k].job = rows[k].job

RunsKept == \A r \in Runs : status[r] \in TERMINAL => status'[r] = status[r]

(* What EndedStaysEnded asks of a step. *)
EndsKept ==
  /\ \A r \in Runs : status[r] \in TERMINAL => status'[r] = status[r]
  /\ \A j \in JobIds : j <= njobs /\ ~Active(j) => jobs'[j] = jobs[j]
  /\ \A k \in RowIds : rows[k].status = "completed" => rows'[k] = rows[k]

(* One job that can still run is written over. *)
LEMMA ActiveWritten ==
  ASSUME TypeOK, NEW k \in JobIds, Active(k), NEW x, jobs' = [jobs EXCEPT ![k] = x],
         x.waiting => x.status = "pending", x.status # "completed"
  PROVE  JobsKept /\ NoneCompleted
<1>1. /\ jobs'[k] = x
      /\ \A j \in JobIds : j # k => jobs'[j] = jobs[j]
  BY DEF TypeOK, JobsTable
<1>2. jobs[k].status # "completed"
  BY DEF Active, ActiveJobStatus
<1> QED BY <1>1, <1>2 DEF JobsKept, Writes, NoneCompleted

(* Ending a job ends its backoff with it. *)
LEMMA EndedNotWaiting ==
  ASSUME NEW job \in Job, NEW to
  PROVE  Ended(job, to).waiting = FALSE /\ Ended(job, to).status = to
BY DEF Ended, Job

(* A job, or none, is created in js, where only jobs that could still run differ. *)
LEMMA CreatedKept ==
  ASSUME TypeOK, NEW r, NEW next, NEW js, JobsTable(js, njobs), CreateJob(js, r, next)
  PROVE  \A j \in JobIds : \/ jobs'[j] = js[j]
                           \/ /\ jobs[j] = NoJob /\ js[j] = NoJob
                              /\ jobs'[j].status = "pending" /\ ~jobs'[j].waiting
<1>1. CASE next = "none"
  BY <1>1 DEF CreateJob, Created
<1>2. CASE next # "none"
  <2>1. njobs < MaxJobs /\ jobs' = [js EXCEPT ![njobs + 1] = NewJob(r, next)]
    BY <1>2 DEF CreateJob, Created
  <2>2. njobs + 1 \in JobIds /\ njobs + 1 > njobs
    BY <2>1, CountersNat, ConstantsAssumption DEF JobIds
  <2>3. js[njobs + 1] = NoJob /\ jobs[njobs + 1] = NoJob
    BY <2>2 DEF TypeOK, JobsTable
  <2>4. \A j \in JobIds : jobs'[j] = IF j = njobs + 1 THEN NewJob(r, next) ELSE js[j]
    BY <2>1, <2>2 DEF JobsTable
  <2> QED BY <2>3, <2>4 DEF NewJob
<1> QED BY <1>1, <1>2

LEMMA CancelledKept ==
  ASSUME TypeOK, NEW r \in Runs, NEW j \in JobIds
  PROVE  LET js == Cancelled(jobs, r)
         IN  \/ js[j] = jobs[j]
             \/ Active(j) /\ js[j].status = "cancelled" /\ ~js[j].waiting
<1>1. CASE jobs[j].run = r /\ jobs[j].status \in ActiveJobStatus
  <2>1. jobs[j] \in Job
    BY <1>1, ActiveRun DEF Active
  <2>2. Cancelled(jobs, r)[j] = Ended(jobs[j], "cancelled")
    BY <1>1 DEF Cancelled
  <2> QED BY <1>1, <2>1, <2>2, EndedNotWaiting DEF Active
<1>2. CASE ~(jobs[j].run = r /\ jobs[j].status \in ActiveJobStatus)
  BY <1>2 DEF Cancelled
<1> QED BY <1>1, <1>2

(* A route's step on the jobs table: some are cancelled, perhaps, and one created. *)
LEMMA RouteKept ==
  ASSUME TypeOK, NEW r \in Runs, NEW js \in {jobs, Cancelled(jobs, r)}, NEW next,
         CreateJob(js, r, next)
  PROVE  JobsKept /\ NoneCompleted
<1>1. JobsTable(js, njobs)
  BY JobsCancelled DEF TypeOK
<1>2. ASSUME NEW j \in JobIds
      PROVE  \/ js[j] = jobs[j]
             \/ Active(j) /\ js[j].status = "cancelled" /\ ~js[j].waiting
  BY CancelledKept
<1>3. ASSUME NEW j \in JobIds
      PROVE  \/ jobs'[j] = js[j]
             \/ /\ jobs[j] = NoJob /\ js[j] = NoJob
                /\ jobs'[j].status = "pending" /\ ~jobs'[j].waiting
  BY <1>1, CreatedKept
<1>4. NoJob.status # "completed" /\ ~NoJob.waiting
  BY DEF NoJob
<1> QED BY <1>2, <1>3, <1>4 DEF JobsKept, NoneCompleted, Writes, Active, ActiveJobStatus

(* Closing an attempt settles a running row. *)
LEMMA ClosedKept ==
  ASSUME TypeOK, NEW r, NEW stage, CloseRunning(r, stage)
  PROVE  RowsKept
<1>1. CASE RowsOf(r, stage) = {}
  BY <1>1 DEF CloseRunning, RowsKept
<1>2. CASE RowsOf(r, stage) # {}
  <2>1. PICK k \in LatestRows(r, stage) :
          rows' = [rows EXCEPT ![k].status = IF @ = "running" THEN "failed" ELSE @]
    BY <1>2 DEF CloseRunning
  <2>2. k \in RowIds /\ rows \in [RowIds -> Row \cup {NoRow}]
    BY DEF LatestRows, RowsOf, TypeOK, RowsTable
  <2> DEFINE x == [rows[k] EXCEPT !.status =
                     IF rows[k].status = "running" THEN "failed" ELSE rows[k].status]
  <2>3. rows'[k] = x /\ \A m \in RowIds : m # k => rows'[m] = rows[m]
    BY <2>1, <2>2
  <2>4. rows[k] \in Row \cup {NoRow}
    BY <2>2
  <2>5. /\ x.job = rows[k].job
        /\ x = rows[k] \/ (rows[k].status = "running" /\ x.status = "failed")
    BY <2>4 DEF Row, NoRow
  <2> HIDE DEF x
  <2> QED BY <2>3, <2>5 DEF RowsKept
<1> QED BY <1>1, <1>2

(* A worker settles its own attempt, other than as completed. *)
LEMMA OwnRowKept ==
  ASSUME TypeOK, OwnRowOpen, NEW w \in Workers, pc[w] \in Begun,
         NEW to, to # "completed", rows' = SetRow(w, to)
  PROVE  RowsKept
<1> DEFINE k == task[w].row
<1>1. k \in RowIds /\ rows \in [RowIds -> Row \cup {NoRow}] /\ rows[k] # NoRow
  <2>1. k \in 1..nrows
    BY DEF TypeOK, WorkersOK
  <2> QED BY <2>1, MaxRowsNat DEF TypeOK, RowsTable, RowIds
<1>2. rows[k] \in Row /\ rows[k].status # "completed"
  BY <1>1 DEF OwnRowOpen
<1> DEFINE x == [rows[k] EXCEPT !.status = to]
<1>3. rows'[k] = x /\ \A m \in RowIds : m # k => rows'[m] = rows[m]
  BY <1>1 DEF SetRow
<1>4. x.status = to /\ x.job = rows[k].job
  BY <1>2 DEF Row
<1> HIDE DEF x, k
<1> QED BY <1>2, <1>3, <1>4 DEF RowsKept

(* A run that has ended moves nowhere. *)
LEMMA MovedKept ==
  ASSUME NEW r \in Runs, NEW to, transitionRun(r, to), TypeOK
  PROVE  RunsKept
<1>1. \A s \in TERMINAL : ~canTransition(s, to)
  BY DEF TERMINAL, canTransition, TRANSITIONS
<1> QED BY <1>1 DEF transitionRun, RunsKept, TypeOK

(***************************************************************************)
(* The step of everything but the start of an attempt and a passed commit: *)
(* nothing is completed, what was completed stays, no worker begins.       *)
(***************************************************************************)
Kept == JobsKept /\ NoneCompleted /\ RowsKept /\ RunsKept /\ NoneBegins

LEMMA KeptIsSafe ==
  ASSUME QueueInv, AttemptSafe, Kept
  PROVE  AttemptSafe' /\ EndsKept
<1>1. \A k \in RowIds : /\ rows'[k].status = "completed" <=> rows[k].status = "completed"
                        /\ rows'[k].job = rows[k].job
  BY DEF Kept, RowsKept
<1>2. CompletedOnce'
  <2> SUFFICES ASSUME NEW j \in JobIds
               PROVE  LET done == {k \in RowIds : rows'[k].job = j /\ rows'[k].status = "completed"}
                      IN  IF jobs'[j].status = "completed" THEN \E k \in done : done = {k}
                          ELSE done = {}
    BY DEF CompletedOnce
  <2> DEFINE before == {k \in RowIds : rows[k].job = j /\ rows[k].status = "completed"}
             after == {k \in RowIds : rows'[k].job = j /\ rows'[k].status = "completed"}
  <2>1. after = before
    BY <1>1
  <2>2. IF jobs[j].status = "completed" THEN \E k \in before : before = {k} ELSE before = {}
    BY DEF AttemptSafe, CompletedOnce
  <2>3. jobs'[j].status = "completed" <=> jobs[j].status = "completed"
    BY DEF Kept, NoneCompleted
  <2> HIDE DEF before, after
  <2>4. IF jobs'[j].status = "completed" THEN \E k \in after : after = {k} ELSE after = {}
    BY <2>1, <2>2, <2>3
  <2> QED BY <2>4 DEF after
<1>3. OnlyPendingWait'
  BY DEF Kept, JobsKept, Writes, AttemptSafe, OnlyPendingWait
<1>4. \A w \in Workers : pc[w] \in Begun => task[w].row \in RowIds
  BY MaxRowsNat DEF QueueInv, TypeOK, WorkersOK, RowsTable, RowIds
<1>5. OwnRowOpen'
  BY <1>1, <1>4 DEF Kept, NoneBegins, AttemptSafe, OwnRowOpen
<1>6. RowsNotShared'
  BY DEF Kept, NoneBegins, AttemptSafe, RowsNotShared
<1>7. \A j \in JobIds : j <= njobs => jobs[j] # NoJob
  BY CountersNat DEF QueueInv, TypeOK, JobsTable, JobIds
<1>8. EndsKept
  BY <1>7 DEF Kept, RunsKept, RowsKept, JobsKept, Writes, EndsKept
<1> QED BY <1>2, <1>3, <1>5, <1>6, <1>8 DEF AttemptSafe

-----------------------------------------------------------------------------
(* Which steps keep all of it, one lemma per group of actions.             *)

LEMMA ApiKept ==
  ASSUME QueueInv, ApiStep
  PROVE  Kept
<1>0. TypeOK
  BY DEF QueueInv
<1>1. PICK r \in Runs : \/ CreateRun(r) \/ ImportRun(r)
                        \/ Approve(r) \/ Restart(r) \/ Requeue(r) \/ RetryReview(r)
                        \/ Resume(r) \/ Stop(r) \/ Abandon(r)
  BY DEF ApiStep
<1>2. NoneBegins /\ rows' = rows
  BY <1>1 DEF NoneBegins, CreateRun, ImportRun, Approve, Restart, Requeue, RetryReview,
              Resume, Stop, Abandon, TakeRoute, EndByOperator
<1>3. RowsKept
  BY <1>2 DEF RowsKept
<1>4. ASSUME NEW js \in {jobs, Cancelled(jobs, r)}, NEW route, TakeRoute(r, js, route)
      PROVE  Kept
  <2>1. RunsKept
    BY <1>0, <1>4, MovedKept DEF TakeRoute
  <2>2. JobsKept /\ NoneCompleted
    BY <1>0, <1>4, RouteKept DEF TakeRoute
  <2> QED BY <1>2, <1>3, <2>1, <2>2 DEF Kept
<1>5. ASSUME NEW to, EndByOperator(r, to)
      PROVE  Kept
  <2>1. RunsKept
    BY <1>0, <1>5, MovedKept DEF EndByOperator
  <2>2. jobs' = Cancelled(jobs, r)
    BY <1>5 DEF EndByOperator
  <2>3. JobsKept /\ NoneCompleted
    BY <1>0, <2>2, CancelledKept
       DEF JobsKept, NoneCompleted, Writes, Active, ActiveJobStatus
  <2> QED BY <1>2, <1>3, <2>1, <2>3 DEF Kept
<1>6. ASSUME status[r] = "absent", \E s : status' = [status EXCEPT ![r] = s]
      PROVE  RunsKept
  BY <1>0, <1>6 DEF RunsKept, TypeOK, TERMINAL
<1>7. CASE CreateRun(r)
  <2>1. JobsKept /\ NoneCompleted
    BY <1>0, <1>7, RouteKept DEF CreateRun
  <2> QED BY <1>2, <1>3, <1>6, <1>7, <2>1 DEF Kept, CreateRun
<1>8. CASE ImportRun(r)
  <2>1. JobsKept /\ NoneCompleted
    BY <1>8 DEF ImportRun, JobsKept, NoneCompleted
  <2> QED BY <1>2, <1>3, <1>6, <1>8, <2>1 DEF Kept, ImportRun
<1>9. CASE Approve(r) \/ Requeue(r) \/ RetryReview(r) \/ Resume(r)
  BY <1>4, <1>9 DEF Approve, Requeue, RetryReview, Resume
<1>10. CASE Restart(r)
  <2> DEFINE js == IF ClaimedJobsOf(r) = {} THEN jobs ELSE Cancelled(jobs, r)
             route == [to |-> "understanding", next |-> "understand"]
  <2>1. TakeRoute(r, js, route) /\ js \in {jobs, Cancelled(jobs, r)}
    BY <1>10 DEF Restart
  <2> HIDE DEF js, route
  <2> QED BY <2>1, <1>4
<1>11. CASE Stop(r) \/ Abandon(r)
  BY <1>5, <1>11 DEF Stop, Abandon
<1> QED BY <1>1, <1>7, <1>8, <1>9, <1>10, <1>11

LEMMA ClockKept ==
  ASSUME QueueInv, AttemptSafe, ClockStep
  PROVE  Kept
<1>0. TypeOK /\ OnlyPendingWait
  BY DEF QueueInv, AttemptSafe
<1>1. PICK j \in JobIds : LeaseExpires(j) \/ BackoffElapses(j)
  BY DEF ClockStep, AbandonedLeaseLapses, LeaseLapses
<1>2. NoneBegins /\ RowsKept /\ RunsKept
  BY <1>1 DEF LeaseExpires, BackoffElapses, NoneBegins, RowsKept, RunsKept
<1>3. Active(j) /\ jobs[j] \in Job
  BY <1>0, <1>1, ActiveRun DEF LeaseExpires, BackoffElapses, OnlyPendingWait, Active, ActiveJobStatus
<1>4. CASE LeaseExpires(j)
  <2> DEFINE x == [jobs[j] EXCEPT !.expired = TRUE]
  <2>1. jobs' = [jobs EXCEPT ![j] = x] /\ jobs[j].status = "claimed"
    BY <1>4 DEF LeaseExpires
  <2>2. x.waiting = jobs[j].waiting /\ x.status = jobs[j].status
    BY <1>3 DEF Job
  <2> HIDE DEF x
  <2> QED BY <1>0, <1>2, <1>3, <2>1, <2>2, ActiveWritten DEF Kept, OnlyPendingWait
<1>5. CASE BackoffElapses(j)
  <2> DEFINE x == [jobs[j] EXCEPT !.waiting = FALSE]
  <2>1. jobs' = [jobs EXCEPT ![j] = x] /\ jobs[j].waiting
    BY <1>5 DEF BackoffElapses
  <2>2. x.waiting = FALSE /\ x.status = jobs[j].status
    BY <1>3 DEF Job
  <2> HIDE DEF x
  <2> QED BY <1>0, <1>2, <1>3, <2>1, <2>2, ActiveWritten DEF Kept, OnlyPendingWait
<1> QED BY <1>1, <1>4, <1>5

LEMMA SweepKept ==
  ASSUME QueueInv, NEW w \in Workers, SweepStep(w)
  PROVE  Kept
<1>0. TypeOK
  BY DEF QueueInv
<1>1. NoneBegins
  BY DEF SweepStep, SettleExhausted, SettleExpired, SettleRequeued, RecoverOrphan, NoneBegins
<1>2. ASSUME NEW j \in JobIds, Active(j), NEW to \in {"pending", "failed"},
             jobs' = [jobs EXCEPT ![j] = Ended(jobs[j], to)]
      PROVE  JobsKept /\ NoneCompleted
  <2>1. jobs[j] \in Job
    BY <1>0, <1>2, ActiveRun
  <2>2. Ended(jobs[j], to).waiting = FALSE /\ Ended(jobs[j], to).status = to
    BY <2>1, EndedNotWaiting
  <2> QED BY <1>0, <1>2, <2>2, ActiveWritten
<1>3. ASSUME NEW j \in JobIds, SettleExhausted(w, j)
      PROVE  Kept
  <2>1. Active(j) /\ jobs' = [jobs EXCEPT ![j] = Ended(jobs[j], "failed")]
    BY <1>3 DEF SettleExhausted, Settle
  <2>2. RunsKept
    BY <1>0, <1>3, <2>1, ActiveRun, MovedKept DEF SettleExhausted, Settle, RunsKept
  <2>3. RowsKept
    BY <1>0, <1>3, ClosedKept DEF SettleExhausted, Settle, RowsKept
  <2> QED BY <1>1, <1>2, <2>1, <2>2, <2>3 DEF Kept
<1>4. ASSUME NEW j \in JobIds, SettleExpired(w, j)
      PROVE  Kept
  BY <1>0, <1>1, <1>4, ClosedKept DEF SettleExpired, Kept, JobsKept, NoneCompleted, RunsKept
<1>5. ASSUME NEW j \in JobIds, SettleRequeued(w, j)
      PROVE  Kept
  <2> DEFINE to == IF status[jobs[j].run] \in EXECUTABLE THEN "pending" ELSE "failed"
  <2>1. Active(j) /\ to \in {"pending", "failed"}
    BY <1>5 DEF SettleRequeued, Stale, Active, ActiveJobStatus
  <2>2. jobs' = [jobs EXCEPT ![j] = Ended(jobs[j], to)]
    BY <1>5 DEF SettleRequeued
  <2> HIDE DEF to
  <2>3. RowsKept /\ RunsKept
    BY <1>0, <1>5, ClosedKept DEF SettleRequeued, RunsKept
  <2> QED BY <1>1, <1>2, <2>1, <2>2, <2>3 DEF Kept
<1>6. ASSUME NEW r \in Runs, RecoverOrphan(w, r)
      PROVE  Kept
  <2>1. RowsKept
    <3>1. ASSUME NEW k \in RowIds, rows'[k] # rows[k]
          PROVE  /\ rows[k].status = "running"
                 /\ rows'[k].status = "failed" /\ rows'[k].job = rows[k].job
      <4>1. rows[k].status = "running" /\ rows'[k] = [rows[k] EXCEPT !.status = "failed"]
        BY <1>6, <3>1 DEF RecoverOrphan
      <4>2. rows[k] \in Row \cup {NoRow}
        BY <1>0 DEF TypeOK, RowsTable
      <4> QED BY <4>1, <4>2 DEF Row, NoRow
    <3> QED BY <3>1 DEF RowsKept
  <2>2. RunsKept
    BY <1>0, <1>6, MovedKept DEF RecoverOrphan
  <2> QED BY <1>1, <1>6, <2>1, <2>2 DEF RecoverOrphan, Kept, JobsKept, NoneCompleted
<1> QED BY <1>3, <1>4, <1>5, <1>6 DEF SweepStep

LEMMA LoopKept ==
  ASSUME QueueInv, NEW w \in Workers, LoopStep(w)
  PROVE  Kept
<1>0. TypeOK
  BY DEF QueueInv
<1>1. CASE StaleJobsSwept(w) \/ OrphansSwept(w) \/ ShutdownInTime(w)
  <2>1. NoneBegins
    BY <1>0, <1>1, Labels
       DEF NoneBegins, StaleJobsSwept, OrphansSwept, ShutdownInTime, Goto, Forget, Remember,
           TypeOK, WorkersOK, Idle, Working, Begun
  <2> QED BY <1>1, <2>1
       DEF StaleJobsSwept, OrphansSwept, ShutdownInTime, Kept, JobsKept, NoneCompleted,
           RowsKept, RunsKept
<1>2. CASE ShutdownReleases(w)
  <2>1. NoneBegins /\ pc[w] \in Begun
    BY <1>0, <1>2, Labels
       DEF NoneBegins, ShutdownReleases, Goto, Forget, Remember, TypeOK, WorkersOK,
           Idle, Working, Begun
  <2>2. RowsKept
    BY <1>0, <1>2, ClosedKept DEF ShutdownReleases, RowsKept
  <2>3. RunsKept
    BY <1>2 DEF ShutdownReleases, RunsKept
  <2>4. CASE ~holdsLease(w)
    BY <1>2, <2>1, <2>2, <2>3, <2>4 DEF ShutdownReleases, Kept, JobsKept, NoneCompleted
  <2>5. CASE holdsLease(w)
    <3> DEFINE x == Released(jobs[task[w].job])
    <3>1. /\ task[w].job \in JobIds /\ Active(task[w].job)
          /\ jobs[task[w].job] \in Job
      BY <2>1, <2>5, HolderRuns, ActiveJobRuns
    <3>2. jobs' = [jobs EXCEPT ![task[w].job] = x]
      BY <1>2, <2>5 DEF ShutdownReleases
    <3>3. x.waiting = FALSE /\ x.status = "pending"
      BY <3>1 DEF Released, Ended, Job
    <3> HIDE DEF x
    <3>4. JobsKept /\ NoneCompleted
      BY <1>0, <3>1, <3>2, <3>3, ActiveWritten
    <3> QED BY <2>1, <2>2, <2>3, <3>4 DEF Kept
  <2> QED BY <2>4, <2>5
<1>3. ASSUME NEW j \in JobIds, Claim(w, j)
      PROVE  Kept
  <2> DEFINE x == ClaimedBy(w, jobs[j])
  <2>1. Active(j) /\ jobs' = [jobs EXCEPT ![j] = x] /\ ~jobs[j].waiting
    BY <1>3 DEF Claim, Claimable, Stale, Active, ActiveJobStatus
  <2>2. jobs[j] \in Job
    BY <1>0, <2>1, ActiveRun
  <2>3. x.waiting = jobs[j].waiting /\ x.status = "claimed"
    BY <2>2 DEF ClaimedBy, Job
  <2> HIDE DEF x
  <2>4. JobsKept /\ NoneCompleted
    BY <1>0, <2>1, <2>3, ActiveWritten
  <2>5. NoneBegins
    <3>1. \A v \in Workers : v # w => pc'[v] = pc[v] /\ task'[v] = task[v]
      BY <1>0, <1>3 DEF Claim, Goto, Remember, TypeOK, WorkersOK
    <3>2. pc'[w] \notin Begun
      BY <1>0, <1>3, Labels DEF Claim, Goto, TypeOK, WorkersOK
    <3> QED BY <3>1, <3>2 DEF NoneBegins
  <2> QED BY <1>3, <2>4, <2>5 DEF Claim, Kept, RowsKept, RunsKept
<1> QED BY <1>1, <1>2, <1>3 DEF LoopStep

LEMMA RenewKept ==
  ASSUME QueueInv, AttemptSafe, NEW w \in Workers, RenewLease(w)
  PROVE  Kept
<1> DEFINE x == [jobs[task[w].job] EXCEPT !.expired = FALSE]
<1>0. TypeOK /\ OnlyPendingWait
  BY DEF QueueInv, AttemptSafe
<1>1. /\ task[w].job \in JobIds /\ Active(task[w].job)
      /\ jobs[task[w].job] \in Job
  BY Labels, HolderRuns, ActiveJobRuns DEF RenewLease
<1>2. jobs' = [jobs EXCEPT ![task[w].job] = x]
  BY DEF RenewLease
<1>3. x.waiting = jobs[task[w].job].waiting /\ x.status = jobs[task[w].job].status
  BY <1>1 DEF Job
<1>4. jobs[task[w].job].status = "claimed"
  BY DEF RenewLease, holdsLease, JobOf
<1> HIDE DEF x
<1>5. JobsKept /\ NoneCompleted
  BY <1>0, <1>1, <1>2, <1>3, <1>4, ActiveWritten DEF OnlyPendingWait
<1> QED BY <1>5 DEF RenewLease, Kept, NoneBegins, RowsKept, RunsKept

LEMMA FaultKept ==
  ASSUME QueueInv, NEW w \in Workers, FaultStep(w)
  PROVE  Kept
<1>1. UNCHANGED db
  BY DEF FaultStep, WriteFails, Crash, ShutdownBegins, db
<1>2. pc \in [Workers -> Idle \cup Working] /\ task \in [Workers -> Task]
  BY DEF QueueInv, TypeOK, WorkersOK
<1>3. NoneBegins
  <2>1. CASE BackToPoll(w) \/ Crash(w)
    BY <1>2, <2>1, Labels DEF BackToPoll, Crash, Goto, Forget, Remember, NoneBegins, Idle, Begun
  <2>2. CASE Committing(w, "rejected") /\ Goto(w, "rejecting") /\ task' = task
    BY <1>2, <2>2, Labels DEF Committing, Goto, NoneBegins
  <2>3. CASE ShutdownBegins(w)
    BY <1>2, <2>3, Labels DEF ShutdownBegins, Goto, NoneBegins
  <2> QED BY <2>1, <2>2, <2>3 DEF FaultStep, WriteFails
<1> QED BY <1>1, <1>3 DEF db, Kept, JobsKept, NoneCompleted, RowsKept, RunsKept

(* The stage runner's steps but the two below. *)
LEMMA StageKept ==
  ASSUME QueueInv, AttemptSafe, NEW w \in Workers, StageStep(w),
         ~BeginStage(w), ~CommitPassed(w)
  PROVE  Kept
<1>0. TypeOK /\ OwnRowOpen /\ pc \in [Workers -> Idle \cup Working]
  BY DEF QueueInv, AttemptSafe, TypeOK, WorkersOK
<1>1. ASSUME BackToPoll(w)
      PROVE  NoneBegins
  BY <1>0, <1>1, LeaverBeginsNothing
<1>2. ASSUME pc[w] \in Begun, holdsLease(w), NEW x, jobs' = [jobs EXCEPT ![task[w].job] = x],
             x.waiting => x.status = "pending", x.status # "completed"
      PROVE  JobsKept /\ NoneCompleted
  BY <1>0, <1>2, HolderRuns, ActiveWritten
<1>3. ASSUME pc[w] \in Begun, holdsLease(w), jobs' = JobEnded(w, "failed")
      PROVE  JobsKept /\ NoneCompleted
  <2>1. JobOf(w) \in Job
    BY <1>0, <1>3, Labels, JobOfWorker
  <2>2. /\ Ended(JobOf(w), "failed").waiting = FALSE
        /\ Ended(JobOf(w), "failed").status = "failed"
    BY <2>1, EndedNotWaiting
  <2>3. jobs' = [jobs EXCEPT ![task[w].job] = Ended(JobOf(w), "failed")]
    BY <1>3 DEF JobEnded, JobOf
  <2> QED BY <1>2, <1>3, <2>2, <2>3
<1>4. ASSUME pc[w] \in Begun, rows' = SetRow(w, "failed") \/ rows' = SetRow(w, "cancelled")
      PROVE  RowsKept
  BY <1>0, <1>4, OwnRowKept
<1>5. ASSUME NEW r \in Runs, NEW to, transitionRun(r, to) \/ status' = status
      PROVE  RunsKept
  BY <1>0, <1>5, MovedKept DEF RunsKept
<1>6. CASE ClosePrior(w)
  <2>1. NoneBegins
    BY <1>0, <1>6, Labels DEF ClosePrior, Goto, NoneBegins
  <2> QED BY <1>0, <1>6, <2>1, ClosedKept DEF ClosePrior, Kept, JobsKept, NoneCompleted, RunsKept
<1>7. CASE SkipStage(w) \/ HoldRefused(w) \/ RejectRefused(w)
  BY <1>1, <1>7
     DEF SkipStage, HoldRefused, RejectRefused, Kept, JobsKept, NoneCompleted, RowsKept, RunsKept
<1>8. CASE DiscardStopped(w) \/ CommitRefused(w)
  <2>1. /\ pc[w] \in Begun /\ BackToPoll(w) /\ UNCHANGED <<status, jobs>>
        /\ rows' = SetRow(w, "cancelled")
    BY <1>8, Labels DEF DiscardStopped, CommitRefused, Committing
  <2> QED BY <1>1, <1>4, <2>1 DEF Kept, JobsKept, NoneCompleted, RunsKept
<1>9. CASE ExecutorReturns(w)
  <2>1. NoneBegins
    BY <1>0, <1>9, Labels DEF ExecutorReturns, Goto, NoneBegins
  <2> QED BY <1>9, <2>1 DEF ExecutorReturns, Kept, JobsKept, NoneCompleted, RowsKept, RunsKept
<1>10. CASE RejectAttempt(w)
  <2>1. NoneBegins /\ pc[w] \in Begun
    BY <1>0, <1>10, Labels DEF RejectAttempt, Committing, Goto, NoneBegins
  <2> QED BY <1>4, <1>10, <2>1 DEF RejectAttempt, Kept, JobsKept, NoneCompleted, RunsKept
<1>11. ASSUME NEW o, CommitFailure(w, o)
       PROVE  Kept
  <2>1. pc[w] \in Begun /\ holdsLease(w) /\ BackToPoll(w) /\ RunOf(w) \in Runs
    BY <1>0, <1>11, Labels, JobOfWorker DEF CommitFailure, Committing, MayCommit
  <2>2. JobsKept /\ NoneCompleted
    <3> DEFINE x == [Ended(JobOf(w), "pending") EXCEPT !.waiting = TRUE]
    <3>1. x.status = "pending"
      <4>1. Ended(JobOf(w), "pending") \in Job /\ Ended(JobOf(w), "pending").status = "pending"
        BY <1>0, <2>1, Labels, JobOfWorker, EndedJob
      <4> QED BY <4>1 DEF Job
    <3>2. jobs' = [jobs EXCEPT ![task[w].job] = x] \/ jobs' = JobEnded(w, "failed")
      BY <1>11 DEF CommitFailure, JobOf
    <3> HIDE DEF x
    <3> QED BY <1>2, <1>3, <2>1, <3>1, <3>2
  <2>3. RowsKept
    BY <1>4, <1>11, <2>1 DEF CommitFailure
  <2>4. RunsKept
    BY <1>5, <1>11, <2>1 DEF CommitFailure
  <2> QED BY <1>1, <2>1, <2>2, <2>3, <2>4 DEF Kept
<1>12. ASSUME NEW o \in DOMAIN HoldTarget, CommitHold(w, o)
       PROVE  Kept
  <2>1. pc[w] \in Begun /\ holdsLease(w) /\ BackToPoll(w) /\ RunOf(w) \in Runs
    BY <1>0, <1>12, Labels, JobOfWorker DEF CommitHold, Committing
  <2>2. JobsKept /\ NoneCompleted
    BY <1>3, <1>12, <2>1 DEF CommitHold
  <2>3. RowsKept
    BY <1>4, <1>12, <2>1 DEF CommitHold, RowsKept
  <2>4. RunsKept
    BY <1>5, <1>12, <2>1 DEF CommitHold
  <2> QED BY <1>1, <2>1, <2>2, <2>3, <2>4 DEF Kept
<1>13. CASE CommitRejected(w)
  <2>1. pc[w] \in Begun /\ holdsLease(w) /\ BackToPoll(w) /\ RunOf(w) \in Runs
    BY <1>0, <1>13, Labels, JobOfWorker DEF CommitRejected
  <2>2. JobsKept /\ NoneCompleted
    BY <1>3, <1>13, <2>1 DEF CommitRejected
  <2>3. RunsKept
    BY <1>5, <1>13, <2>1 DEF CommitRejected
  <2> QED BY <1>1, <1>13, <2>1, <2>2, <2>3 DEF CommitRejected, Kept, RowsKept
<1> QED BY <1>6, <1>7, <1>8, <1>9, <1>10, <1>11, <1>12, <1>13 DEF StageStep

-----------------------------------------------------------------------------
(* The start of an attempt, and the commit that completes one.             *)

LEMMA RowOfBegun ==
  ASSUME TypeOK, NEW w \in Workers, pc[w] \in Begun
  PROVE  task[w].row \in 1..nrows /\ task[w].row \in RowIds /\ rows[task[w].row] \in Row
<1>1. task[w].row \in 1..nrows
  BY DEF TypeOK, WorkersOK
<1>2. task[w].row \in RowIds /\ rows[task[w].row] # NoRow
  BY <1>1, MaxRowsNat DEF TypeOK, RowsTable, RowIds
<1> QED BY <1>1, <1>2 DEF TypeOK, RowsTable

LEMMA BeginKeeps ==
  ASSUME QueueInv, AttemptSafe, NEW w \in Workers, BeginStage(w)
  PROVE  AttemptSafe' /\ EndsKept
<1> DEFINE n == nrows + 1
           x == [run |-> RunOf(w), stage |-> StageOf(w), attempt |-> task[w].attempt,
                 status |-> "running", job |-> task[w].job]
<1>0. TypeOK /\ CompletedOnce /\ OnlyPendingWait /\ OwnRowOpen /\ RowsNotShared
  BY DEF QueueInv, AttemptSafe
<1>1. n \in RowIds /\ n \notin 1..nrows /\ rows[n] = NoRow
  BY <1>0, CountersNat, MaxRowsNat DEF BeginStage, TypeOK, RowsTable, RowIds
<1>2. rows'[n] = x /\ \A k \in RowIds : k # n => rows'[k] = rows[k]
  BY <1>0, <1>1 DEF BeginStage, TypeOK, RowsTable
<1>3. rows'[n].status = "running" /\ rows'[n].job = task[w].job /\ rows[n].status = "absent"
  BY <1>1, <1>2 DEF NoRow
<1> HIDE DEF n, x
<1>4. task'[w].row = n /\ task'[w].job = task[w].job
  <2>1. task[w] \in Task
    BY <1>0 DEF TypeOK, WorkersOK
  <2>2. task'[w] = [task[w] EXCEPT !.row = n, !.seen = status[RunOf(w)]]
    BY <1>0 DEF BeginStage, Remember, TypeOK, WorkersOK, n
  <2> QED BY <2>1, <2>2 DEF Task
<1>5. ASSUME NEW v \in Workers, v # w, pc'[v] \in Begun
      PROVE  /\ pc[v] \in Begun /\ task'[v] = task[v]
             /\ task[v].row \in RowIds /\ task[v].row # n
  <2>1. pc'[v] = pc[v] /\ task'[v] = task[v]
    BY <1>0, <1>5 DEF BeginStage, Goto, Remember, TypeOK, WorkersOK
  <2> QED BY <1>0, <1>1, <1>5, <2>1, RowOfBegun
<1>6. \A k \in RowIds : rows[k].status = "completed" => rows'[k] = rows[k]
  BY <1>2, <1>3
<1>7. CompletedOnce'
  <2>1. jobs' = jobs
    BY DEF BeginStage
  <2>2. ASSUME NEW j \in JobIds
        PROVE  {k \in RowIds : rows'[k].job = j /\ rows'[k].status = "completed"}
                 = {k \in RowIds : rows[k].job = j /\ rows[k].status = "completed"}
    BY <1>2, <1>3
  <2> QED BY <1>0, <2>1, <2>2 DEF CompletedOnce
<1>8. OnlyPendingWait'
  BY <1>0 DEF BeginStage, OnlyPendingWait
<1>9. OwnRowOpen'
  BY <1>0, <1>2, <1>3, <1>4, <1>5 DEF OwnRowOpen
<1>10. RowsNotShared'
  BY <1>0, <1>4, <1>5 DEF RowsNotShared
<1>11. EndsKept
  BY <1>6 DEF BeginStage, EndsKept
<1> QED BY <1>7, <1>8, <1>9, <1>10, <1>11 DEF AttemptSafe

(***************************************************************************)
(* The holder of the lease completes its job, which no attempt completed   *)
(* so far, with its own attempt, which is not another worker's.            *)
(***************************************************************************)
LEMMA PassedKeeps ==
  ASSUME QueueInv, AttemptSafe, NEW w \in Workers, CommitPassed(w)
  PROVE  AttemptSafe' /\ EndsKept
<1> DEFINE r == RunOf(w)
           i == task[w].job
           own == task[w].row
           next == PASSED_ROUTES[StageOf(w)].next
           x == [jobs[i] EXCEPT !.status = "completed", !.expired = FALSE]
           js == [jobs EXCEPT ![i] = x]
<1>0. TypeOK /\ CompletedOnce /\ OnlyPendingWait /\ OwnRowOpen /\ RowsNotShared
  BY DEF QueueInv, AttemptSafe
<1>1. pc[w] \in Begun /\ holdsLease(w) /\ BackToPoll(w)
  BY Labels DEF CommitPassed, Committing, MayCommit
<1>2. /\ i \in JobIds /\ jobs[i] \in Job /\ Active(i) /\ jobs[i].status = "claimed"
  BY <1>1, HolderRuns, ActiveJobRuns DEF holdsLease, JobOf
<1>3. own \in RowIds /\ rows[own] \in Row /\ rows[own].job = i
      /\ rows[own].status # "completed"
  BY <1>0, <1>1, RowOfBegun DEF OwnRowOpen
<1>4. /\ rows'[own].status = "completed" /\ rows'[own].job = i
      /\ \A k \in RowIds : k # own => rows'[k] = rows[k]
  <2>1. rows' = [rows EXCEPT ![own].status = "completed"]
    BY DEF CommitPassed, SetRow
  <2>2. rows'[own] = [rows[own] EXCEPT !.status = "completed"]
        /\ \A k \in RowIds : k # own => rows'[k] = rows[k]
    BY <1>0, <1>3, <2>1 DEF TypeOK, RowsTable
  <2> QED BY <1>3, <2>2 DEF Row
<1>5. NoneBegins
  BY <1>0, <1>1, LeaverBeginsNothing
<1>6. JobsTable(js, njobs) /\ CreateJob(js, r, next)
  <2>1. x \in Job /\ x.status # "claimed"
    BY <1>2 DEF Job
  <2>2. CreateJob(js, r, next)
    BY DEF CommitPassed
  <2> HIDE DEF x
  <2> QED BY <1>0, <1>1, <2>1, <2>2, Labels, OwnJobWritten
<1>7. x.status = "completed" /\ x.waiting = jobs[i].waiting /\ ~jobs[i].waiting
  BY <1>0, <1>2 DEF Job, OnlyPendingWait
<1>8. js[i] = x /\ \A j \in JobIds : j # i => js[j] = jobs[j]
  BY <1>0, <1>2 DEF TypeOK, JobsTable
<1> HIDE DEF r, i, own, next, js, x
<1>9. jobs'[i] = x
  <2>1. js[i] # NoJob
    BY <1>7, <1>8 DEF NoJob
  <2> QED BY <1>0, <1>2, <1>6, <1>8, <2>1, CreatedKept
<1>10. ASSUME NEW j \in JobIds, j # i
       PROVE  \/ jobs'[j] = jobs[j]
              \/ jobs[j] = NoJob /\ jobs'[j].status = "pending" /\ ~jobs'[j].waiting
  BY <1>0, <1>6, <1>8, <1>10, CreatedKept
<1>11. CompletedOnce'
  <2> DEFINE before(j) == {k \in RowIds : rows[k].job = j /\ rows[k].status = "completed"}
             after(j) == {k \in RowIds : rows'[k].job = j /\ rows'[k].status = "completed"}
  <2>1. ASSUME NEW j \in JobIds
        PROVE  IF jobs[j].status = "completed" THEN \E k \in before(j) : before(j) = {k}
               ELSE before(j) = {}
    BY <1>0 DEF CompletedOnce
  <2>2. before(i) = {}
    BY <1>2, <2>1
  <2>3. after(i) = {own}
    <3>1. own \in after(i)
      BY <1>3, <1>4
    <3>2. ASSUME NEW k \in after(i), k # own
          PROVE  FALSE
      <4>1. k \in before(i)
        BY <1>4, <3>2
      <4> QED BY <2>2, <4>1
    <3> QED BY <3>1, <3>2
  <2>4. ASSUME NEW j \in JobIds, j # i
        PROVE  after(j) = before(j)
    BY <1>3, <1>4, <2>4
  <2>5. ASSUME NEW j \in JobIds, j # i
        PROVE  jobs'[j].status = "completed" <=> jobs[j].status = "completed"
    BY <1>10, <2>5 DEF NoJob
  <2>6. ASSUME NEW j \in JobIds
        PROVE  IF jobs'[j].status = "completed" THEN \E k \in after(j) : after(j) = {k}
               ELSE after(j) = {}
    <3>1. CASE j = i
      <4> HIDE DEF after
      <4> QED BY <1>7, <1>9, <2>3, <3>1
    <3>2. CASE j # i
      <4> HIDE DEF after, before
      <4> QED BY <2>1, <2>4, <2>5, <3>2
    <3> QED BY <3>1, <3>2
  <2> QED BY <2>6 DEF CompletedOnce
<1>12. OnlyPendingWait'
  BY <1>0, <1>7, <1>9, <1>10 DEF OnlyPendingWait
<1>13. OwnRowOpen'
  <2> SUFFICES ASSUME NEW v \in Workers, pc'[v] \in Begun
               PROVE  /\ rows'[task'[v].row].job = task'[v].job
                      /\ rows'[task'[v].row].status # "completed"
    BY DEF OwnRowOpen
  <2>1. pc[v] \in Begun /\ task'[v] = task[v]
    BY <1>5 DEF NoneBegins
  <2>2. v # w
    BY <1>0, <1>1, Labels DEF BackToPoll, Goto, TypeOK, WorkersOK
  <2>3. task[v].row \in RowIds /\ task[v].row # own
    BY <1>0, <1>1, <2>1, <2>2, RowOfBegun DEF RowsNotShared, own
  <2> QED BY <1>0, <1>4, <2>1, <2>3 DEF OwnRowOpen
<1>14. RowsNotShared'
  BY <1>0, <1>5 DEF NoneBegins, RowsNotShared
<1>15. EndsKept
  <2>1. RunsKept
    BY <1>0, <1>1, Labels, JobOfWorker, MovedKept DEF CommitPassed, RunsKept
  <2>2. \A j \in JobIds : j <= njobs => jobs[j] # NoJob
    BY <1>0, CountersNat DEF TypeOK, JobsTable, JobIds
  <2> QED BY <1>2, <1>3, <1>4, <1>10, <2>1, <2>2 DEF EndsKept, RunsKept
<1> QED BY <1>11, <1>12, <1>13, <1>14, <1>15 DEF AttemptSafe

-----------------------------------------------------------------------------
(* What has ended stays ended.                                             *)

LEMMA AttemptInit ==
  ASSUME Init
  PROVE  AttemptInv
<1>1. CompletedOnce
  BY DEF Init, CompletedOnce, NoJob, NoRow
<1>2. OnlyPendingWait
  BY DEF Init, OnlyPendingWait, NoJob
<1>3. OwnRowOpen /\ RowsNotShared
  BY DEF Init, OwnRowOpen, RowsNotShared, Begun
<1> QED BY <1>1, <1>2, <1>3, QueueInit DEF AttemptInv, AttemptSafe

LEMMA AttemptStep ==
  ASSUME AttemptInv, [Next]_vars
  PROVE  AttemptInv' /\ (EndsKept \/ UNCHANGED vars)
<1>1. QueueInv /\ AttemptSafe /\ QueueInv'
  BY QueueStep DEF AttemptInv
<1>2. CASE UNCHANGED vars
  <2>1. AttemptSafe'
    BY <1>1, <1>2
       DEF vars, AttemptSafe, CompletedOnce, OnlyPendingWait, OwnRowOpen, RowsNotShared
  <2> QED BY <1>1, <1>2, <2>1 DEF AttemptInv
<1>3. CASE Next
  <2>1. CASE Kept
    BY <1>1, <2>1, KeptIsSafe DEF AttemptInv
  <2>2. ASSUME NEW w \in Workers, BeginStage(w) \/ CommitPassed(w)
        PROVE  AttemptInv' /\ EndsKept
    BY <1>1, <2>2, BeginKeeps, PassedKeeps DEF AttemptInv
  <2> QED BY <1>1, <1>3, <2>1, <2>2, ApiKept, ClockKept, SweepKept, StageKept, LoopKept,
             RenewKept, FaultKept DEF Next
<1> QED BY <1>2, <1>3

(***************************************************************************)
(* However many workers thought they held the lease of a job, one attempt  *)
(* completes it, and no attempt is completed but with its job.             *)
(***************************************************************************)
THEOREM CompletedCorrect == Spec => []CompletedOnce
<1>1. AttemptInv => CompletedOnce
  BY DEF AttemptInv, AttemptSafe
<1> QED BY <1>1, AttemptInit, AttemptStep, PTL DEF Spec

(***************************************************************************)
(* A run that ended, a job that was completed, failed or cancelled and a   *)
(* completed attempt are not written again, by a late worker or a sweep.   *)
(***************************************************************************)
THEOREM EndedCorrect == Spec => EndedStaysEnded
<1>1. AttemptInv /\ [Next]_vars => AttemptInv' /\ [EndsKept]_vars
  BY AttemptStep
<1>2. EndedStaysEnded <=> [][EndsKept]_vars
  BY PTL DEF EndedStaysEnded, EndsKept
<1> QED BY <1>1, <1>2, AttemptInit, PTL DEF Spec

-----------------------------------------------------------------------------
(* The retry budget.                                                       *)

(* The attempt of this number is in the table, for this job. *)
Recorded(j, a) == \E k \in RowIds : rows[k].job = j /\ rows[k].attempt = a

(* An attempt recorded before under the same number of the same job. *)
Repeated(k) ==
  \E j \in JobIds : rows[k].job = j /\
    \E i \in RowIds : i < k /\ rows[i].job = j /\ rows[i].attempt = rows[k].attempt

(* A job whose next claim is for an attempt that was begun before. *)
Refunded(j) == Recorded(j, jobs[j].attempts + 1)

(* A worker that may give an attempt back, or is about to begin one again. *)
Indebted(w) ==
  \/ pc[w] = "stopping"
  \/ pc[w] \in {"claimed", "starting"} /\ Recorded(task[w].job, task[w].attempt)

(* Where the refund of a shutdown may be: still in a worker's hands, in the   *)
(* queue, in the next worker's hands, and in the end in a repeated attempt.   *)
Refunds ==
  {<<"row", k>> : k \in {i \in RowIds : Repeated(i)}}
    \cup {<<"job", j>> : j \in {i \in JobIds : Refunded(i)}}
    \cup {<<"worker", w>> : w \in {v \in Workers : Indebted(v)}}

RefundsPaid == IsFiniteSet(Refunds) /\ Cardinality(Refunds) <= faults.shutdowns

(* No attempt is ahead of its job but one that was given back. *)
RowsCounted ==
  \A j \in JobIds, k \in RowIds : rows[k].job = j =>
    /\ rows[k].attempt <= jobs[j].attempts + 1
    /\ jobs[j].status = "claimed" => rows[k].attempt <= jobs[j].attempts

(* The leaseholder is on its job's last attempt, everybody else on earlier ones. *)
TasksCounted ==
  \A w \in Workers, j \in JobIds : pc[w] \in Working /\ task[w].job = j =>
    /\ task[w].attempt <= jobs[j].attempts
    /\ jobs[j].status = "claimed" =>
         IF jobs[j].owner = w THEN task[w].attempt = jobs[j].attempts
                              ELSE task[w].attempt < jobs[j].attempts

(* No two workers are on one attempt of a job. *)
AttemptsNotShared ==
  \A v, w \in Workers :
    /\ pc[v] \in Working /\ pc[w] \in Working
    /\ task[v].job = task[w].job /\ task[v].attempt = task[w].attempt
    => v = w

BudgetSafe == RefundsPaid /\ RowsCounted /\ TasksCounted /\ AttemptsNotShared

BudgetInv == TypeOK /\ BudgetSafe

LEMMA RefundsAre ==
  /\ \A k : <<"row", k>> \in Refunds <=> k \in RowIds /\ Repeated(k)
  /\ \A j : <<"job", j>> \in Refunds <=> j \in JobIds /\ Refunded(j)
  /\ \A w : <<"worker", w>> \in Refunds <=> w \in Workers /\ Indebted(w)
BY DEF Refunds

(* Refunds are of these three kinds. *)
LEMMA RefundsAreOnly ==
  ASSUME NEW S,
         \A k \in RowIds : Repeated(k)' => <<"row", k>> \in S,
         \A j \in JobIds : Refunded(j)' => <<"job", j>> \in S,
         \A w \in Workers : Indebted(w)' => <<"worker", w>> \in S
  PROVE  Refunds' \subseteq S
BY DEF Refunds

(* A step that adds no refund; one that moves one; one that is a shutdown and adds one. *)
LEMMA RefundsShrink ==
  ASSUME RefundsPaid, Refunds' \subseteq Refunds, faults.shutdowns \in Nat,
         faults'.shutdowns \in Nat, faults'.shutdowns >= faults.shutdowns
  PROVE  RefundsPaid'
<1>1. /\ IsFiniteSet(Refunds') /\ Cardinality(Refunds') <= Cardinality(Refunds)
      /\ Cardinality(Refunds') \in Nat /\ Cardinality(Refunds) \in Nat
  BY FS_Subset, FS_CardinalityType DEF RefundsPaid
<1> QED BY <1>1 DEF RefundsPaid

LEMMA RefundsMove ==
  ASSUME RefundsPaid, NEW x \in Refunds, NEW y, Refunds' \subseteq (Refunds \ {x}) \cup {y},
         faults.shutdowns \in Nat, faults' = faults
  PROVE  RefundsPaid'
<1> DEFINE S == Refunds \ {x}
           T == S \cup {y}
<1>1. IsFiniteSet(Refunds) /\ Cardinality(Refunds) <= faults.shutdowns
  BY DEF RefundsPaid
<1>2. IsFiniteSet(S) /\ Cardinality(S) = Cardinality(Refunds) - 1
  BY <1>1, FS_RemoveElement
<1>3. Cardinality(S) \in Nat /\ Cardinality(Refunds) \in Nat
  BY <1>1, <1>2, FS_CardinalityType
<1> HIDE DEF S
<1>4. IsFiniteSet(T) /\ (Cardinality(T) = Cardinality(S) \/ Cardinality(T) = Cardinality(S) + 1)
  BY <1>2, FS_AddElement
<1>5. Refunds' \subseteq T
  BY DEF S
<1> HIDE DEF T
<1>6. /\ IsFiniteSet(Refunds') /\ Cardinality(Refunds') <= Cardinality(T)
      /\ Cardinality(Refunds') \in Nat
  BY <1>4, <1>5, FS_Subset, FS_CardinalityType
<1>7. Cardinality(Refunds') <= faults'.shutdowns
  BY <1>1, <1>2, <1>3, <1>4, <1>6
<1> QED BY <1>6, <1>7 DEF RefundsPaid

LEMMA RefundsGrow ==
  ASSUME RefundsPaid, NEW y, Refunds' \subseteq Refunds \cup {y},
         faults.shutdowns \in Nat, faults'.shutdowns = faults.shutdowns + 1
  PROVE  RefundsPaid'
<1> DEFINE T == Refunds \cup {y}
<1>1. /\ IsFiniteSet(Refunds) /\ Cardinality(Refunds) <= faults.shutdowns
      /\ Cardinality(Refunds) \in Nat
  BY FS_CardinalityType DEF RefundsPaid
<1>2. IsFiniteSet(T) /\ (Cardinality(T) = Cardinality(Refunds)
                         \/ Cardinality(T) = Cardinality(Refunds) + 1)
  BY <1>1, FS_AddElement
<1> HIDE DEF T
<1>3. Refunds' \subseteq T
  BY DEF T
<1>4. /\ IsFiniteSet(Refunds') /\ Cardinality(Refunds') <= Cardinality(T)
      /\ Cardinality(Refunds') \in Nat
  BY <1>2, <1>3, FS_Subset, FS_CardinalityType
<1>5. Cardinality(Refunds') <= faults'.shutdowns
  BY <1>1, <1>2, <1>4
<1> QED BY <1>4, <1>5 DEF RefundsPaid

LEMMA CountTypes ==
  ASSUME TypeOK
  PROVE  /\ \A j \in JobIds : jobs[j].attempts \in Nat
         /\ \A k \in RowIds : rows[k].attempt \in Nat /\ rows[k].job \in Nat
         /\ \A w \in Workers : task[w].attempt \in Nat /\ task[w].job \in Nat
         /\ faults.shutdowns \in Nat
<1>1. \A j \in JobIds : jobs[j] \in Job \cup {NoJob}
  BY DEF TypeOK, JobsTable
<1>2. \A k \in RowIds : rows[k] \in Row \cup {NoRow}
  BY DEF TypeOK, RowsTable
<1>3. \A w \in Workers : task[w] \in Task
  BY DEF TypeOK, WorkersOK
<1>4. MaxAttempts \in Nat /\ MaxJobs \in Nat /\ MaxFaults \in Nat
  BY ConstantsAssumption
<1>5. \A j \in JobIds : jobs[j].attempts \in Nat
  BY <1>1, <1>4 DEF Job, NoJob
<1>6. \A k \in RowIds : rows[k].attempt \in Nat /\ rows[k].job \in Nat
  BY <1>2, <1>4 DEF Row, NoRow, JobIds
<1>7. \A w \in Workers : task[w].attempt \in Nat /\ task[w].job \in Nat
  BY <1>3, <1>4 DEF Task
<1> QED BY <1>5, <1>6, <1>7, CountersNat

-----------------------------------------------------------------------------
(* Most steps count no attempt and hand out none.                          *)

AttemptsKept ==
  \A j \in JobIds :
    /\ jobs'[j].attempts = jobs[j].attempts
    /\ jobs'[j].status = "claimed" => jobs[j].status = "claimed" /\ jobs'[j].owner = jobs[j].owner

NamesKept ==
  \A k \in RowIds : rows'[k].job = rows[k].job /\ rows'[k].attempt = rows[k].attempt

NoneTakes ==
  \A w \in Workers :
    /\ pc'[w] \in Working =>
         pc[w] \in Working /\ task'[w].job = task[w].job /\ task'[w].attempt = task[w].attempt
    /\ pc'[w] = "stopping" => pc[w] = "stopping"
    /\ pc'[w] \in {"claimed", "starting"} => pc[w] \in {"claimed", "starting"}

Uncounted ==
  /\ AttemptsKept /\ NamesKept /\ NoneTakes
  /\ faults'.shutdowns \in Nat /\ faults'.shutdowns >= faults.shutdowns

LEMMA UncountedIsSafe ==
  ASSUME TypeOK, BudgetSafe, Uncounted
  PROVE  BudgetSafe'
<1> USE DEF Uncounted
<1>0. RefundsPaid /\ RowsCounted /\ TasksCounted /\ AttemptsNotShared
  BY DEF BudgetSafe
<1>1. \A j, a : Recorded(j, a)' => Recorded(j, a)
  BY DEF Recorded, NamesKept
<1>2. \A k \in RowIds : Repeated(k)' => Repeated(k)
  BY DEF Repeated, NamesKept
<1>3. \A j \in JobIds : Refunded(j)' => Refunded(j)
  BY <1>1 DEF Refunded, AttemptsKept
<1>4. \A w \in Workers : Indebted(w)' => Indebted(w)
  BY <1>1, Labels DEF Indebted, NoneTakes
<1>5. Refunds' \subseteq Refunds
  BY <1>2, <1>3, <1>4, RefundsAre, RefundsAreOnly
<1>6. RefundsPaid'
  BY <1>0, <1>5, RefundsShrink, CountTypes
<1>7. RowsCounted'
  BY <1>0 DEF RowsCounted, AttemptsKept, NamesKept
<1>8. TasksCounted'
  BY <1>0 DEF TasksCounted, AttemptsKept, NoneTakes
<1>9. AttemptsNotShared'
  BY <1>0 DEF AttemptsNotShared, NoneTakes
<1> QED BY <1>6, <1>7, <1>8, <1>9 DEF BudgetSafe

-----------------------------------------------------------------------------
(* Which steps are uncounted.                                              *)

LEMMA WrittenUncounted ==
  ASSUME TypeOK, NEW k \in JobIds, NEW x, jobs' = [jobs EXCEPT ![k] = x],
         x.attempts = jobs[k].attempts,
         x.status = "claimed" => jobs[k].status = "claimed" /\ x.owner = jobs[k].owner
  PROVE  AttemptsKept
BY DEF TypeOK, JobsTable, AttemptsKept

(* A flag of a job is written, or its status changed, or neither. *)
LEMMA FlagUncounted ==
  ASSUME TypeOK, NEW k \in JobIds, Active(k),
         \/ jobs' = [jobs EXCEPT ![k].expired = TRUE]
         \/ jobs' = [jobs EXCEPT ![k].expired = FALSE]
  PROVE  AttemptsKept
<1>1. jobs[k] \in Job
  BY ActiveRun
<1>2. PICK b \in BOOLEAN : jobs' = [jobs EXCEPT ![k] = [jobs[k] EXCEPT !.expired = b]]
  OBVIOUS
<1> DEFINE x == [jobs[k] EXCEPT !.expired = b]
<1>3. x.attempts = jobs[k].attempts /\ x.status = jobs[k].status /\ x.owner = jobs[k].owner
  BY <1>1 DEF Job
<1> HIDE DEF x
<1>4. jobs' = [jobs EXCEPT ![k] = x]
  BY <1>2 DEF x
<1> QED BY <1>3, <1>4, WrittenUncounted

LEMMA EndedUncounted ==
  ASSUME TypeOK, NEW k \in JobIds, Active(k), NEW to \in {"pending", "failed"},
         jobs' = [jobs EXCEPT ![k] = Ended(jobs[k], to)]
  PROVE  AttemptsKept
<1>1. jobs[k] \in Job
  BY ActiveRun
<1>2. Ended(jobs[k], to).attempts = jobs[k].attempts /\ Ended(jobs[k], to).status = to
  BY <1>1, EndedJob
<1> QED BY <1>2, WrittenUncounted

LEMMA CancelledUncounted ==
  ASSUME TypeOK, NEW r, NEW j \in JobIds
  PROVE  /\ Cancelled(jobs, r)[j].attempts = jobs[j].attempts
         /\ Cancelled(jobs, r)[j] = jobs[j] \/ Cancelled(jobs, r)[j].status = "cancelled"
<1>1. CASE jobs[j].run = r /\ jobs[j].status \in ActiveJobStatus
  <2>1. jobs[j] \in Job
    BY <1>1, ActiveRun DEF Active
  <2>2. Cancelled(jobs, r)[j] = Ended(jobs[j], "cancelled")
    BY <1>1 DEF Cancelled
  <2> QED BY <2>1, <2>2, EndedJob
<1>2. CASE ~(jobs[j].run = r /\ jobs[j].status \in ActiveJobStatus)
  BY <1>2 DEF Cancelled
<1> QED BY <1>1, <1>2

(* A new job has used no attempt, nor had its place. *)
LEMMA CreatedUncounted ==
  ASSUME TypeOK, NEW r, NEW next, NEW js, JobsTable(js, njobs), CreateJob(js, r, next),
         \A j \in JobIds : /\ js[j].attempts = jobs[j].attempts
                           /\ js[j] = jobs[j] \/ js[j].status # "claimed"
  PROVE  AttemptsKept
<1>1. ASSUME NEW j \in JobIds
      PROVE  \/ jobs'[j] = js[j]
             \/ js[j] = NoJob /\ jobs'[j] = NewJob(r, next)
  <2>1. CASE next = "none"
    BY <2>1 DEF CreateJob, Created
  <2>2. CASE next # "none"
    <3>1. njobs < MaxJobs /\ jobs' = [js EXCEPT ![njobs + 1] = NewJob(r, next)]
      BY <2>2 DEF CreateJob, Created
    <3>2. njobs + 1 \in JobIds /\ njobs + 1 > njobs
      BY <3>1, CountersNat, ConstantsAssumption DEF JobIds
    <3> QED BY <3>1, <3>2 DEF JobsTable
  <2> QED BY <2>1, <2>2
<1> QED BY <1>1 DEF AttemptsKept, NoJob, NewJob

LEMMA ClosedUncounted ==
  ASSUME TypeOK, NEW r, NEW stage, CloseRunning(r, stage)
  PROVE  NamesKept
<1>1. CASE RowsOf(r, stage) = {}
  BY <1>1 DEF CloseRunning, NamesKept
<1>2. CASE RowsOf(r, stage) # {}
  <2>1. PICK k \in LatestRows(r, stage) :
          rows' = [rows EXCEPT ![k].status = IF @ = "running" THEN "failed" ELSE @]
    BY <1>2 DEF CloseRunning
  <2>2. rows \in [RowIds -> Row \cup {NoRow}]
    BY DEF TypeOK, RowsTable
  <2> QED BY <2>1, <2>2 DEF NamesKept, Row, NoRow
<1> QED BY <1>1, <1>2

LEMMA SetRowUncounted ==
  ASSUME TypeOK, NEW w, NEW to, rows' = SetRow(w, to)
  PROVE  NamesKept
BY DEF TypeOK, RowsTable, SetRow, NamesKept, Row, NoRow

(* A worker leaves its job, or goes on with it, or without one. *)
LEMMA LeaverTakesNone ==
  ASSUME TypeOK, NEW w \in Workers, NEW l \in Idle, Goto(w, l), Forget(w)
  PROVE  NoneTakes
<1>1. /\ pc'[w] = l /\ \A v \in Workers : v # w => pc'[v] = pc[v] /\ task'[v] = task[v]
  BY DEF Goto, Forget, Remember, TypeOK, WorkersOK
<1> QED BY <1>1, Labels DEF NoneTakes

LEMMA GoerTakesNone ==
  ASSUME TypeOK, NEW w \in Workers, NEW l, Goto(w, l), task' = task,
         \/ l \in {"running", "commit", "rejecting"} /\ pc[w] \in Working
         \/ l = "starting" /\ pc[w] = "claimed"
         \/ l \in Idle
  PROVE  NoneTakes
<1>1. /\ pc'[w] = l /\ \A v \in Workers : v # w => pc'[v] = pc[v]
  BY DEF Goto, TypeOK, WorkersOK
<1> QED BY <1>1, Labels DEF NoneTakes

LEMMA OthersTakeNone ==
  ASSUME UNCHANGED <<pc, task>>
  PROVE  NoneTakes
BY DEF NoneTakes

LEMMA ApiUncounted ==
  ASSUME QueueInv, ApiStep
  PROVE  Uncounted
<1>0. TypeOK /\ JobsTable(jobs, njobs)
  BY DEF QueueInv, TypeOK
<1>1. PICK r \in Runs : \/ CreateRun(r) \/ ImportRun(r)
                        \/ Approve(r) \/ Restart(r) \/ Requeue(r) \/ RetryReview(r)
                        \/ Resume(r) \/ Stop(r) \/ Abandon(r)
  BY DEF ApiStep
<1>2. UNCHANGED <<rows, pc, task, faults>>
  BY <1>1 DEF CreateRun, ImportRun, Approve, Restart, Requeue, RetryReview,
              Resume, Stop, Abandon, TakeRoute, EndByOperator
<1>3. /\ NamesKept /\ NoneTakes
      /\ faults'.shutdowns \in Nat /\ faults'.shutdowns >= faults.shutdowns
  BY <1>0, <1>2, OthersTakeNone, CountersNat DEF NamesKept
<1>4. ASSUME NEW js \in {jobs, Cancelled(jobs, r)}, NEW next, CreateJob(js, r, next)
      PROVE  AttemptsKept
  <2>1. JobsTable(js, njobs)
    BY <1>0, JobsCancelled
  <2>2. \A j \in JobIds : /\ js[j].attempts = jobs[j].attempts
                          /\ js[j] = jobs[j] \/ js[j].status # "claimed"
    BY <1>0, CancelledUncounted
  <2> QED BY <1>0, <1>4, <2>1, <2>2, CreatedUncounted
<1>5. AttemptsKept
  <2>1. CASE CreateRun(r)
    BY <1>4, <2>1 DEF CreateRun
  <2>2. CASE ImportRun(r)
    BY <2>2 DEF ImportRun, AttemptsKept
  <2>3. CASE Approve(r) \/ Requeue(r) \/ RetryReview(r) \/ Resume(r) \/ Restart(r)
    <3>1. \E js \in {jobs, Cancelled(jobs, r)} : \E route : TakeRoute(r, js, route)
      BY <2>3 DEF Approve, Requeue, RetryReview, Resume, Restart
    <3> QED BY <1>4, <3>1 DEF TakeRoute
  <2>4. CASE Stop(r) \/ Abandon(r)
    <3>1. jobs' = Cancelled(jobs, r)
      BY <2>4 DEF Stop, Abandon, EndByOperator
    <3> QED BY <1>0, <3>1, CancelledUncounted DEF AttemptsKept
  <2> QED BY <1>1, <2>1, <2>2, <2>3, <2>4
<1> QED BY <1>3, <1>5 DEF Uncounted

LEMMA ClockUncounted ==
  ASSUME QueueInv, AttemptSafe, ClockStep
  PROVE  Uncounted
<1>0. TypeOK /\ faults.shutdowns \in Nat
  BY CountersNat DEF QueueInv
<1>1. PICK j \in JobIds : \/ LeaseExpires(j) /\ (faults' = faults \/ Fault("others"))
                          \/ BackoffElapses(j)
  BY DEF ClockStep, AbandonedLeaseLapses, LeaseLapses
<1>2. /\ NamesKept /\ NoneTakes
      /\ faults'.shutdowns \in Nat /\ faults'.shutdowns >= faults.shutdowns
  BY <1>0, <1>1, OneFault DEF LeaseExpires, BackoffElapses, NamesKept, NoneTakes
<1>3. CASE LeaseExpires(j)
  <2>1. AttemptsKept
    BY <1>0, <1>3, FlagUncounted DEF LeaseExpires, Active, ActiveJobStatus
  <2> QED BY <1>2, <2>1 DEF Uncounted
<1>4. CASE BackoffElapses(j)
  <2> DEFINE x == [jobs[j] EXCEPT !.waiting = FALSE]
  <2>1. jobs[j] \in Job
    BY <1>0, <1>4, ActiveRun
       DEF AttemptSafe, OnlyPendingWait, BackoffElapses, Active, ActiveJobStatus
  <2>2. x.attempts = jobs[j].attempts /\ x.status = jobs[j].status /\ x.owner = jobs[j].owner
    BY <2>1 DEF Job
  <2>3. jobs' = [jobs EXCEPT ![j] = x]
    BY <1>4 DEF BackoffElapses
  <2> HIDE DEF x
  <2>4. AttemptsKept
    BY <1>0, <2>2, <2>3, WrittenUncounted
  <2> QED BY <1>2, <2>4 DEF Uncounted
<1> QED BY <1>1, <1>3, <1>4

LEMMA SweepUncounted ==
  ASSUME QueueInv, NEW w \in Workers, SweepStep(w)
  PROVE  Uncounted
<1>0. TypeOK /\ faults.shutdowns \in Nat
  BY CountersNat DEF QueueInv
<1>1. NoneTakes /\ faults' = faults
  BY DEF SweepStep, SettleExhausted, SettleExpired, SettleRequeued, RecoverOrphan, NoneTakes
<1>2. ASSUME NEW j \in JobIds, SettleExhausted(w, j)
      PROVE  AttemptsKept /\ NamesKept
  <2>1. AttemptsKept
    BY <1>0, <1>2, EndedUncounted DEF SettleExhausted, Settle
  <2>2. NamesKept
    BY <1>0, <1>2, ClosedUncounted DEF SettleExhausted, Settle, NamesKept
  <2> QED BY <2>1, <2>2
<1>3. ASSUME NEW j \in JobIds, SettleExpired(w, j)
      PROVE  AttemptsKept /\ NamesKept
  BY <1>0, <1>3, ClosedUncounted DEF SettleExpired, AttemptsKept
<1>4. ASSUME NEW j \in JobIds, SettleRequeued(w, j)
      PROVE  AttemptsKept /\ NamesKept
  <2>1. AttemptsKept
    BY <1>0, <1>4, EndedUncounted DEF SettleRequeued, Stale, Active, ActiveJobStatus
  <2>2. NamesKept
    BY <1>0, <1>4, ClosedUncounted DEF SettleRequeued
  <2> QED BY <2>1, <2>2
<1>5. ASSUME NEW r \in Runs, RecoverOrphan(w, r)
      PROVE  AttemptsKept /\ NamesKept
  <2>1. rows \in [RowIds -> Row \cup {NoRow}]
    BY <1>0 DEF TypeOK, RowsTable
  <2>2. NamesKept
    BY <1>5, <2>1 DEF RecoverOrphan, NamesKept, Row, NoRow
  <2> QED BY <1>5, <2>2 DEF RecoverOrphan, AttemptsKept
<1> QED BY <1>0, <1>1, <1>2, <1>3, <1>4, <1>5 DEF SweepStep, Uncounted

LEMMA RenewUncounted ==
  ASSUME QueueInv, NEW w \in Workers, RenewLease(w)
  PROVE  Uncounted
<1>0. TypeOK /\ faults.shutdowns \in Nat
  BY CountersNat DEF QueueInv
<1>1. AttemptsKept
  BY <1>0, Labels, HolderRuns, FlagUncounted DEF RenewLease
<1> QED BY <1>0, <1>1 DEF RenewLease, Uncounted, NamesKept, NoneTakes

(* The stage runner's steps but the start of an attempt. *)
LEMMA StageUncounted ==
  ASSUME QueueInv, NEW w \in Workers, StageStep(w), ~BeginStage(w)
  PROVE  Uncounted
<1>0. TypeOK /\ faults.shutdowns \in Nat
  BY CountersNat DEF QueueInv
<1>1. ASSUME BackToPoll(w)
      PROVE  NoneTakes
  BY <1>0, <1>1, Labels, LeaverTakesNone DEF BackToPoll
<1>2. ASSUME pc[w] \in Begun, holdsLease(w), jobs' = JobEnded(w, "failed")
      PROVE  AttemptsKept
  <2>1. jobs' = [jobs EXCEPT ![task[w].job] = Ended(jobs[task[w].job], "failed")]
    BY <1>2 DEF JobEnded
  <2> QED BY <1>0, <1>2, <2>1, HolderRuns, EndedUncounted
<1>3. CASE ClosePrior(w)
  <2>1. NoneTakes
    BY <1>0, <1>3, GoerTakesNone DEF ClosePrior
  <2> QED BY <1>0, <1>3, <2>1, ClosedUncounted DEF ClosePrior, Uncounted, AttemptsKept
<1>4. CASE SkipStage(w) \/ HoldRefused(w) \/ RejectRefused(w)
  BY <1>0, <1>1, <1>4
     DEF SkipStage, HoldRefused, RejectRefused, Uncounted, AttemptsKept, NamesKept
<1>5. CASE DiscardStopped(w) \/ CommitRefused(w)
  <2>1. NamesKept
    BY <1>0, <1>5, SetRowUncounted DEF DiscardStopped, CommitRefused
  <2> QED BY <1>0, <1>1, <1>5, <2>1 DEF DiscardStopped, CommitRefused, Uncounted, AttemptsKept
<1>6. CASE ExecutorReturns(w)
  <2>1. NoneTakes
    BY <1>0, <1>6, Labels, GoerTakesNone DEF ExecutorReturns
  <2> QED BY <1>0, <1>6, <2>1 DEF ExecutorReturns, Uncounted, AttemptsKept, NamesKept
<1>7. CASE RejectAttempt(w)
  <2>1. NoneTakes
    BY <1>0, <1>7, Labels, GoerTakesNone DEF RejectAttempt, Committing
  <2>2. NamesKept
    BY <1>0, <1>7, SetRowUncounted DEF RejectAttempt
  <2> QED BY <1>0, <1>7, <2>1, <2>2 DEF RejectAttempt, Uncounted, AttemptsKept
<1>8. CASE CommitPassed(w)
  <2> DEFINE i == task[w].job
             x == [jobs[i] EXCEPT !.status = "completed", !.expired = FALSE]
             js == [jobs EXCEPT ![i] = x]
             next == PASSED_ROUTES[StageOf(w)].next
  <2>1. pc[w] \in Begun /\ holdsLease(w) /\ BackToPoll(w) /\ faults' = faults
    BY <1>8, Labels DEF CommitPassed, Committing, MayCommit
  <2>2. i \in JobIds /\ jobs[i] \in Job
    BY <2>1, HolderRuns, ActiveJobRuns
  <2>3. x \in Job /\ x.status = "completed" /\ x.attempts = jobs[i].attempts
    BY <2>2 DEF Job
  <2>4. CreateJob(js, RunOf(w), next)
    BY <1>8 DEF CommitPassed
  <2> HIDE DEF x, next
  <2>5. JobsTable(js, njobs)
    BY <1>0, <2>1, <2>3, Labels, OwnJobWritten
  <2>6. \A j \in JobIds : js[j] = IF j = i THEN x ELSE jobs[j]
    BY <1>0, <2>2 DEF TypeOK, JobsTable
  <2> HIDE DEF js, i
  <2>7. AttemptsKept
    BY <1>0, <2>3, <2>4, <2>5, <2>6, CreatedUncounted
  <2>8. NamesKept
    BY <1>0, <1>8, SetRowUncounted DEF CommitPassed
  <2> QED BY <1>0, <1>1, <2>1, <2>7, <2>8 DEF Uncounted
<1>9. ASSUME NEW o, CommitFailure(w, o)
      PROVE  Uncounted
  <2>1. pc[w] \in Begun /\ holdsLease(w) /\ BackToPoll(w) /\ faults' = faults
    BY <1>9, Labels DEF CommitFailure, Committing, MayCommit
  <2>2. NamesKept
    BY <1>0, <1>9, SetRowUncounted DEF CommitFailure
  <2>3. AttemptsKept
    <3> DEFINE x == [Ended(JobOf(w), "pending") EXCEPT !.waiting = TRUE]
    <3>1. x.status = "pending" /\ x.attempts = JobOf(w).attempts
      <4>1. JobOf(w) \in Job
        BY <1>0, <2>1, Labels, JobOfWorker
      <4>2. /\ Ended(JobOf(w), "pending") \in Job /\ Ended(JobOf(w), "pending").status = "pending"
            /\ Ended(JobOf(w), "pending").attempts = JobOf(w).attempts
        BY <4>1, EndedJob
      <4> QED BY <4>2 DEF Job
    <3>2. jobs' = [jobs EXCEPT ![task[w].job] = x] \/ jobs' = JobEnded(w, "failed")
      BY <1>9 DEF CommitFailure, JobOf
    <3> HIDE DEF x
    <3>3. task[w].job \in JobIds
      BY <2>1, HolderRuns
    <3> QED BY <1>0, <1>2, <2>1, <3>1, <3>2, <3>3, WrittenUncounted DEF JobOf
  <2> QED BY <1>0, <1>1, <2>1, <2>2, <2>3 DEF Uncounted
<1>10. ASSUME NEW o \in DOMAIN HoldTarget, CommitHold(w, o)
       PROVE  Uncounted
  <2>1. pc[w] \in Begun /\ holdsLease(w) /\ BackToPoll(w) /\ faults' = faults
    BY <1>10, Labels DEF CommitHold, Committing
  <2>2. AttemptsKept
    BY <1>2, <1>10, <2>1 DEF CommitHold
  <2>3. NamesKept
    BY <1>0, <1>10, SetRowUncounted DEF CommitHold, NamesKept
  <2> QED BY <1>0, <1>1, <2>1, <2>2, <2>3 DEF Uncounted
<1>11. CASE CommitRejected(w)
  <2>1. pc[w] \in Begun /\ holdsLease(w) /\ BackToPoll(w) /\ faults' = faults
    BY <1>11, Labels DEF CommitRejected
  <2>2. AttemptsKept
    BY <1>2, <1>11, <2>1 DEF CommitRejected
  <2> QED BY <1>0, <1>1, <1>11, <2>1, <2>2 DEF CommitRejected, Uncounted, NamesKept
<1> QED BY <1>3, <1>4, <1>5, <1>6, <1>7, <1>8, <1>9, <1>10, <1>11 DEF StageStep

(* What goes wrong but the start of a shutdown. *)
LEMMA FaultUncounted ==
  ASSUME QueueInv, NEW w \in Workers, FaultStep(w), ~ShutdownBegins(w)
  PROVE  Uncounted
<1>0. TypeOK /\ faults.shutdowns \in Nat
  BY CountersNat DEF QueueInv
<1>1. UNCHANGED db /\ faults'.shutdowns = faults.shutdowns
  BY <1>0, OneFault DEF FaultStep, WriteFails, Crash
<1>2. NoneTakes
  <2>1. CASE BackToPoll(w) \/ Crash(w)
    BY <1>0, <2>1, Labels, LeaverTakesNone DEF BackToPoll, Crash
  <2>2. CASE Committing(w, "rejected") /\ Goto(w, "rejecting") /\ task' = task
    BY <1>0, <2>2, Labels, GoerTakesNone DEF Committing
  <2> QED BY <2>1, <2>2 DEF FaultStep, WriteFails
<1> QED BY <1>0, <1>1, <1>2 DEF db, Uncounted, AttemptsKept, NamesKept

(* The job loop's steps but a claim and a release. *)
LEMMA LoopUncounted ==
  ASSUME QueueInv, NEW w \in Workers, LoopStep(w),
         \A j \in JobIds : ~Claim(w, j), ~(ShutdownReleases(w) /\ holdsLease(w))
  PROVE  Uncounted
<1>0. TypeOK /\ faults.shutdowns \in Nat
  BY CountersNat DEF QueueInv
<1>1. /\ UNCHANGED <<jobs, rows, faults>>
  BY DEF LoopStep, StaleJobsSwept, OrphansSwept, ShutdownInTime, ShutdownReleases
<1>2. NoneTakes
  <2>1. CASE StaleJobsSwept(w) \/ OrphansSwept(w)
    BY <1>0, <2>1, Labels, GoerTakesNone DEF StaleJobsSwept, OrphansSwept
  <2>2. CASE ShutdownInTime(w) \/ ShutdownReleases(w)
    BY <1>0, <2>2, Labels, LeaverTakesNone DEF ShutdownInTime, ShutdownReleases
  <2> QED BY <2>1, <2>2 DEF LoopStep
<1> QED BY <1>0, <1>1, <1>2 DEF Uncounted, AttemptsKept, NamesKept

-----------------------------------------------------------------------------
(* The steps that count.                                                   *)

(* A shutdown with a job in flight is a fault, and may give an attempt back. *)
LEMMA ShutdownCounted ==
  ASSUME QueueInv, BudgetSafe, NEW w \in Workers, ShutdownBegins(w)
  PROVE  BudgetSafe'
<1>0. TypeOK /\ RefundsPaid /\ RowsCounted /\ TasksCounted /\ AttemptsNotShared
  BY DEF QueueInv, BudgetSafe
<1>1. /\ UNCHANGED <<jobs, rows, task>>
      /\ faults.shutdowns \in Nat /\ faults'.shutdowns = faults.shutdowns + 1
  BY <1>0, CountersNat, OneFault DEF ShutdownBegins
<1>2. /\ pc[w] \in Working /\ pc'[w] \in Working
      /\ \A v \in Workers : v # w => pc'[v] = pc[v]
  BY <1>0, Labels DEF ShutdownBegins, Goto, TypeOK, WorkersOK
<1>3. Refunds' \subseteq Refunds \cup {<<"worker", w>>}
  <2>1. \A k \in RowIds : Repeated(k)' => Repeated(k)
    BY <1>1 DEF Repeated
  <2>2. \A j \in JobIds : Refunded(j)' => Refunded(j)
    BY <1>1 DEF Refunded, Recorded
  <2>3. \A v \in Workers : v # w /\ Indebted(v)' => Indebted(v)
    BY <1>1, <1>2 DEF Indebted, Recorded
  <2> QED BY <2>1, <2>2, <2>3, RefundsAre, RefundsAreOnly
<1>4. RefundsPaid'
  BY <1>0, <1>1, <1>3, RefundsGrow
<1>5. RowsCounted'
  BY <1>0, <1>1 DEF RowsCounted
<1>6. TasksCounted'
  BY <1>0, <1>1, <1>2 DEF TasksCounted
<1>7. AttemptsNotShared'
  BY <1>0, <1>1, <1>2 DEF AttemptsNotShared
<1> QED BY <1>4, <1>5, <1>6, <1>7 DEF BudgetSafe

(* A released job takes the refund over from the worker. *)
LEMMA ReleaseCounted ==
  ASSUME QueueInv, BudgetSafe, NEW w \in Workers, ShutdownReleases(w), holdsLease(w)
  PROVE  BudgetSafe'
<1> DEFINE i == task[w].job
           x == Released(jobs[i])
<1>0. TypeOK /\ RefundsPaid /\ RowsCounted /\ TasksCounted /\ AttemptsNotShared
  BY DEF QueueInv, BudgetSafe
<1>1. /\ i \in JobIds /\ jobs[i] \in Job
      /\ jobs[i].status = "claimed" /\ jobs[i].owner = w /\ jobs[i].attempts > 0
  BY Labels, HolderRuns, ActiveJobRuns DEF ShutdownReleases, holdsLease, JobOf
<1>2. x.status = "pending" /\ x.attempts = jobs[i].attempts - 1
  BY <1>1, ReleasedJob
<1>3. jobs' = [jobs EXCEPT ![i] = x] /\ faults' = faults
  BY DEF ShutdownReleases
<1>4. /\ jobs'[i].attempts = jobs[i].attempts - 1 /\ jobs'[i].status = "pending"
      /\ \A j \in JobIds : j # i => jobs'[j] = jobs[j]
  <2> HIDE DEF x
  <2> QED BY <1>0, <1>1, <1>2, <1>3 DEF TypeOK, JobsTable
<1>5. NamesKept
  BY <1>0, ClosedUncounted DEF ShutdownReleases
<1>6. /\ pc[w] = "stopping" /\ pc'[w] = "startup"
      /\ \A v \in Workers : v # w => pc'[v] = pc[v] /\ task'[v] = task[v]
  BY <1>0 DEF ShutdownReleases, Goto, Forget, Remember, TypeOK, WorkersOK
<1> HIDE DEF i, x
<1>7. \A j, a : Recorded(j, a)' => Recorded(j, a)
  BY <1>5 DEF Recorded, NamesKept
<1>8. RefundsPaid'
  <2>1. <<"worker", w>> \in Refunds
    BY <1>6, RefundsAre DEF Indebted
  <2>2. \A k \in RowIds : Repeated(k)' => Repeated(k)
    BY <1>5 DEF Repeated, NamesKept
  <2>3. \A j \in JobIds : j # i /\ Refunded(j)' => Refunded(j)
    BY <1>4, <1>7 DEF Refunded
  <2>4. \A v \in Workers : Indebted(v)' => Indebted(v) /\ v # w
    BY <1>6, <1>7 DEF Indebted
  <2>5. Refunds' \subseteq (Refunds \ {<<"worker", w>>}) \cup {<<"job", i>>}
    <3> DEFINE S == (Refunds \ {<<"worker", w>>}) \cup {<<"job", i>>}
    <3>1. \A k \in RowIds : Repeated(k)' => <<"row", k>> \in S
      BY <2>2, RefundsAre
    <3>2. \A j \in JobIds : Refunded(j)' => <<"job", j>> \in S
      BY <2>3, RefundsAre
    <3>3. \A v \in Workers : Indebted(v)' => <<"worker", v>> \in S
      BY <2>4, RefundsAre
    <3> HIDE DEF S
    <3>4. Refunds' \subseteq S
      BY <3>1, <3>2, <3>3, RefundsAreOnly
    <3> QED BY <3>4 DEF S
  <2> QED BY <1>0, <1>3, <2>1, <2>5, RefundsMove, CountTypes
<1>9. RowsCounted'
  <2> SUFFICES ASSUME NEW j \in JobIds, NEW k \in RowIds, rows'[k].job = j
               PROVE  /\ rows'[k].attempt <= jobs'[j].attempts + 1
                      /\ jobs'[j].status = "claimed" => rows'[k].attempt <= jobs'[j].attempts
    BY DEF RowsCounted
  <2>1. rows[k].job = j /\ rows'[k].attempt = rows[k].attempt
    BY <1>5 DEF NamesKept
  <2>2. CASE j = i
    BY <1>0, <1>1, <1>4, <2>1, <2>2, CountTypes DEF RowsCounted
  <2>3. CASE j # i
    BY <1>0, <1>4, <2>1, <2>3 DEF RowsCounted
  <2> QED BY <2>2, <2>3
<1>10. TasksCounted'
  <2> SUFFICES ASSUME NEW v \in Workers, NEW j \in JobIds, pc'[v] \in Working, task'[v].job = j
               PROVE  /\ task'[v].attempt <= jobs'[j].attempts
                      /\ jobs'[j].status = "claimed" =>
                           IF jobs'[j].owner = v THEN task'[v].attempt = jobs'[j].attempts
                                                 ELSE task'[v].attempt < jobs'[j].attempts
    BY DEF TasksCounted
  <2>1. v # w /\ pc[v] \in Working /\ task'[v] = task[v]
    BY <1>6, Labels
  <2>2. CASE j = i
    <3>1. task[v].attempt < jobs[i].attempts
      BY <1>0, <1>1, <2>1, <2>2 DEF TasksCounted
    <3> QED BY <1>0, <1>1, <1>4, <2>1, <2>2, <3>1, CountTypes
  <2>3. CASE j # i
    BY <1>0, <1>4, <2>1, <2>3 DEF TasksCounted
  <2> QED BY <2>2, <2>3
<1>11. AttemptsNotShared'
  BY <1>0, <1>6, Labels DEF AttemptsNotShared
<1> QED BY <1>8, <1>9, <1>10, <1>11 DEF BudgetSafe

(* A claim is for an attempt nobody is on, and takes over the job's refund. *)
LEMMA ClaimCounted ==
  ASSUME QueueInv, BudgetSafe, NEW w \in Workers, NEW i \in JobIds, Claim(w, i)
  PROVE  BudgetSafe'
<1> DEFINE a == jobs[i].attempts + 1
           x == ClaimedBy(w, jobs[i])
<1>0. TypeOK /\ RefundsPaid /\ RowsCounted /\ TasksCounted /\ AttemptsNotShared
  BY DEF QueueInv, BudgetSafe
<1>1. jobs[i] \in Job
  BY <1>0, ActiveRun DEF Claim, Claimable, Stale, Active, ActiveJobStatus
<1>2. x.status = "claimed" /\ x.owner = w /\ x.attempts = a
  BY <1>1 DEF ClaimedBy, Job
<1>3. jobs' = [jobs EXCEPT ![i] = x] /\ UNCHANGED <<rows, faults>>
  BY DEF Claim
<1>4. /\ jobs'[i].status = "claimed" /\ jobs'[i].owner = w /\ jobs'[i].attempts = a
      /\ \A j \in JobIds : j # i => jobs'[j] = jobs[j]
  <2> HIDE DEF x, a
  <2> QED BY <1>0, <1>2, <1>3 DEF TypeOK, JobsTable
<1>5. /\ pc[w] = "poll" /\ pc'[w] \in {"claimed", "starting"}
      /\ task'[w].job = i /\ task'[w].attempt = a
      /\ \A v \in Workers : v # w => pc'[v] = pc[v] /\ task'[v] = task[v]
  <2>1. task' = [task EXCEPT ![w] = [job |-> i, attempt |-> a, row |-> 0, seen |-> "absent"]]
    BY DEF Claim, Remember
  <2> HIDE DEF a
  <2> QED BY <1>0, <2>1 DEF Claim, Goto, TypeOK, WorkersOK
<1>6. a \in Nat /\ a > jobs[i].attempts /\ a = jobs[i].attempts + 1 /\ jobs[i].attempts \in Nat
  BY <1>0, CountTypes
<1> HIDE DEF a, x
<1>7. \A j, b : Recorded(j, b)' <=> Recorded(j, b)
  BY <1>3 DEF Recorded
<1>8. ~Refunded(i)'
  BY <1>0, <1>3, <1>4, <1>6, CountTypes DEF Refunded, Recorded, RowsCounted
<1>9. Recorded(i, a) => Refunded(i)
  BY <1>6 DEF Refunded
<1>10. /\ \A k \in RowIds : Repeated(k)' => Repeated(k)
       /\ \A j \in JobIds : j # i /\ Refunded(j)' => Refunded(j)
       /\ \A v \in Workers : v # w /\ Indebted(v)' => Indebted(v)
  <2>1. \A k \in RowIds : Repeated(k)' => Repeated(k)
    BY <1>3 DEF Repeated
  <2>2. \A j \in JobIds : j # i /\ Refunded(j)' => Refunded(j)
    BY <1>4, <1>7 DEF Refunded
  <2>3. \A v \in Workers : v # w /\ Indebted(v)' => Indebted(v)
    BY <1>5, <1>7 DEF Indebted
  <2> QED BY <2>1, <2>2, <2>3
<1>11. RefundsPaid'
  <2>1. CASE Recorded(i, a)
    <3>1. <<"job", i>> \in Refunds
      BY <1>9, <2>1, RefundsAre
    <3>2. Refunds' \subseteq (Refunds \ {<<"job", i>>}) \cup {<<"worker", w>>}
      <4> DEFINE S == (Refunds \ {<<"job", i>>}) \cup {<<"worker", w>>}
      <4>1. \A k \in RowIds : Repeated(k)' => <<"row", k>> \in S
        BY <1>10, RefundsAre
      <4>2. \A j \in JobIds : Refunded(j)' => <<"job", j>> \in S
        BY <1>8, <1>10, RefundsAre
      <4>3. \A v \in Workers : Indebted(v)' => <<"worker", v>> \in S
        BY <1>10, RefundsAre
      <4> HIDE DEF S
      <4>4. Refunds' \subseteq S
        BY <4>1, <4>2, <4>3, RefundsAreOnly
      <4> QED BY <4>4 DEF S
    <3> QED BY <1>0, <1>3, <3>1, <3>2, RefundsMove, CountTypes
  <2>2. CASE ~Recorded(i, a)
    <3>1. ~Indebted(w)'
      BY <1>5, <1>7, <2>2 DEF Indebted
    <3>2. Refunds' \subseteq Refunds
      BY <1>8, <1>10, <3>1, RefundsAre, RefundsAreOnly
    <3> QED BY <1>0, <1>3, <3>2, RefundsShrink, CountTypes
  <2> QED BY <2>1, <2>2
<1>12. RowsCounted'
  BY <1>0, <1>3, <1>4, <1>6, CountTypes DEF RowsCounted
<1>13. \A v \in Workers : pc[v] \in Working /\ task[v].job = i => task[v].attempt < a
  BY <1>0, <1>6, CountTypes DEF TasksCounted
<1>14. TasksCounted'
  <2> SUFFICES ASSUME NEW v \in Workers, NEW j \in JobIds, pc'[v] \in Working, task'[v].job = j
               PROVE  /\ task'[v].attempt <= jobs'[j].attempts
                      /\ jobs'[j].status = "claimed" =>
                           IF jobs'[j].owner = v THEN task'[v].attempt = jobs'[j].attempts
                                                 ELSE task'[v].attempt < jobs'[j].attempts
    BY DEF TasksCounted
  <2>1. CASE v = w
    BY <1>4, <1>5, <1>6, <2>1
  <2>2. CASE v # w /\ j = i
    BY <1>0, <1>4, <1>5, <1>6, <1>13, <2>2, CountTypes
  <2>3. CASE v # w /\ j # i
    BY <1>0, <1>4, <1>5, <2>3 DEF TasksCounted
  <2> QED BY <2>1, <2>2, <2>3
<1>15. AttemptsNotShared'
  <2> SUFFICES ASSUME NEW u \in Workers, NEW v \in Workers,
                      pc'[u] \in Working, pc'[v] \in Working,
                      task'[u].job = task'[v].job, task'[u].attempt = task'[v].attempt,
                      u # v
               PROVE  FALSE
    BY DEF AttemptsNotShared
  <2>1. CASE u # w /\ v # w
    BY <1>0, <1>5, <2>1 DEF AttemptsNotShared
  <2>2. ASSUME NEW t \in Workers, t # w, pc'[t] \in Working, task'[t].job = i, task'[t].attempt = a
        PROVE  FALSE
    BY <1>0, <1>5, <1>6, <1>13, <2>2, CountTypes
  <2> QED BY <1>5, <2>1, <2>2
<1> QED BY <1>11, <1>12, <1>14, <1>15 DEF BudgetSafe

(* An attempt begun again is a row that repeats another: the refund is spent. *)
LEMMA BeginCounted ==
  ASSUME QueueInv, BudgetSafe, NEW w \in Workers, BeginStage(w)
  PROVE  BudgetSafe'
<1> DEFINE n == nrows + 1
           i == task[w].job
           a == task[w].attempt
           x == [run |-> RunOf(w), stage |-> StageOf(w), attempt |-> a,
                 status |-> "running", job |-> i]
<1>0. TypeOK /\ RefundsPaid /\ RowsCounted /\ TasksCounted /\ AttemptsNotShared
  BY DEF QueueInv, BudgetSafe
<1>1. n \in RowIds /\ rows[n] = NoRow /\ \A k \in RowIds : rows[k] # NoRow => k < n
  BY <1>0, CountersNat, MaxRowsNat DEF BeginStage, TypeOK, RowsTable, RowIds
<1>2. /\ rows'[n].job = i /\ rows'[n].attempt = a
      /\ \A k \in RowIds : k # n => rows'[k] = rows[k]
  BY <1>0, <1>1 DEF BeginStage, TypeOK, RowsTable
<1>3. /\ UNCHANGED <<jobs, faults>>
      /\ pc[w] = "starting" /\ pc'[w] = "running"
      /\ \A v \in Workers : v # w => pc'[v] = pc[v] /\ task'[v] = task[v]
  BY <1>0 DEF BeginStage, Goto, Remember, TypeOK, WorkersOK
<1>4. task'[w].job = i /\ task'[w].attempt = a
  <2>1. task[w] \in Task
    BY <1>0 DEF TypeOK, WorkersOK
  <2>2. task'[w] = [task[w] EXCEPT !.row = n, !.seen = status[RunOf(w)]]
    BY <1>0 DEF BeginStage, Remember, TypeOK, WorkersOK
  <2> QED BY <2>1, <2>2 DEF Task
<1>5. i \in JobIds /\ pc[w] \in Working /\ a <= jobs[i].attempts
  BY <1>0, <1>3, Labels, JobOfWorker DEF TasksCounted
<1> HIDE DEF n, i, a, x
<1>6. a \in Nat /\ jobs[i].attempts \in Nat /\ rows[n].job \notin JobIds
  BY <1>0, <1>1, <1>5, CountTypes DEF a, NoRow, JobIds
<1>7. \A j \in JobIds : \A b : Recorded(j, b)' <=> Recorded(j, b) \/ (j = i /\ b = a)
  BY <1>1, <1>2, <1>6 DEF Recorded
<1>8. \A k \in RowIds : k # n /\ Repeated(k)' => Repeated(k)
  <2> SUFFICES ASSUME NEW k \in RowIds, k # n, Repeated(k)'
               PROVE  Repeated(k)
    OBVIOUS
  <2>1. PICK j \in JobIds, m \in RowIds :
          rows'[k].job = j /\ m < k /\ rows'[m].job = j /\ rows'[m].attempt = rows'[k].attempt
    BY DEF Repeated
  <2>2. rows[k].job = j /\ rows'[k] = rows[k]
    BY <1>2, <2>1
  <2>3. k < n
    BY <1>1, <2>2 DEF NoRow, JobIds
  <2>4. m # n
    BY <2>1, <2>3 DEF RowIds
  <2> QED BY <1>2, <2>1, <2>2, <2>4 DEF Repeated
<1>9. \A k \in RowIds : k = n /\ Repeated(k)' => Recorded(i, a)
  <2> SUFFICES ASSUME NEW k \in RowIds, k = n, Repeated(k)'
               PROVE  Recorded(i, a)
    OBVIOUS
  <2>1. PICK m \in RowIds : m < k /\ rows'[m].job = i /\ rows'[m].attempt = a
    BY <1>2 DEF Repeated
  <2>2. m # n
    BY <1>1, <2>1 DEF RowIds
  <2> QED BY <1>2, <2>1, <2>2 DEF Recorded
<1>10. \A j \in JobIds : Refunded(j)' => Refunded(j)
  <2>1. a # jobs[i].attempts + 1
    BY <1>5, <1>6
  <2> QED BY <1>3, <1>7, <2>1 DEF Refunded
<1>11. \A v \in Workers : Indebted(v)' => Indebted(v) /\ v # w
  <2> SUFFICES ASSUME NEW v \in Workers, Indebted(v)'
               PROVE  Indebted(v) /\ v # w
    OBVIOUS
  <2>1. v # w
    BY <1>3 DEF Indebted
  <2>2. CASE pc[v] = "stopping"
    BY <2>1, <2>2 DEF Indebted
  <2>3. CASE pc[v] # "stopping"
    <3>1. pc[v] \in {"claimed", "starting"} /\ task'[v] = task[v]
          /\ Recorded(task[v].job, task[v].attempt)'
      BY <1>3, <2>1, <2>3 DEF Indebted
    <3>2. task[v].job \in JobIds /\ pc[v] \in Working
      BY <1>0, <3>1, Labels, JobOfWorker
    <3>3. ~(task[v].job = i /\ task[v].attempt = a)
      BY <1>0, <1>5, <2>1, <3>2 DEF AttemptsNotShared, i, a
    <3>4. Recorded(task[v].job, task[v].attempt)' =>
            \E k \in RowIds : rows'[k].job = task[v].job /\ rows'[k].attempt = task[v].attempt
      BY <3>1 DEF Recorded
    <3>5. Recorded(task[v].job, task[v].attempt)
      BY <1>2, <3>1, <3>3, <3>4 DEF Recorded
    <3> QED BY <2>1, <3>1, <3>5 DEF Indebted
  <2> QED BY <2>2, <2>3
<1>12. RefundsPaid'
  <2>1. CASE Recorded(i, a)
    <3>1. <<"worker", w>> \in Refunds
      BY <1>3, <2>1, RefundsAre DEF Indebted, i, a
    <3>2. Refunds' \subseteq (Refunds \ {<<"worker", w>>}) \cup {<<"row", n>>}
      <4> DEFINE S == (Refunds \ {<<"worker", w>>}) \cup {<<"row", n>>}
      <4>1. \A k \in RowIds : Repeated(k)' => <<"row", k>> \in S
        BY <1>8, RefundsAre
      <4>2. \A j \in JobIds : Refunded(j)' => <<"job", j>> \in S
        BY <1>10, RefundsAre
      <4>3. \A v \in Workers : Indebted(v)' => <<"worker", v>> \in S
        BY <1>11, RefundsAre
      <4> HIDE DEF S
      <4>4. Refunds' \subseteq S
        BY <4>1, <4>2, <4>3, RefundsAreOnly
      <4> QED BY <4>4 DEF S
    <3> QED BY <1>0, <1>3, <3>1, <3>2, RefundsMove, CountTypes
  <2>2. CASE ~Recorded(i, a)
    <3>1. \A k \in RowIds : Repeated(k)' => <<"row", k>> \in Refunds
      BY <1>8, <1>9, <2>2, RefundsAre
    <3>2. \A j \in JobIds : Refunded(j)' => <<"job", j>> \in Refunds
      BY <1>10, RefundsAre
    <3>3. \A v \in Workers : Indebted(v)' => <<"worker", v>> \in Refunds
      BY <1>11, RefundsAre
    <3>4. Refunds' \subseteq Refunds
      BY <3>1, <3>2, <3>3, RefundsAreOnly
    <3> QED BY <1>0, <1>3, <3>4, RefundsShrink, CountTypes
  <2> QED BY <2>1, <2>2
<1>13. RowsCounted'
  <2> SUFFICES ASSUME NEW j \in JobIds, NEW k \in RowIds, rows'[k].job = j
               PROVE  /\ rows'[k].attempt <= jobs'[j].attempts + 1
                      /\ jobs'[j].status = "claimed" => rows'[k].attempt <= jobs'[j].attempts
    BY DEF RowsCounted
  <2>1. CASE k = n
    BY <1>2, <1>3, <1>5, <1>6, <2>1
  <2>2. CASE k # n
    BY <1>0, <1>2, <1>3, <2>2 DEF RowsCounted
  <2> QED BY <2>1, <2>2
<1>14. \A v \in Workers : pc'[v] \in Working =>
         pc[v] \in Working /\ task'[v].job = task[v].job /\ task'[v].attempt = task[v].attempt
  BY <1>3, <1>4, <1>5 DEF i, a
<1>15. TasksCounted'
  BY <1>0, <1>3, <1>14 DEF TasksCounted
<1>16. AttemptsNotShared'
  BY <1>0, <1>14 DEF AttemptsNotShared
<1> QED BY <1>12, <1>13, <1>15, <1>16 DEF BudgetSafe

-----------------------------------------------------------------------------
(* Counting: what follows from the invariant.                              *)

(* At most as many rows are repeated as refunds were given. *)
LEMMA RepeatedAreFew ==
  ASSUME TypeOK, RefundsPaid, NEW S \in SUBSET RowIds, \A k \in S : Repeated(k)
  PROVE  IsFiniteSet(S) /\ Cardinality(S) \in Nat /\ Cardinality(S) <= Cardinality(Refunds)
<1> DEFINE f == [k \in S |-> <<"row", k>>]
<1>1. f \in [S -> Refunds]
  BY RefundsAre
<1>2. \A k, m \in S : f[k] = f[m] => k = m
  OBVIOUS
<1>3. f \in Injection(S, Refunds)
  BY <1>1, <1>2 DEF Injection, IsInjective
<1> HIDE DEF f
<1> QED BY <1>3, FS_Injection, FS_CardinalityType DEF RefundsPaid

(* Rows that repeat none are as few as the attempts they are numbered by. *)
LEMMA FreshAreFew ==
  ASSUME TypeOK, NEW S \in SUBSET RowIds, NEW T, IsFiniteSet(T),
         \A k \in S : ~Repeated(k) /\ rows[k].job \in JobIds
                       /\ <<rows[k].job, rows[k].attempt>> \in T
  PROVE  IsFiniteSet(S) /\ Cardinality(S) \in Nat /\ Cardinality(S) <= Cardinality(T)
<1> DEFINE f == [k \in S |-> <<rows[k].job, rows[k].attempt>>]
<1>1. f \in [S -> T]
  OBVIOUS
<1>2. ASSUME NEW k \in S, NEW m \in S, f[k] = f[m]
      PROVE  k = m
  <2>1. rows[k].job = rows[m].job /\ rows[k].attempt = rows[m].attempt
    BY <1>2
  <2>2. ~(k < m) /\ ~(m < k)
    BY <2>1 DEF Repeated
  <2> QED BY <2>2, MaxRowsNat DEF RowIds
<1>3. f \in Injection(S, T)
  BY <1>1, <1>2 DEF Injection, IsInjective
<1> HIDE DEF f
<1> QED BY <1>3, FS_Injection, FS_CardinalityType

LEMMA TwoParts ==
  ASSUME NEW S, NEW T, IsFiniteSet(S), IsFiniteSet(T), S \cap T = {}
  PROVE  Cardinality(S \cup T) = Cardinality(S) + Cardinality(T)
<1>1. Cardinality(S \cup T) = Cardinality(S) + Cardinality(T) - Cardinality(S \cap T)
  BY FS_Union
<1>2. Cardinality(S \cap T) = 0
  BY FS_EmptySet
<1>3. Cardinality(S) \in Nat /\ Cardinality(T) \in Nat
  BY FS_CardinalityType
<1> QED BY <1>1, <1>2, <1>3

LEMMA BudgetIsKept ==
  ASSUME BudgetInv
  PROVE  RetryBudgetKept
<1> SUFFICES ASSUME NEW j \in JobIds
             PROVE  Cardinality({k \in RowIds : rows[k].job = j})
                      <= MaxAttempts + faults.shutdowns
  BY DEF RetryBudgetKept
<1> DEFINE mine == {k \in RowIds : rows[k].job = j}
           again == {k \in mine : Repeated(k)}
           first == {k \in mine : ~Repeated(k)}
           T == {j} \X (1..MaxAttempts)
<1>0. TypeOK /\ RefundsPaid /\ MaxAttempts \in Nat \ {0} /\ faults.shutdowns \in Nat
  BY CountersNat, ConstantsAssumption DEF BudgetInv, BudgetSafe
<1>1. IsFiniteSet(T) /\ Cardinality(T) = MaxAttempts
  <2>1. IsFiniteSet({j}) /\ Cardinality({j}) = 1
    BY FS_Singleton
  <2>2. IsFiniteSet(1..MaxAttempts) /\ Cardinality(1..MaxAttempts) = MaxAttempts
    BY <1>0, FS_Interval
  <2>3. IsFiniteSet(T) /\ Cardinality(T) = Cardinality({j}) * Cardinality(1..MaxAttempts)
    BY <2>1, <2>2, FS_Product
  <2>4. 1 * MaxAttempts = MaxAttempts
    BY <1>0
  <2> QED BY <2>1, <2>2, <2>3, <2>4
<1>2. /\ IsFiniteSet(again) /\ Cardinality(again) \in Nat
      /\ Cardinality(again) <= Cardinality(Refunds) /\ Cardinality(Refunds) <= faults.shutdowns
      /\ Cardinality(Refunds) \in Nat
  BY <1>0, RepeatedAreFew, FS_CardinalityType DEF RefundsPaid
<1>3. IsFiniteSet(first) /\ Cardinality(first) \in Nat /\ Cardinality(first) <= MaxAttempts
  <2>1. ASSUME NEW k \in first
        PROVE  rows[k].job = j /\ rows[k].attempt \in 1..MaxAttempts /\ ~Repeated(k)
    <3>1. rows[k] \in Row \cup {NoRow} /\ rows[k].job = j
      BY <1>0 DEF TypeOK, RowsTable
    <3> QED BY <3>1 DEF Row, NoRow, JobIds
  <2>2. \A k \in first : /\ ~Repeated(k) /\ rows[k].job \in JobIds
                        /\ <<rows[k].job, rows[k].attempt>> \in T
    BY <2>1
  <2> HIDE DEF T
  <2>3. first \in SUBSET RowIds
    OBVIOUS
  <2> HIDE DEF first
  <2> QED BY <1>0, <1>1, <2>2, <2>3, FreshAreFew
<1>4. mine = first \cup again /\ first \cap again = {}
  OBVIOUS
<1> HIDE DEF mine, first, again
<1>5. Cardinality(mine) = Cardinality(first) + Cardinality(again)
  BY <1>2, <1>3, <1>4, TwoParts
<1>6. Cardinality(mine) <= MaxAttempts + faults.shutdowns
  BY <1>0, <1>2, <1>3, <1>5
<1> QED BY <1>6 DEF mine

(* The bound on the table of attempts never keeps a worker from beginning one. *)
RoomForAttempt == \A w \in Workers : pc[w] = "starting" => nrows < MaxRows

LEMMA RowsHaveRoom ==
  ASSUME BudgetInv
  PROVE  RoomForAttempt
<1> SUFFICES ASSUME NEW w \in Workers, pc[w] = "starting"
             PROVE  nrows < MaxRows
  BY DEF RoomForAttempt
<1> DEFINE mine == 1..nrows
           again == {k \in mine : Repeated(k)}
           first == {k \in mine : ~Repeated(k)}
           all == JobIds \X (1..MaxAttempts)
           next == <<task[w].job, task[w].attempt>>
<1>0. /\ TypeOK /\ RefundsPaid /\ TasksCounted /\ MaxAttempts \in Nat \ {0} /\ MaxJobs \in Nat
      /\ MaxFaults \in Nat /\ nrows \in Nat /\ nrows <= MaxRows
  <2>1. TypeOK /\ RefundsPaid /\ TasksCounted
    BY DEF BudgetInv, BudgetSafe
  <2>2. nrows <= MaxRows
    BY <2>1, MaxRowsNat DEF TypeOK, RowsTable
  <2> QED BY <2>1, <2>2, CountersNat, ConstantsAssumption
<1>11. faults.shutdowns \in Nat /\ faults.shutdowns <= MaxFaults
  BY <1>0 DEF TypeOK
<1>1. mine \subseteq RowIds /\ IsFiniteSet(mine) /\ Cardinality(mine) = nrows
  BY <1>0, MaxRowsNat, FS_Interval DEF RowIds
<1>2. IsFiniteSet(all) /\ Cardinality(all) = MaxJobs * MaxAttempts
  <2>1. MaxAttempts \in Nat /\ MaxJobs \in Nat
    BY <1>0
  <2>2. IsFiniteSet(JobIds) /\ Cardinality(JobIds) = MaxJobs
    BY <2>1, FS_Interval DEF JobIds
  <2>3. IsFiniteSet(1..MaxAttempts) /\ Cardinality(1..MaxAttempts) = MaxAttempts
    BY <2>1, FS_Interval
  <2> QED BY <2>2, <2>3, FS_Product
<1>3. /\ IsFiniteSet(again) /\ Cardinality(again) \in Nat
      /\ Cardinality(again) <= Cardinality(Refunds) /\ Cardinality(Refunds) <= faults.shutdowns
      /\ Cardinality(Refunds) \in Nat
  BY <1>0, <1>1, RepeatedAreFew, FS_CardinalityType DEF RefundsPaid
<1>4. ASSUME NEW k \in mine
      PROVE  rows[k].job \in JobIds /\ <<rows[k].job, rows[k].attempt>> \in all
  <2>1. rows[k] \in Row
    BY <1>0, <1>1 DEF TypeOK, RowsTable
  <2> QED BY <2>1 DEF Row
<1>5. next \in all
  <2>1. task[w].job \in JobIds /\ task[w].attempt \in 1..MaxAttempts
    BY <1>0, Labels, JobOfWorker DEF TypeOK, WorkersOK, Task
  <2> QED BY <2>1
<1>6. mine = first \cup again /\ first \cap again = {}
  OBVIOUS
<1>7. ASSUME NEW T, IsFiniteSet(T), \A k \in first : <<rows[k].job, rows[k].attempt>> \in T
      PROVE  IsFiniteSet(first) /\ Cardinality(first) \in Nat
             /\ Cardinality(first) <= Cardinality(T)
  <2>1. first \in SUBSET RowIds
    BY <1>1
  <2>2. \A k \in first : /\ ~Repeated(k) /\ rows[k].job \in JobIds
                        /\ <<rows[k].job, rows[k].attempt>> \in T
    BY <1>4, <1>7
  <2> HIDE DEF first
  <2> QED BY <1>0, <1>7, <2>1, <2>2, FreshAreFew
<1>8. MaxRows = MaxJobs * MaxAttempts + MaxFaults /\ MaxJobs * MaxAttempts \in Nat
  BY <1>0 DEF MaxRows
<1>9. CASE Recorded(task[w].job, task[w].attempt)
  (* The worker has a refund in its hands: fewer are spent. *)
  <2> DEFINE rest == Refunds \ {<<"worker", w>>}
  <2>1. <<"worker", w>> \in Refunds
    BY <1>9, RefundsAre DEF Indebted
  <2>2. IsFiniteSet(rest) /\ Cardinality(rest) = Cardinality(Refunds) - 1
    BY <1>0, <2>1, FS_RemoveElement DEF RefundsPaid
  <2>3. Cardinality(again) <= Cardinality(rest)
    <3> DEFINE f == [k \in again |-> <<"row", k>>]
    <3>1. \A k \in again : <<"row", k>> \in rest
      BY <1>1, RefundsAre
    <3>2. f \in [again -> rest] /\ \A k, m \in again : f[k] = f[m] => k = m
      BY <3>1
    <3>3. f \in Injection(again, rest)
      BY <3>2 DEF Injection, IsInjective
    <3> HIDE DEF f, again, rest
    <3> QED BY <2>2, <3>3, FS_Injection
  <2>4. IsFiniteSet(first) /\ Cardinality(first) \in Nat
        /\ Cardinality(first) <= MaxJobs * MaxAttempts
    <3> HIDE DEF all, first
    <3>1. \A k \in first : <<rows[k].job, rows[k].attempt>> \in all
      BY <1>4, <1>6
    <3> QED BY <1>2, <1>7, <3>1
  <2> HIDE DEF mine, first, again, rest
  <2>5. nrows = Cardinality(first) + Cardinality(again)
    BY <1>1, <1>3, <1>6, <2>4, TwoParts
  <2> QED BY <1>0, <1>3, <1>8, <1>11, <2>2, <2>3, <2>4, <2>5
<1>10. CASE ~Recorded(task[w].job, task[w].attempt)
  (* The worker's attempt is none of those in the table. *)
  <2> DEFINE rest == all \ {next}
  <2>1. IsFiniteSet(rest) /\ Cardinality(rest) = MaxJobs * MaxAttempts - 1
    <3> HIDE DEF all, next
    <3> QED BY <1>2, <1>5, FS_RemoveElement
  <2>2. \A k \in first : <<rows[k].job, rows[k].attempt>> \in rest
    <3>1. \A k \in first : ~(rows[k].job = task[w].job /\ rows[k].attempt = task[w].attempt)
      BY <1>1, <1>10 DEF Recorded
    <3>2. \A k \in first : <<rows[k].job, rows[k].attempt>> # next
      BY <3>1
    <3> HIDE DEF all, next, first
    <3> QED BY <1>4, <1>6, <3>2
  <2>3. IsFiniteSet(first) /\ Cardinality(first) \in Nat
        /\ Cardinality(first) <= MaxJobs * MaxAttempts - 1
    <3> HIDE DEF rest, first
    <3> QED BY <1>7, <2>1, <2>2
  <2> HIDE DEF mine, first, again, rest
  <2>4. nrows = Cardinality(first) + Cardinality(again)
    BY <1>1, <1>3, <1>6, <2>3, TwoParts
  <2> QED BY <1>0, <1>3, <1>8, <1>11, <2>3, <2>4
<1> QED BY <1>9, <1>10

-----------------------------------------------------------------------------
(* The theorems.                                                           *)

LEMMA BudgetInit ==
  ASSUME Init
  PROVE  BudgetSafe
<1>1. \A j \in JobIds, k \in RowIds : rows[k].job # j
  BY DEF Init, NoRow, JobIds
<1>2. \A w \in Workers : pc[w] = "startup" /\ pc[w] \notin Working
  BY Labels DEF Init
<1>3. Refunds = {}
  <2>1. /\ \A k \in RowIds : ~Repeated(k)
        /\ \A j \in JobIds : ~Refunded(j)
        /\ \A w \in Workers : ~Indebted(w)
    BY <1>1, <1>2 DEF Repeated, Refunded, Recorded, Indebted
  <2> QED BY <2>1 DEF Refunds
<1>4. RefundsPaid
  BY <1>3, FS_EmptySet DEF RefundsPaid, Init
<1> QED BY <1>1, <1>2, <1>4 DEF BudgetSafe, RowsCounted, TasksCounted, AttemptsNotShared

LEMMA BudgetStep ==
  ASSUME AttemptInv, BudgetSafe, [Next]_vars
  PROVE  BudgetSafe'
<1>1. QueueInv /\ AttemptSafe /\ TypeOK /\ faults.shutdowns \in Nat
  BY CountersNat DEF AttemptInv, QueueInv
<1>2. CASE UNCHANGED vars
  <2>1. Uncounted
    BY <1>1, <1>2 DEF vars, Uncounted, AttemptsKept, NamesKept, NoneTakes
  <2> QED BY <1>1, <2>1, UncountedIsSafe
<1>3. CASE Next
  <2>1. CASE Uncounted
    BY <1>1, <2>1, UncountedIsSafe
  <2>2. ASSUME NEW w \in Workers,
               \/ ShutdownBegins(w) \/ BeginStage(w) \/ \E j \in JobIds : Claim(w, j)
               \/ ShutdownReleases(w) /\ holdsLease(w)
        PROVE  BudgetSafe'
    BY <1>1, <2>2, ShutdownCounted, BeginCounted, ClaimCounted, ReleaseCounted
  <2> QED BY <1>1, <1>3, <2>1, <2>2, ApiUncounted, ClockUncounted, SweepUncounted,
             StageUncounted, LoopUncounted, RenewUncounted, FaultUncounted DEF Next
<1> QED BY <1>2, <1>3

(***************************************************************************)
(* A job's stage is begun at most MaxAttempts times, and once more for     *)
(* each shutdown that gave back what it broke off: no crash, takeover,     *)
(* late worker or release lets two workers count one attempt, or one twice.*)
(***************************************************************************)
THEOREM RetryBudgetCorrect == Spec => []RetryBudgetKept
<1>1. Init => AttemptInv /\ BudgetSafe
  BY AttemptInit, BudgetInit
<1>2. AttemptInv /\ BudgetSafe /\ [Next]_vars => (AttemptInv /\ BudgetSafe)'
  BY AttemptStep, BudgetStep
<1>3. AttemptInv /\ BudgetSafe => RetryBudgetKept
  BY BudgetIsKept DEF AttemptInv, QueueInv, BudgetInv
<1> QED BY <1>1, <1>2, <1>3, PTL DEF Spec

(***************************************************************************)
(* MaxRows, which bounds the table of attempts in the model, is as many as *)
(* there can be: it never keeps a worker from beginning its attempt.       *)
(***************************************************************************)
THEOREM AttemptsFit == Spec => []RoomForAttempt
<1>1. Init => AttemptInv /\ BudgetSafe
  BY AttemptInit, BudgetInit
<1>2. AttemptInv /\ BudgetSafe /\ [Next]_vars => (AttemptInv /\ BudgetSafe)'
  BY AttemptStep, BudgetStep
<1>3. AttemptInv /\ BudgetSafe => RoomForAttempt
  BY RowsHaveRoom DEF AttemptInv, QueueInv, BudgetInv
<1> QED BY <1>1, <1>2, <1>3, PTL DEF Spec

-----------------------------------------------------------------------------
(***************************************************************************)
(* RoomFor, the other bound of the model: it makes an operator's action    *)
(* wait for the last job ids, and never a commit.  Only a passed prepare   *)
(* job creates a job without asking for room, and every prepare job was    *)
(* created with room for the one after it.                                 *)
(***************************************************************************)
Preparing(js) == {j \in JobIds : js[j].status \in ActiveJobStatus /\ js[j].stage = "prepare"}

RoomKept == njobs + Cardinality(Preparing(jobs)) <= MaxJobs

(* A commit that is not refused and has a job to create finds an id for it. *)
RoomToPass ==
  \A w \in Workers :
    Committing(w, "passed") /\ MayCommit(w) /\ PASSED_ROUTES[StageOf(w)].next # "none"
      => njobs < MaxJobs

(* No job is created, and no job becomes one that prepares. *)
NoneAdded == njobs' = njobs /\ Preparing(jobs') \subseteq Preparing(jobs)

LEMMA PreparingFinite ==
  ASSUME NEW js
  PROVE  /\ IsFiniteSet(Preparing(js)) /\ Cardinality(Preparing(js)) \in Nat
         /\ \A S \in SUBSET Preparing(js) :
              IsFiniteSet(S) /\ Cardinality(S) \in Nat
                /\ Cardinality(S) <= Cardinality(Preparing(js))
<1>1. IsFiniteSet(JobIds)
  BY FS_Interval, ConstantsAssumption DEF JobIds
<1>2. Preparing(js) \subseteq JobIds
  BY DEF Preparing
<1>3. IsFiniteSet(Preparing(js))
  BY <1>1, <1>2, FS_Subset
<1> QED BY <1>3, FS_Subset, FS_CardinalityType

LEMMA NoneAddedKeeps ==
  ASSUME TypeOK, RoomKept, NoneAdded
  PROVE  RoomKept'
<1>1. Cardinality(Preparing(jobs')) \in Nat /\ Cardinality(Preparing(jobs)) \in Nat
      /\ Cardinality(Preparing(jobs')) <= Cardinality(Preparing(jobs))
  BY PreparingFinite DEF NoneAdded
<1> QED BY <1>1, CountersNat, ConstantsAssumption DEF RoomKept, NoneAdded

(* One job is written over, and keeps its stage. *)
LEMMA WrittenAdds ==
  ASSUME TypeOK, NEW k \in JobIds, NEW x, jobs' = [jobs EXCEPT ![k] = x], njobs' = njobs,
         x.stage = jobs[k].stage, x.status \in ActiveJobStatus => Active(k)
  PROVE  NoneAdded
<1>1. \A j \in JobIds : jobs'[j] = IF j = k THEN x ELSE jobs[j]
  BY DEF TypeOK, JobsTable
<1> QED BY <1>1 DEF NoneAdded, Preparing, Active

LEMMA EndedAdds ==
  ASSUME TypeOK, NEW k \in JobIds, Active(k), njobs' = njobs,
         NEW to \in {"pending", "completed", "failed", "cancelled"},
         jobs' = [jobs EXCEPT ![k] = Ended(jobs[k], to)]
  PROVE  NoneAdded
<1> DEFINE x == Ended(jobs[k], to)
<1>1. x.stage = jobs[k].stage
  BY ActiveRun, EndedJob
<1> HIDE DEF x
<1> QED BY <1>1, WrittenAdds DEF x

LEMMA FlagAdds ==
  ASSUME TypeOK, NEW k \in JobIds, Active(k), njobs' = njobs, NEW b,
         jobs' = [jobs EXCEPT ![k].expired = b]
  PROVE  NoneAdded
<1> DEFINE x == [jobs[k] EXCEPT !.expired = b]
<1>1. jobs[k] \in Job
  BY ActiveRun
<1>2. x.stage = jobs[k].stage
  BY <1>1 DEF Job
<1>3. jobs' = [jobs EXCEPT ![k] = x]
  OBVIOUS
<1> HIDE DEF x
<1> QED BY <1>2, <1>3, WrittenAdds

LEMMA CancelledAdds ==
  ASSUME TypeOK, NEW r \in Runs
  PROVE  Preparing(Cancelled(jobs, r)) \subseteq Preparing(jobs)
<1>1. ASSUME NEW j \in JobIds, Cancelled(jobs, r)[j].status \in ActiveJobStatus
      PROVE  Cancelled(jobs, r)[j] = jobs[j]
  <2>1. CASE jobs[j].run = r /\ jobs[j].status \in ActiveJobStatus
    <3>1. jobs[j] \in Job
      BY <2>1, ActiveRun DEF Active
    <3>2. Cancelled(jobs, r)[j] = Ended(jobs[j], "cancelled")
      BY <2>1 DEF Cancelled
    <3>3. Ended(jobs[j], "cancelled").status = "cancelled"
      BY <3>1, EndedJob
    <3> QED BY <1>1, <3>2, <3>3 DEF ActiveJobStatus
  <2>2. CASE ~(jobs[j].run = r /\ jobs[j].status \in ActiveJobStatus)
    BY <2>2 DEF Cancelled
  <2> QED BY <2>1, <2>2
<1> QED BY <1>1 DEF Preparing

(* What a new job adds. *)
LEMMA CreatedAdds ==
  ASSUME TypeOK, NEW js, JobsTable(js, njobs), NEW r, NEW next, CreateJob(js, r, next)
  PROVE  /\ next = "none" => njobs' = njobs
         /\ next # "none" => njobs' = njobs + 1
         /\ next # "prepare" => Preparing(jobs') \subseteq Preparing(js)
         /\ Preparing(jobs') \subseteq Preparing(js) \cup {njobs + 1}
<1>1. CASE next = "none"
  BY <1>1 DEF CreateJob, Created
<1>2. CASE next # "none"
  <2>1. njobs' = njobs + 1 /\ jobs' = [js EXCEPT ![njobs + 1] = NewJob(r, next)]
    BY <1>2 DEF CreateJob, Created
  <2>2. \A j \in JobIds : jobs'[j] = IF j = njobs + 1 THEN NewJob(r, next) ELSE js[j]
    BY <2>1 DEF JobsTable
  <2>3. NewJob(r, next).stage = next
    BY DEF NewJob
  <2> QED BY <1>2, <2>1, <2>2, <2>3 DEF Preparing
<1> QED BY <1>1, <1>2

(* The operator's actions ask for the room they take. *)
LEMMA RoomyKeeps ==
  ASSUME TypeOK, NEW r \in Runs, NEW js \in {jobs, Cancelled(jobs, r)}, NEW next,
         CreateJob(js, r, next), RoomFor(next)
  PROVE  RoomKept'
<1> DEFINE P == Preparing(jobs)
           Q == Preparing(jobs')
<1>1. JobsTable(js, njobs) /\ Preparing(js) \subseteq P
  BY JobsCancelled, CancelledAdds DEF TypeOK
<1>2. /\ next = "none" => njobs' = njobs
      /\ next # "none" => njobs' = njobs + 1
      /\ next # "prepare" => Q \subseteq P
      /\ Q \subseteq P \cup {njobs + 1}
  BY <1>1, CreatedAdds
<1>3. njobs + (IF next = "prepare" THEN 2 ELSE IF next = "none" THEN 0 ELSE 1)
        + Cardinality(P) <= MaxJobs
  <2>1. P = {j \in JobIds : Active(j) /\ jobs[j].stage = "prepare"}
    BY DEF Preparing, Active
  <2> HIDE DEF P
  <2> QED BY <2>1 DEF RoomFor
<1>4. /\ IsFiniteSet(P) /\ Cardinality(P) \in Nat /\ Cardinality(Q) \in Nat
      /\ Q \subseteq P => Cardinality(Q) <= Cardinality(P)
  BY PreparingFinite
<1> HIDE DEF P, Q
<1>5. Cardinality(Q) <= Cardinality(P) + 1
  <2> DEFINE R == P \cup {njobs + 1}
  <2>1. /\ IsFiniteSet(R)
        /\ Cardinality(R) = Cardinality(P) \/ Cardinality(R) = Cardinality(P) + 1
    BY <1>4, FS_AddElement
  <2>2. Q \subseteq R
    BY <1>2
  <2> HIDE DEF R
  <2>3. Cardinality(Q) <= Cardinality(R)
    BY <2>1, <2>2, FS_Subset
  <2> QED BY <1>4, <2>1, <2>3
<1>6. njobs' + Cardinality(Q) <= MaxJobs
  <2>1. njobs \in Nat /\ MaxJobs \in Nat
    BY CountersNat, ConstantsAssumption
  <2>2. CASE next = "prepare"
    BY <1>2, <1>3, <1>4, <1>5, <2>1, <2>2
  <2>3. CASE next = "none"
    BY <1>2, <1>3, <1>4, <2>1, <2>3
  <2>4. CASE next # "none" /\ next # "prepare"
    BY <1>2, <1>3, <1>4, <2>1, <2>4
  <2> QED BY <2>2, <2>3, <2>4
<1> QED BY <1>6 DEF RoomKept, Q

LEMMA ApiKeepsRoom ==
  ASSUME TypeOK, RoomKept, ApiStep
  PROVE  RoomKept'
<1>1. PICK r \in Runs : \/ CreateRun(r) \/ ImportRun(r)
                        \/ Approve(r) \/ Restart(r) \/ Requeue(r) \/ RetryReview(r)
                        \/ Resume(r) \/ Stop(r) \/ Abandon(r)
  BY DEF ApiStep
<1>2. CASE CreateRun(r)
  BY <1>2, RoomyKeeps DEF CreateRun
<1>3. CASE ImportRun(r)
  BY <1>3 DEF ImportRun, RoomKept
<1>4. CASE Approve(r) \/ Requeue(r) \/ RetryReview(r) \/ Resume(r) \/ Restart(r)
  <2>1. \E js \in {jobs, Cancelled(jobs, r)} : \E route : TakeRoute(r, js, route)
    BY <1>4 DEF Approve, Requeue, RetryReview, Resume, Restart
  <2> QED BY <2>1, RoomyKeeps DEF TakeRoute
<1>5. CASE Stop(r) \/ Abandon(r)
  <2>1. njobs' = njobs /\ jobs' = Cancelled(jobs, r)
    BY <1>5 DEF Stop, Abandon, EndByOperator
  <2> QED BY <2>1, CancelledAdds, NoneAddedKeeps DEF NoneAdded
<1> QED BY <1>1, <1>2, <1>3, <1>4, <1>5

LEMMA ClockAdds ==
  ASSUME TypeOK, ClockStep
  PROVE  NoneAdded
<1>1. PICK j \in JobIds : LeaseExpires(j) \/ BackoffElapses(j)
  BY DEF ClockStep, AbandonedLeaseLapses, LeaseLapses
<1>2. CASE LeaseExpires(j)
  BY <1>2, FlagAdds DEF LeaseExpires, Active, ActiveJobStatus
<1>3. CASE BackoffElapses(j)
  <2> DEFINE x == [jobs[j] EXCEPT !.waiting = FALSE]
  <2>1. jobs[j] \in Job \cup {NoJob}
    BY DEF TypeOK, JobsTable
  <2>2. x.stage = jobs[j].stage /\ x.status = jobs[j].status
    BY <2>1 DEF Job, NoJob
  <2>3. jobs' = [jobs EXCEPT ![j] = x] /\ njobs' = njobs
    BY <1>3 DEF BackoffElapses
  <2> HIDE DEF x
  <2> QED BY <2>2, <2>3, WrittenAdds DEF Active
<1> QED BY <1>1, <1>2, <1>3

LEMMA SweepAdds ==
  ASSUME TypeOK, NEW w \in Workers, SweepStep(w)
  PROVE  NoneAdded
<1>1. ASSUME NEW j \in JobIds, SettleExhausted(w, j)
      PROVE  NoneAdded
  BY <1>1, EndedAdds DEF SettleExhausted, Settle
<1>2. ASSUME NEW j \in JobIds, SettleExpired(w, j)
      PROVE  NoneAdded
  BY <1>2 DEF SettleExpired, NoneAdded
<1>3. ASSUME NEW j \in JobIds, SettleRequeued(w, j)
      PROVE  NoneAdded
  BY <1>3, EndedAdds DEF SettleRequeued, Stale, Active, ActiveJobStatus
<1>4. ASSUME NEW r \in Runs, RecoverOrphan(w, r)
      PROVE  NoneAdded
  BY <1>4 DEF RecoverOrphan, NoneAdded
<1> QED BY <1>1, <1>2, <1>3, <1>4 DEF SweepStep

(* The stage runner's steps but commitPassed. *)
LEMMA StageAdds ==
  ASSUME QueueInv, NEW w \in Workers, StageStep(w), ~CommitPassed(w)
  PROVE  NoneAdded
<1>0. TypeOK
  BY DEF QueueInv
<1>1. ASSUME pc[w] \in Begun, holdsLease(w), jobs' = JobEnded(w, "failed"), njobs' = njobs
      PROVE  NoneAdded
  BY <1>0, <1>1, HolderRuns, EndedAdds DEF JobEnded
<1>2. CASE \/ ClosePrior(w) \/ SkipStage(w) \/ BeginStage(w) \/ DiscardStopped(w)
           \/ ExecutorReturns(w) \/ CommitRefused(w) \/ HoldRefused(w)
           \/ RejectAttempt(w) \/ RejectRefused(w)
  BY <1>2 DEF ClosePrior, SkipStage, BeginStage, DiscardStopped, ExecutorReturns,
              CommitRefused, HoldRefused, RejectAttempt, RejectRefused, NoneAdded
<1>3. ASSUME NEW o, CommitFailure(w, o)
      PROVE  NoneAdded
  <2> DEFINE k == task[w].job
             x == [Ended(jobs[k], "pending") EXCEPT !.waiting = TRUE]
  <2>1. pc[w] \in Begun /\ holdsLease(w) /\ njobs' = njobs
    BY <1>3, Labels DEF CommitFailure, Committing, MayCommit
  <2>2. k \in JobIds /\ Active(k) /\ jobs[k] \in Job
    BY <1>0, <2>1, HolderRuns, ActiveRun
  <2>3. x.stage = jobs[k].stage
    <3>1. Ended(jobs[k], "pending") \in Job /\ Ended(jobs[k], "pending").stage = jobs[k].stage
      BY <2>2, EndedJob
    <3> QED BY <3>1 DEF Job
  <2>4. jobs' = [jobs EXCEPT ![k] = x] \/ jobs' = JobEnded(w, "failed")
    BY <1>3 DEF CommitFailure
  <2> HIDE DEF x
  <2> QED BY <1>0, <1>1, <2>1, <2>2, <2>3, <2>4, WrittenAdds
<1>4. ASSUME NEW o, CommitHold(w, o)
      PROVE  NoneAdded
  BY <1>1, <1>4, Labels DEF CommitHold, Committing
<1>5. CASE CommitRejected(w)
  BY <1>1, <1>5, Labels DEF CommitRejected
<1> QED BY <1>2, <1>3, <1>4, <1>5 DEF StageStep

LEMMA LoopAdds ==
  ASSUME QueueInv, NEW w \in Workers, LoopStep(w)
  PROVE  NoneAdded
<1>0. TypeOK
  BY DEF QueueInv
<1>1. CASE StaleJobsSwept(w) \/ OrphansSwept(w) \/ ShutdownInTime(w)
  BY <1>1 DEF StaleJobsSwept, OrphansSwept, ShutdownInTime, NoneAdded
<1>2. ASSUME NEW j \in JobIds, Claim(w, j)
      PROVE  NoneAdded
  <2> DEFINE x == ClaimedBy(w, jobs[j])
  <2>1. Active(j) /\ jobs[j] \in Job
    BY <1>0, <1>2, ActiveRun DEF Claim, Claimable, Stale, Active, ActiveJobStatus
  <2>2. x.stage = jobs[j].stage
    BY <2>1 DEF ClaimedBy, Job
  <2>3. jobs' = [jobs EXCEPT ![j] = x] /\ njobs' = njobs
    BY <1>2 DEF Claim
  <2> HIDE DEF x
  <2> QED BY <1>0, <2>1, <2>2, <2>3, WrittenAdds
<1>3. CASE ShutdownReleases(w)
  <2>1. CASE holdsLease(w)
    <3> DEFINE k == task[w].job
               x == Released(jobs[k])
    <3>1. k \in JobIds /\ Active(k) /\ jobs[k] \in Job
      BY <1>0, <1>3, <2>1, Labels, HolderRuns, ActiveRun DEF ShutdownReleases
    <3>2. x.stage = jobs[k].stage
      <4>1. Ended(jobs[k], "pending") \in Job
            /\ Ended(jobs[k], "pending").stage = jobs[k].stage
        BY <3>1, EndedJob
      <4> QED BY <4>1 DEF Released, Job
    <3>3. jobs' = [jobs EXCEPT ![k] = x] /\ njobs' = njobs
      BY <1>3, <2>1 DEF ShutdownReleases
    <3> HIDE DEF x
    <3> QED BY <1>0, <3>1, <3>2, <3>3, WrittenAdds
  <2>2. CASE ~holdsLease(w)
    BY <1>3, <2>2 DEF ShutdownReleases, NoneAdded
  <2> QED BY <2>1, <2>2
<1> QED BY <1>1, <1>2, <1>3 DEF LoopStep

(* A passed prepare job gives the room it held to the job it creates. *)
LEMMA PassedKeepsRoom ==
  ASSUME QueueInv, RoomKept, NEW w \in Workers, CommitPassed(w)
  PROVE  RoomKept'
<1> DEFINE k == task[w].job
           x == [jobs[k] EXCEPT !.status = "completed", !.expired = FALSE]
           js == [jobs EXCEPT ![k] = x]
           next == PASSED_ROUTES[StageOf(w)].next
           P == Preparing(jobs)
<1>0. TypeOK /\ njobs \in Nat /\ MaxJobs \in Nat
  BY CountersNat, ConstantsAssumption DEF QueueInv
<1>1. pc[w] \in Begun /\ holdsLease(w)
  BY Labels DEF CommitPassed, Committing, MayCommit
<1>2. k \in JobIds /\ Active(k) /\ jobs[k] \in Job /\ StageOf(w) = jobs[k].stage
  BY <1>0, <1>1, HolderRuns, ActiveRun DEF StageOf, JobOf
<1>3. x \in Job /\ x.status = "completed"
  BY <1>2 DEF Job
<1>4. CreateJob(js, RunOf(w), next)
  BY DEF CommitPassed
<1> HIDE DEF x, next
<1>5. JobsTable(js, njobs)
  BY <1>0, <1>1, <1>3, Labels, OwnJobWritten
<1>6. Preparing(js) \subseteq P \ {k}
  BY <1>0, <1>3 DEF Preparing, TypeOK, JobsTable, ActiveJobStatus
<1> HIDE DEF js
<1>7. next = "none" \/ (next = "understand" /\ jobs[k].stage = "prepare")
  BY <1>2 DEF next, PASSED_ROUTES, Job, JobStage
<1>8. /\ Preparing(jobs') \subseteq P \ {k}
      /\ njobs' = IF next = "none" THEN njobs ELSE njobs + 1
  BY <1>0, <1>4, <1>5, <1>6, <1>7, CreatedAdds
<1>9. CASE next = "none"
  BY <1>0, <1>8, <1>9, NoneAddedKeeps DEF NoneAdded
<1>10. CASE next # "none"
  <2>1. k \in P
    BY <1>2, <1>7, <1>10 DEF Preparing, Active
  <2>2. IsFiniteSet(P) /\ Cardinality(P) \in Nat
    BY PreparingFinite
  <2> HIDE DEF P
  <2>3. IsFiniteSet(P \ {k}) /\ Cardinality(P \ {k}) = Cardinality(P) - 1
    BY <2>1, <2>2, FS_RemoveElement
  <2>4. /\ Cardinality(Preparing(jobs')) <= Cardinality(P \ {k})
        /\ Cardinality(Preparing(jobs')) \in Nat
    BY <1>8, <2>3, FS_Subset, PreparingFinite
  <2>5. njobs + Cardinality(P) <= MaxJobs
    BY DEF RoomKept, P
  <2>6. njobs' + Cardinality(Preparing(jobs')) <= MaxJobs
    BY <1>0, <1>8, <1>10, <2>2, <2>3, <2>4, <2>5
  <2> QED BY <2>6 DEF RoomKept
<1> QED BY <1>9, <1>10

LEMMA RoomStep ==
  ASSUME QueueInv, RoomKept, [Next]_vars
  PROVE  RoomKept'
<1>0. TypeOK
  BY DEF QueueInv
<1>1. CASE ApiStep
  BY <1>0, <1>1, ApiKeepsRoom
<1>2. CASE ClockStep
  BY <1>0, <1>2, ClockAdds, NoneAddedKeeps
<1>3. ASSUME NEW w \in Workers, SweepStep(w)
      PROVE  RoomKept'
  BY <1>0, <1>3, SweepAdds, NoneAddedKeeps
<1>4. ASSUME NEW w \in Workers, StageStep(w)
      PROVE  RoomKept'
  BY <1>0, <1>4, StageAdds, PassedKeepsRoom, NoneAddedKeeps
<1>5. ASSUME NEW w \in Workers, LoopStep(w)
      PROVE  RoomKept'
  BY <1>0, <1>5, LoopAdds, NoneAddedKeeps
<1>6. ASSUME NEW w \in Workers, RenewLease(w)
      PROVE  RoomKept'
  <2>1. NoneAdded
    BY <1>0, <1>6, Labels, HolderRuns, FlagAdds DEF RenewLease
  <2> QED BY <1>0, <2>1, NoneAddedKeeps
<1>7. ASSUME NEW w \in Workers, FaultStep(w)
      PROVE  RoomKept'
  BY <1>7 DEF FaultStep, WriteFails, Crash, ShutdownBegins, db, RoomKept
<1>8. CASE UNCHANGED vars
  BY <1>8 DEF vars, RoomKept
<1> QED BY <1>1, <1>2, <1>3, <1>4, <1>5, <1>6, <1>7, <1>8 DEF Next

(* A job that passes has an id for the next one, whatever the operator created meanwhile. *)
THEOREM PassedJobsFit == Spec => []RoomToPass
<1>1. Init => QueueInv /\ RoomKept
  <2>1. ASSUME Init
        PROVE  RoomKept
    <3>1. Preparing(jobs) = {} /\ njobs = 0
      BY <2>1 DEF Init, Preparing, NoJob, ActiveJobStatus
    <3> QED BY <3>1, FS_EmptySet, ConstantsAssumption DEF RoomKept
  <2> QED BY <2>1, QueueInit DEF QueueInv
<1>2. QueueInv /\ RoomKept /\ [Next]_vars => (QueueInv /\ RoomKept)'
  BY QueueStep, RoomStep
<1>3. ASSUME QueueInv, RoomKept, NEW w \in Workers, Committing(w, "passed"), MayCommit(w),
             PASSED_ROUTES[StageOf(w)].next # "none"
      PROVE  njobs < MaxJobs
  <2>0. TypeOK
    BY <1>3 DEF QueueInv
  <2>1. task[w].job \in JobIds /\ Active(task[w].job)
    BY <1>3, Labels, HolderRuns DEF Committing, MayCommit
  <2>2. StageOf(w) = "prepare"
    BY <1>3, <2>0, <2>1, ActiveRun DEF PASSED_ROUTES, JobStage, StageOf, JobOf
  <2>3. task[w].job \in Preparing(jobs)
    BY <2>1, <2>2 DEF Preparing, Active, StageOf, JobOf
  <2>4. IsFiniteSet(Preparing(jobs)) /\ Cardinality(Preparing(jobs)) \in Nat
    BY PreparingFinite
  <2>5. Cardinality(Preparing(jobs)) # 0
    BY <2>3, <2>4, FS_EmptySet
  <2> QED BY <1>3, <2>0, <2>4, <2>5, CountersNat, ConstantsAssumption DEF RoomKept
<1>4. QueueInv /\ RoomKept => RoomToPass
  BY <1>3 DEF RoomToPass
<1> QED BY <1>1, <1>2, <1>4, PTL DEF Spec
=============================================================================
