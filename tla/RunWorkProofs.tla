---------------------------- MODULE RunWorkProofs ----------------------------
(***************************************************************************)
(* The queue implements RunWork: with jobs, workers, leases, retries,      *)
(* sweeps and crashes hidden, a run is in a status and has work that is    *)
(* none, waiting or taken, and moves only as RunWork says.                 *)
(*                                                                         *)
(* A run has at most one active job (QueueInv), so its work is that job's  *)
(* status.  Every step of JobLease writes one run and its jobs, and is the *)
(* step of RunWork that moves this run, or leaves status and work as they  *)
(* are.  That a spent job is settled only from a worker's hands, and that  *)
(* a recovered run was executable, is QueueInv again.                      *)
(***************************************************************************)
EXTENDS JobQueueProofs

(* The work of one run, in the jobs table js. *)
WorkOf(js, r) ==
  IF \E j \in JobIds : js[j].run = r /\ js[j].status = "claimed" THEN "claimed"
  ELSE IF \E j \in JobIds : ActiveIn(js, j, r) THEN "pending" ELSE "none"

-----------------------------------------------------------------------------
(* The two specifications read the same policy.                            *)

LEMMA SamePolicy ==
  /\ RW!RunStatus = RunStatus /\ RW!EXECUTABLE = EXECUTABLE
  /\ RW!AWAITING_HUMAN = AWAITING_HUMAN
  /\ \A s, t : RW!canTransition(s, t) <=> canTransition(s, t)
BY DEF RW!RunStatus, RunStatus, RW!TRANSITIONS, TRANSITIONS, RW!EXECUTABLE, EXECUTABLE,
       RW!AWAITING_HUMAN, AWAITING_HUMAN, RW!canTransition, canTransition

LEMMA WorkMapped ==
  /\ workOf = [r \in Runs |-> WorkOf(jobs, r)]
  /\ workOf' = [r \in Runs |-> WorkOf(jobs', r)]
BY DEF workOf, WorkOf, ClaimedJobsOf, ActiveJobsOf, Active, ActiveIn

(* A run's work is the status of its active job, and none without one. *)
LEMMA WorkIsJob ==
  ASSUME NEW js, NEW st, NEW r, RunOK(js, st, r), NEW k \in JobIds, ActiveIn(js, k, r)
  PROVE  WorkOf(js, r) = js[k].status
BY DEF RunOK, ActiveIn, ActiveJobStatus, WorkOf

LEMMA NoJobNoWork ==
  ASSUME NEW js, NEW r, \A j \in JobIds : ~ActiveIn(js, j, r)
  PROVE  WorkOf(js, r) = "none"
BY DEF ActiveIn, ActiveJobStatus, WorkOf

LEMMA RestNoWork ==
  ASSUME NEW js, NEW n, JobsTable(js, n), NEW st, NEW r, RunOK(js, st, r),
         st[r] \notin EXECUTABLE
  PROVE  WorkOf(js, r) = "none"
<1> SUFFICES ASSUME NEW j \in JobIds, ActiveIn(js, j, r)
             PROVE  FALSE
  BY NoJobNoWork
<1>1. js[j].stage \in JobStage
  BY JobPresent DEF ActiveIn, ActiveJobStatus, Job
<1>2. st[r] = StatusDuring[js[j].stage]
  BY DEF RunOK
<1> QED BY <1>1, <1>2, DuringExecutable

-----------------------------------------------------------------------------
(* A step that writes one run is that run's step of RunWork.               *)

LEMMA OneRunBecomes ==
  ASSUME TypeOK, TypeOK', NEW r \in Runs, OnlyRun(r)
  PROVE  RW!Becomes(r, status'[r], WorkOf(jobs', r))
<1>1. status' = [status EXCEPT ![r] = status'[r]]
  BY DEF TypeOK, OnlyRun
<1>2. ASSUME NEW q \in Runs, q # r
      PROVE  WorkOf(jobs', q) = WorkOf(jobs, q)
  <2>1. \A j \in JobIds : jobs'[j] = jobs[j] \/ (jobs'[j].run # q /\ jobs[j].run # q)
    BY <1>2, ConstantsAssumption DEF OnlyRun
  <2> QED BY <2>1 DEF WorkOf, ActiveIn
<1>3. workOf' = [workOf EXCEPT ![r] = WorkOf(jobs', r)]
  BY <1>2, WorkMapped
<1> QED BY <1>1, <1>3 DEF RW!Becomes

(* Neither a status nor a job's run or status is written. *)
LEMMA WorkStays ==
  ASSUME status' = status,
         \A j \in JobIds : jobs'[j].run = jobs[j].run /\ jobs'[j].status = jobs[j].status
  PROVE  UNCHANGED RW!vars
<1>1. \A r \in Runs : WorkOf(jobs', r) = WorkOf(jobs, r)
  BY DEF WorkOf, ActiveIn
<1> QED BY <1>1, WorkMapped DEF RW!vars

(* The queue's invariant, as it holds of the tables after the step. *)
LEMMA AfterStep ==
  ASSUME QueueInv'
  PROVE  /\ TypeOK' /\ JobsTable(jobs', njobs')
         /\ \A r \in Runs : RunOK(jobs', status', r)
BY DEF QueueInv, QueueSafe, TypeOK, QueueOK

(* One job of the run is written over, and the run moves to the given status. *)
LEMMA JobWrittenOnlyRun ==
  ASSUME TypeOK, NEW k \in JobIds, NEW x, jobs' = [jobs EXCEPT ![k] = x],
         x.run = jobs[k].run, NEW to, Moved(jobs[k].run, to)
  PROVE  OnlyRun(jobs[k].run)
BY DEF OnlyRun, Moved, TypeOK, JobsTable

(* A claimed job ends and its run moves to a status at rest. *)
LEMMA EndIsAdvance ==
  ASSUME QueueInv, QueueInv', NEW k \in JobIds, jobs[k].status = "claimed",
         NEW x, jobs' = [jobs EXCEPT ![k] = x], x.run = jobs[k].run,
         NEW to \in RunStatus, to \notin EXECUTABLE, Moved(jobs[k].run, to),
         canTransition(status[jobs[k].run], to)
  PROVE  RW!Next
<1> DEFINE r == jobs[k].run
<1>1. TypeOK /\ Active(k) /\ ActiveIn(jobs, k, r)
  BY DEF QueueInv, Active, ActiveIn, ActiveJobStatus
<1>2. r \in Runs /\ RunOK(jobs, status, r) /\ OnlyRun(r)
  BY <1>1, ActiveRun, JobWrittenOnlyRun DEF QueueInv, QueueSafe, QueueOK
<1>3. workOf[r] = "claimed"
  BY <1>1, <1>2, WorkIsJob, WorkMapped
<1>4. status'[r] = to
  BY <1>1, <1>2 DEF Moved, TypeOK
<1>5. WorkOf(jobs', r) = "none"
  BY <1>2, <1>4, AfterStep, RestNoWork
<1>6. RW!Becomes(r, to, RW!WorkIn(to))
  BY <1>1, <1>2, <1>4, <1>5, AfterStep, OneRunBecomes, SamePolicy DEF RW!WorkIn
<1>7. RW!Advance(r)
  BY <1>3, <1>6, SamePolicy DEF RW!Advance, RW!MovesTo
<1> QED BY <1>2, <1>7 DEF RW!Next

(* A claimed job goes back to the queue. *)
LEMMA ReturnIsGiveBack ==
  ASSUME QueueInv, QueueInv', status' = status, NEW k \in JobIds, jobs[k].status = "claimed",
         NEW x, jobs' = [jobs EXCEPT ![k] = x], x.run = jobs[k].run, x.status = "pending"
  PROVE  RW!Next
<1> DEFINE r == jobs[k].run
<1>1. TypeOK /\ Active(k) /\ ActiveIn(jobs, k, r)
  BY DEF QueueInv, Active, ActiveIn, ActiveJobStatus
<1>2. r \in Runs /\ RunOK(jobs, status, r)
  BY <1>1, ActiveRun DEF QueueInv, QueueSafe, QueueOK
<1>3. OnlyRun(r) /\ jobs'[k] = x
  BY <1>1 DEF OnlyRun, TypeOK, JobsTable
<1>4. workOf[r] = "claimed"
  BY <1>1, <1>2, WorkIsJob, WorkMapped
<1>5. WorkOf(jobs', r) = "pending"
  <2>1. ActiveIn(jobs', k, r)
    BY <1>3 DEF ActiveIn, ActiveJobStatus
  <2>2. RunOK(jobs', status', r)
    BY <1>2, AfterStep
  <2> HIDE DEF r
  <2>3. WorkOf(jobs', r) = jobs'[k].status
    BY <2>1, <2>2, WorkIsJob
  <2> QED BY <1>3, <2>3
<1>6. RW!Becomes(r, status[r], "pending")
  BY <1>1, <1>2, <1>3, <1>5, AfterStep, OneRunBecomes
<1> QED BY <1>2, <1>4, <1>6 DEF RW!GiveBack, RW!Next

(* A job, or none, is created: the run's work is what its new status asks for. *)
LEMMA WorkCreated ==
  ASSUME TypeOK, QueueInv', NEW r \in Runs, NEW js, JobsTable(js, njobs),
         NEW next, CreateJob(js, r, next), NEW to, Leads(next, to), status'[r] = to
  PROVE  WorkOf(jobs', r) = RW!WorkIn(to)
<1>1. CASE to \notin EXECUTABLE
  BY <1>1, AfterStep, RestNoWork, SamePolicy DEF RW!WorkIn
<1>2. CASE to \in EXECUTABLE
  <2>1. next \in JobStage /\ next # "none"
    BY <1>2 DEF Leads, JobStage
  <2>2. njobs < MaxJobs /\ jobs' = [js EXCEPT ![njobs + 1] = NewJob(r, next)]
    BY <2>1 DEF CreateJob, Created
  <2>3. njobs + 1 \in JobIds
    BY <2>2, CountersNat, ConstantsAssumption DEF JobIds
  <2>4. jobs'[njobs + 1] = NewJob(r, next)
    BY <2>2, <2>3 DEF JobsTable
  <2>5. ActiveIn(jobs', njobs + 1, r) /\ jobs'[njobs + 1].status = "pending"
    BY <2>4 DEF NewJob, ActiveIn, ActiveJobStatus
  <2>6. WorkOf(jobs', r) = "pending"
    BY <2>3, <2>5, AfterStep, WorkIsJob
  <2> QED BY <1>2, <2>6, SamePolicy DEF RW!WorkIn
<1> QED BY <1>1, <1>2

(* The tables js that differ from jobs in the run's jobs alone, and a job created. *)
LEMMA CreatedOnlyRun ==
  ASSUME TypeOK, NEW r \in Runs, NEW js, JobsTable(js, njobs),
         \A j \in JobIds : js[j].run = jobs[j].run,
         \A j \in JobIds : js[j] # jobs[j] => js[j].run = r,
         NEW next, CreateJob(js, r, next), NEW to, Moved(r, to)
  PROVE  OnlyRun(r) /\ status'[r] = to
<1>1. status'[r] = to /\ \A q \in Runs : q # r => status'[q] = status[q]
  BY DEF Moved, TypeOK
<1>2. CASE next = "none"
  BY <1>1, <1>2 DEF CreateJob, Created, OnlyRun
<1>3. CASE next # "none"
  <2>1. njobs < MaxJobs /\ jobs' = [js EXCEPT ![njobs + 1] = NewJob(r, next)]
    BY <1>3 DEF CreateJob, Created
  <2>2. njobs + 1 \in JobIds /\ njobs + 1 > njobs
    BY <2>1, CountersNat, ConstantsAssumption DEF JobIds
  <2>3. /\ jobs[njobs + 1] = NoJob /\ jobs'[njobs + 1] = NewJob(r, next)
        /\ \A j \in JobIds : j # njobs + 1 => jobs'[j] = js[j]
    BY <2>1, <2>2 DEF JobsTable, TypeOK
  <2> QED BY <1>1, <2>3 DEF OnlyRun, NewJob, NoJob
<1> QED BY <1>2, <1>3

-----------------------------------------------------------------------------
(* Every step of JobLease, one lemma per group of actions.                 *)

LEMMA ApiWorks ==
  ASSUME QueueInv, QueueInv', ApiStep
  PROVE  RW!Next
<1>0. TypeOK /\ QueueOK(jobs, status) /\ TypeOK'
  BY AfterStep DEF QueueInv, QueueSafe
<1>1. PICK r \in Runs : \/ CreateRun(r) \/ ImportRun(r)
                        \/ Approve(r) \/ Restart(r) \/ Requeue(r) \/ RetryReview(r)
                        \/ Resume(r) \/ Stop(r) \/ Abandon(r)
  BY DEF ApiStep
<1>2. ASSUME status[r] \notin EXECUTABLE
      PROVE  workOf[r] = "none"
  BY <1>0, <1>2, RestNoWork, WorkMapped DEF TypeOK, QueueOK
<1>3. ASSUME NEW js \in {jobs, Cancelled(jobs, r)}, NEW next, CreateJob(js, r, next),
             NEW to, Moved(r, to), Leads(next, to)
      PROVE  RW!Becomes(r, to, RW!WorkIn(to))
  <2>1. /\ JobsTable(js, njobs)
        /\ \A j \in JobIds : js[j].run = jobs[j].run
        /\ \A j \in JobIds : js[j] # jobs[j] => js[j].run = r
    BY <1>0, CancelledJobs, JobsCancelled DEF TypeOK
  <2>2. OnlyRun(r) /\ status'[r] = to
    BY <1>0, <1>3, <2>1, CreatedOnlyRun
  <2>3. WorkOf(jobs', r) = RW!WorkIn(to)
    BY <1>0, <1>3, <2>1, <2>2, WorkCreated
  <2>4. RW!Becomes(r, status'[r], WorkOf(jobs', r))
    BY <1>0, <2>2, OneRunBecomes
  <2> QED BY <2>2, <2>3, <2>4
<1>4. ASSUME NEW js \in {jobs, Cancelled(jobs, r)}, NEW route, TakeRoute(r, js, route),
             status[r] \in AWAITING_HUMAN \cup {"recovery_required"},
             route.to \in RunStatus, Leads(route.next, route.to)
      PROVE  RW!Next
  <2>1. /\ CreateJob(js, r, route.next) /\ Moved(r, route.to)
        /\ canTransition(status[r], route.to)
    BY <1>4 DEF TakeRoute, transitionRun, Moved
  <2>2. RW!Becomes(r, route.to, RW!WorkIn(route.to))
    BY <1>3, <1>4, <2>1
  <2>3. RW!AtRest(r)
    BY <1>4, SamePolicy DEF RW!AtRest
  <2>4. workOf[r] = "none"
    BY <1>2, <1>4 DEF AWAITING_HUMAN, EXECUTABLE
  <2>5. RW!Decide(r)
    BY <1>4, <2>1, <2>2, <2>3, <2>4, SamePolicy DEF RW!Decide, RW!MovesTo
  <2> QED BY <2>5 DEF RW!Next
<1>5. ASSUME NEW to \in {"stopped", "failed"}, EndByOperator(r, to), status[r] \in RunStatus
      PROVE  RW!Next
  <2>1. Moved(r, to) /\ jobs' = Cancelled(jobs, r) /\ canTransition(status[r], to)
    BY <1>5 DEF EndByOperator, transitionRun, Moved
  <2>2. OnlyRun(r) /\ status'[r] = to
    BY <1>0, <2>1, CancelledJobs DEF OnlyRun, Moved, TypeOK
  <2>3. WorkOf(jobs', r) = "none"
    BY <1>0, <2>1, CancelledJobs, NoJobNoWork
  <2>4. RW!Becomes(r, status'[r], WorkOf(jobs', r))
    BY <1>0, <2>2, OneRunBecomes
  <2>5. RW!WorkIn(to) = "none"
    BY SamePolicy DEF RW!WorkIn, EXECUTABLE
  <2>6. RW!MovesTo(r, to)
    BY <2>1, <2>2, <2>3, <2>4, <2>5, SamePolicy DEF RW!MovesTo
  <2>7. RW!End(r)
    BY <1>5, <2>6, SamePolicy DEF RW!End
  <2> QED BY <2>7 DEF RW!Next
<1>6. CASE CreateRun(r)
  <2>1. RW!Becomes(r, "preparing", RW!WorkIn("preparing"))
    BY <1>3, <1>6, PolicyRoutes DEF CreateRun, Moved
  <2>2. RW!WorkIn("preparing") = "pending"
    BY SamePolicy DEF RW!WorkIn, EXECUTABLE
  <2>3. status[r] = "absent"
    BY <1>6 DEF CreateRun
  <2>4. RW!Appear(r)
    BY <2>1, <2>2, <2>3 DEF RW!Appear
  <2> QED BY <2>4 DEF RW!Next
<1>7. CASE ImportRun(r)
  <2>1. PICK s \in ImportStatus : status' = [status EXCEPT ![r] = s]
    BY <1>7 DEF ImportRun
  <2>2. jobs' = jobs /\ status[r] = "absent" /\ status'[r] = s
    BY <1>0, <1>7, <2>1 DEF ImportRun, TypeOK
  <2>3. OnlyRun(r)
    BY <1>0, <2>1, <2>2 DEF OnlyRun, TypeOK
  <2>4. WorkOf(jobs', r) = "none"
    BY <1>0, <2>2, NoJobNoWork DEF QueueOK, RunOK, ActiveIn
  <2>5. RW!Becomes(r, status'[r], WorkOf(jobs', r))
    BY <1>0, <2>3, OneRunBecomes
  <2>6. RW!Appear(r)
    BY <2>2, <2>4, <2>5 DEF RW!Appear
  <2> QED BY <2>6 DEF RW!Next
<1>8. CASE Approve(r)
  <2>1. /\ status[r] \in AWAITING_HUMAN /\ APPROVE_ROUTES[status[r]].to \in RunStatus
        /\ Leads(APPROVE_ROUTES[status[r]].next, APPROVE_ROUTES[status[r]].to)
    BY <1>8, PolicyRoutes DEF Approve, APPROVE_ROUTES, AWAITING_HUMAN, RunStatus, TRANSITIONS
  <2> QED BY <1>4, <1>8, <2>1 DEF Approve
<1>9. CASE Restart(r)
  <2> DEFINE js == IF ClaimedJobsOf(r) = {} THEN jobs ELSE Cancelled(jobs, r)
             route == [to |-> "understanding", next |-> "understand"]
  <2>1. TakeRoute(r, js, route) /\ status[r] \in AWAITING_HUMAN
    BY <1>9 DEF Restart, RESTARTABLE, AWAITING_HUMAN
  <2>2. /\ js \in {jobs, Cancelled(jobs, r)} /\ Leads(route.next, route.to)
        /\ route.to \in RunStatus
    BY PolicyRoutes DEF RunStatus, TRANSITIONS
  <2> HIDE DEF js, route
  <2> QED BY <2>1, <2>2, <1>4
<1>10. CASE Requeue(r)
  <2> DEFINE route == [to |-> "planning", next |-> "plan"]
  <2>1. /\ TakeRoute(r, jobs, route) /\ status[r] \in AWAITING_HUMAN
        /\ Leads(route.next, route.to) /\ route.to \in RunStatus
    BY <1>10, PolicyRoutes DEF Requeue, AWAITING_HUMAN, RunStatus, TRANSITIONS
  <2> HIDE DEF route
  <2> QED BY <2>1, <1>4
<1>11. CASE RetryReview(r)
  <2> DEFINE route == [to |-> "executing", next |-> "review"]
  <2>1. /\ TakeRoute(r, jobs, route) /\ status[r] \in AWAITING_HUMAN
        /\ Leads(route.next, route.to) /\ route.to \in RunStatus
    BY <1>11, PolicyRoutes DEF RetryReview, AWAITING_HUMAN, RunStatus, TRANSITIONS
  <2> HIDE DEF route
  <2> QED BY <2>1, <1>4
<1>12. CASE Resume(r)
  <2>1. PICK stage \in LastStages(r) : TakeRoute(r, jobs, RESUME_ROUTES[stage])
    BY <1>12 DEF Resume
  <2>2. stage \in JobStage \cup {"none"}
    BY <1>0, LastStageType DEF TypeOK
  <2>3. RESUME_ROUTES[stage].to \in RunStatus
    BY <2>2 DEF RESUME_ROUTES, RunStatus, TRANSITIONS, JobStage
  <2>4. status[r] = "recovery_required"
    BY <1>12 DEF Resume
  <2> QED BY <1>4, <2>1, <2>2, <2>3, <2>4, PolicyRoutes
<1>13. CASE Stop(r) \/ Abandon(r)
  <2>1. status[r] \in RunStatus
    BY <1>13 DEF Stop, Abandon, STOPPABLE, RunStatus, TRANSITIONS
  <2> QED BY <1>5, <1>13, <2>1 DEF Stop, Abandon
<1> QED BY <1>1, <1>6, <1>7, <1>8, <1>9, <1>10, <1>11, <1>12, <1>13

LEMMA ClockWorks ==
  ASSUME QueueInv, ClockStep
  PROVE  UNCHANGED RW!vars
<1>1. PICK j \in JobIds : LeaseExpires(j) \/ BackoffElapses(j)
  BY DEF ClockStep, AbandonedLeaseLapses, LeaseLapses
<1>2. jobs \in [JobIds -> Job \cup {NoJob}]
  BY DEF QueueInv, TypeOK, JobsTable
<1>3. \A i \in JobIds : jobs'[i].run = jobs[i].run /\ jobs'[i].status = jobs[i].status
  <2>1. \A i \in JobIds : i # j => jobs'[i] = jobs[i]
    BY <1>1, <1>2 DEF LeaseExpires, BackoffElapses
  <2>2. \/ jobs'[j] = [jobs[j] EXCEPT !.expired = TRUE]
        \/ jobs'[j] = [jobs[j] EXCEPT !.waiting = FALSE]
    BY <1>1, <1>2 DEF LeaseExpires, BackoffElapses
  <2>3. jobs[j] \in Job \cup {NoJob}
    BY <1>2
  <2> QED BY <2>1, <2>2, <2>3 DEF Job, NoJob
<1>4. status' = status
  BY <1>1 DEF LeaseExpires, BackoffElapses
<1> QED BY <1>3, <1>4, WorkStays

LEMMA SweepWorks ==
  ASSUME QueueInv, QueueInv', NEW w \in Workers, SweepStep(w)
  PROVE  RW!Next \/ UNCHANGED RW!vars
<1>0. TypeOK /\ QueueOK(jobs, status) /\ PendingJobsAreClaimable /\ TypeOK'
  BY AfterStep DEF QueueInv, QueueSafe
<1>1. ASSUME NEW j \in JobIds, SettleExhausted(w, j)
      PROVE  RW!Next
  <2>1. Active(j) /\ jobs[j].status = "claimed"
    BY <1>0, <1>1 DEF SettleExhausted, PendingJobsAreClaimable, Active, ActiveJobStatus
  <2>2. /\ jobs[j] \in Job /\ canTransition(status[jobs[j].run], "recovery_required")
    BY <2>1, ActiveJobRuns
  <2>3. /\ jobs' = [jobs EXCEPT ![j] = Ended(jobs[j], "failed")]
        /\ Moved(jobs[j].run, "recovery_required")
    BY <1>1, <2>2 DEF SettleExhausted, Settle, transitionRun, Moved
  <2>4. Ended(jobs[j], "failed").run = jobs[j].run
    BY <2>2, EndedJob
  <2>5. "recovery_required" \in RunStatus /\ "recovery_required" \notin EXECUTABLE
    BY PolicyRoutes DEF RunStatus, TRANSITIONS
  <2> QED BY <2>1, <2>2, <2>3, <2>4, <2>5, EndIsAdvance
<1>2. ASSUME NEW j \in JobIds, SettleExpired(w, j)
      PROVE  UNCHANGED RW!vars
  BY <1>2, WorkStays DEF SettleExpired
<1>3. ASSUME NEW j \in JobIds, SettleRequeued(w, j)
      PROVE  RW!Next
  <2>1. Active(j) /\ jobs[j].status = "claimed" /\ status' = status
    BY <1>3 DEF SettleRequeued, Stale, Active, ActiveJobStatus
  <2>2. /\ jobs[j] \in Job /\ jobs' = [jobs EXCEPT ![j] = Ended(jobs[j], "pending")]
    BY <1>3, <2>1, ActiveJobRuns DEF SettleRequeued
  <2>3. Ended(jobs[j], "pending").run = jobs[j].run /\ Ended(jobs[j], "pending").status = "pending"
    BY <2>2, EndedJob
  <2> QED BY <2>1, <2>2, <2>3, ReturnIsGiveBack
<1>4. ASSUME NEW r \in Runs, RecoverOrphan(w, r)
      PROVE  RW!Next
  <2>1. /\ jobs' = jobs /\ status'[r] = "recovery_required" /\ OnlyRun(r)
        /\ canTransition(status[r], "recovery_required")
        /\ \A j \in JobIds : ~ActiveIn(jobs, j, r)
    BY <1>0, <1>4
       DEF RecoverOrphan, transitionRun, TypeOK, OnlyRun, ActiveJobsOf, Active, ActiveIn
  <2>2. status[r] \in EXECUTABLE
    BY <1>4 DEF RecoverOrphan, RunStatus, TERMINAL, AWAITING_HUMAN, EXECUTABLE, canTransition,
                TRANSITIONS
  <2>3. WorkOf(jobs, r) = "none" /\ WorkOf(jobs', r) = "none"
    BY <2>1, NoJobNoWork
  <2>4. RW!WorkIn("recovery_required") = "none"
    BY PolicyRoutes, SamePolicy DEF RW!WorkIn
  <2>5. RW!Becomes(r, status'[r], WorkOf(jobs', r))
    BY <1>0, <2>1, OneRunBecomes
  <2>6. RW!MovesTo(r, "recovery_required")
    BY <2>1, <2>3, <2>4, <2>5, SamePolicy DEF RW!MovesTo
  <2>7. RW!Recover(r)
    BY <2>2, <2>3, <2>6, WorkMapped, SamePolicy DEF RW!Recover
  <2> QED BY <2>7 DEF RW!Next
<1> QED BY <1>1, <1>2, <1>3, <1>4 DEF SweepStep

LEMMA LoopWorks ==
  ASSUME QueueInv, QueueInv', NEW w \in Workers, LoopStep(w)
  PROVE  RW!Next \/ UNCHANGED RW!vars
<1>0. TypeOK /\ QueueOK(jobs, status) /\ TypeOK'
  BY AfterStep DEF QueueInv, QueueSafe
<1>1. CASE StaleJobsSwept(w) \/ OrphansSwept(w) \/ ShutdownInTime(w)
  BY <1>1, WorkStays DEF StaleJobsSwept, OrphansSwept, ShutdownInTime
<1>2. CASE ShutdownReleases(w)
  <2>1. CASE ~holdsLease(w)
    BY <1>2, <2>1, WorkStays DEF ShutdownReleases
  <2>2. CASE holdsLease(w)
    <3>1. pc[w] \in Begun /\ status' = status
      BY <1>2, Labels DEF ShutdownReleases
    <3>2. /\ task[w].job \in JobIds /\ jobs[task[w].job] \in Job
          /\ jobs[task[w].job].attempts > 0 /\ jobs[task[w].job].status = "claimed"
      BY <2>2, <3>1, HolderRuns, ActiveJobRuns DEF holdsLease, JobOf
    <3>3. /\ jobs' = [jobs EXCEPT ![task[w].job] = Released(jobs[task[w].job])]
          /\ Released(jobs[task[w].job]).run = jobs[task[w].job].run
          /\ Released(jobs[task[w].job]).status = "pending"
      BY <1>2, <2>2, <3>2, ReleasedJob DEF ShutdownReleases
    <3> QED BY <3>1, <3>2, <3>3, ReturnIsGiveBack
  <2> QED BY <2>1, <2>2
<1>3. ASSUME NEW j \in JobIds, Claim(w, j)
      PROVE  RW!Next \/ UNCHANGED RW!vars
  <2> DEFINE x == ClaimedBy(w, jobs[j])
             r == jobs[j].run
  <2>1. Active(j) /\ jobs' = [jobs EXCEPT ![j] = x] /\ status' = status /\ ~Exhausted(j)
    BY <1>3 DEF Claim, Claimable, Stale, Active, ActiveJobStatus
  <2>2. jobs[j] \in Job /\ r \in Runs
    BY <2>1, ActiveJobRuns
  <2>3. x.run = r /\ x.status = "claimed"
    BY <2>2 DEF ClaimedBy, Job
  <2> HIDE DEF x
  <2>4. jobs'[j] = x /\ \A i \in JobIds : i # j => jobs'[i] = jobs[i]
    BY <1>0, <2>1 DEF TypeOK, JobsTable
  <2>5. CASE jobs[j].status = "claimed"
    BY <2>1, <2>3, <2>4, <2>5, WorkStays
  <2>6. CASE jobs[j].status # "claimed"
    <3>1. jobs[j].status = "pending" /\ ActiveIn(jobs, j, r) /\ ActiveIn(jobs', j, r)
      BY <2>1, <2>3, <2>4, <2>6 DEF Active, ActiveIn, ActiveJobStatus
    <3>2. OnlyRun(r)
      BY <2>1, <2>3, <2>4 DEF OnlyRun
    <3>3. RunOK(jobs, status, r) /\ RunOK(jobs', status', r)
      BY <1>0, <2>2, AfterStep DEF QueueOK
    <3> HIDE DEF r
    <3>4. WorkOf(jobs, r) = "pending" /\ WorkOf(jobs', r) = "claimed"
      BY <2>3, <2>4, <3>1, <3>3, WorkIsJob
    <3>5. RW!Becomes(r, status[r], "claimed")
      BY <1>0, <2>1, <2>2, <3>2, <3>4, OneRunBecomes
    <3>6. RW!Take(r)
      BY <2>2, <3>4, <3>5, WorkMapped DEF RW!Take
    <3> QED BY <2>2, <3>6 DEF RW!Next
  <2> QED BY <2>5, <2>6
<1> QED BY <1>1, <1>2, <1>3 DEF LoopStep

(* The holder of a lease fails its job and its run comes to rest. *)
LEMMA HolderFailsAdvances ==
  ASSUME QueueInv, QueueInv', NEW w \in Workers, pc[w] \in Begun, holdsLease(w),
         jobs' = JobEnded(w, "failed"), NEW to \in RunStatus, to \notin EXECUTABLE,
         Moved(RunOf(w), to), canTransition(status[RunOf(w)], to)
  PROVE  RW!Next
<1>1. task[w].job \in JobIds /\ jobs[task[w].job] \in Job /\ jobs[task[w].job].status = "claimed"
  BY HolderRuns, ActiveJobRuns DEF holdsLease, JobOf
<1>2. /\ jobs' = [jobs EXCEPT ![task[w].job] = Ended(jobs[task[w].job], "failed")]
      /\ Ended(jobs[task[w].job], "failed").run = jobs[task[w].job].run
  BY <1>1, EndedJob DEF JobEnded
<1> QED BY <1>1, <1>2, EndIsAdvance DEF RunOf, JobOf

(* Neither status nor jobs are written. *)
LEMMA QuietWorks ==
  ASSUME status' = status, jobs' = jobs
  PROVE  UNCHANGED RW!vars
BY WorkStays

LEMMA PassedWorks ==
  ASSUME QueueInv, QueueInv', NEW w \in Workers, CommitPassed(w)
  PROVE  RW!Next
<1> DEFINE r == RunOf(w)
           k == task[w].job
           route == PASSED_ROUTES[StageOf(w)]
           x == [JobOf(w) EXCEPT !.status = "completed", !.expired = FALSE]
           js == [jobs EXCEPT ![k] = x]
<1>0. TypeOK /\ TypeOK' /\ QueueOK(jobs, status)
  BY AfterStep DEF QueueInv, QueueSafe
<1>1. pc[w] \in Begun /\ pc[w] \in Working /\ holdsLease(w)
  BY <1>0, Labels DEF CommitPassed, Committing, MayCommit
<1>2. /\ k \in JobIds /\ Active(k) /\ JobOf(w) = jobs[k] /\ r = jobs[k].run
      /\ StageOf(w) = jobs[k].stage
  BY <1>1, HolderRuns DEF JobOf, RunOf, StageOf
<1>3. /\ r \in Runs /\ StageOf(w) \in JobStage /\ JobOf(w) \in Job
      /\ status[r] = StatusDuring[StageOf(w)]
  BY <1>2, ActiveJobRuns
<1>4. /\ Leads(route.next, route.to) /\ status[r] # route.to
      /\ canTransition(status[r], route.to) /\ route.to \in RunStatus
  BY <1>3, PolicyRoutes DEF PASSED_ROUTES, JobStage, RunStatus, TRANSITIONS
<1>5. Moved(r, route.to) /\ CreateJob(js, r, route.next)
  BY <1>4 DEF CommitPassed, transitionRun, Moved, JobOf
<1>6. x \in Job /\ x.run = r /\ x.status = "completed"
  BY <1>2, <1>3 DEF Job
<1>7. JobsTable(js, njobs)
  <2> HIDE DEF x
  <2> QED BY <1>0, <1>1, <1>6, OwnJobWritten
<1>8. /\ \A j \in JobIds : js[j].run = jobs[j].run
      /\ \A j \in JobIds : js[j] # jobs[j] => js[j].run = r
  <2>1. jobs \in [JobIds -> Job \cup {NoJob}]
    BY <1>0 DEF TypeOK, JobsTable
  <2>2. js[k] = x /\ \A j \in JobIds : j # k => js[j] = jobs[j]
    BY <1>2, <2>1
  <2> HIDE DEF x, js, r
  <2> QED BY <1>2, <1>6, <2>2
<1>9. ActiveIn(jobs, k, r) /\ jobs[k].status = "claimed" /\ RunOK(jobs, status, r)
  BY <1>0, <1>1, <1>2, <1>3 DEF Active, ActiveIn, holdsLease, QueueOK
<1> HIDE DEF r, k, route, js
<1>10. workOf[r] = "claimed"
  BY <1>2, <1>3, <1>9, WorkIsJob, WorkMapped
<1>11. OnlyRun(r) /\ status'[r] = route.to
  BY <1>0, <1>3, <1>5, <1>7, <1>8, CreatedOnlyRun
<1>12. WorkOf(jobs', r) = RW!WorkIn(route.to)
  BY <1>0, <1>3, <1>4, <1>5, <1>7, <1>11, WorkCreated
<1>13. RW!Becomes(r, route.to, RW!WorkIn(route.to))
  BY <1>0, <1>3, <1>11, <1>12, OneRunBecomes
<1>14. RW!Advance(r)
  BY <1>4, <1>10, <1>13, SamePolicy DEF RW!Advance, RW!MovesTo
<1> QED BY <1>3, <1>14 DEF RW!Next

LEMMA FailureWorks ==
  ASSUME QueueInv, QueueInv', NEW w \in Workers, NEW o, CommitFailure(w, o)
  PROVE  RW!Next
<1> DEFINE x == [Ended(JobOf(w), "pending") EXCEPT !.waiting = TRUE]
<1>1. pc[w] \in Begun /\ holdsLease(w)
  BY Labels DEF CommitFailure, Committing, MayCommit, QueueInv
<1>2. task[w].job \in JobIds /\ Active(task[w].job) /\ JobOf(w) = jobs[task[w].job]
  BY <1>1, HolderRuns DEF JobOf
<1>3. JobOf(w) \in Job /\ canTransition(status[RunOf(w)], "failed")
  BY <1>2, ActiveJobRuns DEF JobOf, RunOf
<1>4. CASE o = "error" /\ JobOf(w).attempts < MaxAttempts
  <2>1. status' = status /\ jobs' = [jobs EXCEPT ![task[w].job] = x]
    BY <1>4 DEF CommitFailure, JobOf
  <2>2. x.run = JobOf(w).run /\ x.status = "pending"
    BY <1>3, EndedJob DEF Job
  <2> HIDE DEF x
  <2> QED BY <1>1, <1>2, <2>1, <2>2, ReturnIsGiveBack DEF holdsLease
<1>5. CASE ~(o = "error" /\ JobOf(w).attempts < MaxAttempts)
  <2>1. Moved(RunOf(w), "failed") /\ jobs' = JobEnded(w, "failed")
    BY <1>3, <1>5 DEF CommitFailure, transitionRun, Moved
  <2>2. "failed" \in RunStatus
    BY DEF RunStatus, TRANSITIONS
  <2> QED BY <1>1, <1>3, <2>1, <2>2, PolicyRoutes, HolderFailsAdvances
<1> QED BY <1>4, <1>5

LEMMA HoldWorks ==
  ASSUME QueueInv, QueueInv', NEW w \in Workers, NEW o \in DOMAIN HoldTarget, CommitHold(w, o)
  PROVE  RW!Next
<1>1. pc[w] \in Begun /\ holdsLease(w) /\ o \in Outcomes(StageOf(w))
  BY Labels DEF CommitHold, Committing, QueueInv
<1>2. task[w].job \in JobIds /\ Active(task[w].job) /\ status[RunOf(w)] = task[w].seen
  BY <1>1, HolderRuns
<1>3. StageOf(w) \in JobStage /\ status[RunOf(w)] = StatusDuring[StageOf(w)]
  BY <1>2, ActiveJobRuns DEF JobOf, RunOf, StageOf
<1>4. canTransition(status[RunOf(w)], HoldTarget[o]) /\ HoldTarget[o] \notin EXECUTABLE
  BY <1>1, <1>3, HoldMoves
<1>5. Moved(RunOf(w), HoldTarget[o]) /\ jobs' = JobEnded(w, "failed")
  BY <1>2, <1>4 DEF CommitHold, transitionRun, Moved
<1>6. HoldTarget[o] \in RunStatus
  BY DEF HoldTarget, RunStatus, TRANSITIONS
<1> QED BY <1>1, <1>4, <1>5, <1>6, HolderFailsAdvances

LEMMA StageWorks ==
  ASSUME QueueInv, QueueInv', NEW w \in Workers, StageStep(w)
  PROVE  RW!Next \/ UNCHANGED RW!vars
<1>1. CASE ClosePrior(w) \/ SkipStage(w) \/ BeginStage(w) \/ DiscardStopped(w)
  BY <1>1, QuietWorks DEF ClosePrior, SkipStage, BeginStage, DiscardStopped
<1>2. CASE ExecutorReturns(w) \/ CommitRefused(w) \/ HoldRefused(w) \/ RejectAttempt(w)
           \/ RejectRefused(w)
  BY <1>2, QuietWorks
     DEF ExecutorReturns, CommitRefused, HoldRefused, RejectAttempt, RejectRefused
<1>3. CASE CommitPassed(w)
  BY <1>3, PassedWorks
<1>4. ASSUME NEW o, CommitFailure(w, o)
      PROVE  RW!Next
  BY <1>4, FailureWorks
<1>5. ASSUME NEW o \in DOMAIN HoldTarget, CommitHold(w, o)
      PROVE  RW!Next
  BY <1>5, HoldWorks
<1>6. CASE CommitRejected(w)
  <2>1. pc[w] \in Begun /\ holdsLease(w)
    BY <1>6, Labels DEF CommitRejected, QueueInv
  <2>2. Active(task[w].job) /\ task[w].job \in JobIds
    BY <2>1, HolderRuns
  <2>3. canTransition(status[RunOf(w)], "failed")
    BY <2>2, ActiveJobRuns DEF RunOf, JobOf
  <2>4. Moved(RunOf(w), "failed") /\ jobs' = JobEnded(w, "failed")
    BY <1>6, <2>3 DEF CommitRejected, transitionRun, Moved
  <2>5. "failed" \in RunStatus
    BY DEF RunStatus, TRANSITIONS
  <2> QED BY <2>1, <2>3, <2>4, <2>5, PolicyRoutes, HolderFailsAdvances
<1> QED BY <1>1, <1>2, <1>3, <1>4, <1>5, <1>6 DEF StageStep

LEMMA RenewWorks ==
  ASSUME QueueInv, NEW w \in Workers, RenewLease(w)
  PROVE  UNCHANGED RW!vars
<1> DEFINE k == task[w].job
<1>1. jobs \in [JobIds -> Job \cup {NoJob}] /\ k \in JobIds
  BY Labels, HolderRuns DEF QueueInv, TypeOK, JobsTable, RenewLease
<1>2. /\ jobs' = [jobs EXCEPT ![k] = [jobs[k] EXCEPT !.expired = FALSE]]
      /\ status' = status
  BY DEF RenewLease
<1>3. \A i \in JobIds : jobs'[i].run = jobs[i].run /\ jobs'[i].status = jobs[i].status
  <2>1. \A i \in JobIds : i # k => jobs'[i] = jobs[i]
    BY <1>1, <1>2
  <2>2. jobs'[k] = [jobs[k] EXCEPT !.expired = FALSE] /\ jobs[k] \in Job \cup {NoJob}
    BY <1>1, <1>2
  <2> HIDE DEF k
  <2> QED BY <2>1, <2>2 DEF Job, NoJob
<1> QED BY <1>2, <1>3, WorkStays

LEMMA FaultWorks ==
  ASSUME NEW w \in Workers, FaultStep(w)
  PROVE  UNCHANGED RW!vars
BY QuietWorks DEF FaultStep, WriteFails, Crash, ShutdownBegins, db

-----------------------------------------------------------------------------
(* The theorems.                                                           *)

LEMMA WorkInit ==
  ASSUME Init
  PROVE  RW!Init
<1>1. \A r \in Runs : WorkOf(jobs, r) = "none"
  BY DEF Init, WorkOf, ActiveIn, ActiveJobStatus, NoJob
<1> QED BY <1>1, WorkMapped DEF Init, RW!Init

LEMMA WorkStep ==
  ASSUME QueueInv, QueueInv', [Next]_vars
  PROVE  [RW!Next]_(RW!vars)
<1>1. CASE UNCHANGED vars
  BY <1>1, QuietWorks DEF vars
<1>2. CASE Next
  BY <1>2, ApiWorks, ClockWorks, SweepWorks, StageWorks, LoopWorks, RenewWorks, FaultWorks
     DEF Next
<1> QED BY <1>1, <1>2

(***************************************************************************)
(* The queue implements RunWork.  However workers claim, crash, stall and  *)
(* commit late, only work in a worker's hands moves its run along the      *)
(* workflow, an operator decides only for a run at rest that has no work,  *)
(* and a run is recovered only when it is executable and lost its work.    *)
(***************************************************************************)
THEOREM QueueImplementsRunWork == Spec => ImplementsRunWork
<1>1. Init => RW!Init
  BY WorkInit
<1>2. QueueInv /\ QueueInv' /\ [Next]_vars => [RW!Next]_(RW!vars)
  BY WorkStep
<1> QED BY <1>1, <1>2, QueueInvariant, PTL DEF Spec, ImplementsRunWork, RW!Spec
=============================================================================
