--------------------------- MODULE JobQueueProofs ---------------------------
(***************************************************************************)
(* The queue and the runs never contradict each other, for any number of   *)
(* runs, workers, jobs and attempts.  The safety invariants are proved     *)
(* together, as one inductive invariant:                                   *)
(*                                                                         *)
(*  - what the queue says of one run depends on that run's jobs alone, so  *)
(*    a step is checked against the one run it writes;                     *)
(*  - after a step that moves a run, the run either has no active job and  *)
(*    is at rest, or has exactly one, which belongs to its new status;     *)
(*  - a worker that holds its lease has the run's only active job, and     *)
(*    every step that moves the run ends that job or belongs to the holder.*)
(***************************************************************************)
EXTENDS JobLeaseProofs

(* What the queue says of one run. *)
ActiveIn(js, j, r) == js[j].run = r /\ js[j].status \in ActiveJobStatus

RunOK(js, st, r) ==
  /\ \A i, j \in JobIds : ActiveIn(js, i, r) /\ ActiveIn(js, j, r) => i = j
  /\ \A j \in JobIds : ActiveIn(js, j, r) => st[r] = StatusDuring[js[j].stage]
  /\ st[r] \in EXECUTABLE => \/ \E j \in JobIds : ActiveIn(js, j, r)
                             \/ \A j \in JobIds : js[j].run # r
  /\ st[r] = "absent" => \A j \in JobIds : js[j].run # r

QueueOK(js, st) == \A r \in Runs : RunOK(js, st, r)

(* No run without a status has jobs: what LiveRunHasWork needs of imports. *)
AbsentRunHasNoJobs ==
  \A r \in Runs : status[r] = "absent" => \A j \in JobIds : jobs[j].run # r

QueueSafe ==
  /\ QueueOK(jobs, status)
  /\ PendingJobsAreClaimable
  /\ LeaseholderSeesItsRun

QueueInv == TypeOK /\ QueueSafe

-----------------------------------------------------------------------------
(* QueueOK is the four invariants, taken run by run.                       *)

LEMMA ActiveRun ==
  ASSUME TypeOK, NEW j \in JobIds, Active(j)
  PROVE  jobs[j].run \in Runs /\ jobs[j].stage \in JobStage /\ jobs[j] \in Job
BY JobPresent DEF Active, ActiveJobStatus, TypeOK, Job

LEMMA QueueOKMeans ==
  ASSUME TypeOK
  PROVE  QueueOK(jobs, status) <=>
           OneActiveJobPerRun /\ ActiveJobFitsRun /\ LiveRunHasWork /\ AbsentRunHasNoJobs
<1>1. ASSUME QueueOK(jobs, status)
      PROVE  OneActiveJobPerRun /\ ActiveJobFitsRun /\ LiveRunHasWork /\ AbsentRunHasNoJobs
  <2>1. OneActiveJobPerRun
    BY <1>1, ActiveRun DEF QueueOK, RunOK, ActiveIn, OneActiveJobPerRun, Active
  <2>2. ActiveJobFitsRun
    BY <1>1, ActiveRun DEF QueueOK, RunOK, ActiveIn, ActiveJobFitsRun, Active
  <2>3. LiveRunHasWork
    BY <1>1 DEF QueueOK, RunOK, ActiveIn, LiveRunHasWork, ActiveJobsOf, Active
  <2>4. AbsentRunHasNoJobs
    BY <1>1 DEF QueueOK, RunOK, AbsentRunHasNoJobs
  <2> QED BY <2>1, <2>2, <2>3, <2>4
<1>2. ASSUME OneActiveJobPerRun, ActiveJobFitsRun, LiveRunHasWork, AbsentRunHasNoJobs,
             NEW r \in Runs
      PROVE  RunOK(jobs, status, r)
  BY <1>2 DEF RunOK, ActiveIn, OneActiveJobPerRun, ActiveJobFitsRun, LiveRunHasWork,
              AbsentRunHasNoJobs, ActiveJobsOf, Active
<1> QED BY <1>1, <1>2 DEF QueueOK

-----------------------------------------------------------------------------
(* What a step does to the queue, and to one run.                          *)

(* The step writes no run but r, and no job but r's and the ones it creates for it. *)
OnlyRun(r) ==
  /\ \A q \in Runs : q # r => status'[q] = status[q]
  /\ \A j \in JobIds : jobs'[j] # jobs[j] =>
       jobs'[j].run = r /\ jobs[j].run \in {r, NoRun}

(* The run moves to a status, and the job this status needs is the next one. *)
Moved(r, to) == status' = [status EXCEPT ![r] = to]

Leads(next, to) ==
  \/ next = "none" /\ to \notin EXECUTABLE /\ to # "absent"
  \/ next \in JobStage /\ to = StatusDuring[next]

LEMMA OtherRunsStay ==
  ASSUME QueueOK(jobs, status), NEW r \in Runs, OnlyRun(r), RunOK(jobs', status', r)
  PROVE  QueueOK(jobs', status')
<1>1. ASSUME NEW q \in Runs, q # r
      PROVE  RunOK(jobs', status', q)
  <2>1. \A j \in JobIds : jobs'[j] = jobs[j] \/ (jobs'[j].run # q /\ jobs[j].run # q)
    BY <1>1, ConstantsAssumption DEF OnlyRun
  <2>2. status'[q] = status[q]
    BY <1>1 DEF OnlyRun
  <2>3. \A j \in JobIds : /\ ActiveIn(jobs', j, q) <=> ActiveIn(jobs, j, q)
                          /\ ActiveIn(jobs, j, q) => jobs'[j] = jobs[j]
                          /\ jobs'[j].run = q <=> jobs[j].run = q
    BY <2>1 DEF ActiveIn
  <2>4. RunOK(jobs, status, q)
    BY DEF QueueOK
  <2> QED BY <2>2, <2>3, <2>4 DEF RunOK
<1> QED BY <1>1 DEF QueueOK

(* A run at rest without an active job. *)
LEMMA RunAtRest ==
  ASSUME NEW js, NEW st, NEW r, st[r] \notin EXECUTABLE, st[r] # "absent",
         \A j \in JobIds : ~ActiveIn(js, j, r)
  PROVE  RunOK(js, st, r)
BY DEF RunOK

(* A run with exactly one active job, of the stage its status names. *)
LEMMA RunWithJob ==
  ASSUME NEW js, NEW st, NEW r, NEW k \in JobIds, ActiveIn(js, k, r),
         st[r] = StatusDuring[js[k].stage], st[r] # "absent",
         \A j \in JobIds : ActiveIn(js, j, r) => j = k
  PROVE  RunOK(js, st, r)
BY DEF RunOK

(* The statuses a job's run is in are executable. *)
LEMMA DuringExecutable ==
  ASSUME NEW s \in JobStage
  PROVE  /\ StatusDuring[s] \in EXECUTABLE /\ StatusDuring[s] \in RunStatus
         /\ StatusDuring[s] # "absent"
BY DEF StatusDuring, EXECUTABLE, JobStage, RunStatus, TRANSITIONS

(* The step leaves every job with its run, its stage, and as active as it was. *)
LEMMA SameWork ==
  ASSUME QueueOK(jobs, status), status' = status,
         \A j \in JobIds : /\ jobs'[j].run = jobs[j].run
                           /\ jobs'[j].stage = jobs[j].stage
                           /\ jobs'[j].status \in ActiveJobStatus
                                <=> jobs[j].status \in ActiveJobStatus
  PROVE  QueueOK(jobs', status')
<1>1. ASSUME NEW r \in Runs
      PROVE  RunOK(jobs', status', r)
  <2>1. RunOK(jobs, status, r)
    BY DEF QueueOK
  <2>2. \A j \in JobIds : ActiveIn(jobs', j, r) <=> ActiveIn(jobs, j, r)
    BY DEF ActiveIn
  <2> QED BY <2>1, <2>2 DEF RunOK
<1> QED BY <1>1 DEF QueueOK

(* One job is written over, and stays as active as it was. *)
LEMMA JobKept ==
  ASSUME TypeOK, QueueOK(jobs, status), status' = status, NEW k \in JobIds, NEW x,
         jobs' = [jobs EXCEPT ![k] = x], x.run = jobs[k].run, x.stage = jobs[k].stage,
         x.status \in ActiveJobStatus, Active(k)
  PROVE  QueueOK(jobs', status')
<1>1. jobs \in [JobIds -> Job \cup {NoJob}]
  BY DEF TypeOK, JobsTable
<1>2. \A j \in JobIds : /\ jobs'[j].run = jobs[j].run
                        /\ jobs'[j].stage = jobs[j].stage
                        /\ jobs'[j].status \in ActiveJobStatus
                             <=> jobs[j].status \in ActiveJobStatus
  BY <1>1 DEF Active
<1> QED BY <1>2, SameWork

(* The run's active job ends, and the run comes to rest. *)
LEMMA JobEndsRunRests ==
  ASSUME TypeOK, QueueOK(jobs, status), NEW k \in JobIds, Active(k), NEW x,
         jobs' = [jobs EXCEPT ![k] = x], x.run = jobs[k].run,
         x.status \notin ActiveJobStatus,
         NEW to, Moved(jobs[k].run, to), to \notin EXECUTABLE, to # "absent"
  PROVE  /\ QueueOK(jobs', status')
         /\ OnlyRun(jobs[k].run)
         /\ \A j \in JobIds : jobs'[j].run = jobs[k].run => jobs'[j].status # "claimed"
<1> DEFINE r == jobs[k].run
<1>1. jobs \in [JobIds -> Job \cup {NoJob}] /\ status \in [Runs -> RunStatus \cup {"absent"}]
  BY DEF TypeOK, JobsTable
<1>2. r \in Runs
  BY ActiveRun
<1>3. OnlyRun(r)
  BY <1>1 DEF OnlyRun, Moved
<1>4. \A j \in JobIds : ~ActiveIn(jobs', j, r)
  <2>1. RunOK(jobs, status, r)
    BY <1>2 DEF QueueOK
  <2> QED BY <1>1, <2>1 DEF RunOK, ActiveIn, Active
<1>5. status'[r] = to
  BY <1>1, <1>2 DEF Moved
<1> HIDE DEF r
<1>6. RunOK(jobs', status', r)
  BY <1>4, <1>5, RunAtRest
<1>7. \A j \in JobIds : jobs'[j].run = r => jobs'[j].status # "claimed"
  BY <1>4 DEF ActiveIn, ActiveJobStatus
<1>8. QueueOK(jobs', status')
  BY <1>2, <1>3, <1>6, OtherRunsStay
<1> QED BY <1>3, <1>7, <1>8 DEF r

(***************************************************************************)
(* The run moves to a status and a job is created for it, or none and the  *)
(* run is at rest: nothing else of the run is active in js.                *)
(***************************************************************************)
LEMMA RunMovesOn ==
  ASSUME TypeOK, QueueOK(jobs, status), NEW r \in Runs,
         NEW js, JobsTable(js, njobs),
         \A j \in JobIds : js[j].run = jobs[j].run,
         \A j \in JobIds : js[j] # jobs[j] => js[j].run = r,
         \A j \in JobIds : ~ActiveIn(js, j, r),
         NEW next, CreateJob(js, r, next),
         NEW to, Moved(r, to), Leads(next, to)
  PROVE  /\ QueueOK(jobs', status')
         /\ OnlyRun(r)
         /\ \A j \in JobIds : jobs'[j].run = r => jobs'[j].status # "claimed"
<1>1. status'[r] = to /\ \A q \in Runs : q # r => status'[q] = status[q]
  BY DEF Moved, TypeOK
<1>2. CASE next = "none"
  <2>1. jobs' = js /\ to \notin EXECUTABLE /\ to # "absent"
    BY <1>2 DEF CreateJob, Created, JobStage, Leads
  <2>2. OnlyRun(r)
    BY <1>1, <2>1 DEF OnlyRun
  <2>3. RunOK(jobs', status', r)
    BY <1>1, <2>1, RunAtRest
  <2> QED BY <2>1, <2>2, <2>3, OtherRunsStay DEF ActiveIn, ActiveJobStatus
<1>3. CASE next # "none"
  <2>1. next \in JobStage /\ to = StatusDuring[next]
    BY <1>3 DEF Leads
  <2> DEFINE k == njobs + 1
  <2>2. /\ k \in JobIds /\ js[k] = NoJob
        /\ jobs' = [js EXCEPT ![k] = NewJob(r, next)]
    <3>1. njobs < MaxJobs /\ jobs' = [js EXCEPT ![njobs + 1] = NewJob(r, next)]
      BY <1>3 DEF CreateJob, Created
    <3>2. njobs + 1 \in JobIds /\ njobs + 1 > njobs
      BY <3>1, CountersNat, ConstantsAssumption DEF JobIds
    <3> QED BY <3>1, <3>2 DEF JobsTable
  <2> HIDE DEF k
  <2>3. /\ jobs'[k] = NewJob(r, next)
        /\ \A j \in JobIds : j # k => jobs'[j] = js[j]
    BY <2>2 DEF JobsTable
  <2>4. /\ jobs'[k].run = r /\ jobs'[k].stage = next /\ jobs'[k].status = "pending"
        /\ jobs[k].run = NoRun
    BY <2>2, <2>3 DEF NewJob, NoJob
  <2>5. OnlyRun(r)
    BY <1>1, <2>3, <2>4 DEF OnlyRun
  <2>6. ActiveIn(jobs', k, r) /\ \A j \in JobIds : ActiveIn(jobs', j, r) => j = k
    BY <2>3, <2>4 DEF ActiveIn, ActiveJobStatus
  <2>7. RunOK(jobs', status', r)
    <3>1. status'[r] = StatusDuring[jobs'[k].stage] /\ status'[r] # "absent"
      BY <1>1, <2>1, <2>4, DuringExecutable
    <3> QED BY <2>2, <2>6, <3>1, RunWithJob
  <2>8. \A j \in JobIds : jobs'[j].run = r => jobs'[j].status # "claimed"
    BY <2>3, <2>4 DEF ActiveIn, ActiveJobStatus
  <2> QED BY <2>5, <2>7, <2>8, OtherRunsStay
<1> QED BY <1>2, <1>3

(* Cancelling leaves the run no active job and touches no other run's. *)
LEMMA CancelledJobs ==
  ASSUME TypeOK, NEW r \in Runs
  PROVE  /\ \A j \in JobIds : Cancelled(jobs, r)[j].run = jobs[j].run
         /\ \A j \in JobIds : Cancelled(jobs, r)[j] # jobs[j] => jobs[j].run = r
         /\ \A j \in JobIds : ~ActiveIn(Cancelled(jobs, r), j, r)
         /\ \A j \in JobIds : Cancelled(jobs, r)[j].status = "pending"
                               => Cancelled(jobs, r)[j] = jobs[j]
<1> DEFINE cs == Cancelled(jobs, r)
<1>1. ASSUME NEW j \in JobIds
      PROVE  /\ cs[j].run = jobs[j].run
             /\ cs[j] # jobs[j] => jobs[j].run = r
             /\ ~ActiveIn(cs, j, r)
             /\ cs[j].status = "pending" => cs[j] = jobs[j]
  <2>1. CASE jobs[j].run = r /\ jobs[j].status \in ActiveJobStatus
    <3>1. jobs[j] \in Job
      BY <2>1, ActiveRun DEF Active
    <3>2. cs[j] = Ended(jobs[j], "cancelled")
      BY <2>1 DEF Cancelled
    <3>3. cs[j].run = jobs[j].run /\ cs[j].status = "cancelled"
      BY <3>1, <3>2, EndedJob
    <3> HIDE DEF cs
    <3> QED BY <2>1, <3>3 DEF ActiveIn, ActiveJobStatus
  <2>2. CASE ~(jobs[j].run = r /\ jobs[j].status \in ActiveJobStatus)
    BY <2>2 DEF Cancelled, ActiveIn
  <2> QED BY <2>1, <2>2
<1> QED BY <1>1

-----------------------------------------------------------------------------
(* What a step does to the workers that hold a lease.                      *)

(* The run moves and none of its jobs stays claimed: no holder is left to notice. *)
LEMMA HoldersGone ==
  ASSUME TypeOK, LeaseholderSeesItsRun, NEW r \in Runs, OnlyRun(r),
         \A j \in JobIds : jobs'[j].run = r => jobs'[j].status # "claimed",
         \A w \in Workers : pc'[w] \in Begun => pc[w] \in Begun /\ task'[w] = task[w]
  PROVE  LeaseholderSeesItsRun'
<1> SUFFICES ASSUME NEW w \in Workers, pc'[w] \in Begun, holdsLease(w)'
             PROVE  task'[w].seen = status'[RunOf(w)']
  BY DEF LeaseholderSeesItsRun, holdsLease
<1>1. pc[w] \in Begun /\ task'[w] = task[w]
  OBVIOUS
<1>2. /\ task[w].job \in JobIds /\ RunOf(w) \in Runs
  BY <1>1, Labels, JobOfWorker
<1>3. JobOf(w)' = jobs'[task[w].job]
  BY <1>1 DEF JobOf
<1>4. JobOf(w)'.status = "claimed" /\ JobOf(w)'.owner = w
  BY DEF holdsLease
<1>5. JobOf(w)' = JobOf(w) /\ RunOf(w)' = RunOf(w) /\ RunOf(w) # r
  BY <1>2, <1>3, <1>4 DEF OnlyRun, RunOf, JobOf
<1>6. status'[RunOf(w)] = status[RunOf(w)]
  BY <1>2, <1>5 DEF OnlyRun
<1>7. task[w].seen = status[RunOf(w)]
  BY <1>1, <1>4, <1>5 DEF LeaseholderSeesItsRun, holdsLease
<1> QED BY <1>1, <1>5, <1>6, <1>7

(* No run moves and no worker gets the lease of an attempt it had begun. *)
LEMMA HoldersStay ==
  ASSUME TypeOK, LeaseholderSeesItsRun, status' = status,
         \A w \in Workers : pc'[w] \in Begun =>
           /\ pc[w] \in Begun /\ task'[w] = task[w]
           /\ jobs'[task[w].job].run = jobs[task[w].job].run
           /\ holdsLease(w)' => holdsLease(w)
  PROVE  LeaseholderSeesItsRun'
BY DEF LeaseholderSeesItsRun, RunOf, JobOf

-----------------------------------------------------------------------------
(* QueueInv is inductive, one lemma per group of actions.                  *)

(* No job is pending past its attempts in js, nor is the one that is created. *)
LEMMA PendingCreated ==
  ASSUME NEW js, NEW r \in Runs, NEW next, CreateJob(js, r, next),
         TypeOK, JobsTable(js, njobs),
         \A j \in JobIds : js[j].status = "pending" => js[j].attempts < MaxAttempts
  PROVE  PendingJobsAreClaimable'
<1>1. CASE next = "none"
  <2>1. jobs' = js
    BY <1>1 DEF CreateJob, Created
  <2>2. \A j \in JobIds : js[j].status = "pending" => js[j].attempts \in Nat
    BY JobPresent, ConstantsAssumption DEF Job
  <2> QED BY <2>1, <2>2, ConstantsAssumption DEF PendingJobsAreClaimable, Exhausted
<1>2. CASE next # "none"
  <2>1. njobs < MaxJobs /\ jobs' = [js EXCEPT ![njobs + 1] = NewJob(r, next)]
    BY <1>2 DEF CreateJob, Created
  <2>2. njobs + 1 \in JobIds /\ js \in [JobIds -> Job \cup {NoJob}]
    BY <2>1, CountersNat, ConstantsAssumption DEF JobIds, JobsTable
  <2>3. \A j \in JobIds : jobs'[j] = js[j] \/ jobs'[j] = NewJob(r, next)
    BY <2>1, <2>2
  <2>4. NewJob(r, next).attempts = 0
    BY DEF NewJob
  <2>5. \A j \in JobIds : js[j].status = "pending" => js[j].attempts \in Nat
    BY JobPresent, ConstantsAssumption DEF Job
  <2> QED BY <2>3, <2>4, <2>5, ConstantsAssumption DEF PendingJobsAreClaimable, Exhausted
<1> QED BY <1>1, <1>2

(* One job is written over by one that is not pending, or has attempts left. *)
LEMMA PendingWritten ==
  ASSUME TypeOK, PendingJobsAreClaimable, NEW k \in JobIds, NEW x,
         jobs' = [jobs EXCEPT ![k] = x],
         x.status = "pending" => x.attempts \in Nat /\ x.attempts < MaxAttempts
  PROVE  PendingJobsAreClaimable'
<1>1. jobs \in [JobIds -> Job \cup {NoJob}]
  BY DEF TypeOK, JobsTable
<1> QED BY <1>1, ConstantsAssumption DEF PendingJobsAreClaimable, Exhausted

(* What PendingJobsAreClaimable says in the form PendingCreated takes. *)
LEMMA PendingHasAttempts ==
  ASSUME TypeOK, PendingJobsAreClaimable, NEW j \in JobIds, jobs[j].status = "pending"
  PROVE  jobs[j].attempts \in Nat /\ jobs[j].attempts < MaxAttempts
<1>1. jobs[j].attempts \in Nat
  BY JobPresent, ConstantsAssumption DEF TypeOK, Job
<1> QED BY <1>1, ConstantsAssumption DEF PendingJobsAreClaimable, Exhausted

(* A run that is not in an executable status has no active job. *)
LEMMA RestHasNoJob ==
  ASSUME TypeOK, QueueOK(jobs, status), NEW r \in Runs, status[r] \notin EXECUTABLE
  PROVE  \A j \in JobIds : ~ActiveIn(jobs, j, r)
<1> SUFFICES ASSUME NEW j \in JobIds, ActiveIn(jobs, j, r)
             PROVE  FALSE
  OBVIOUS
<1>1. jobs[j].stage \in JobStage
  BY ActiveRun DEF ActiveIn, Active
<1>2. status[r] = StatusDuring[jobs[j].stage]
  BY DEF QueueOK, RunOK
<1> QED BY <1>1, <1>2, DuringExecutable

(* What the workers do in the steps below: go on, or leave their job. *)
NoneBegins ==
  \A w \in Workers : pc'[w] \in Begun => pc[w] \in Begun /\ task'[w] = task[w]

(* The run moves on with a new job, or to rest: nothing of it is active in js. *)
LEMMA MovesOnSafe ==
  ASSUME QueueInv, NoneBegins, NEW r \in Runs, NEW js, JobsTable(js, njobs),
         \A j \in JobIds : js[j].run = jobs[j].run,
         \A j \in JobIds : js[j] # jobs[j] => js[j].run = r,
         \A j \in JobIds : ~ActiveIn(js, j, r),
         \A j \in JobIds : js[j].status = "pending" => js[j] = jobs[j],
         NEW next, CreateJob(js, r, next), NEW to, Moved(r, to), Leads(next, to)
  PROVE  QueueSafe'
<1>1. TypeOK /\ QueueOK(jobs, status) /\ PendingJobsAreClaimable /\ LeaseholderSeesItsRun
  BY DEF QueueInv, QueueSafe
<1>2. /\ QueueOK(jobs', status') /\ OnlyRun(r)
      /\ \A j \in JobIds : jobs'[j].run = r => jobs'[j].status # "claimed"
  BY <1>1, RunMovesOn
<1>3. PendingJobsAreClaimable'
  <2>1. \A j \in JobIds : js[j].status = "pending" => js[j].attempts < MaxAttempts
    BY <1>1, PendingHasAttempts
  <2> QED BY <1>1, <2>1, PendingCreated
<1>4. LeaseholderSeesItsRun'
  BY <1>1, <1>2, HoldersGone DEF NoneBegins
<1> QED BY <1>2, <1>3, <1>4 DEF QueueSafe

(* A run takes a route out of a status nothing runs in. *)
LEMMA RouteSafe ==
  ASSUME QueueInv, NoneBegins, NEW r \in Runs, status[r] \notin EXECUTABLE,
         NEW js \in {jobs, Cancelled(jobs, r)},
         NEW next, CreateJob(js, r, next), NEW to, Moved(r, to), Leads(next, to)
  PROVE  QueueSafe'
<1>1. TypeOK /\ QueueOK(jobs, status)
  BY DEF QueueInv, QueueSafe
<1>2. /\ JobsTable(js, njobs)
      /\ \A j \in JobIds : js[j].run = jobs[j].run
      /\ \A j \in JobIds : js[j] # jobs[j] => js[j].run = r
      /\ \A j \in JobIds : ~ActiveIn(js, j, r)
      /\ \A j \in JobIds : js[j].status = "pending" => js[j] = jobs[j]
  <2>1. CASE js = jobs
    BY <1>1, <2>1, RestHasNoJob DEF TypeOK
  <2>2. CASE js = Cancelled(jobs, r)
    BY <1>1, <2>2, CancelledJobs, JobsCancelled DEF TypeOK
  <2> QED BY <2>1, <2>2
<1> QED BY <1>2, MovesOnSafe

(* An active job ends, and its run comes to rest. *)
LEMMA JobFailsSafe ==
  ASSUME QueueInv, NoneBegins, NEW k \in JobIds, Active(k),
         jobs' = [jobs EXCEPT ![k] = Ended(jobs[k], "failed")],
         NEW to, Moved(jobs[k].run, to), to \notin EXECUTABLE, to # "absent"
  PROVE  QueueSafe'
<1>1. TypeOK /\ QueueOK(jobs, status) /\ PendingJobsAreClaimable /\ LeaseholderSeesItsRun
  BY DEF QueueInv, QueueSafe
<1>2. jobs[k] \in Job /\ jobs[k].run \in Runs
  BY <1>1, ActiveRun
<1>3. Ended(jobs[k], "failed").run = jobs[k].run /\ Ended(jobs[k], "failed").status = "failed"
  BY <1>2, EndedJob
<1>4. /\ QueueOK(jobs', status') /\ OnlyRun(jobs[k].run)
      /\ \A j \in JobIds : jobs'[j].run = jobs[k].run => jobs'[j].status # "claimed"
  BY <1>1, <1>3, JobEndsRunRests DEF ActiveJobStatus
<1>5. PendingJobsAreClaimable'
  BY <1>1, <1>3, PendingWritten
<1>6. LeaseholderSeesItsRun'
  BY <1>1, <1>2, <1>4, HoldersGone DEF NoneBegins
<1> QED BY <1>4, <1>5, <1>6 DEF QueueSafe

(* An active job goes back to the queue with attempts left. *)
LEMMA HandedBackSafe ==
  ASSUME QueueInv, NoneBegins, status' = status, NEW k \in JobIds, Active(k),
         NEW x \in Job, jobs' = [jobs EXCEPT ![k] = x],
         x.run = jobs[k].run, x.stage = jobs[k].stage,
         x.status = "pending", x.attempts < MaxAttempts
  PROVE  QueueSafe'
<1>1. TypeOK /\ QueueOK(jobs, status) /\ PendingJobsAreClaimable /\ LeaseholderSeesItsRun
  BY DEF QueueInv, QueueSafe
<1>2. QueueOK(jobs', status')
  BY <1>1, JobKept DEF ActiveJobStatus
<1>3. PendingJobsAreClaimable'
  <2>1. x.attempts \in Nat
    BY ConstantsAssumption DEF Job
  <2> QED BY <1>1, <2>1, PendingWritten
<1>4. LeaseholderSeesItsRun'
  <2>1. ASSUME NEW w \in Workers, pc'[w] \in Begun
        PROVE  /\ pc[w] \in Begun /\ task'[w] = task[w]
               /\ jobs'[task[w].job].run = jobs[task[w].job].run
               /\ holdsLease(w)' => holdsLease(w)
    <3>1. pc[w] \in Begun /\ task'[w] = task[w]
      BY <2>1 DEF NoneBegins
    <3>2. task[w].job \in JobIds
      BY <1>1, <3>1, Labels, JobOfWorker
    <3>3. jobs \in [JobIds -> Job \cup {NoJob}]
      BY <1>1 DEF TypeOK, JobsTable
    <3>4. \/ jobs'[task[w].job] = jobs[task[w].job]
          \/ task[w].job = k /\ jobs'[k] = x
      BY <3>2, <3>3
    <3> QED BY <3>1, <3>4 DEF holdsLease, JobOf
  <2> QED BY <1>1, <2>1, HoldersStay
<1> QED BY <1>2, <1>3, <1>4 DEF QueueSafe

(* No job and no run is written that the queue's promises look at. *)
LEMMA QuietSafe ==
  ASSUME QueueInv, NoneBegins, status' = status,
         \A j \in JobIds :
           /\ jobs'[j].run = jobs[j].run /\ jobs'[j].stage = jobs[j].stage
           /\ jobs'[j].status = jobs[j].status /\ jobs'[j].owner = jobs[j].owner
           /\ jobs'[j].attempts = jobs[j].attempts
  PROVE  QueueSafe'
<1>1. TypeOK /\ QueueOK(jobs, status) /\ PendingJobsAreClaimable /\ LeaseholderSeesItsRun
  BY DEF QueueInv, QueueSafe
<1>2. QueueOK(jobs', status')
  BY <1>1, SameWork
<1>3. PendingJobsAreClaimable'
  BY <1>1 DEF PendingJobsAreClaimable, Exhausted
<1>4. LeaseholderSeesItsRun'
  <2>1. ASSUME NEW w \in Workers, pc'[w] \in Begun
        PROVE  /\ pc[w] \in Begun /\ task'[w] = task[w]
               /\ jobs'[task[w].job].run = jobs[task[w].job].run
               /\ holdsLease(w)' => holdsLease(w)
    <3>1. pc[w] \in Begun /\ task'[w] = task[w]
      BY <2>1 DEF NoneBegins
    <3>2. task[w].job \in JobIds
      BY <1>1, <3>1, Labels, JobOfWorker
    <3> QED BY <3>1, <3>2 DEF holdsLease, JobOf
  <2> QED BY <1>1, <2>1, HoldersStay
<1> QED BY <1>2, <1>3, <1>4 DEF QueueSafe

-----------------------------------------------------------------------------
(* The operator's actions and the clock.                                   *)

LEMMA PolicyRoutes ==
  /\ \A s \in DOMAIN APPROVE_ROUTES :
       s \notin EXECUTABLE /\ Leads(APPROVE_ROUTES[s].next, APPROVE_ROUTES[s].to)
  /\ \A s \in JobStage \cup {"none"} : Leads(RESUME_ROUTES[s].next, RESUME_ROUTES[s].to)
  /\ \A s \in JobStage : /\ Leads(PASSED_ROUTES[s].next, PASSED_ROUTES[s].to)
                         /\ PASSED_ROUTES[s].to # StatusDuring[s]
                         /\ canTransition(StatusDuring[s], PASSED_ROUTES[s].to)
  /\ \A s \in RESTARTABLE : s \notin EXECUTABLE
  /\ Leads("prepare", "preparing") /\ Leads("understand", "understanding")
  /\ Leads("plan", "planning") /\ Leads("review", "executing")
  /\ \A s \in {"absent", "awaiting_review", "review_retry_required", "recovery_required",
                "stopped", "failed"} : s \notin EXECUTABLE
  /\ "absent" \notin RunStatus
BY DEF APPROVE_ROUTES, RESUME_ROUTES, PASSED_ROUTES, RESTARTABLE, Leads, JobStage,
       StatusDuring, EXECUTABLE, canTransition, TRANSITIONS, RunStatus

LEMMA ApiSafe ==
  ASSUME QueueInv, ApiStep
  PROVE  QueueSafe'
<1>0. TypeOK /\ QueueOK(jobs, status) /\ PendingJobsAreClaimable /\ LeaseholderSeesItsRun
  BY DEF QueueInv, QueueSafe
<1>1. PICK r \in Runs : \/ CreateRun(r) \/ ImportRun(r)
                        \/ Approve(r) \/ Restart(r) \/ Requeue(r) \/ RetryReview(r)
                        \/ Resume(r) \/ Stop(r) \/ Abandon(r)
  BY DEF ApiStep
<1>2. NoneBegins
  BY <1>1 DEF NoneBegins, CreateRun, ImportRun, Approve, Restart, Requeue, RetryReview,
              Resume, Stop, Abandon, TakeRoute, EndByOperator
<1>3. ASSUME NEW js \in {jobs, Cancelled(jobs, r)}, NEW route, TakeRoute(r, js, route),
             status[r] \notin EXECUTABLE, Leads(route.next, route.to)
      PROVE  QueueSafe'
  <2>1. CreateJob(js, r, route.next) /\ Moved(r, route.to)
    BY <1>3 DEF TakeRoute, transitionRun, Moved
  <2> QED BY <1>2, <1>3, <2>1, RouteSafe
<1>4. ASSUME NEW to \in {"stopped", "failed"}, EndByOperator(r, to)
      PROVE  QueueSafe'
  <2>1. Moved(r, to) /\ jobs' = Cancelled(jobs, r) /\ to \notin EXECUTABLE /\ to # "absent"
    BY <1>4, PolicyRoutes DEF EndByOperator, transitionRun, Moved
  <2>2. OnlyRun(r)
    BY <1>0, <2>1, CancelledJobs DEF OnlyRun, Moved, TypeOK
  <2>3. RunOK(jobs', status', r)
    <3>1. status'[r] = to
      BY <1>0, <2>1 DEF Moved, TypeOK
    <3> QED BY <1>0, <2>1, <3>1, CancelledJobs, RunAtRest
  <2>4. QueueOK(jobs', status')
    BY <1>0, <2>2, <2>3, OtherRunsStay
  <2>5. PendingJobsAreClaimable'
    BY <1>0, <2>1, CancelledJobs DEF PendingJobsAreClaimable, Exhausted
  <2>6. \A j \in JobIds : jobs'[j].run = r => jobs'[j].status # "claimed"
    BY <1>0, <2>1, CancelledJobs DEF ActiveIn, ActiveJobStatus
  <2>7. LeaseholderSeesItsRun'
    BY <1>0, <1>2, <2>2, <2>6, HoldersGone DEF NoneBegins
  <2> QED BY <2>4, <2>5, <2>7 DEF QueueSafe
<1>5. CASE CreateRun(r)
  <2>1. /\ CreateJob(jobs, r, "prepare") /\ Moved(r, "preparing")
        /\ status[r] \notin EXECUTABLE /\ Leads("prepare", "preparing")
    BY <1>5, PolicyRoutes DEF CreateRun, Moved
  <2> QED BY <1>2, <2>1, RouteSafe
<1>6. CASE ImportRun(r)
  <2>1. PICK s \in ImportStatus : Moved(r, s)
    BY <1>6 DEF ImportRun, Moved
  <2>2. jobs' = jobs /\ status'[r] = s /\ s # "absent"
    BY <1>0, <1>6, <2>1, PolicyRoutes, ConstantsAssumption DEF ImportRun, Moved, TypeOK
  <2>3. OnlyRun(r)
    BY <1>0, <2>1, <2>2 DEF OnlyRun, Moved, TypeOK
  <2>4. \A j \in JobIds : jobs[j].run # r
    BY <1>0, <1>6 DEF ImportRun, QueueOK, RunOK
  <2>5. RunOK(jobs', status', r)
    BY <2>2, <2>4 DEF RunOK, ActiveIn
  <2>6. QueueOK(jobs', status')
    BY <1>0, <2>3, <2>5, OtherRunsStay
  <2>7. PendingJobsAreClaimable'
    BY <1>0, <2>2 DEF PendingJobsAreClaimable, Exhausted
  <2>8. LeaseholderSeesItsRun'
    BY <1>0, <1>2, <2>2, <2>3, <2>4, HoldersGone DEF NoneBegins
  <2> QED BY <2>6, <2>7, <2>8 DEF QueueSafe
<1>7. CASE Approve(r)
  BY <1>7, <1>3, PolicyRoutes DEF Approve
<1>8. CASE Restart(r)
  <2> DEFINE js == IF ClaimedJobsOf(r) = {} THEN jobs ELSE Cancelled(jobs, r)
             route == [to |-> "understanding", next |-> "understand"]
  <2>1. TakeRoute(r, js, route) /\ status[r] \notin EXECUTABLE
    BY <1>8, PolicyRoutes DEF Restart
  <2>2. js \in {jobs, Cancelled(jobs, r)} /\ Leads(route.next, route.to)
    BY PolicyRoutes
  <2> HIDE DEF js, route
  <2> QED BY <2>1, <2>2, <1>3
<1>9. CASE Requeue(r)
  <2> DEFINE route == [to |-> "planning", next |-> "plan"]
  <2>1. /\ TakeRoute(r, jobs, route) /\ status[r] \notin EXECUTABLE
        /\ Leads(route.next, route.to)
    BY <1>9, PolicyRoutes DEF Requeue
  <2> HIDE DEF route
  <2> QED BY <2>1, <1>3
<1>10. CASE RetryReview(r)
  <2> DEFINE route == [to |-> "executing", next |-> "review"]
  <2>1. /\ TakeRoute(r, jobs, route) /\ status[r] \notin EXECUTABLE
        /\ Leads(route.next, route.to)
    BY <1>10, PolicyRoutes DEF RetryReview
  <2> HIDE DEF route
  <2> QED BY <2>1, <1>3
<1>11. CASE Resume(r)
  <2>1. PICK stage \in LastStages(r) : TakeRoute(r, jobs, RESUME_ROUTES[stage])
    BY <1>11 DEF Resume
  <2>2. stage \in JobStage \cup {"none"}
    BY <1>0, LastStageType DEF TypeOK
  <2>3. status[r] \notin EXECUTABLE
    BY <1>11, PolicyRoutes DEF Resume
  <2> QED BY <2>1, <2>2, <2>3, <1>3, PolicyRoutes
<1>12. CASE Stop(r)
  BY <1>12, <1>4 DEF Stop
<1>13. CASE Abandon(r)
  BY <1>13, <1>4 DEF Abandon
<1> QED BY <1>1, <1>5, <1>6, <1>7, <1>8, <1>9, <1>10, <1>11, <1>12, <1>13

(* One job's flags are written over. *)
LEMMA FlagWrittenSafe ==
  ASSUME QueueInv, NoneBegins, status' = status, NEW k \in JobIds, NEW x,
         jobs' = [jobs EXCEPT ![k] = x],
         x.run = jobs[k].run, x.stage = jobs[k].stage, x.status = jobs[k].status,
         x.owner = jobs[k].owner, x.attempts = jobs[k].attempts
  PROVE  QueueSafe'
<1>1. jobs \in [JobIds -> Job \cup {NoJob}]
  BY DEF QueueInv, TypeOK, JobsTable
<1>2. \A j \in JobIds :
        /\ jobs'[j].run = jobs[j].run /\ jobs'[j].stage = jobs[j].stage
        /\ jobs'[j].status = jobs[j].status /\ jobs'[j].owner = jobs[j].owner
        /\ jobs'[j].attempts = jobs[j].attempts
  BY <1>1
<1> QED BY <1>2, QuietSafe

LEMMA ClockSafe ==
  ASSUME QueueInv, ClockStep
  PROVE  QueueSafe'
<1>1. PICK j \in JobIds : LeaseExpires(j) \/ BackoffElapses(j)
  BY DEF ClockStep, AbandonedLeaseLapses, LeaseLapses
<1>2. status' = status /\ NoneBegins
  BY <1>1 DEF LeaseExpires, BackoffElapses, NoneBegins
<1>3. jobs[j] \in Job \cup {NoJob}
  BY DEF QueueInv, TypeOK, JobsTable
<1>4. CASE LeaseExpires(j)
  <2> DEFINE x == [jobs[j] EXCEPT !.expired = TRUE]
  <2>1. jobs' = [jobs EXCEPT ![j] = x]
    BY <1>4 DEF LeaseExpires
  <2>2. x.run = jobs[j].run /\ x.stage = jobs[j].stage /\ x.status = jobs[j].status
        /\ x.owner = jobs[j].owner /\ x.attempts = jobs[j].attempts
    BY <1>3 DEF Job, NoJob
  <2> HIDE DEF x
  <2> QED BY <1>2, <2>1, <2>2, FlagWrittenSafe
<1>5. CASE BackoffElapses(j)
  <2> DEFINE x == [jobs[j] EXCEPT !.waiting = FALSE]
  <2>1. jobs' = [jobs EXCEPT ![j] = x]
    BY <1>5 DEF BackoffElapses
  <2>2. x.run = jobs[j].run /\ x.stage = jobs[j].stage /\ x.status = jobs[j].status
        /\ x.owner = jobs[j].owner /\ x.attempts = jobs[j].attempts
    BY <1>3 DEF Job, NoJob
  <2> HIDE DEF x
  <2> QED BY <1>2, <2>1, <2>2, FlagWrittenSafe
<1> QED BY <1>1, <1>4, <1>5

-----------------------------------------------------------------------------
(* The sweeps, the job loop and the stage runner.                          *)

(* A job that can still run: its run is in the status of its stage, and can go on. *)
LEMMA ActiveJobRuns ==
  ASSUME QueueInv, NEW k \in JobIds, Active(k)
  PROVE  /\ jobs[k] \in Job /\ jobs[k].run \in Runs /\ jobs[k].stage \in JobStage
         /\ status[jobs[k].run] = StatusDuring[jobs[k].stage]
         /\ status[jobs[k].run] \in EXECUTABLE
         /\ canTransition(status[jobs[k].run], "recovery_required")
         /\ canTransition(status[jobs[k].run], "failed")
         /\ jobs[k].attempts \in 0..MaxAttempts
         /\ \A j \in JobIds : ActiveIn(jobs, j, jobs[k].run) => j = k
<1>1. TypeOK /\ QueueOK(jobs, status)
  BY DEF QueueInv, QueueSafe
<1>2. jobs[k] \in Job /\ jobs[k].run \in Runs /\ jobs[k].stage \in JobStage
      /\ jobs[k].attempts \in 0..MaxAttempts
  BY <1>1, ActiveRun DEF Job
<1>3. ActiveIn(jobs, k, jobs[k].run)
  BY DEF ActiveIn, Active
<1>4. RunOK(jobs, status, jobs[k].run)
  BY <1>1, <1>2 DEF QueueOK
<1>5. status[jobs[k].run] = StatusDuring[jobs[k].stage]
  BY <1>3, <1>4 DEF RunOK
<1>6. \A j \in JobIds : ActiveIn(jobs, j, jobs[k].run) => j = k
  BY <1>3, <1>4 DEF RunOK
<1>7. status[jobs[k].run] \in EXECUTABLE
  BY <1>2, <1>5, DuringExecutable
<1> QED BY <1>2, <1>5, <1>6, <1>7, PolicyOK

LEMMA SettleSafe ==
  ASSUME QueueInv, NoneBegins, NEW j \in JobIds, Active(j), Settle(j)
  PROVE  QueueSafe'
<1>1. Moved(jobs[j].run, "recovery_required")
  BY ActiveJobRuns DEF Settle, transitionRun, Moved
<1>2. jobs' = [jobs EXCEPT ![j] = Ended(jobs[j], "failed")]
  BY DEF Settle
<1> QED BY <1>1, <1>2, PolicyRoutes, JobFailsSafe

LEMMA SweepSafe ==
  ASSUME QueueInv, NEW w \in Workers, SweepStep(w)
  PROVE  QueueSafe'
<1>0. TypeOK /\ QueueOK(jobs, status) /\ PendingJobsAreClaimable /\ LeaseholderSeesItsRun
  BY DEF QueueInv, QueueSafe
<1>1. NoneBegins
  BY DEF SweepStep, SettleExhausted, SettleExpired, SettleRequeued, RecoverOrphan, NoneBegins
<1>2. ASSUME NEW j \in JobIds, SettleExhausted(w, j)
      PROVE  QueueSafe'
  BY <1>1, <1>2, SettleSafe DEF SettleExhausted
<1>3. ASSUME NEW j \in JobIds, SettleExpired(w, j)
      PROVE  QueueSafe'
  BY <1>1, <1>3, QuietSafe DEF SettleExpired
<1>4. ASSUME NEW j \in JobIds, SettleRequeued(w, j)
      PROVE  QueueSafe'
  <2>1. Active(j) /\ ~Exhausted(j) /\ status' = status
    BY <1>4 DEF SettleRequeued, Stale, Active, ActiveJobStatus
  <2>2. jobs' = [jobs EXCEPT ![j] = Ended(jobs[j], "pending")]
    BY <1>4, <2>1, ActiveJobRuns DEF SettleRequeued
  <2>3. jobs[j] \in Job /\ jobs[j].attempts < MaxAttempts
    BY <2>1, ActiveJobRuns, ConstantsAssumption DEF Exhausted
  <2>4. /\ Ended(jobs[j], "pending") \in Job
        /\ Ended(jobs[j], "pending").run = jobs[j].run
        /\ Ended(jobs[j], "pending").stage = jobs[j].stage
        /\ Ended(jobs[j], "pending").status = "pending"
        /\ Ended(jobs[j], "pending").attempts < MaxAttempts
    BY <2>3, EndedJob
  <2> QED BY <1>1, <2>1, <2>2, <2>4, HandedBackSafe
<1>5. ASSUME NEW r \in Runs, RecoverOrphan(w, r)
      PROVE  QueueSafe'
  <2>1. Moved(r, "recovery_required") /\ jobs' = jobs
    BY <1>5 DEF RecoverOrphan, transitionRun, Moved
  <2>2. \A j \in JobIds : ~ActiveIn(jobs, j, r)
    BY <1>5 DEF RecoverOrphan, ActiveJobsOf, Active, ActiveIn
  <2>3. OnlyRun(r) /\ status'[r] = "recovery_required"
    BY <1>0, <2>1 DEF OnlyRun, Moved, TypeOK
  <2>4. RunOK(jobs', status', r)
    BY <2>1, <2>2, <2>3, PolicyRoutes, RunAtRest
  <2>5. QueueOK(jobs', status')
    BY <1>0, <2>3, <2>4, OtherRunsStay
  <2>6. PendingJobsAreClaimable'
    BY <1>0, <2>1 DEF PendingJobsAreClaimable, Exhausted
  <2>7. LeaseholderSeesItsRun'
    BY <1>0, <1>1, <2>1, <2>2, <2>3, HoldersGone DEF NoneBegins, ActiveIn, ActiveJobStatus
  <2> QED BY <2>5, <2>6, <2>7 DEF QueueSafe
<1> QED BY <1>2, <1>3, <1>4, <1>5 DEF SweepStep

(* A worker that has begun holds no lease but of a job that can still run. *)
LEMMA HolderRuns ==
  ASSUME QueueInv, NEW w \in Workers, pc[w] \in Begun, holdsLease(w)
  PROVE  /\ task[w].job \in JobIds /\ Active(task[w].job)
         /\ status[RunOf(w)] = task[w].seen
         /\ JobOf(w).attempts > 0
<1>1. TypeOK /\ LeaseholderSeesItsRun
  BY DEF QueueInv, QueueSafe
<1>2. task[w].job \in JobIds
  BY <1>1, Labels, JobOfWorker
<1>3. Active(task[w].job)
  BY DEF holdsLease, JobOf, Active, ActiveJobStatus
<1>4. JobOf(w).attempts > 0
  BY <1>1, <1>2 DEF holdsLease, JobOf, TypeOK, JobsTable
<1> QED BY <1>1, <1>2, <1>3, <1>4 DEF LeaseholderSeesItsRun

LEMMA LoopSafe ==
  ASSUME QueueInv, NEW w \in Workers, LoopStep(w)
  PROVE  QueueSafe'
<1>0. TypeOK /\ QueueOK(jobs, status) /\ PendingJobsAreClaimable /\ LeaseholderSeesItsRun
  BY DEF QueueInv, QueueSafe
<1>1. ASSUME StaleJobsSwept(w) \/ OrphansSwept(w) \/ ShutdownInTime(w) \/ ShutdownReleases(w)
      PROVE  NoneBegins
  BY <1>0, <1>1, Labels
     DEF NoneBegins, StaleJobsSwept, OrphansSwept, ShutdownInTime, ShutdownReleases,
         Goto, Forget, Remember, TypeOK, WorkersOK, Idle, Working, Begun
<1>2. CASE StaleJobsSwept(w) \/ OrphansSwept(w) \/ ShutdownInTime(w)
  BY <1>1, <1>2, QuietSafe DEF StaleJobsSwept, OrphansSwept, ShutdownInTime
<1>3. CASE ShutdownReleases(w)
  <2>1. NoneBegins /\ status' = status /\ pc[w] \in Begun
    BY <1>1, <1>3, Labels DEF ShutdownReleases
  <2>2. CASE ~holdsLease(w)
    BY <1>3, <2>1, <2>2, QuietSafe DEF ShutdownReleases
  <2>3. CASE holdsLease(w)
    <3>1. /\ task[w].job \in JobIds /\ Active(task[w].job)
          /\ JobOf(w) \in Job /\ JobOf(w).attempts > 0
          /\ JobOf(w).attempts \in 0..MaxAttempts
      BY <2>1, <2>3, HolderRuns, ActiveJobRuns DEF JobOf
    <3>2. jobs' = [jobs EXCEPT ![task[w].job] = Released(JobOf(w))]
      BY <1>3, <2>3 DEF ShutdownReleases, JobOf
    <3>3. /\ Released(JobOf(w)) \in Job
          /\ Released(JobOf(w)).run = JobOf(w).run
          /\ Released(JobOf(w)).stage = JobOf(w).stage
          /\ Released(JobOf(w)).status = "pending"
          /\ Released(JobOf(w)).attempts < MaxAttempts
      BY <3>1, ReleasedJob, ConstantsAssumption
    <3> QED BY <2>1, <3>1, <3>2, <3>3, HandedBackSafe DEF JobOf
  <2> QED BY <2>2, <2>3
<1>4. ASSUME NEW j \in JobIds, Claim(w, j)
      PROVE  QueueSafe'
  <2>1. Active(j) /\ status' = status /\ ~Exhausted(j)
    BY <1>4 DEF Claim, Claimable, Stale, Active, ActiveJobStatus
  <2>2. /\ jobs[j] \in Job /\ jobs[j].attempts + 1 \in 1..MaxAttempts
    BY <2>1, ActiveJobRuns, ConstantsAssumption DEF Exhausted
  <2> DEFINE x == ClaimedBy(w, jobs[j])
  <2>3. /\ x.run = jobs[j].run /\ x.stage = jobs[j].stage
        /\ x.status = "claimed" /\ x.owner = w
    BY <2>2, ClaimedJob
  <2>4. jobs' = [jobs EXCEPT ![j] = x]
    BY <1>4 DEF Claim
  <2> HIDE DEF x
  <2>5. QueueOK(jobs', status')
    BY <1>0, <2>1, <2>3, <2>4, JobKept DEF ActiveJobStatus
  <2>6. PendingJobsAreClaimable'
    BY <1>0, <2>3, <2>4, PendingWritten
  <2>7. LeaseholderSeesItsRun'
    <3>1. ASSUME NEW v \in Workers, pc'[v] \in Begun
          PROVE  /\ pc[v] \in Begun /\ task'[v] = task[v]
                 /\ jobs'[task[v].job].run = jobs[task[v].job].run
                 /\ holdsLease(v)' => holdsLease(v)
      <4>1. v # w
        BY <1>0, <1>4, <3>1, Labels DEF Claim, Goto, TypeOK, WorkersOK
      <4>2. pc[v] \in Begun /\ task'[v] = task[v]
        BY <1>0, <1>4, <3>1, <4>1 DEF Claim, Goto, Remember, TypeOK, WorkersOK
      <4>3. task[v].job \in JobIds
        BY <1>0, <4>2, Labels, JobOfWorker
      <4>4. \/ jobs'[task[v].job] = jobs[task[v].job]
            \/ task[v].job = j /\ jobs'[j] = x
        BY <1>0, <2>4, <4>3 DEF TypeOK, JobsTable
      <4> QED BY <2>3, <4>1, <4>2, <4>4 DEF holdsLease, JobOf
    <3> QED BY <1>0, <2>1, <3>1, HoldersStay
  <2> QED BY <2>5, <2>6, <2>7 DEF QueueSafe
<1> QED BY <1>2, <1>3, <1>4 DEF LoopStep

LEMMA RenewSafe ==
  ASSUME QueueInv, NEW w \in Workers, RenewLease(w)
  PROVE  QueueSafe'
<1> DEFINE x == [JobOf(w) EXCEPT !.expired = FALSE]
<1>1. NoneBegins /\ status' = status
  BY DEF RenewLease, NoneBegins
<1>2. task[w].job \in JobIds /\ JobOf(w) \in Job
  BY Labels, JobOfWorker DEF RenewLease, QueueInv
<1>3. jobs' = [jobs EXCEPT ![task[w].job] = x]
  BY DEF RenewLease, JobOf
<1>4. /\ x.run = JobOf(w).run /\ x.stage = JobOf(w).stage /\ x.status = JobOf(w).status
      /\ x.owner = JobOf(w).owner /\ x.attempts = JobOf(w).attempts
  BY <1>2 DEF Job
<1> HIDE DEF x
<1> QED BY <1>1, <1>2, <1>3, <1>4, FlagWrittenSafe DEF JobOf

LEMMA FaultSafe ==
  ASSUME QueueInv, NEW w \in Workers, FaultStep(w)
  PROVE  QueueSafe'
<1>1. jobs' = jobs /\ status' = status
  BY DEF FaultStep, WriteFails, Crash, ShutdownBegins, db
<1>2. pc \in [Workers -> Idle \cup Working] /\ task \in [Workers -> Task]
  BY DEF QueueInv, TypeOK, WorkersOK
<1>3. NoneBegins
  <2>1. CASE BackToPoll(w) \/ Crash(w)
    BY <1>2, <2>1, Labels DEF BackToPoll, Crash, Goto, Forget, Remember, NoneBegins, Idle, Begun
  <2>2. CASE Committing(w, "rejected") /\ Goto(w, "rejecting") /\ task' = task
    BY <1>2, <2>2, Labels DEF Committing, Goto, NoneBegins
  <2>3. CASE ShutdownBegins(w)
    BY <1>2, <2>3, Labels DEF ShutdownBegins, Goto, NoneBegins
  <2> QED BY <2>1, <2>2, <2>3 DEF FaultStep, WriteFails
<1> QED BY <1>1, <1>3, QuietSafe

(* A worker that leaves its job begins nothing. *)
LEMMA LeaverBeginsNothing ==
  ASSUME TypeOK, NEW w \in Workers, BackToPoll(w)
  PROVE  NoneBegins
BY Labels DEF BackToPoll, Goto, Forget, Remember, NoneBegins, TypeOK, WorkersOK, Idle, Begun

(* The holder of a lease fails its job, and its run comes to rest. *)
LEMMA HolderFailsSafe ==
  ASSUME QueueInv, NoneBegins, NEW w \in Workers, pc[w] \in Begun, holdsLease(w),
         jobs' = JobEnded(w, "failed"),
         NEW to, Moved(RunOf(w), to), to \notin EXECUTABLE, to # "absent"
  PROVE  QueueSafe'
<1>1. task[w].job \in JobIds /\ Active(task[w].job)
  BY HolderRuns
<1>2. jobs' = [jobs EXCEPT ![task[w].job] = Ended(jobs[task[w].job], "failed")]
  BY DEF JobEnded
<1>3. Moved(jobs[task[w].job].run, to)
  BY DEF RunOf, JobOf
<1> QED BY <1>1, <1>2, <1>3, JobFailsSafe

LEMMA BeginSafe ==
  ASSUME QueueInv, NEW w \in Workers, BeginStage(w)
  PROVE  QueueSafe'
<1>0. TypeOK /\ QueueOK(jobs, status) /\ PendingJobsAreClaimable /\ LeaseholderSeesItsRun
  BY DEF QueueInv, QueueSafe
<1>1. jobs' = jobs /\ status' = status
  BY DEF BeginStage
<1>2. QueueOK(jobs', status') /\ PendingJobsAreClaimable'
  BY <1>0, <1>1 DEF PendingJobsAreClaimable, Exhausted
<1>3. LeaseholderSeesItsRun'
  <2> SUFFICES ASSUME NEW v \in Workers, pc'[v] \in Begun, holdsLease(v)'
               PROVE  task'[v].seen = status'[RunOf(v)']
    BY DEF LeaseholderSeesItsRun
  <2>1. CASE v = w
    <3>1. task[w] \in Task
      BY <1>0 DEF TypeOK, WorkersOK
    <3>2. task'[w] = [task[w] EXCEPT !.row = nrows + 1, !.seen = status[RunOf(w)]]
      BY <1>0 DEF BeginStage, Remember, TypeOK, WorkersOK
    <3>3. task'[w].job = task[w].job /\ task'[w].seen = status[RunOf(w)]
      BY <3>1, <3>2 DEF Task
    <3> QED BY <2>1, <3>3, <1>1 DEF RunOf, JobOf
  <2>2. CASE v # w
    <3>1. pc'[v] = pc[v] /\ task'[v] = task[v]
      BY <1>0, <2>2 DEF BeginStage, Goto, Remember, TypeOK, WorkersOK
    <3> QED BY <1>0, <1>1, <3>1 DEF LeaseholderSeesItsRun, holdsLease, RunOf, JobOf
  <2> QED BY <2>1, <2>2
<1> QED BY <1>2, <1>3 DEF QueueSafe

LEMMA PassedSafe ==
  ASSUME QueueInv, NEW w \in Workers, CommitPassed(w)
  PROVE  QueueSafe'
<1> DEFINE r == RunOf(w)
           k == task[w].job
           route == PASSED_ROUTES[StageOf(w)]
           x == [JobOf(w) EXCEPT !.status = "completed", !.expired = FALSE]
           js == [jobs EXCEPT ![k] = x]
<1>0. TypeOK
  BY DEF QueueInv
<1>1. pc[w] \in Begun /\ pc[w] \in Working /\ holdsLease(w) /\ NoneBegins
  BY <1>0, Labels, LeaverBeginsNothing DEF CommitPassed, Committing, MayCommit
<1>2. /\ k \in JobIds /\ Active(k) /\ JobOf(w) = jobs[k] /\ r = jobs[k].run
      /\ StageOf(w) = jobs[k].stage
  BY <1>1, HolderRuns DEF JobOf, RunOf, StageOf
<1>3. /\ r \in Runs /\ StageOf(w) \in JobStage /\ JobOf(w) \in Job
      /\ status[r] = StatusDuring[StageOf(w)]
      /\ \A j \in JobIds : ActiveIn(jobs, j, r) => j = k
  BY <1>2, ActiveJobRuns
<1>4. Leads(route.next, route.to) /\ status[r] # route.to
  BY <1>3, PolicyRoutes
<1>5. Moved(r, route.to) /\ CreateJob(js, r, route.next)
  BY <1>4 DEF CommitPassed, transitionRun, Moved, JobOf
<1>6. x \in Job /\ x.run = r /\ x.status = "completed"
  BY <1>2, <1>3 DEF Job
<1>7. JobsTable(js, njobs)
  <2> HIDE DEF x
  <2> QED BY <1>0, <1>1, <1>6, OwnJobWritten
<1>8. /\ \A j \in JobIds : js[j].run = jobs[j].run
      /\ \A j \in JobIds : js[j] # jobs[j] => js[j].run = r
      /\ \A j \in JobIds : ~ActiveIn(js, j, r)
      /\ \A j \in JobIds : js[j].status = "pending" => js[j] = jobs[j]
  <2>1. jobs \in [JobIds -> Job \cup {NoJob}]
    BY <1>0 DEF TypeOK, JobsTable
  <2>2. js[k] = x /\ \A j \in JobIds : j # k => js[j] = jobs[j]
    BY <1>2, <2>1
  <2> HIDE DEF x, js, r
  <2> QED BY <1>2, <1>3, <1>6, <2>2 DEF ActiveIn, ActiveJobStatus
<1> HIDE DEF r, k, route, js
<1> QED BY <1>1, <1>3, <1>4, <1>5, <1>7, <1>8, MovesOnSafe

LEMMA FailureSafe ==
  ASSUME QueueInv, NEW w \in Workers, NEW o, CommitFailure(w, o)
  PROVE  QueueSafe'
<1> DEFINE x == [Ended(JobOf(w), "pending") EXCEPT !.waiting = TRUE]
<1>1. pc[w] \in Begun /\ holdsLease(w) /\ NoneBegins
  BY Labels, LeaverBeginsNothing DEF CommitFailure, Committing, MayCommit, QueueInv
<1>2. task[w].job \in JobIds /\ Active(task[w].job) /\ JobOf(w) = jobs[task[w].job]
  BY <1>1, HolderRuns DEF JobOf
<1>3. JobOf(w) \in Job /\ canTransition(status[RunOf(w)], "failed")
  BY <1>2, ActiveJobRuns DEF JobOf, RunOf
<1>4. CASE o = "error" /\ JobOf(w).attempts < MaxAttempts
  <2>1. status' = status /\ jobs' = [jobs EXCEPT ![task[w].job] = x]
    BY <1>4 DEF CommitFailure, JobOf
  <2>2. /\ Ended(JobOf(w), "pending") \in Job
        /\ Ended(JobOf(w), "pending").run = JobOf(w).run
        /\ Ended(JobOf(w), "pending").stage = JobOf(w).stage
        /\ Ended(JobOf(w), "pending").status = "pending"
        /\ Ended(JobOf(w), "pending").attempts = JobOf(w).attempts
    BY <1>3, EndedJob
  <2>3. /\ x \in Job /\ x.run = JobOf(w).run /\ x.stage = JobOf(w).stage
        /\ x.status = "pending" /\ x.attempts < MaxAttempts
    BY <1>4, <2>2 DEF Job
  <2> HIDE DEF x
  <2> QED BY <1>1, <1>2, <2>1, <2>3, HandedBackSafe
<1>5. CASE ~(o = "error" /\ JobOf(w).attempts < MaxAttempts)
  <2>1. Moved(RunOf(w), "failed") /\ jobs' = JobEnded(w, "failed")
    BY <1>3, <1>5 DEF CommitFailure, transitionRun, Moved
  <2> QED BY <1>1, <2>1, PolicyRoutes, HolderFailsSafe
<1> QED BY <1>4, <1>5

(* A budget pauses only a job's run, and a review is held only while it executes. *)
LEMMA HoldMoves ==
  ASSUME NEW s \in JobStage, NEW o \in DOMAIN HoldTarget, o \in Outcomes(s)
  PROVE  /\ canTransition(StatusDuring[s], HoldTarget[o])
         /\ HoldTarget[o] \notin EXECUTABLE /\ HoldTarget[o] # "absent"
BY DEF JobStage, HoldTarget, Outcomes, StatusDuring, canTransition, TRANSITIONS, EXECUTABLE

LEMMA HoldSafe ==
  ASSUME QueueInv, NEW w \in Workers, NEW o \in DOMAIN HoldTarget, CommitHold(w, o)
  PROVE  QueueSafe'
<1>1. /\ pc[w] \in Begun /\ holdsLease(w) /\ NoneBegins /\ o \in Outcomes(StageOf(w))
  BY Labels, LeaverBeginsNothing DEF CommitHold, Committing, QueueInv
<1>2. task[w].job \in JobIds /\ Active(task[w].job) /\ status[RunOf(w)] = task[w].seen
  BY <1>1, HolderRuns
<1>3. StageOf(w) \in JobStage /\ status[RunOf(w)] = StatusDuring[StageOf(w)]
  BY <1>2, ActiveJobRuns DEF JobOf, RunOf, StageOf
<1>4. /\ canTransition(status[RunOf(w)], HoldTarget[o])
      /\ HoldTarget[o] \notin EXECUTABLE /\ HoldTarget[o] # "absent"
  BY <1>1, <1>3, HoldMoves
<1>5. Moved(RunOf(w), HoldTarget[o]) /\ jobs' = JobEnded(w, "failed")
  BY <1>2, <1>4 DEF CommitHold, transitionRun, Moved
<1> QED BY <1>1, <1>4, <1>5, HolderFailsSafe

LEMMA StageSafe ==
  ASSUME QueueInv, NEW w \in Workers, StageStep(w)
  PROVE  QueueSafe'
<1>0. TypeOK /\ pc \in [Workers -> Idle \cup Working]
  BY DEF QueueInv, TypeOK, WorkersOK
<1>1. CASE ClosePrior(w)
  <2>1. NoneBegins
    BY <1>0, <1>1, Labels DEF ClosePrior, Goto, NoneBegins
  <2> QED BY <1>1, <2>1, QuietSafe DEF ClosePrior
<1>2. CASE SkipStage(w) \/ DiscardStopped(w) \/ CommitRefused(w) \/ HoldRefused(w)
           \/ RejectRefused(w)
  <2>1. NoneBegins
    BY <1>0, <1>2, LeaverBeginsNothing
       DEF SkipStage, DiscardStopped, CommitRefused, HoldRefused, RejectRefused
  <2> QED BY <1>2, <2>1, QuietSafe
       DEF SkipStage, DiscardStopped, CommitRefused, HoldRefused, RejectRefused
<1>3. CASE BeginStage(w)
  BY <1>3, BeginSafe
<1>4. CASE ExecutorReturns(w) \/ RejectAttempt(w)
  <2>1. NoneBegins
    BY <1>0, <1>4, Labels DEF ExecutorReturns, RejectAttempt, Committing, Goto, NoneBegins
  <2> QED BY <1>4, <2>1, QuietSafe DEF ExecutorReturns, RejectAttempt
<1>5. CASE CommitPassed(w)
  BY <1>5, PassedSafe
<1>6. ASSUME NEW o, CommitFailure(w, o)
      PROVE  QueueSafe'
  BY <1>6, FailureSafe
<1>7. ASSUME NEW o \in DOMAIN HoldTarget, CommitHold(w, o)
      PROVE  QueueSafe'
  BY <1>7, HoldSafe
<1>8. CASE CommitRejected(w)
  <2>1. pc[w] \in Begun /\ holdsLease(w) /\ NoneBegins
    BY <1>0, <1>8, Labels, LeaverBeginsNothing DEF CommitRejected
  <2>2. Active(task[w].job) /\ task[w].job \in JobIds
    BY <2>1, HolderRuns
  <2>3. canTransition(status[RunOf(w)], "failed")
    BY <2>2, ActiveJobRuns DEF RunOf, JobOf
  <2>4. Moved(RunOf(w), "failed") /\ jobs' = JobEnded(w, "failed")
    BY <1>8, <2>3 DEF CommitRejected, transitionRun, Moved
  <2> QED BY <2>1, <2>4, PolicyRoutes, HolderFailsSafe
<1> QED BY <1>1, <1>2, <1>3, <1>4, <1>5, <1>6, <1>7, <1>8 DEF StageStep

-----------------------------------------------------------------------------
(* The theorems.                                                           *)

LEMMA QueueInit ==
  ASSUME Init
  PROVE  QueueInv
<1>1. QueueOK(jobs, status)
  BY ConstantsAssumption DEF Init, QueueOK, RunOK, ActiveIn, NoJob, EXECUTABLE
<1>2. PendingJobsAreClaimable
  BY DEF Init, PendingJobsAreClaimable, NoJob
<1>3. LeaseholderSeesItsRun
  BY DEF Init, LeaseholderSeesItsRun, Begun
<1> QED BY <1>1, <1>2, <1>3, TypeInit DEF QueueInv, QueueSafe

LEMMA QueueStep ==
  ASSUME QueueInv, [Next]_vars
  PROVE  QueueInv'
<1>1. TypeOK'
  BY TypeStep DEF QueueInv
<1>2. CASE UNCHANGED vars
  <2>1. NoneBegins
    BY <1>2 DEF vars, NoneBegins
  <2> QED BY <1>1, <1>2, <2>1, QuietSafe DEF vars, QueueInv
<1>3. CASE Next
  <2>1. QueueSafe'
    BY <1>3, ApiSafe, ClockSafe, SweepSafe, StageSafe, LoopSafe, RenewSafe, FaultSafe
       DEF Next
  <2> QED BY <1>1, <2>1 DEF QueueInv
<1> QED BY <1>2, <1>3

THEOREM QueueInvariant == Spec => []QueueInv
BY QueueInit, QueueStep, PTL DEF Spec

(***************************************************************************)
(* However API calls, sweeps, stalls, crashes and late commits interleave, *)
(* a run never has two jobs that can still run.                            *)
(***************************************************************************)
THEOREM OneJobCorrect == Spec => []OneActiveJobPerRun
<1>1. QueueInv => OneActiveJobPerRun
  BY QueueOKMeans DEF QueueInv, QueueSafe
<1> QED BY <1>1, QueueInvariant, PTL

(***************************************************************************)
(* No job can run under a run that was stopped, recovered or moved on.     *)
(***************************************************************************)
THEOREM FitCorrect == Spec => []ActiveJobFitsRun
<1>1. QueueInv => ActiveJobFitsRun
  BY QueueOKMeans DEF QueueInv, QueueSafe
<1> QED BY <1>1, QueueInvariant, PTL

(***************************************************************************)
(* No run that was ever given work is left in an executable status without *)
(* a job: whatever ends its job moves it, in the same transaction.         *)
(***************************************************************************)
THEOREM WorkCorrect == Spec => []LiveRunHasWork
<1>1. QueueInv => LiveRunHasWork
  BY QueueOKMeans DEF QueueInv, QueueSafe
<1> QED BY <1>1, QueueInvariant, PTL

(***************************************************************************)
(* No job waits in the queue with its attempts spent.                      *)
(***************************************************************************)
THEOREM PendingCorrect == Spec => []PendingJobsAreClaimable
<1>1. QueueInv => PendingJobsAreClaimable
  BY DEF QueueInv, QueueSafe
<1> QED BY <1>1, QueueInvariant, PTL

(***************************************************************************)
(* While a worker holds its lease the run has not moved since its attempt  *)
(* began, so the commits that do not check the run's status need not.      *)
(***************************************************************************)
THEOREM LeaseholderCorrect == Spec => []LeaseholderSeesItsRun
<1>1. QueueInv => LeaseholderSeesItsRun
  BY DEF QueueInv, QueueSafe
<1> QED BY <1>1, QueueInvariant, PTL

(***************************************************************************)
(* A passed stage's commit never throws in transitionRun.                  *)
(***************************************************************************)
THEOREM PassedCorrect == Spec => []PassedStageCommits
<1>1. ASSUME QueueInv, NEW w \in Workers, Committing(w, "passed"), MayCommit(w)
      PROVE  canTransition(status[RunOf(w)], PASSED_ROUTES[StageOf(w)].to)
  <2>1. Active(task[w].job) /\ task[w].job \in JobIds
    BY <1>1, Labels, HolderRuns DEF Committing, MayCommit
  <2>2. StageOf(w) \in JobStage /\ status[RunOf(w)] = StatusDuring[StageOf(w)]
    BY <1>1, <2>1, ActiveJobRuns DEF RunOf, StageOf, JobOf
  <2> QED BY <2>2, PolicyRoutes
<1>2. QueueInv => PassedStageCommits
  BY <1>1 DEF PassedStageCommits
<1> QED BY <1>2, QueueInvariant, PTL
=============================================================================
