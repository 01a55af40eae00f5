--------------------------- MODULE JobLeaseProofs ---------------------------
(***************************************************************************)
(* Theorems about JobLease, for any number of runs, workers, jobs and      *)
(* attempts.                                                               *)
(***************************************************************************)
EXTENDS JobLease, TLAPS

-----------------------------------------------------------------------------
(* The tables of RunPolicy.                                                *)

(* Every status a run moves to is a status, and every run that has work    *)
(* can be recovered and can fail.                                          *)
LEMMA PolicyOK ==
  /\ EXECUTABLE \subseteq RunStatus
  /\ \A s \in RunStatus : TRANSITIONS[s] \subseteq RunStatus
  /\ \A s \in EXECUTABLE : canTransition(s, "recovery_required")
                           /\ canTransition(s, "failed")
BY DEF EXECUTABLE, RunStatus, TRANSITIONS, canTransition

(* A move of a run to a status keeps the type of the statuses. *)
LEMMA MoveType ==
  ASSUME status \in [Runs -> RunStatus \cup {"absent"}],
         NEW r \in Runs, NEW to \in RunStatus, transitionRun(r, to)
  PROVE  status' \in [Runs -> RunStatus \cup {"absent"}]
BY DEF transitionRun

-----------------------------------------------------------------------------
(* The jobs table.                                                         *)

(* A job in the table that is not absent is a created job. *)
LEMMA JobPresent ==
  ASSUME NEW js, NEW n, JobsTable(js, n), NEW j \in JobIds, js[j].status # "absent"
  PROVE  js[j] \in Job /\ j \in 1..n
BY ConstantsAssumption DEF JobsTable, NoJob, JobIds

LEMMA JobPresent2 ==
  ASSUME NEW js, NEW n, JobsTable(js, n), NEW j \in 1..n
  PROVE  js[j] \in Job /\ j \in JobIds
BY ConstantsAssumption DEF JobsTable, JobIds

LEMMA EndedJob ==
  ASSUME NEW job \in Job, NEW to \in {"pending", "completed", "failed", "cancelled"}
  PROVE  /\ Ended(job, to) \in Job
         /\ Ended(job, to).run = job.run
         /\ Ended(job, to).stage = job.stage
         /\ Ended(job, to).status = to
         /\ Ended(job, to).attempts = job.attempts
BY DEF Ended, Job, ActiveJobStatus

LEMMA ReleasedJob ==
  ASSUME NEW job \in Job, job.attempts > 0
  PROVE  /\ Released(job) \in Job
         /\ Released(job).run = job.run
         /\ Released(job).stage = job.stage
         /\ Released(job).status = "pending"
         /\ Released(job).attempts = job.attempts - 1
<1> DEFINE e == Ended(job, "pending")
<1>1. /\ e \in Job /\ e.attempts = job.attempts
      /\ e.run = job.run /\ e.stage = job.stage /\ e.status = "pending"
  BY EndedJob
<1>2. Released(job) = [e EXCEPT !.attempts = e.attempts - 1]
  <2>1. Released(job) = [e EXCEPT !.attempts = IF e.attempts = 0 THEN 0 ELSE e.attempts - 1]
    BY DEF Released
  <2> QED BY <2>1, <1>1 DEF Job
<1> HIDE DEF e
<1> QED BY <1>1, <1>2, ConstantsAssumption DEF Job

LEMMA ClaimedJob ==
  ASSUME NEW job \in Job, NEW w \in Workers, job.attempts + 1 \in 1..MaxAttempts
  PROVE  /\ ClaimedBy(w, job) \in Job
         /\ ClaimedBy(w, job).run = job.run
         /\ ClaimedBy(w, job).stage = job.stage
         /\ ClaimedBy(w, job).status = "claimed"
         /\ ClaimedBy(w, job).owner = w
         /\ ClaimedBy(w, job).attempts = job.attempts + 1
<1>1. job.attempts + 1 \in 0..MaxAttempts
  BY ConstantsAssumption
<1> QED BY <1>1 DEF ClaimedBy, Job, ActiveJobStatus

(* Writing a created job over another keeps the table. *)
LEMMA JobWritten ==
  ASSUME NEW js, NEW n, JobsTable(js, n), NEW j \in 1..n, NEW x \in Job,
         x.status = "claimed" => x.owner \in Workers /\ x.attempts > 0
  PROVE  JobsTable([js EXCEPT ![j] = x], n)
<1>1. j \in JobIds /\ js[j] # NoJob /\ x # NoJob
  BY ConstantsAssumption DEF JobsTable, JobIds, Job, NoJob
<1>2. [js EXCEPT ![j] = x] \in [JobIds -> Job \cup {NoJob}]
  BY DEF JobsTable
<1> QED BY <1>1, <1>2 DEF JobsTable

(* Cancelling a run's jobs keeps the table. *)
LEMMA JobsCancelled ==
  ASSUME NEW js, NEW n, JobsTable(js, n), NEW r \in Runs
  PROVE  JobsTable(Cancelled(js, r), n)
<1> DEFINE cs == Cancelled(js, r)
<1>1. ASSUME NEW j \in JobIds
      PROVE  /\ cs[j] \in Job \cup {NoJob}
             /\ cs[j] = NoJob <=> js[j] = NoJob
             /\ cs[j].status = "claimed" => cs[j] = js[j]
  <2>1. CASE js[j].run = r /\ js[j].status \in ActiveJobStatus
    <3>1. js[j] \in Job
      BY <2>1, JobPresent DEF ActiveJobStatus
    <3>2. cs[j] = Ended(js[j], "cancelled")
      BY <2>1 DEF Cancelled
    <3>3. cs[j] \in Job /\ cs[j].status = "cancelled"
      BY <3>1, <3>2, EndedJob
    <3> QED BY <3>1, <3>3, ConstantsAssumption DEF Job, NoJob
  <2>2. CASE ~(js[j].run = r /\ js[j].status \in ActiveJobStatus)
    <3>1. cs[j] = js[j]
      BY <2>2 DEF Cancelled
    <3> QED BY <3>1 DEF JobsTable
  <2> QED BY <2>1, <2>2
<1>2. cs \in [JobIds -> Job \cup {NoJob}]
  <2>1. cs = [j \in JobIds |-> cs[j]]
    BY DEF Cancelled
  <2> HIDE DEF cs
  <2> QED BY <2>1, <1>1
<1>3. JobsTable(cs, n)
  <2> HIDE DEF cs
  <2> QED BY <1>1, <1>2 DEF JobsTable
<1> QED BY <1>3

(* Creating a job, or none, keeps the table. *)
LEMMA JobCreated ==
  ASSUME NEW js, JobsTable(js, njobs), NEW r \in Runs, NEW next \in JobStage \cup {"none"},
         CreateJob(js, r, next)
  PROVE  JobsTable(jobs', njobs')
<1>1. CASE next = "none"
  BY <1>1 DEF CreateJob, Created
<1>2. CASE next \in JobStage
  <2>1. NewJob(r, next) \in Job /\ NewJob(r, next) # NoJob /\ NewJob(r, next).status = "pending"
    BY <1>2, ConstantsAssumption DEF NewJob, Job, NoJob, ActiveJobStatus
  <2>2. next # "none"
    BY <1>2 DEF JobStage
  <2>3. /\ njobs < MaxJobs
        /\ jobs' = [js EXCEPT ![njobs + 1] = NewJob(r, next)]
        /\ njobs' = njobs + 1
    BY <2>2 DEF CreateJob, Created
  <2>4. njobs + 1 \in JobIds /\ njobs \in Nat
    BY <2>3, ConstantsAssumption DEF JobsTable, JobIds
  <2> QED BY <2>1, <2>3, <2>4, ConstantsAssumption DEF JobsTable, JobIds
<1> QED BY <1>1, <1>2

-----------------------------------------------------------------------------
(* The stage_attempts table and the workers.                               *)

LEMMA MaxRowsNat == MaxRows \in Nat
<1>1. MaxJobs * MaxAttempts \in Nat
  BY ConstantsAssumption
<1> QED BY <1>1, ConstantsAssumption DEF MaxRows

(* Settling an attempt keeps the table. *)
LEMMA RowSettled ==
  ASSUME NEW rs, NEW n, RowsTable(rs, n), NEW k \in RowIds, rs[k] # NoRow,
         NEW to \in {"running", "completed", "failed", "cancelled"}
  PROVE  RowsTable([rs EXCEPT ![k].status = to], n)
<1> DEFINE x == [rs[k] EXCEPT !.status = to]
<1>1. x \in Row /\ x # NoRow
  BY ConstantsAssumption DEF RowsTable, Row, NoRow
<1>2. [rs EXCEPT ![k].status = to] = [rs EXCEPT ![k] = x]
  BY DEF RowsTable
<1> HIDE DEF x
<1>3. RowsTable([rs EXCEPT ![k] = x], n)
  BY <1>1 DEF RowsTable
<1> QED BY <1>2, <1>3

LEMMA RowsClosed ==
  ASSUME RowsTable(rows, nrows), NEW r \in Runs, NEW stage, CloseRunning(r, stage)
  PROVE  RowsTable(rows', nrows)
<1>1. CASE RowsOf(r, stage) = {}
  BY <1>1 DEF CloseRunning
<1>2. CASE RowsOf(r, stage) # {}
  <2>1. PICK k \in LatestRows(r, stage) :
          rows' = [rows EXCEPT ![k].status = IF @ = "running" THEN "failed" ELSE @]
    BY <1>2 DEF CloseRunning
  <2>2. k \in RowIds /\ rows[k].run = r
    BY DEF LatestRows, RowsOf
  <2>3. rows[k] # NoRow /\ rows[k] \in Row
    BY <2>2, ConstantsAssumption DEF RowsTable, NoRow
  <2>4. CASE rows[k].status = "running"
    <3>1. rows' = [rows EXCEPT ![k].status = "failed"]
      BY <2>1, <2>4
    <3> QED BY <3>1, <2>2, <2>3, RowSettled
  <2>5. CASE rows[k].status # "running"
    <3>1. rows' = [rows EXCEPT ![k].status = rows[k].status]
      BY <2>1, <2>5
    <3>2. rows[k].status \in {"running", "completed", "failed", "cancelled"}
      BY <2>3 DEF Row
    <3> QED BY <3>1, <3>2, <2>2, <2>3, RowSettled
  <2> QED BY <2>4, <2>5
<1> QED BY <1>1, <1>2

(* The stage a run last recorded an attempt of is one of the stages. *)
LEMMA LastStageType ==
  ASSUME RowsTable(rows, nrows), NEW r \in Runs, NEW stage \in LastStages(r)
  PROVE  stage \in JobStage \cup {"none"}
<1> DEFINE mine == {k \in RowIds : rows[k].run = r}
<1>1. CASE mine = {}
  BY <1>1 DEF LastStages
<1>2. CASE mine # {}
  <2>1. PICK k \in mine : stage = rows[k].stage
    BY <1>2 DEF LastStages
  <2>2. rows[k] \in Row
    BY ConstantsAssumption DEF RowsTable, NoRow
  <2> QED BY <2>1, <2>2 DEF Row
<1> QED BY <1>1, <1>2

(* A begun worker settles the attempt it began. *)
LEMMA OwnRowSettled ==
  ASSUME TypeOK, NEW w \in Workers, pc[w] \in Begun,
         NEW to \in {"completed", "failed", "cancelled"}, rows' = SetRow(w, to)
  PROVE  RowsTable(rows', nrows)
<1>1. task[w].row \in 1..nrows
  BY DEF TypeOK, WorkersOK
<1>2. task[w].row \in RowIds /\ rows[task[w].row] # NoRow
  BY <1>1, MaxRowsNat DEF TypeOK, RowsTable, RowIds
<1> QED BY <1>2, RowSettled DEF SetRow, TypeOK

(* The labels of the job loop. *)
LEMMA Labels ==
  /\ "startup" \in Idle /\ "orphans" \in Idle /\ "poll" \in Idle
  /\ Begun \subseteq Working /\ "claimed" \in Working /\ "starting" \in Working
  /\ "running" \in Begun /\ "commit" \in Begun /\ "rejecting" \in Begun
  /\ "stopping" \in Begun
  /\ \A l \in Idle : l \notin Working
  /\ "claimed" \notin Begun /\ "starting" \notin Begun
BY DEF Idle, Working, Begun

(* A worker that goes back to polling has forgotten its job. *)
LEMMA WorkerForgets ==
  ASSUME WorkersOK, NEW w \in Workers, NEW l \in Idle, Goto(w, l), Forget(w),
         njobs \in Nat, nrows \in Nat, njobs' \in Nat, njobs' >= njobs, nrows' = nrows
  PROVE  WorkersOK'
<1>1. NoTask \in Task
  BY MaxRowsNat, ConstantsAssumption DEF NoTask, Task
<1>2. l \notin Working /\ l \notin Begun
  BY DEF Idle, Working, Begun
<1> QED BY <1>1, <1>2 DEF WorkersOK, Goto, Forget, Remember

(* A worker that goes on with its job keeps what it knows of it. *)
LEMMA WorkerGoesOn ==
  ASSUME WorkersOK, NEW w \in Workers, pc[w] \in Working, NEW l \in Working, Goto(w, l),
         l \in Begun => pc[w] \in Begun, UNCHANGED <<task, njobs, nrows>>
  PROVE  WorkersOK'
<1>1. l \notin Idle
  BY DEF Idle, Working, Begun
<1> QED BY <1>1 DEF WorkersOK, Goto

(* A worker that takes up a job, or records an attempt of it, knows what it is on. *)
LEMMA WorkerTakes ==
  ASSUME WorkersOK, NEW w \in Workers, NEW l \in Working, Goto(w, l),
         NEW t \in Task, Remember(w, t),
         t.job \in 1..njobs, t.attempt > 0, njobs' = njobs, nrows \in Nat,
         nrows' \in Nat, nrows' >= nrows, l \in Begun => t.row \in 1..nrows'
  PROVE  WorkersOK'
<1>1. l \notin Idle
  BY DEF Idle, Working, Begun
<1> QED BY <1>1 DEF WorkersOK, Goto, Remember

(* Workers that do nothing are not disturbed by new jobs. *)
LEMMA WorkersStay ==
  ASSUME WorkersOK, UNCHANGED <<pc, task, nrows>>,
         njobs \in Nat, njobs' \in Nat, njobs' >= njobs
  PROVE  WorkersOK'
BY DEF WorkersOK

-----------------------------------------------------------------------------
(* TypeOK is inductive, one lemma per group of actions.                    *)

LEMMA JobOfWorker ==
  ASSUME TypeOK, NEW w \in Workers, pc[w] \in Working
  PROVE  /\ task[w].job \in 1..njobs /\ task[w].job \in JobIds
         /\ JobOf(w) \in Job /\ RunOf(w) \in Runs /\ StageOf(w) \in JobStage
<1>1. task[w].job \in 1..njobs
  BY DEF TypeOK, WorkersOK
<1>2. JobOf(w) \in Job /\ task[w].job \in JobIds
  BY <1>1, JobPresent2 DEF TypeOK, JobOf
<1> QED BY <1>1, <1>2 DEF RunOf, StageOf, Job

LEMMA CountersNat ==
  ASSUME TypeOK
  PROVE  njobs \in Nat /\ nrows \in Nat /\ faults.shutdowns \in Nat /\ faults.others \in Nat
BY MaxRowsNat, ConstantsAssumption DEF TypeOK, JobsTable, RowsTable

(* The counters of what went wrong, and a fault of one kind or the other. *)
FaultsOK ==
  /\ faults \in [shutdowns : 0..MaxFaults, others : 0..MaxFaults]
  /\ faults.shutdowns + faults.others <= MaxFaults

LEMMA OneFault ==
  ASSUME TypeOK, NEW kind \in {"shutdowns", "others"}, Fault(kind)
  PROVE  /\ FaultsOK'
         /\ faults'.shutdowns =
              IF kind = "shutdowns" THEN faults.shutdowns + 1 ELSE faults.shutdowns
<1>1. FaultsOK /\ MaxFaults \in Nat
  BY ConstantsAssumption DEF TypeOK, FaultsOK
<1>2. CASE kind = "shutdowns"
  <2>1. faults' = [faults EXCEPT !.shutdowns = @ + 1]
    BY <1>2 DEF Fault
  <2> QED BY <1>1, <1>2, <2>1 DEF Fault, FaultsOK
<1>3. CASE kind = "others"
  <2>1. faults' = [faults EXCEPT !.others = @ + 1]
    BY <1>3 DEF Fault
  <2> QED BY <1>1, <1>3, <2>1 DEF Fault, FaultsOK
<1> QED BY <1>2, <1>3

LEMMA CreateCounts ==
  ASSUME njobs \in Nat, NEW js, NEW r, NEW next, CreateJob(js, r, next)
  PROVE  njobs' \in Nat /\ njobs' >= njobs
BY DEF CreateJob

LEMMA ApiType ==
  ASSUME TypeOK, ApiStep
  PROVE  TypeOK'
<1> USE CountersNat
<1>1. ASSUME NEW r \in Runs, NEW js, JobsTable(js, njobs), NEW route,
             route.to \in RunStatus, route.next \in JobStage \cup {"none"},
             TakeRoute(r, js, route)
      PROVE  TypeOK'
  <2>1. transitionRun(r, route.to) /\ CreateJob(js, r, route.next)
        /\ UNCHANGED <<rows, nrows, pc, task, faults>>
    BY <1>1 DEF TakeRoute
  <2>2. status' \in [Runs -> RunStatus \cup {"absent"}]
    BY <1>1, <2>1, MoveType DEF TypeOK
  <2>3. JobsTable(jobs', njobs')
    BY <1>1, <2>1, JobCreated
  <2>4. njobs' \in Nat /\ njobs' >= njobs
    BY <2>1, CreateCounts
  <2>5. WorkersOK'
    BY <2>1, <2>4, WorkersStay DEF TypeOK
  <2> QED BY <2>1, <2>2, <2>3, <2>5 DEF TypeOK
<1>2. ASSUME NEW r \in Runs, NEW to \in RunStatus, EndByOperator(r, to)
      PROVE  TypeOK'
  <2>1. status' \in [Runs -> RunStatus \cup {"absent"}]
    BY <1>2, MoveType DEF TypeOK, EndByOperator
  <2>2. JobsTable(jobs', njobs')
    BY <1>2, JobsCancelled DEF TypeOK, EndByOperator
  <2>3. WorkersOK'
    BY <1>2, WorkersStay DEF TypeOK, EndByOperator
  <2> QED BY <1>2, <2>1, <2>2, <2>3 DEF TypeOK, EndByOperator
<1>3. PICK r \in Runs : \/ CreateRun(r) \/ ImportRun(r)
                        \/ Approve(r) \/ Restart(r) \/ Requeue(r) \/ RetryReview(r)
                        \/ Resume(r) \/ Stop(r) \/ Abandon(r)
  BY DEF ApiStep
<1>4. CASE CreateRun(r)
  <2>1. JobsTable(jobs', njobs')
    BY <1>4, JobCreated DEF CreateRun, TypeOK, JobStage
  <2>2. njobs' \in Nat /\ njobs' >= njobs
    BY <1>4, CreateCounts DEF CreateRun
  <2>3. WorkersOK'
    BY <1>4, <2>2, WorkersStay DEF TypeOK, CreateRun
  <2> QED BY <1>4, <2>1, <2>3 DEF TypeOK, CreateRun, RunStatus, TRANSITIONS
<1>5. CASE ImportRun(r)
  <2>1. WorkersOK'
    BY <1>5, WorkersStay DEF TypeOK, ImportRun
  <2> QED BY <1>5, <2>1, ConstantsAssumption DEF TypeOK, ImportRun
<1>6. CASE Approve(r)
  <2>1. /\ APPROVE_ROUTES[status[r]].to \in RunStatus
        /\ APPROVE_ROUTES[status[r]].next \in JobStage \cup {"none"}
    BY <1>6 DEF Approve, APPROVE_ROUTES, RunStatus, TRANSITIONS, JobStage
  <2> QED BY <1>6, <2>1, <1>1 DEF Approve, TypeOK
<1>7. CASE Restart(r)
  <2> DEFINE js == IF ClaimedJobsOf(r) = {} THEN jobs ELSE Cancelled(jobs, r)
             route == [to |-> "understanding", next |-> "understand"]
  <2>1. JobsTable(js, njobs)
    BY JobsCancelled DEF TypeOK
  <2>2. route.to \in RunStatus /\ route.next \in JobStage \cup {"none"}
    BY DEF RunStatus, TRANSITIONS, JobStage
  <2>3. TakeRoute(r, js, route)
    BY <1>7 DEF Restart
  <2> HIDE DEF js, route
  <2> QED BY <2>1, <2>2, <2>3, <1>1
<1>8. CASE Requeue(r)
  <2> DEFINE route == [to |-> "planning", next |-> "plan"]
  <2>1. route.to \in RunStatus /\ route.next \in JobStage \cup {"none"}
    BY DEF RunStatus, TRANSITIONS, JobStage
  <2>2. TakeRoute(r, jobs, route)
    BY <1>8 DEF Requeue
  <2> HIDE DEF route
  <2> QED BY <2>1, <2>2, <1>1 DEF TypeOK
<1>9. CASE RetryReview(r)
  <2> DEFINE route == [to |-> "executing", next |-> "review"]
  <2>1. route.to \in RunStatus /\ route.next \in JobStage \cup {"none"}
    BY DEF RunStatus, TRANSITIONS, JobStage
  <2>2. TakeRoute(r, jobs, route)
    BY <1>9 DEF RetryReview
  <2> HIDE DEF route
  <2> QED BY <2>1, <2>2, <1>1 DEF TypeOK
<1>10. CASE Resume(r)
  <2>1. PICK stage \in LastStages(r) : TakeRoute(r, jobs, RESUME_ROUTES[stage])
    BY <1>10 DEF Resume
  <2>2. stage \in JobStage \cup {"none"}
    BY LastStageType DEF TypeOK
  <2>3. /\ RESUME_ROUTES[stage].to \in RunStatus
        /\ RESUME_ROUTES[stage].next \in JobStage \cup {"none"}
    BY <2>2 DEF RESUME_ROUTES, RunStatus, TRANSITIONS, JobStage
  <2> QED BY <2>1, <2>3, <1>1 DEF TypeOK
<1>11. CASE Stop(r)
  BY <1>11, <1>2 DEF Stop, RunStatus, TRANSITIONS
<1>12. CASE Abandon(r)
  BY <1>12, <1>2 DEF Abandon, RunStatus, TRANSITIONS
<1> QED BY <1>3, <1>4, <1>5, <1>6, <1>7, <1>8, <1>9, <1>10, <1>11, <1>12

LEMMA ClockType ==
  ASSUME TypeOK, ClockStep
  PROVE  TypeOK'
<1> USE CountersNat
<1>1. PICK j \in JobIds : AbandonedLeaseLapses(j) \/ LeaseLapses(j) \/ BackoffElapses(j)
  BY DEF ClockStep
<1>2. FaultsOK'
  <2>1. UNCHANGED faults \/ Fault("others")
    BY <1>1 DEF AbandonedLeaseLapses, LeaseLapses, BackoffElapses
  <2> QED BY <2>1, OneFault DEF TypeOK, FaultsOK
<1>5. jobs[j].status = "claimed" => jobs[j].owner \in Workers /\ jobs[j].attempts > 0
  BY DEF TypeOK, JobsTable
<1>3. CASE LeaseExpires(j)
  <2> DEFINE x == [jobs[j] EXCEPT !.expired = TRUE]
  <2>1. jobs[j] \in Job /\ j \in 1..njobs
    BY <1>3, JobPresent DEF LeaseExpires, TypeOK
  <2>2. x \in Job /\ x.status = jobs[j].status /\ x.owner = jobs[j].owner
        /\ x.attempts = jobs[j].attempts
    BY <2>1 DEF Job
  <2>3. jobs' = [jobs EXCEPT ![j] = x]
    BY <1>3 DEF LeaseExpires
  <2> HIDE DEF x
  <2>4. JobsTable(jobs', njobs)
    BY <2>1, <2>2, <2>3, <1>5, JobWritten DEF TypeOK
  <2>5. WorkersOK'
    BY <1>3, WorkersStay DEF LeaseExpires, TypeOK
  <2> QED BY <1>2, <1>3, <2>4, <2>5 DEF LeaseExpires, TypeOK, FaultsOK
<1>4. CASE BackoffElapses(j)
  <2> DEFINE x == [jobs[j] EXCEPT !.waiting = FALSE]
  <2>1. jobs[j].status # "absent"
    BY <1>4 DEF BackoffElapses, TypeOK, JobsTable, Job, NoJob, ActiveJobStatus
  <2>2. jobs[j] \in Job /\ j \in 1..njobs
    BY <2>1, JobPresent DEF TypeOK
  <2>3. x \in Job /\ x.status = jobs[j].status /\ x.owner = jobs[j].owner
        /\ x.attempts = jobs[j].attempts
    BY <2>2 DEF Job
  <2>4. jobs' = [jobs EXCEPT ![j] = x]
    BY <1>4 DEF BackoffElapses
  <2> HIDE DEF x
  <2>5. JobsTable(jobs', njobs)
    BY <2>2, <2>3, <2>4, <1>5, JobWritten DEF TypeOK
  <2>6. WorkersOK'
    BY <1>4, WorkersStay DEF BackoffElapses, TypeOK
  <2> QED BY <1>2, <1>4, <2>5, <2>6 DEF BackoffElapses, TypeOK, FaultsOK
<1> QED BY <1>1, <1>3, <1>4 DEF AbandonedLeaseLapses, LeaseLapses

LEMMA SettleType ==
  ASSUME TypeOK, NEW j \in JobIds, Active(j), Settle(j),
         UNCHANGED <<njobs, nrows, pc, task, faults>>
  PROVE  TypeOK'
<1> USE CountersNat
<1>1. jobs[j] \in Job /\ j \in 1..njobs /\ jobs[j].run \in Runs
  BY JobPresent DEF Active, ActiveJobStatus, TypeOK, Job
<1>2. JobsTable(jobs', njobs')
  BY <1>1, EndedJob, JobWritten DEF Settle, TypeOK
<1>3. RowsTable(rows', nrows')
  BY <1>1, RowsClosed DEF Settle, TypeOK
<1>4. status' \in [Runs -> RunStatus \cup {"absent"}]
  <2>1. CASE transitionRun(jobs[j].run, "recovery_required")
    BY <1>1, <2>1, MoveType DEF TypeOK, RunStatus, TRANSITIONS
  <2>2. CASE status' = status
    BY <2>2 DEF TypeOK
  <2> QED BY <2>1, <2>2 DEF Settle
<1>5. WorkersOK'
  BY WorkersStay DEF TypeOK
<1> QED BY <1>2, <1>3, <1>4, <1>5 DEF TypeOK

LEMMA SweepType ==
  ASSUME TypeOK, NEW w \in Workers, SweepStep(w)
  PROVE  TypeOK'
<1> USE CountersNat
<1>1. ASSUME NEW j \in JobIds, SettleExhausted(w, j)
      PROVE  TypeOK'
  BY <1>1, SettleType DEF SettleExhausted
<1>2. ASSUME NEW j \in JobIds, SettleExpired(w, j)
      PROVE  TypeOK'
  <2>1. jobs[j].run \in Runs
    BY <1>2, JobPresent DEF SettleExpired, Stale, TypeOK, Job
  <2>2. RowsTable(rows', nrows)
    BY <1>2, <2>1, RowsClosed DEF SettleExpired, TypeOK
  <2>3. WorkersOK'
    BY <1>2, WorkersStay DEF SettleExpired, TypeOK
  <2> QED BY <1>2, <2>2, <2>3 DEF SettleExpired, TypeOK
<1>3. ASSUME NEW j \in JobIds, SettleRequeued(w, j)
      PROVE  TypeOK'
  <2> DEFINE to == IF status[jobs[j].run] \in EXECUTABLE THEN "pending" ELSE "failed"
  <2>1. jobs[j] \in Job /\ j \in 1..njobs /\ jobs[j].run \in Runs
    BY <1>3, JobPresent DEF SettleRequeued, Stale, TypeOK, Job
  <2>2. jobs' = [jobs EXCEPT ![j] = Ended(jobs[j], to)]
    BY <1>3 DEF SettleRequeued
  <2>3. to \in {"pending", "failed"}
    OBVIOUS
  <2> HIDE DEF to
  <2>4. JobsTable(jobs', njobs)
    BY <2>1, <2>2, <2>3, EndedJob, JobWritten DEF TypeOK
  <2>5. RowsTable(rows', nrows)
    BY <1>3, <2>1, RowsClosed DEF SettleRequeued, TypeOK
  <2>6. WorkersOK'
    BY <1>3, WorkersStay DEF SettleRequeued, TypeOK
  <2> QED BY <1>3, <2>4, <2>5, <2>6 DEF SettleRequeued, TypeOK
<1>4. ASSUME NEW r \in Runs, RecoverOrphan(w, r)
      PROVE  TypeOK'
  <2>1. \A k \in RowIds : /\ rows[k] = NoRow => rows'[k] = NoRow
                          /\ rows[k] # NoRow => rows'[k] \in Row /\ rows'[k] # NoRow
    BY <1>4, ConstantsAssumption DEF RecoverOrphan, TypeOK, RowsTable, Row, NoRow
  <2>2. rows' = [k \in RowIds |-> rows'[k]]
    BY <1>4 DEF RecoverOrphan
  <2>3. RowsTable(rows', nrows)
    BY <2>1, <2>2 DEF TypeOK, RowsTable
  <2>4. status' \in [Runs -> RunStatus \cup {"absent"}]
    BY <1>4, MoveType DEF RecoverOrphan, TypeOK, RunStatus, TRANSITIONS
  <2>5. WorkersOK'
    BY <1>4, WorkersStay DEF RecoverOrphan, TypeOK
  <2> QED BY <1>4, <2>3, <2>4, <2>5 DEF RecoverOrphan, TypeOK
<1> QED BY <1>1, <1>2, <1>3, <1>4 DEF SweepStep

LEMMA LoopType ==
  ASSUME TypeOK, NEW w \in Workers, LoopStep(w)
  PROVE  TypeOK'
<1> USE CountersNat
<1>1. CASE StaleJobsSwept(w)
  <2>1. WorkersOK'
    BY <1>1 DEF StaleJobsSwept, TypeOK, WorkersOK, Goto, Idle, Working, Begun
  <2> QED BY <1>1, <2>1 DEF StaleJobsSwept, TypeOK
<1>2. CASE OrphansSwept(w)
  <2>1. WorkersOK'
    BY <1>2 DEF OrphansSwept, TypeOK, WorkersOK, Goto, Idle, Working, Begun
  <2> QED BY <1>2, <2>1 DEF OrphansSwept, TypeOK
<1>3. ASSUME NEW j \in JobIds, Claim(w, j)
      PROVE  TypeOK'
  <2>1. jobs[j] \in Job /\ j \in 1..njobs
    BY <1>3, JobPresent DEF Claim, Claimable, Stale, TypeOK
  <2>2. PICK n \in 1..MaxAttempts : n = jobs[j].attempts + 1
    BY <1>3, <2>1, ConstantsAssumption DEF Claim, Claimable, Exhausted, Job
  <2> DEFINE t == [job |-> j, attempt |-> n, row |-> 0, seen |-> "absent"]
  <2>3. jobs' = [jobs EXCEPT ![j] = ClaimedBy(w, jobs[j])]
    BY <1>3 DEF Claim
  <2>4. /\ ClaimedBy(w, jobs[j]) \in Job /\ ClaimedBy(w, jobs[j]).owner \in Workers
        /\ ClaimedBy(w, jobs[j]).attempts > 0
    BY <2>1, <2>2, ClaimedJob
  <2>5. JobsTable(jobs', njobs)
    BY <2>1, <2>3, <2>4, JobWritten DEF TypeOK
  <2>6. t \in Task /\ t.job \in 1..njobs /\ t.attempt > 0
    <3>1. j \in 0..MaxJobs /\ n \in 0..MaxAttempts /\ n > 0 /\ 0 \in 0..MaxRows
      BY MaxRowsNat, ConstantsAssumption DEF JobIds
    <3> QED BY <3>1, <2>1 DEF Task
  <2>7. Remember(w, t)
    BY <1>3, <2>2 DEF Claim
  <2>8. PICK l \in {"claimed", "starting"} : Goto(w, l)
    BY <1>3 DEF Claim
  <2>9. WorkersOK'
    <3> HIDE DEF t
    <3> QED BY <1>3, <2>6, <2>7, <2>8, WorkerTakes, Labels DEF Claim, TypeOK
  <2> QED BY <1>3, <2>5, <2>9 DEF Claim, TypeOK
<1>4. CASE ShutdownInTime(w)
  <2>1. WorkersOK'
    BY <1>4, WorkerForgets, Labels DEF ShutdownInTime, TypeOK
  <2> QED BY <1>4, <2>1 DEF ShutdownInTime, TypeOK
<1>5. CASE ShutdownReleases(w)
  <2>1. WorkersOK'
    BY <1>5, WorkerForgets, Labels DEF ShutdownReleases, TypeOK
  <2>2. pc[w] \in Working
    BY <1>5 DEF ShutdownReleases, Working, Begun
  <2>3. CASE holdsLease(w)
    <3>1. JobOf(w) \in Job /\ JobOf(w).attempts > 0 /\ task[w].job \in 1..njobs
          /\ RunOf(w) \in Runs
      BY <2>2, <2>3, JobOfWorker DEF holdsLease, JobOf, TypeOK, JobsTable
    <3>2. JobsTable(jobs', njobs)
      BY <1>5, <2>3, <3>1, ReleasedJob, JobWritten DEF ShutdownReleases, TypeOK, JobOf
    <3>3. RowsTable(rows', nrows)
      BY <1>5, <2>3, <3>1, RowsClosed DEF ShutdownReleases, TypeOK
    <3> QED BY <1>5, <2>1, <3>2, <3>3 DEF ShutdownReleases, TypeOK
  <2>4. CASE ~holdsLease(w)
    BY <1>5, <2>1, <2>4 DEF ShutdownReleases, TypeOK
  <2> QED BY <2>3, <2>4
<1> QED BY <1>1, <1>2, <1>3, <1>4, <1>5 DEF LoopStep

LEMMA FaultType ==
  ASSUME TypeOK, NEW w \in Workers, FaultStep(w)
  PROVE  TypeOK'
<1> USE CountersNat
<1>1. FaultsOK' /\ UNCHANGED db
  BY OneFault DEF FaultStep, WriteFails, Crash, ShutdownBegins, db
<1>2. WorkersOK'
  <2>1. CASE BackToPoll(w)
    BY <1>1, <2>1, WorkerForgets, Labels DEF BackToPoll, TypeOK, db
  <2>2. CASE Crash(w)
    BY <1>1, <2>2, WorkerForgets, Labels DEF Crash, TypeOK, db
  <2>3. CASE pc[w] = "commit" /\ Goto(w, "rejecting") /\ task' = task
    BY <1>1, <2>3, WorkerGoesOn, Labels DEF TypeOK, db
  <2>4. CASE ShutdownBegins(w)
    BY <1>1, <2>4, WorkerGoesOn, Labels DEF ShutdownBegins, TypeOK, db
  <2> QED BY <2>1, <2>2, <2>3, <2>4 DEF FaultStep, WriteFails, Committing
<1> QED BY <1>1, <1>2 DEF TypeOK, db, FaultsOK

(* The job a worker ends is written over the one it is on. *)
LEMMA OwnJobWritten ==
  ASSUME TypeOK, NEW w \in Workers, pc[w] \in Working, NEW x \in Job,
         x.status = "claimed" => x.owner \in Workers /\ x.attempts > 0
  PROVE  JobsTable([jobs EXCEPT ![task[w].job] = x], njobs)
BY JobOfWorker, JobWritten DEF TypeOK

LEMMA OwnJobEnded ==
  ASSUME TypeOK, NEW w \in Workers, pc[w] \in Working,
         NEW to \in {"pending", "completed", "failed", "cancelled"}
  PROVE  JobsTable(JobEnded(w, to), njobs)
<1>1. Ended(JobOf(w), to) \in Job /\ Ended(JobOf(w), to).status # "claimed"
  BY JobOfWorker, EndedJob
<1> QED BY <1>1, OwnJobWritten DEF JobEnded, JobOf

(* The steps that end a worker's job or drop it: everything else stays typed. *)
LEMMA DroppedType ==
  ASSUME TypeOK, NEW w \in Workers, BackToPoll(w), UNCHANGED <<njobs, nrows, faults>>,
         status' \in [Runs -> RunStatus \cup {"absent"}],
         JobsTable(jobs', njobs), RowsTable(rows', nrows)
  PROVE  TypeOK'
<1>1. WorkersOK'
  BY CountersNat, WorkerForgets, Labels DEF BackToPoll, TypeOK
<1> QED BY <1>1 DEF TypeOK

LEMMA StageType ==
  ASSUME TypeOK, NEW w \in Workers, StageStep(w)
  PROVE  TypeOK'
<1> USE CountersNat
<1>1. CASE ClosePrior(w)
  <2>1. pc[w] \in Working
    BY <1>1, Labels DEF ClosePrior
  <2>2. RowsTable(rows', nrows)
    BY <1>1, <2>1, JobOfWorker, RowsClosed DEF ClosePrior, TypeOK
  <2>3. WorkersOK'
    BY <1>1, <2>1, WorkerGoesOn, Labels DEF ClosePrior, TypeOK
  <2> QED BY <1>1, <2>2, <2>3 DEF ClosePrior, TypeOK
<1>2. CASE SkipStage(w)
  BY <1>2, DroppedType DEF SkipStage, TypeOK
<1>3. CASE BeginStage(w)
  <2>1. pc[w] \in Working
    BY <1>3, Labels DEF BeginStage
  <2>2. /\ task[w].job \in JobIds /\ task[w].job \in 1..njobs
        /\ task[w].attempt \in 1..MaxAttempts
        /\ task[w] \in Task
    BY <2>1, JobOfWorker, ConstantsAssumption DEF TypeOK, WorkersOK, Task
  <2>3. nrows + 1 \in RowIds /\ nrows + 1 \in Nat /\ nrows' = nrows + 1
    BY <1>3, MaxRowsNat DEF BeginStage, RowIds
  <2> DEFINE x == [run |-> RunOf(w), stage |-> StageOf(w),
                   attempt |-> task[w].attempt, status |-> "running",
                   job |-> task[w].job]
             t == [task[w] EXCEPT !.row = nrows + 1, !.seen = status[RunOf(w)]]
  <2>4. x \in Row /\ x # NoRow
    BY <2>1, <2>2, JobOfWorker, ConstantsAssumption DEF Row, NoRow
  <2>5. rows' = [rows EXCEPT ![nrows + 1] = x]
    BY <1>3 DEF BeginStage
  <2>6. RowsTable(rows', nrows')
    <3> HIDE DEF x
    <3> QED BY <2>3, <2>4, <2>5, MaxRowsNat DEF TypeOK, RowsTable, RowIds
  <2>7. status[RunOf(w)] \in RunStatus \cup {"absent"}
    BY <2>1, JobOfWorker DEF TypeOK
  <2>8. /\ t \in Task /\ t.job \in 1..njobs /\ t.attempt > 0 /\ t.row \in 1..nrows'
    <3>1. nrows + 1 \in 0..MaxRows /\ nrows + 1 \in 1..nrows'
      BY <2>3, MaxRowsNat DEF RowIds
    <3>2. task[w].attempt > 0
      BY <2>2, ConstantsAssumption
    <3> QED BY <2>2, <2>7, <3>1, <3>2 DEF Task
  <2>9. Remember(w, t)
    BY <1>3 DEF BeginStage
  <2>10. WorkersOK'
    <3> HIDE DEF t
    <3> QED BY <1>3, <2>3, <2>8, <2>9, WorkerTakes, Labels DEF BeginStage, TypeOK
  <2> QED BY <1>3, <2>6, <2>10 DEF BeginStage, TypeOK
<1>4. CASE DiscardStopped(w)
  BY <1>4, OwnRowSettled, DroppedType, Labels DEF DiscardStopped, TypeOK
<1>5. CASE ExecutorReturns(w)
  <2>1. WorkersOK'
    BY <1>5, WorkerGoesOn, Labels DEF ExecutorReturns, TypeOK
  <2> QED BY <1>5, <2>1 DEF ExecutorReturns, TypeOK
<1>6. CASE CommitPassed(w)
  <2> DEFINE r == RunOf(w)
             route == PASSED_ROUTES[StageOf(w)]
             x == [JobOf(w) EXCEPT !.status = "completed", !.expired = FALSE]
             js == [jobs EXCEPT ![task[w].job] = x]
  <2>1. pc[w] \in Begun /\ pc[w] \in Working
    BY <1>6, Labels DEF CommitPassed, Committing
  <2>2. /\ task[w].job \in JobIds /\ JobOf(w) \in Job
        /\ r \in Runs /\ StageOf(w) \in JobStage
    BY <2>1, JobOfWorker
  <2>3. route.to \in RunStatus /\ route.next \in JobStage \cup {"none"}
    BY <2>2 DEF PASSED_ROUTES, RunStatus, TRANSITIONS, JobStage
  <2>4. status' \in [Runs -> RunStatus \cup {"absent"}]
    BY <1>6, <2>2, <2>3, MoveType DEF CommitPassed, TypeOK
  <2>5. x \in Job /\ x.status # "claimed"
    BY <2>2 DEF Job
  <2>6. JobsTable(js, njobs)
    <3> HIDE DEF x
    <3> QED BY <2>1, <2>5, OwnJobWritten
  <2>7. CreateJob(js, r, route.next)
    BY <1>6 DEF CommitPassed, JobOf
  <2>8. JobsTable(jobs', njobs') /\ njobs' \in Nat /\ njobs' >= njobs
    <3> HIDE DEF js, route, r
    <3> QED BY <2>2, <2>3, <2>6, <2>7, JobCreated, CreateCounts
  <2>9. RowsTable(rows', nrows)
    BY <1>6, <2>1, OwnRowSettled DEF CommitPassed
  <2>10. WorkersOK'
    BY <1>6, <2>8, WorkerForgets, Labels DEF CommitPassed, BackToPoll, TypeOK
  <2> QED BY <1>6, <2>4, <2>8, <2>9, <2>10 DEF CommitPassed, TypeOK
<1>7. ASSUME NEW o, CommitFailure(w, o)
      PROVE  TypeOK'
  <2> DEFINE x == [Ended(JobOf(w), "pending") EXCEPT !.waiting = TRUE]
  <2>1. pc[w] \in Begun /\ pc[w] \in Working
    BY <1>7, Labels DEF CommitFailure, Committing
  <2>2. /\ x \in Job /\ x.status # "claimed"
    <3>1. Ended(JobOf(w), "pending") \in Job /\ Ended(JobOf(w), "pending").status = "pending"
      BY <2>1, JobOfWorker, EndedJob
    <3> QED BY <3>1 DEF Job
  <2>3. jobs' = [jobs EXCEPT ![task[w].job] = x] \/ jobs' = JobEnded(w, "failed")
    BY <1>7 DEF CommitFailure, JobOf
  <2>4. JobsTable(jobs', njobs)
    <3> HIDE DEF x
    <3> QED BY <2>1, <2>2, <2>3, OwnJobWritten, OwnJobEnded
  <2>5. status' \in [Runs -> RunStatus \cup {"absent"}]
    BY <1>7, <2>1, JobOfWorker, MoveType DEF CommitFailure, TypeOK, RunStatus, TRANSITIONS
  <2>6. RowsTable(rows', nrows)
    BY <1>7, <2>1, OwnRowSettled DEF CommitFailure
  <2> QED BY <1>7, <2>4, <2>5, <2>6, DroppedType DEF CommitFailure
<1>8. CASE CommitRefused(w)
  BY <1>8, OwnRowSettled, DroppedType, Labels DEF CommitRefused, Committing, TypeOK
<1>9. ASSUME NEW o \in DOMAIN HoldTarget, CommitHold(w, o)
      PROVE  TypeOK'
  <2>1. pc[w] \in Begun /\ pc[w] \in Working
    BY <1>9, Labels DEF CommitHold, Committing
  <2>2. JobsTable(jobs', njobs)
    BY <1>9, <2>1, OwnJobEnded DEF CommitHold
  <2>3. HoldTarget[o] \in RunStatus
    BY DEF HoldTarget, RunStatus, TRANSITIONS
  <2>4. status' \in [Runs -> RunStatus \cup {"absent"}]
    BY <1>9, <2>1, <2>3, JobOfWorker, MoveType DEF CommitHold, TypeOK
  <2>5. RowsTable(rows', nrows)
    BY <1>9, <2>1, OwnRowSettled DEF CommitHold, TypeOK
  <2> QED BY <1>9, <2>2, <2>4, <2>5, DroppedType DEF CommitHold
<1>10. CASE HoldRefused(w)
  BY <1>10, DroppedType DEF HoldRefused, TypeOK
<1>11. CASE RejectAttempt(w)
  <2>1. pc[w] \in Begun /\ pc[w] \in Working
    BY <1>11, Labels DEF RejectAttempt, Committing
  <2>2. WorkersOK'
    BY <1>11, <2>1, WorkerGoesOn, Labels DEF RejectAttempt, TypeOK
  <2>3. RowsTable(rows', nrows)
    BY <1>11, <2>1, OwnRowSettled DEF RejectAttempt
  <2> QED BY <1>11, <2>2, <2>3 DEF RejectAttempt, TypeOK
<1>12. CASE CommitRejected(w)
  <2>1. pc[w] \in Working
    BY <1>12, Labels DEF CommitRejected
  <2>2. JobsTable(jobs', njobs)
    BY <1>12, <2>1, OwnJobEnded DEF CommitRejected
  <2>3. status' \in [Runs -> RunStatus \cup {"absent"}]
    BY <1>12, <2>1, JobOfWorker, MoveType DEF CommitRejected, TypeOK, RunStatus, TRANSITIONS
  <2> QED BY <1>12, <2>2, <2>3, DroppedType DEF CommitRejected, TypeOK
<1>13. CASE RejectRefused(w)
  BY <1>13, DroppedType DEF RejectRefused, TypeOK
<1> QED BY <1>1, <1>2, <1>3, <1>4, <1>5, <1>6, <1>7, <1>8, <1>9, <1>10, <1>11, <1>12, <1>13
     DEF StageStep

LEMMA RenewType ==
  ASSUME TypeOK, NEW w \in Workers, RenewLease(w)
  PROVE  TypeOK'
<1> DEFINE x == [JobOf(w) EXCEPT !.expired = FALSE]
<1>1. pc[w] \in Working
  BY Labels DEF RenewLease
<1>2. x \in Job /\ x.owner = JobOf(w).owner /\ x.attempts = JobOf(w).attempts
  BY <1>1, JobOfWorker DEF Job
<1>3. JobOf(w).status = "claimed" => JobOf(w).owner \in Workers /\ JobOf(w).attempts > 0
  BY <1>1, JobOfWorker DEF JobOf, TypeOK, JobsTable
<1>4. jobs' = [jobs EXCEPT ![task[w].job] = x]
  BY DEF RenewLease, JobOf
<1>5. JobOf(w).status = "claimed"
  BY DEF RenewLease, holdsLease
<1> HIDE DEF x
<1>6. JobsTable(jobs', njobs)
  BY <1>1, <1>2, <1>3, <1>4, <1>5, OwnJobWritten
<1>7. WorkersOK'
  BY CountersNat, WorkersStay DEF RenewLease, TypeOK
<1> QED BY <1>6, <1>7 DEF RenewLease, TypeOK

LEMMA TypeStep ==
  ASSUME TypeOK, [Next]_vars
  PROVE  TypeOK'
<1>1. CASE UNCHANGED vars
  BY <1>1 DEF vars, TypeOK, WorkersOK
<1>2. CASE Next
  BY <1>2, ApiType, ClockType, SweepType, StageType, LoopType, RenewType, FaultType DEF Next
<1> QED BY <1>1, <1>2

LEMMA TypeInit ==
  ASSUME Init
  PROVE  TypeOK
<1>1. JobsTable(jobs, njobs)
  BY ConstantsAssumption DEF Init, JobsTable, NoJob, JobIds
<1>2. RowsTable(rows, nrows)
  BY MaxRowsNat DEF Init, RowsTable, NoRow, RowIds
<1>3. WorkersOK
  BY MaxRowsNat, ConstantsAssumption DEF Init, WorkersOK, NoTask, Task, Idle, Working, Begun
<1> QED BY <1>1, <1>2, <1>3, ConstantsAssumption DEF Init, TypeOK

(***************************************************************************)
(* The tables keep their shape and every worker's references lead to a job *)
(* and an attempt of the tables, whatever the number of runs and workers.  *)
(***************************************************************************)
THEOREM TypeCorrect == Spec => []TypeOK
BY TypeInit, TypeStep, PTL DEF Spec
=============================================================================
