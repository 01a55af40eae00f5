------------------------------ MODULE Delivery ------------------------------
(***************************************************************************)
(* How a reviewed run becomes a pull request: the operator asks for it,    *)
(* a worker's command loop claims the deliver command and runs the deliver *)
(* executor, which commits, pushes and opens the pull request, each under  *)
(* an entry of the operation ledger, and the stage runner commits the run  *)
(* and the command together.                                               *)
(*                                                                         *)
(* An executor waits for subprocesses and HTTP calls between the steps     *)
(* below, and every other process may act there: another worker that       *)
(* claimed the same command after its lease lapsed, the operator, and a    *)
(* subprocess or request that a dead worker left behind.                   *)
(***************************************************************************)
EXTENDS RunCommands

CONSTANTS
  MaxFaults,    (* bound: crashes, shutdowns, failed transactions, leases  *)
                (* that lapse although their worker renews them            *)
  NoCommand

ASSUME DeliveryAssumption ==
  /\ MaxFaults \in Nat
  /\ NoCommand \notin Runs \cup Stops \cup Checks

VARIABLES
  run,     (* runs.status of the reviewed runs                             *)
  ledger,  (* the operation_ledger table                                   *)
  git,     (* each run's worktree, its remote branch and its pull requests *)
  worker,  (* each worker's command loop and deliver executor              *)
  stray,   (* effects that a dead worker's subprocess or request may have  *)
  faults

vars == <<cmd, run, ledger, git, worker, stray, faults>>

Operations == {"git_commit", "git_push", "create_pr"}

After == [git_commit |-> "git_push", git_push |-> "create_pr", create_pr |-> "none"]

(* pre is the metadata of a pending git_commit, preCommitSha.                *)
Entry(status, pre) == [status |-> status, pre |-> pre]

(* Commits of the branch are counted from the base, 0; a remote branch or a  *)
(* HEAD is the number of delivery commits it holds.                          *)
Reviewed == [dirty |-> TRUE, head |-> 0, remote |-> 0, opened |-> 0]

Steps == {"idle", "look", "prepare", "reconcile", "record", "find", "do",
          "done", "failed", "thrown", "passed", "check"}

AtRest == [step |-> "idle", cmd |-> NoCommand, op |-> "none", pre |-> 0,
           aborted |-> FALSE]

(* A worker process: whether it runs, whether its heartbeat row is fresh, the *)
(* commands it has claimed and not yet looked at, and the delivery it is on.  *)
NotStarted == [mode |-> "new", fresh |-> FALSE, batch |-> {}, task |-> AtRest]
Gone(fresh) == [mode |-> "gone", fresh |-> fresh, batch |-> {}, task |-> AtRest]

Init ==
  /\ cmd = [c \in Commands |-> Absent]
  /\ run = [r \in Runs |-> "ready_for_pr"]
  /\ ledger = [r \in Runs |-> [o \in Operations |-> Entry("absent", 0)]]
  /\ git = [r \in Runs |-> Reviewed]
  /\ worker = [w \in Workers |-> NotStarted]
  /\ stray = {}
  /\ faults = 0

Live(w) == worker[w].mode \in {"up", "stopping"}

At(w, step) == Live(w) /\ worker[w].task.step = step

Fault == faults < MaxFaults /\ faults' = faults + 1

(* The next step of w's executor, everything it remembers unchanged.          *)
GoTo(w, step) == worker' = [worker EXCEPT ![w].task.step = step]
Rest(w)       == worker' = [worker EXCEPT ![w].task = AtRest]

-----------------------------------------------------------------------------
(* The operator, through the API process.                                    *)

(* createPR: one deliver command per run; a failed one starts over.          *)
RequestDelivery(r) ==
  /\ run[r] = "ready_for_pr"
  /\ cmd[r].status \in {"absent", "failed"}
  /\ cmd' = InsertOrRetry(r, NoWorker)
  /\ UNCHANGED <<run, ledger, git, worker, stray, faults>>

(* abandonRun of a run that waits for its pull request: it has no active job, *)
(* so no command is sent and a delivery under way is not told.                *)
Abandon(r) ==
  /\ run[r] = "ready_for_pr"
  /\ run' = [run EXCEPT ![r] = "failed"]
  /\ UNCHANGED <<cmd, ledger, git, worker, stray, faults>>

(* stopRun or restart of some other run whose job w has claimed; w may be      *)
(* dead and its job not yet reclaimed.                                         *)
RequestStop(s, w) ==
  /\ worker[w].mode # "new"
  /\ cmd[s].status \in {"absent", "failed"}
  /\ cmd' = InsertOrRetry(s, w)
  /\ UNCHANGED <<run, ledger, git, worker, stray, faults>>

(* Opening a delivered run asks for a check, unless one is under way.         *)
RequestCheck(k) ==
  /\ ~Active(k)
  /\ cmd' = [cmd EXCEPT ![k] = Pending(NoWorker)]
  /\ UNCHANGED <<run, ledger, git, worker, stray, faults>>

-----------------------------------------------------------------------------
(* The command loop.                                                         *)

Start(w) ==
  /\ worker[w].mode = "new"
  /\ worker' = [worker EXCEPT ![w].mode = "up", ![w].fresh = TRUE]
  /\ UNCHANGED <<cmd, run, ledger, git, stray, faults>>

Stale == {w \in Workers : ~worker[w].fresh}

(* The loop claims only between batches, and claims all it can.              *)
Claim(w) ==
  /\ worker[w].mode = "up" /\ At(w, "idle") /\ worker[w].batch = {}
  /\ Exhausted \cup Orphaned(w, Stale) \cup Claimable(w) # {}
  /\ cmd' = AfterClaim(w, Stale)
  /\ worker' = [worker EXCEPT ![w].batch = Claimable(w)]
  /\ UNCHANGED <<run, ledger, git, stray, faults>>

(* processCommand of a stop.  The job it aborts is in module JobLease; no      *)
(* delivery can be under way, as the loop that runs it is here.                *)
ProcessStop(w, s) ==
  /\ At(w, "idle") /\ s \in worker[w].batch
  /\ cmd' = CompleteIfHeld(w, s)
  /\ worker' = [worker EXCEPT ![w].batch = @ \ {s}]
  /\ UNCHANGED <<run, ledger, git, stray, faults>>

(* processCheckPrCommand waits for the host; no heartbeat renews its lease.   *)
BeginCheck(w, k) ==
  /\ At(w, "idle") /\ k \in worker[w].batch
  /\ worker' = [worker EXCEPT ![w].batch = @ \ {k},
                              ![w].task = [AtRest EXCEPT !.step = "check", !.cmd = k]]
  /\ UNCHANGED <<cmd, run, ledger, git, stray, faults>>

EndCheck(w) ==
  LET k == worker[w].task.cmd
  IN /\ At(w, "check")
     /\ cmd' = CompleteIfHeld(w, k) \/ cmd' = FailIfHeld(w, k)
     /\ Rest(w)
     /\ UNCHANGED <<run, ledger, git, stray, faults>>

(* processDeliverCommand refuses a run that has moved on.                     *)
RefuseDelivery(w, r) ==
  /\ At(w, "idle") /\ r \in worker[w].batch
  /\ run[r] # "ready_for_pr"
  /\ cmd' = FailIfHeld(w, r)
  /\ worker' = [worker EXCEPT ![w].batch = @ \ {r}]
  /\ UNCHANGED <<run, ledger, git, stray, faults>>

(* It starts the stage otherwise, without a look at the lease, and with a     *)
(* signal of its own even when the worker is shutting down.  The project may  *)
(* fail to resolve.                                                           *)
BeginDelivery(w, r) ==
  /\ At(w, "idle") /\ r \in worker[w].batch
  /\ run[r] = "ready_for_pr"
  /\ \E step \in {"look", "thrown"} :
       worker' = [worker EXCEPT
         ![w].batch = @ \ {r},
         ![w].task = [AtRest EXCEPT !.step = step, !.cmd = r, !.op = "git_commit"]]
  /\ UNCHANGED <<cmd, run, ledger, git, stray, faults>>

-----------------------------------------------------------------------------
(* The deliver executor: executeWithLedger for each operation in turn.       *)

SetEntry(w, status, pre) ==
  LET t == worker[w].task
  IN ledger' = [ledger EXCEPT ![t.cmd][t.op] = Entry(status, pre)]

(* The operation after op, or the end of the executor.                       *)
Advance(w) ==
  LET next == After[worker[w].task.op]
  IN IF next = "none"
     THEN GoTo(w, "passed")
     ELSE worker' = [worker EXCEPT ![w].task.step = "look", ![w].task.op = next,
                                   ![w].task.pre = 0]

(* An aborted executor throws before it opens a pull request.  A completed   *)
(* entry is not done again, a pending one is reconciled, any other prepared. *)
Look(w) ==
  LET t == worker[w].task
      entry == ledger[t.cmd][t.op]
  IN /\ At(w, "look")
     /\ IF t.op = "create_pr" /\ t.aborted THEN GoTo(w, "thrown")
        ELSE CASE entry.status = "completed" -> Advance(w)
               [] entry.status = "pending" ->
                    worker' = [worker EXCEPT ![w].task.step = "reconcile",
                                             ![w].task.pre = entry.pre]
               [] OTHER -> GoTo(w, "prepare")
     /\ UNCHANGED <<cmd, run, ledger, git, stray, faults>>

(* Only git_commit has something to prepare: it reads HEAD, which can fail.  *)
Prepare(w) ==
  LET t == worker[w].task
  IN /\ At(w, "prepare")
     /\ IF t.op # "git_commit" THEN GoTo(w, "record")
        ELSE \/ GoTo(w, "thrown")
             \/ /\ ~t.aborted
                /\ worker' = [worker EXCEPT ![w].task.step = "record",
                                            ![w].task.pre = git[t.cmd].head]
     /\ UNCHANGED <<cmd, run, ledger, git, stray, faults>>

(* Mutant of Found: a pending push is taken as done.                          *)
FoundPushed(r, op, pre) ==
  \/ op = "git_push"
  \/ op = "git_commit" /\ pre < git[r].head
  \/ op = "create_pr" /\ git[r].opened > 0

(* Whether the effect of a pending operation is found.  The delivery commit   *)
(* is known by its message and its parent; the push by the remote SHA; the    *)
(* pull request by its branch and its last commit.                            *)
Found(r, op, pre) ==
  CASE op = "git_commit" -> pre < git[r].head
    [] op = "git_push"   -> git[r].remote = git[r].head
    [] op = "create_pr"  -> git[r].opened > 0 /\ git[r].remote = git[r].head

(* A lookup that fails, or an abort, fails the stage and leaves the entry.   *)
Reconcile(w) ==
  LET t == worker[w].task
  IN /\ At(w, "reconcile")
     /\ \/ GoTo(w, "thrown")
        \/ /\ ~t.aborted
           /\ GoTo(w, IF Found(t.cmd, t.op, t.pre) THEN "done" ELSE "record")
     /\ UNCHANGED <<cmd, run, ledger, git, stray, faults>>

(* recordPending.  An aborted executor then starts nothing.                  *)
RecordPending(w) ==
  LET t == worker[w].task
  IN /\ At(w, "record")
     /\ SetEntry(w, "pending", t.pre)
     /\ GoTo(w, IF t.aborted THEN "failed"
                ELSE IF t.op = "create_pr" THEN "find" ELSE "do")
     /\ UNCHANGED <<cmd, run, git, stray, faults>>

(* createPullRequestWithFallback looks for an open pull request first.       *)
FindPullRequest(w) ==
  LET t == worker[w].task
  IN /\ At(w, "find")
     /\ \/ GoTo(w, "failed")
        \/ /\ ~t.aborted
           /\ GoTo(w, IF git[t.cmd].opened > 0 THEN "done" ELSE "do")
     /\ UNCHANGED <<cmd, run, ledger, git, stray, faults>>

(* Mutant of CanHappen: a clean tree is committed.                            *)
CanHappenTwice(r, op) ==
  op = "create_pr" => git[r].remote > 0 /\ git[r].opened = 0

(* safeCommitAll throws on a clean tree; the host refuses a pull request for  *)
(* a branch with no commits, or a second one for a branch (external).         *)
CanHappen(r, op) ==
  CASE op = "git_commit" -> git[r].dirty
    [] op = "git_push"   -> TRUE
    [] op = "create_pr"  -> git[r].remote > 0 /\ git[r].opened = 0

Effect(r, op) ==
  CASE op = "git_commit" -> [git EXCEPT ![r].head = @ + 1, ![r].dirty = FALSE]
    [] op = "git_push"   -> [git EXCEPT ![r].remote = git[r].head]
    [] op = "create_pr"  -> [git EXCEPT ![r].opened = @ + 1]

(* The operation succeeds, or it fails: before its effect, or after it, when  *)
(* an abort or a timeout kills the subprocess or loses the answer, or the     *)
(* write of its ledger entry fails.                                           *)
DoOperation(w) ==
  LET t == worker[w].task
  IN /\ At(w, "do")
     /\ \/ GoTo(w, "failed") /\ UNCHANGED git
        \/ /\ CanHappen(t.cmd, t.op)
           /\ git' = Effect(t.cmd, t.op)
           /\ GoTo(w, "done") \/ GoTo(w, "failed")
     /\ UNCHANGED <<cmd, run, ledger, stray, faults>>

RecordCompleted(w) ==
  /\ At(w, "done")
  /\ SetEntry(w, "completed", 0)
  /\ Advance(w)
  /\ UNCHANGED <<cmd, run, git, stray, faults>>

RecordFailed(w) ==
  /\ At(w, "failed")
  /\ SetEntry(w, "failed", 0)
  /\ GoTo(w, "thrown")
  /\ UNCHANGED <<cmd, run, git, stray, faults>>

-----------------------------------------------------------------------------
(* The stage runner's end of the delivery.                                   *)

(* A worker that shuts down commits nothing and leaves the command to its    *)
(* lease.                                                                    *)
LeaveToLease(w) ==
  /\ worker[w].mode = "stopping"
  /\ At(w, "passed") \/ At(w, "thrown")
  /\ Rest(w)
  /\ UNCHANGED <<cmd, run, ledger, git, stray, faults>>

(* Mutants of StillMine: the lease is not asked, or the run is not.           *)
StillReady(w) == run[worker[w].task.cmd] = "ready_for_pr"
StillHeld(w)  == Holds(w, worker[w].task.cmd)

StillMine(w) ==
  LET r == worker[w].task.cmd IN Holds(w, r) /\ run[r] = "ready_for_pr"

(* commitPassed: the run and the command in one transaction, or neither.     *)
CommitPassed(w) ==
  LET r == worker[w].task.cmd
  IN /\ worker[w].mode = "up" /\ At(w, "passed")
     /\ IF StillMine(w)
        THEN /\ run' = [run EXCEPT ![r] = "pr_created"]
             /\ cmd' = CompleteIfHeld(w, r)
        ELSE UNCHANGED <<run, cmd>>
     /\ Rest(w)
     /\ UNCHANGED <<ledger, git, stray, faults>>

(* fail: the command fails and the run stays where it is.                    *)
CommitFailed(w) ==
  LET r == worker[w].task.cmd
  IN /\ worker[w].mode = "up" /\ At(w, "thrown")
     /\ cmd' = IF StillMine(w) THEN FailIfHeld(w, r) ELSE cmd
     /\ Rest(w)
     /\ UNCHANGED <<run, ledger, git, stray, faults>>

(* commitPassed throws: its transaction is rolled back, the loop drops the    *)
(* rest of its batch and goes on.  fail catches its own error.                *)
CommitThrows(w) ==
  /\ worker[w].mode = "up" /\ At(w, "passed")
  /\ Fault
  /\ worker' = [worker EXCEPT ![w].batch = {}, ![w].task = AtRest]
  /\ UNCHANGED <<cmd, run, ledger, git, stray>>

-----------------------------------------------------------------------------
(* Leases, shutdowns and crashes.                                            *)

(* The heartbeat renews the lease of the delivery under way until its signal  *)
(* is aborted; a claimed command that waits behind it is renewed by nobody.   *)
Renews(w, c)  == /\ Live(w) /\ worker[w].task.cmd = c /\ c \in Runs
                 /\ ~worker[w].task.aborted
AboutTo(w, c) == Live(w) /\ c \in worker[w].batch /\ At(w, "idle")

Lapse(c) ==
  LET w == cmd[c].owner
  IN /\ cmd[c].status = "claimed" /\ ~cmd[c].lapsed
     /\ cmd' = [cmd EXCEPT ![c].lapsed = TRUE]
     /\ IF Renews(w, c) \/ AboutTo(w, c) THEN Fault ELSE UNCHANGED faults
     /\ UNCHANGED <<run, ledger, git, worker, stray>>

(* renewLease asks for the owner only: a late heartbeat revives the lease.   *)
Renew(w, c) ==
  /\ Renews(w, c) /\ Holds(w, c) /\ cmd[c].lapsed
  /\ cmd' = [cmd EXCEPT ![c].lapsed = FALSE]
  /\ UNCHANGED <<run, ledger, git, worker, stray, faults>>

(* stop(): the loop ends, and the delivery under way is aborted.             *)
Shutdown(w) ==
  /\ worker[w].mode = "up"
  /\ Fault
  /\ worker' = [worker EXCEPT ![w].mode = "stopping",
                              ![w].task.aborted = (worker[w].task.cmd \in Runs)]
  /\ UNCHANGED <<cmd, run, ledger, git, stray>>

(* What a worker that dies now leaves behind: its subprocess has a process    *)
(* group of its own, its request is already sent.                             *)
LeftBehind(w) ==
  IF worker[w].task.step = "do"
  THEN {<<worker[w].task.cmd, worker[w].task.op>>}
  ELSE {}

(* The end of stop(): the heartbeat row is removed, the process exits.       *)
Exit(w) ==
  /\ worker[w].mode = "stopping"
  /\ worker' = [worker EXCEPT ![w] = Gone(FALSE)]
  /\ stray' = stray \cup LeftBehind(w)
  /\ UNCHANGED <<cmd, run, ledger, git, faults>>

Crash(w) ==
  /\ Live(w)
  /\ Fault
  /\ worker' = [worker EXCEPT ![w] = Gone(TRUE)]
  /\ stray' = stray \cup LeftBehind(w)
  /\ UNCHANGED <<cmd, run, ledger, git>>

(* The heartbeat row of a crashed worker gets too old.                       *)
HeartbeatAges(w) ==
  /\ worker[w].mode = "gone" /\ worker[w].fresh
  /\ worker' = [worker EXCEPT ![w].fresh = FALSE]
  /\ UNCHANGED <<cmd, run, ledger, git, stray, faults>>

(* A stray effect happens, at any later time, or comes to nothing.           *)
Land(e) ==
  /\ stray' = stray \ {e}
  /\ \/ UNCHANGED git
     \/ CanHappen(e[1], e[2]) /\ git' = Effect(e[1], e[2])
  /\ UNCHANGED <<cmd, run, ledger, worker, faults>>

-----------------------------------------------------------------------------
Execute(w) ==
  \/ Look(w) \/ Prepare(w) \/ Reconcile(w) \/ RecordPending(w)
  \/ FindPullRequest(w) \/ DoOperation(w) \/ RecordCompleted(w) \/ RecordFailed(w)
  \/ LeaveToLease(w) \/ CommitPassed(w) \/ CommitFailed(w) \/ EndCheck(w)

Process(w) ==
  \/ \E s \in Stops : ProcessStop(w, s)
  \/ \E k \in Checks : BeginCheck(w, k)
  \/ \E r \in Runs : RefuseDelivery(w, r) \/ BeginDelivery(w, r)

Operator ==
  \/ \E r \in Runs : RequestDelivery(r) \/ Abandon(r)
  \/ \E s \in Stops, w \in Workers : RequestStop(s, w)
  \/ \E k \in Checks : RequestCheck(k)

Environment ==
  \/ \E c \in Commands : Lapse(c)
  \/ \E e \in stray : Land(e)
  \/ \E w \in Workers : \/ Shutdown(w) \/ Exit(w) \/ Crash(w) \/ HeartbeatAges(w)
                        \/ CommitThrows(w)

Next ==
  \/ Operator
  \/ Environment
  \/ \E w \in Workers : \/ Start(w) \/ Claim(w) \/ Process(w) \/ Execute(w)
                        \/ \E c \in Runs : Renew(w, c)

Spec == Init /\ [][Next]_vars

(* Workers are started and their loops go on; every operation of an executor *)
(* ends, as subprocesses and requests have timeouts; a process that stops    *)
(* exits; a lease nobody renews lapses and a dead worker's heartbeat ages.   *)
Unrenewed(c) ==
  /\ ~ \E w \in Workers : Renews(w, c) \/ AboutTo(w, c)
  /\ Lapse(c)

Fairness ==
  /\ \A w \in Workers :
       /\ WF_vars(Start(w)) /\ WF_vars(Claim(w)) /\ WF_vars(Process(w))
       /\ WF_vars(Execute(w)) /\ WF_vars(Exit(w)) /\ WF_vars(HeartbeatAges(w))
  /\ \A c \in Commands : WF_vars(Unrenewed(c))

FairSpec == Spec /\ Fairness

-----------------------------------------------------------------------------
Task == [step : Steps, cmd : Runs \cup Checks \cup {NoCommand}, op : Operations \cup {"none"},
         pre : Nat, aborted : BOOLEAN]

Worker == [mode : {"new", "up", "stopping", "gone"}, fresh : BOOLEAN,
           batch : SUBSET Commands, task : Task]

(* A task names a run and an operation exactly while it is under way, what it *)
(* means to do is a delivery's, and a worker that does not run holds nothing. *)
TaskFits(x) ==
  /\ x.task.step = "idle" <=> x.task.cmd = NoCommand
  /\ x.task.step = "check" <=> x.task.cmd \in Checks
  /\ x.task.cmd \in Runs <=> x.task.op # "none"
  /\ x.task.step \in {"find", "passed"} => x.task.op = "create_pr"
  /\ x.mode \in {"new", "gone"} => x.batch = {} /\ x.task = AtRest

(* Type invariant: the values each variable may hold.  A claimed command has  *)
(* an owner and has counted its claim; a pending one has none to count, so    *)
(* that no claim exceeds MaxAttempts.                                         *)
TypeOK ==
  /\ cmd \in [Commands -> Command]
  /\ \A c \in Commands :
       /\ cmd[c].status = "claimed" => cmd[c].owner # NoWorker /\ cmd[c].attempts > 0
       /\ cmd[c].status = "pending" => cmd[c].attempts = 0
  /\ run \in [Runs -> {"ready_for_pr", "pr_created", "failed"}]
  /\ ledger \in [Runs -> [Operations ->
       [status : {"absent", "pending", "completed", "failed"}, pre : Nat]]]
  /\ git \in [Runs -> [dirty : BOOLEAN, head : Nat, remote : Nat, opened : Nat]]
  /\ worker \in [Workers -> Worker]
  /\ \A w \in Workers : TaskFits(worker[w])
  /\ stray \subseteq Runs \X Operations
  /\ faults \in 0..MaxFaults

(* An entry that says completed is true: the branch holds the one delivery    *)
(* commit, the remote branch too, the pull request is open.  Two executors    *)
(* of one run, stray effects and a retry after a crash write the ledger in    *)
(* any order.                                                                 *)
LedgerTellsTheTruth ==
  \A r \in Runs :
    /\ ledger[r]["git_commit"].status = "completed" => git[r].head = 1
    /\ ledger[r]["git_push"].status = "completed" => git[r].remote = 1
    /\ ledger[r]["create_pr"].status = "completed" => git[r].opened = 1

(* The run and its command end together (one transaction), whoever executed   *)
(* the delivery: a late worker finishes neither for the worker that took the  *)
(* command over.  A delivered run has its pull request, on its commit.        *)
DeliveredTogether ==
  \A r \in Runs :
    /\ run[r] = "pr_created" <=> cmd[r].status = "completed"
    /\ run[r] = "pr_created" =>
         git[r].opened = 1 /\ git[r].remote = 1 /\ git[r].head = 1

(* The request for a run's delivery, as its deliver command has it.            *)
requestOf(c) == IF Active(c) THEN "asked"
                ELSE IF cmd[c].status = "absent" THEN "none" ELSE cmd[c].status

branchOf(r) == [commits |-> git[r].head, pushed |-> git[r].remote, pulls |-> git[r].opened]

requests == [r \in Runs |-> requestOf(r)]
branches == [r \in Runs |-> branchOf(r)]

RD == INSTANCE RunDelivery WITH request <- requests, branch <- branches

(* Delivery implements RunDelivery: with commands, leases, executors, their   *)
(* ledger and what dead workers left behind hidden, a branch is touched only  *)
(* when its run was asked for, its commit, push and pull request are made     *)
(* once each and in this order, and the run ends with its request, after all  *)
(* three.                                                                     *)
ImplementsRunDelivery == RD!Spec

(* However often a delivery is interrupted, retried or run twice at a time,   *)
(* the branch never gets a second delivery commit.                            *)
OneDeliveryCommit == \A r \in Runs : git[r].head <= 1 /\ git[r].remote <= 1

EndsStay ==
  /\ \A r \in Runs : run[r] # "ready_for_pr" => run'[r] = run[r]
  /\ \A c \in Runs \cup Stops : cmd[c].status = "completed" => cmd'[c] = cmd[c]

(* A run that was delivered or abandoned stays so, and a completed command is *)
(* never taken up again: not by an executor still under way when the operator *)
(* abandons the run, nor by a new request.                                    *)
EndsStayEnded == [][EndsStay]_vars

(* A requested delivery or check is decided: its command completes or fails,  *)
(* so that the operator sees the outcome or may ask again, whatever crashes,  *)
(* lost leases and failed transactions it meets.                              *)
RequestsSettle ==
  \A c \in Runs \cup Checks : Active(c) ~> cmd[c].status \in {"completed", "failed"}

(* state-machine-matrix.md: abandon changes nothing on the remote.  Once a    *)
(* run is abandoned its remote branch and its pull requests stay as they are. *)
AbandonLeavesRemote ==
  [][\A r \in Runs : run[r] = "failed" =>
       /\ git'[r].remote = git[r].remote
       /\ git'[r].opened = git[r].opened]_vars

(* operation-ledger-repository.ts: the ledger performs a mutation             *)
(* idempotently.  Then a delivery commit that is made is one the ledger knows *)
(* of or can still find; otherwise every retry fails on a clean tree.         *)
CommitIsRecoverable ==
  \A r \in Runs :
    LET entry == ledger[r]["git_commit"]
    IN (run[r] = "ready_for_pr" /\ git[r].head > 0)
         => \/ entry.status = "completed"
            \/ entry.status = "pending" /\ entry.pre < git[r].head
=============================================================================
