--------------------------- MODULE DeliveryProofs ---------------------------
(***************************************************************************)
(* Theorems about Delivery, for any number of runs, commands, workers,     *)
(* attempts and faults: its types, its safety, and that it implements      *)
(* RunDelivery.                                                            *)
(***************************************************************************)
EXTENDS Delivery, TLAPS

-----------------------------------------------------------------------------
(* Types.  The invariant is taken apart: one operator for each table.      *)

CommandsOK(table) ==
  /\ table \in [Commands -> Command]
  /\ \A c \in Commands :
       /\ table[c].status = "claimed" => table[c].owner # NoWorker /\ table[c].attempts > 0
       /\ table[c].status = "pending" => table[c].attempts = 0

WorkersOK(table) ==
  /\ table \in [Workers -> Worker]
  /\ \A w \in Workers : TaskFits(table[w])

RunsOK(table) == table \in [Runs -> {"ready_for_pr", "pr_created", "failed"}]

LedgerOK(table) ==
  table \in [Runs -> [Operations ->
    [status : {"absent", "pending", "completed", "failed"}, pre : Nat]]]

GitOK(table) ==
  table \in [Runs -> [dirty : BOOLEAN, head : Nat, remote : Nat, opened : Nat]]

LEMMA TypeParts ==
  TypeOK <=> /\ CommandsOK(cmd) /\ RunsOK(run) /\ LedgerOK(ledger) /\ GitOK(git)
             /\ WorkersOK(worker)
             /\ stray \subseteq Runs \X Operations
             /\ faults \in 0..MaxFaults
BY DEF TypeOK, CommandsOK, RunsOK, LedgerOK, GitOK, WorkersOK

LEMMA PendingCommand ==
  ASSUME NEW target \in Workers \cup {NoWorker}
  PROVE  /\ Pending(target) \in Command
         /\ Pending(target).status = "pending" /\ Pending(target).attempts = 0
<1>1. 0 \in 0..MaxAttempts /\ FALSE \in BOOLEAN
  BY CommandsAssumption
<1>2. "absent" \in CommandStatus /\ "pending" \in CommandStatus
  BY DEF CommandStatus
<1>3. Absent \in Command /\ Absent.attempts = 0
  BY <1>1, <1>2 DEF Absent, Command
<1>4. Pending(target) \in Command
  BY <1>2, <1>3 DEF Pending, Command
<1>5. Pending(target).status = "pending" /\ Pending(target).attempts = Absent.attempts
  BY <1>3 DEF Pending, Command
<1> QED BY <1>3, <1>4, <1>5

(* Writing one command keeps the table. *)
LEMMA CommandWritten ==
  ASSUME CommandsOK(cmd), NEW c \in Commands, NEW x \in Command,
         x.status = "claimed" => x.owner # NoWorker /\ x.attempts > 0,
         x.status = "pending" => x.attempts = 0
  PROVE  CommandsOK([cmd EXCEPT ![c] = x])
BY DEF CommandsOK

LEMMA PendingType ==
  ASSUME CommandsOK(cmd), NEW c \in Commands, NEW target \in Workers \cup {NoWorker}
  PROVE  CommandsOK([cmd EXCEPT ![c] = Pending(target)])
BY PendingCommand, CommandWritten

LEMMA InsertType ==
  ASSUME CommandsOK(cmd), NEW c \in Commands, NEW target \in Workers \cup {NoWorker}
  PROVE  CommandsOK(InsertOrRetry(c, target))
<1>1. cmd[c].target \in Workers \cup {NoWorker}
  BY DEF CommandsOK, Command
<1> QED BY <1>1, PendingType DEF InsertOrRetry

LEMMA SettleType ==
  ASSUME CommandsOK(cmd), NEW w \in Workers, NEW c \in Commands
  PROVE  CommandsOK(CompleteIfHeld(w, c)) /\ CommandsOK(FailIfHeld(w, c))
<1>1. CommandsOK(Completed(c))
  <2> DEFINE x == [cmd[c] EXCEPT !.status = "completed", !.lapsed = FALSE]
  <2>1. x \in Command /\ x.status = "completed"
    BY DEF CommandsOK, Command, CommandStatus
  <2>2. Completed(c) = [cmd EXCEPT ![c] = x]
    BY DEF CommandsOK, Command, Completed
  <2> QED BY <2>1, <2>2, CommandWritten
<1>2. CommandsOK(Failed(c))
  <2> DEFINE x == [cmd[c] EXCEPT !.status = "failed", !.owner = NoWorker, !.lapsed = FALSE]
  <2>1. x \in Command /\ x.status = "failed"
    BY DEF CommandsOK, Command, CommandStatus
  <2>2. Failed(c) = [cmd EXCEPT ![c] = x]
    BY DEF CommandsOK, Command, Failed
  <2> QED BY <2>1, <2>2, CommandWritten
<1> QED BY <1>1, <1>2 DEF CompleteIfHeld, FailIfHeld

(* A claim does one thing to a command: fail it, complete it or take it. *)
LEMMA ClaimDisjoint ==
  ASSUME CommandsOK(cmd), NEW w \in Workers, NEW dead \in SUBSET Workers, NEW c \in Commands
  PROVE  /\ ~(c \in Exhausted /\ c \in Orphaned(w, dead))
         /\ ~(c \in Exhausted /\ c \in Claimable(w))
         /\ ~(c \in Orphaned(w, dead) /\ c \in Claimable(w))
<1>1. cmd[c].attempts \in Nat /\ MaxAttempts \in Nat
  BY CommandsAssumption DEF CommandsOK, Command
<1> QED BY <1>1, CommandsAssumption DEF Exhausted, Orphaned, Claimable

LEMMA ClaimType ==
  ASSUME CommandsOK(cmd), NEW w \in Workers, NEW dead \in SUBSET Workers
  PROVE  CommandsOK(AfterClaim(w, dead))
<1> DEFINE claimed == AfterClaim(w, dead)
<1>1. ASSUME NEW c \in Commands
      PROVE  /\ claimed[c] \in Command
             /\ claimed[c].status = "claimed" =>
                  claimed[c].owner # NoWorker /\ claimed[c].attempts > 0
             /\ claimed[c].status = "pending" => claimed[c].attempts = 0
  <2> DEFINE x == cmd[c]
  <2>0. x \in Command
    BY DEF CommandsOK
  <2>1. CASE c \in Exhausted
    <3>1. claimed[c] = [x EXCEPT !.status = "failed", !.owner = NoWorker, !.lapsed = FALSE]
      BY <2>1, ClaimDisjoint DEF AfterClaim
    <3> HIDE DEF claimed, x
    <3> QED BY <2>0, <3>1 DEF Command, CommandStatus
  <2>2. CASE c \notin Exhausted /\ c \in Orphaned(w, dead)
    <3>1. claimed[c] = [x EXCEPT !.status = "completed"]
      BY <2>2, ClaimDisjoint DEF AfterClaim
    <3> HIDE DEF claimed, x
    <3> QED BY <2>0, <3>1 DEF Command, CommandStatus
  <2>3. CASE c \notin Exhausted /\ c \notin Orphaned(w, dead) /\ c \in Claimable(w)
    <3>1. x.attempts \in Nat /\ x.attempts + 1 \in 0..MaxAttempts /\ x.attempts + 1 > 0
      BY <2>3, CommandsAssumption DEF Claimable, CommandsOK, Command
    <3>2. claimed[c] = [x EXCEPT !.status = "claimed", !.owner = w, !.lapsed = FALSE,
                                 !.attempts = x.attempts + 1]
      BY <2>3 DEF AfterClaim
    <3>3. w # NoWorker
      BY CommandsAssumption
    <3> HIDE DEF claimed, x
    <3>4. /\ claimed[c] \in Command
          /\ claimed[c].status = "claimed" /\ claimed[c].owner = w
          /\ claimed[c].attempts = x.attempts + 1
      BY <2>0, <3>1, <3>2 DEF Command, CommandStatus
    <3> QED BY <3>1, <3>3, <3>4
  <2>4. CASE c \notin Exhausted /\ c \notin Orphaned(w, dead) /\ c \notin Claimable(w)
    BY <2>4 DEF AfterClaim, CommandsOK
  <2> QED BY <2>1, <2>2, <2>3, <2>4
<1>2. claimed = [c \in Commands |-> claimed[c]]
  BY DEF AfterClaim
<1> HIDE DEF claimed
<1>3. claimed \in [Commands -> Command]
  BY <1>1, <1>2
<1>4. CommandsOK(claimed)
  BY <1>1, <1>3 DEF CommandsOK
<1> QED BY <1>4 DEF claimed

(* Writing one worker keeps the table. *)
LEMMA WorkerWritten ==
  ASSUME WorkersOK(worker), NEW w \in Workers, NEW x \in Worker, TaskFits(x)
  PROVE  WorkersOK([worker EXCEPT ![w] = x])
BY DEF WorkersOK

(* What an executor under way is: it delivers some run. *)
Delivering(w) ==
  /\ Live(w)
  /\ worker[w].task.cmd \in Runs
  /\ worker[w].task.op \in Operations

LEMMA AtDelivers ==
  ASSUME WorkersOK(worker), NEW w \in Workers, NEW s \in Steps \ {"idle", "check"}, At(w, s)
  PROVE  Delivering(w)
BY DEF WorkersOK, Worker, TaskFits, Task, At, Delivering

LEMMA AtRestFits == /\ AtRest \in Task
                    /\ AtRest.step = "idle" /\ AtRest.cmd = NoCommand /\ AtRest.op = "none"
                    /\ NoCommand \notin Runs /\ NoCommand \notin Checks
BY DeliveryAssumption DEF AtRest, Task, Steps

LEMMA RestType ==
  ASSUME WorkersOK(worker), NEW w \in Workers, Rest(w)
  PROVE  WorkersOK(worker')
<1> DEFINE x == [worker[w] EXCEPT !.task = AtRest]
<1>1. worker' = [worker EXCEPT ![w] = x]
  BY DEF Rest, WorkersOK, Worker
<1>2. x \in Worker /\ TaskFits(x)
  BY AtRestFits DEF WorkersOK, Worker, TaskFits
<1> HIDE DEF x
<1> QED BY <1>1, <1>2, WorkerWritten

(* An executor that goes on, with the operation and the metadata it moves to. *)
LEMMA WorkType ==
  ASSUME WorkersOK(worker), NEW w \in Workers, Delivering(w),
         NEW s \in Steps \ {"idle", "check"}, NEW op \in Operations, NEW pre \in Nat,
         s \in {"find", "passed"} => op = "create_pr",
         worker' = [worker EXCEPT ![w].task.step = s, ![w].task.op = op,
                                  ![w].task.pre = pre]
  PROVE  WorkersOK(worker')
<1> DEFINE x == [worker[w] EXCEPT !.task = [worker[w].task EXCEPT !.step = s, !.op = op,
                                                                  !.pre = pre]]
<1>1. worker[w] \in Worker /\ TaskFits(worker[w])
  BY DEF WorkersOK
<1>2. worker' = [worker EXCEPT ![w] = x]
  BY <1>1 DEF WorkersOK, Worker, Task
<1>3. x \in Worker
  BY <1>1 DEF Worker, Task
<1>4. x.task.cmd = worker[w].task.cmd /\ x.task.step = s /\ x.task.op = op
      /\ x.mode = worker[w].mode
  BY <1>1 DEF Worker, Task
<1>5. op # "none" /\ worker[w].task.cmd \notin Checks /\ worker[w].task.cmd # NoCommand
  BY <1>1, CommandsAssumption, DeliveryAssumption DEF Delivering, Operations
<1>6. TaskFits(x)
  <2> HIDE DEF x
  <2> QED BY <1>4, <1>5 DEF TaskFits, Delivering, Live
<1> HIDE DEF x
<1>7. WorkersOK([worker EXCEPT ![w] = x])
  BY <1>3, <1>6, WorkerWritten
<1> QED BY ONLY <1>2, <1>7

LEMMA GoToWrites ==
  ASSUME WorkersOK(worker), NEW w \in Workers, NEW s, GoTo(w, s)
  PROVE  /\ worker' = [worker EXCEPT ![w].task.step = s, ![w].task.op = worker[w].task.op,
                                     ![w].task.pre = worker[w].task.pre]
         /\ worker[w].task.pre \in Nat
BY DEF WorkersOK, Worker, Task, GoTo

LEMMA ReadWrites ==
  ASSUME WorkersOK(worker), NEW w \in Workers, NEW s, NEW pre,
         worker' = [worker EXCEPT ![w].task.step = s, ![w].task.pre = pre]
  PROVE  worker' = [worker EXCEPT ![w].task.step = s, ![w].task.op = worker[w].task.op,
                                  ![w].task.pre = pre]
BY DEF WorkersOK, Worker, Task

(* A worker that only reads before its next step keeps its command and its    *)
(* operation (the two reads of Look and Prepare).                             *)
LEMMA ReadType ==
  ASSUME WorkersOK(worker), NEW w \in Workers, Delivering(w),
         NEW s \in {"reconcile", "record"}, NEW pre \in Nat,
         worker' = [worker EXCEPT ![w].task.step = s, ![w].task.pre = pre]
  PROVE  WorkersOK(worker')
<1>1. worker[w].task.op \in Operations
  BY DEF Delivering
<1>2. worker' = [worker EXCEPT ![w].task.step = s, ![w].task.op = worker[w].task.op,
                               ![w].task.pre = pre]
  BY ONLY WorkersOK(worker), w \in Workers,
          worker' = [worker EXCEPT ![w].task.step = s, ![w].task.pre = pre],
          ReadWrites
<1> QED BY <1>1, <1>2, WorkType DEF Steps

LEMMA GoToType ==
  ASSUME WorkersOK(worker), NEW w \in Workers, Delivering(w),
         NEW s \in Steps \ {"idle", "check"},
         s \in {"find", "passed"} => worker[w].task.op = "create_pr",
         GoTo(w, s)
  PROVE  WorkersOK(worker')
<1>1. worker[w].task.op \in Operations
  BY DEF Delivering
<1>2. /\ worker' = [worker EXCEPT ![w].task.step = s, ![w].task.op = worker[w].task.op,
                                   ![w].task.pre = worker[w].task.pre]
      /\ worker[w].task.pre \in Nat
  BY GoToWrites
<1> QED BY <1>1, <1>2, WorkType

LEMMA AdvanceType ==
  ASSUME WorkersOK(worker), NEW w \in Workers, Delivering(w), Advance(w)
  PROVE  WorkersOK(worker')
<1> DEFINE op == worker[w].task.op
<1>1. CASE op = "create_pr"
  BY <1>1, GoToType DEF Advance, After, Steps
<1>2. CASE op # "create_pr"
  <2>1. After[op] \in Operations /\ After[op] # "none"
    BY <1>2 DEF Delivering, Operations, After
  <2>2. worker' = [worker EXCEPT ![w].task.step = "look", ![w].task.op = After[op],
                                 ![w].task.pre = 0]
    BY <2>1 DEF Advance
  <2> QED BY <2>1, <2>2, WorkType DEF Steps
<1> QED BY <1>1, <1>2

LEMMA TypeInit ==
  ASSUME Init
  PROVE  TypeOK
<1>1. CommandsOK(cmd)
  <2>1. 0 \in 0..MaxAttempts /\ "absent" \in CommandStatus
    BY CommandsAssumption DEF CommandStatus
  <2>2. Absent \in Command /\ Absent.status = "absent"
    BY <2>1 DEF Absent, Command
  <2> QED BY <2>2 DEF Init, CommandsOK
<1>2. WorkersOK(worker)
  <2>1. NotStarted \in Worker /\ TaskFits(NotStarted)
    BY AtRestFits DEF NotStarted, Worker, TaskFits
  <2> QED BY <2>1 DEF Init, WorkersOK
<1>3. LedgerOK(ledger)
  BY DEF Init, LedgerOK, Entry
<1>4. GitOK(git)
  BY DEF Init, GitOK, Reviewed
<1>5. RunsOK(run) /\ stray \subseteq Runs \X Operations /\ faults \in 0..MaxFaults
  BY DeliveryAssumption DEF Init, RunsOK
<1> QED BY <1>1, <1>2, <1>3, <1>4, <1>5, TypeParts

(* TypeParts of the next state. *)
LEMMA TypePartsNext ==
  TypeOK' <=> /\ CommandsOK(cmd') /\ RunsOK(run') /\ LedgerOK(ledger') /\ GitOK(git')
              /\ WorkersOK(worker')
              /\ stray' \subseteq Runs \X Operations
              /\ faults' \in 0..MaxFaults
BY DEF TypeOK, CommandsOK, RunsOK, LedgerOK, GitOK, WorkersOK

LEMMA OperatorType ==
  ASSUME TypeOK, Operator
  PROVE  TypeOK'
<1> USE TypeParts, TypePartsNext
<1>1. ASSUME NEW r \in Runs, RequestDelivery(r)
      PROVE  TypeOK'
  BY <1>1, InsertType DEF RequestDelivery, Commands
<1>2. ASSUME NEW r \in Runs, Abandon(r)
      PROVE  TypeOK'
  <2>1. RunsOK(run')
    BY <1>2 DEF Abandon, RunsOK
  <2> QED BY <1>2, <2>1 DEF Abandon
<1>3. ASSUME NEW s \in Stops, NEW w \in Workers, RequestStop(s, w)
      PROVE  TypeOK'
  BY <1>3, InsertType DEF RequestStop, Commands
<1>4. ASSUME NEW k \in Checks, RequestCheck(k)
      PROVE  TypeOK'
  BY <1>4, PendingType DEF RequestCheck, Commands
<1> QED BY <1>1, <1>2, <1>3, <1>4 DEF Operator

LEMMA LoopType ==
  ASSUME TypeOK, NEW w \in Workers,
         Start(w) \/ Claim(w) \/ Process(w) \/ EndCheck(w) \/ \E c \in Runs : Renew(w, c)
  PROVE  TypeOK'
<1> USE TypeParts, TypePartsNext
<1> DEFINE x == worker[w]
<1>0. x \in Worker /\ TaskFits(x)
  BY DEF WorkersOK
<1>1. CASE Start(w)
  <2> DEFINE y == [x EXCEPT !.mode = "up", !.fresh = TRUE]
  <2>1. y \in Worker /\ TaskFits(y)
    BY <1>0 DEF Worker, TaskFits
  <2>2. worker' = [worker EXCEPT ![w] = y]
    BY <1>1 DEF Start, WorkersOK, Worker
  <2> HIDE DEF y
  <2>3. WorkersOK([worker EXCEPT ![w] = y])
    BY <2>1, WorkerWritten
  <2> QED BY <1>1, <2>2, <2>3 DEF Start
<1>2. CASE Claim(w)
  <2> DEFINE y == [x EXCEPT !.batch = Claimable(w)]
  <2>1. y \in Worker /\ TaskFits(y)
    BY <1>0, <1>2 DEF Worker, TaskFits, Claim, Claimable
  <2>2. worker' = [worker EXCEPT ![w] = y]
    BY <1>2 DEF Claim, WorkersOK, Worker
  <2> HIDE DEF y
  <2>3. WorkersOK([worker EXCEPT ![w] = y])
    BY <2>1, WorkerWritten
  <2>4. CommandsOK(cmd')
    BY <1>2, ClaimType DEF Claim, Stale
  <2> QED BY <1>2, <2>2, <2>3, <2>4 DEF Claim
<1>3. ASSUME NEW c \in Commands, x.mode \in {"up", "stopping"},
             worker' = [worker EXCEPT ![w].batch = @ \ {c}]
      PROVE  WorkersOK(worker')
  <2> DEFINE y == [x EXCEPT !.batch = x.batch \ {c}]
  <2>1. y \in Worker /\ TaskFits(y)
    BY <1>0, <1>3 DEF Worker, TaskFits
  <2>2. worker' = [worker EXCEPT ![w] = y]
    BY <1>3 DEF WorkersOK, Worker
  <2> HIDE DEF y
  <2>3. WorkersOK([worker EXCEPT ![w] = y])
    BY <2>1, WorkerWritten
  <2> QED BY ONLY <2>2, <2>3
<1>4. ASSUME NEW s \in Stops, ProcessStop(w, s)
      PROVE  TypeOK'
  <2>1. CommandsOK(cmd')
    BY <1>4, SettleType DEF ProcessStop, Commands
  <2>2. WorkersOK(worker')
    BY <1>3, <1>4 DEF ProcessStop, At, Live, Commands
  <2> QED BY <1>4, <2>1, <2>2 DEF ProcessStop
<1>5. ASSUME NEW r \in Runs, RefuseDelivery(w, r)
      PROVE  TypeOK'
  <2>1. CommandsOK(cmd')
    BY <1>5, SettleType DEF RefuseDelivery, Commands
  <2>2. WorkersOK(worker')
    BY <1>3, <1>5 DEF RefuseDelivery, At, Live, Commands
  <2> QED BY <1>5, <2>1, <2>2 DEF RefuseDelivery
<1>6. ASSUME NEW c \in Commands, NEW task \in Task, x.mode \in {"up", "stopping"},
             task.step # "idle", task.cmd # NoCommand, 
             task.step = "check" <=> task.cmd \in Checks,
             task.cmd \in Runs <=> task.op # "none",
             task.step \notin {"find", "passed"},
             worker' = [worker EXCEPT ![w].batch = @ \ {c}, ![w].task = task]
      PROVE  WorkersOK(worker')
  <2> DEFINE y == [x EXCEPT !.batch = x.batch \ {c}, !.task = task]
  <2>1. y \in Worker
    BY <1>0 DEF Worker
  <2>2. y.task = task /\ y.mode = x.mode
    BY <1>0 DEF Worker
  <2>3. worker' = [worker EXCEPT ![w] = y]
    BY <1>6 DEF WorkersOK, Worker
  <2> HIDE DEF y
  <2>4. TaskFits(y)
    BY <1>6, <2>2 DEF TaskFits
  <2>5. WorkersOK([worker EXCEPT ![w] = y])
    BY <2>1, <2>4, WorkerWritten
  <2> QED BY ONLY <2>3, <2>5
<1>7. ASSUME NEW k \in Checks, BeginCheck(w, k)
      PROVE  TypeOK'
  <2> DEFINE task == [AtRest EXCEPT !.step = "check", !.cmd = k]
  <2>1. task \in Task /\ task.step = "check" /\ task.cmd = k /\ task.op = "none"
    BY AtRestFits DEF Task, Steps
  <2>2. k # NoCommand /\ k \notin Runs /\ k \in Commands
    BY CommandsAssumption, DeliveryAssumption DEF Commands
  <2>3. /\ x.mode \in {"up", "stopping"}
        /\ worker' = [worker EXCEPT ![w].batch = @ \ {k}, ![w].task = task]
    BY <1>7 DEF BeginCheck, At, Live
  <2> HIDE DEF task
  <2>4. WorkersOK(worker')
    BY <1>6, <2>1, <2>2, <2>3
  <2> QED BY <1>7, <2>4 DEF BeginCheck
<1>8. ASSUME NEW r \in Runs, BeginDelivery(w, r)
      PROVE  TypeOK'
  <2>1. PICK step \in {"look", "thrown"} :
          worker' = [worker EXCEPT
            ![w].batch = @ \ {r},
            ![w].task = [AtRest EXCEPT !.step = step, !.cmd = r, !.op = "git_commit"]]
    BY <1>8 DEF BeginDelivery
  <2> DEFINE task == [AtRest EXCEPT !.step = step, !.cmd = r, !.op = "git_commit"]
  <2>2. task \in Task /\ task.step = step /\ task.cmd = r /\ task.op = "git_commit"
    BY AtRestFits DEF Task, Steps, Operations
  <2>3. r # NoCommand /\ r \notin Checks /\ r \in Commands
    BY CommandsAssumption, DeliveryAssumption DEF Commands
  <2>4. x.mode \in {"up", "stopping"}
    BY <1>8 DEF BeginDelivery, At, Live
  <2> HIDE DEF task
  <2>5. WorkersOK(worker')
    BY <1>6, <2>1, <2>2, <2>3, <2>4 DEF task
  <2> QED BY <1>8, <2>5 DEF BeginDelivery
<1>9. CASE EndCheck(w)
  <2>1. x.task.cmd \in Commands
    BY <1>0, <1>9 DEF EndCheck, At, TaskFits, Commands
  <2>2. CommandsOK(cmd')
    BY <1>9, <2>1, SettleType DEF EndCheck
  <2> QED BY <1>9, <2>2, RestType DEF EndCheck
<1>10. ASSUME NEW c \in Runs, Renew(w, c)
       PROVE  TypeOK'
  <2>1. CommandsOK(cmd')
    <3> DEFINE y == [cmd[c] EXCEPT !.lapsed = FALSE]
    <3>1. c \in Commands
      BY DEF Commands
    <3>2. y \in Command /\ y.status = cmd[c].status /\ y.owner = cmd[c].owner
          /\ y.attempts = cmd[c].attempts
      BY <3>1 DEF CommandsOK, Command
    <3>3. cmd' = [cmd EXCEPT ![c] = y]
      BY <1>10, <3>1 DEF Renew, CommandsOK, Command
    <3>4. /\ y.status = "claimed" => y.owner # NoWorker /\ y.attempts > 0
          /\ y.status = "pending" => y.attempts = 0
      BY <3>1, <3>2 DEF CommandsOK
    <3> HIDE DEF y
    <3>5. CommandsOK([cmd EXCEPT ![c] = y])
      BY <3>1, <3>2, <3>4, CommandWritten
    <3> QED BY ONLY <3>3, <3>5
  <2> QED BY <1>10, <2>1 DEF Renew
<1> QED BY <1>1, <1>2, <1>4, <1>5, <1>7, <1>8, <1>9, <1>10 DEF Process

(* An entry the executor writes keeps the ledger. *)
LEMMA EntryType ==
  ASSUME TypeOK, NEW w \in Workers, Delivering(w), NEW pre \in Nat,
         NEW entry \in {"pending", "completed", "failed"}, SetEntry(w, entry, pre)
  PROVE  LedgerOK(ledger')
<1>1. Entry(entry, pre) \in
        [status : {"absent", "pending", "completed", "failed"}, pre : Nat]
  BY DEF Entry
<1> QED BY <1>1, TypeParts DEF LedgerOK, SetEntry, Delivering

(* An effect keeps the types of git. *)
LEMMA EffectType ==
  ASSUME GitOK(git), NEW r \in Runs, NEW op \in Operations
  PROVE  GitOK(Effect(r, op))
<1> DEFINE G == [dirty : BOOLEAN, head : Nat, remote : Nat, opened : Nat]
<1>1. git[r] \in G
  BY DEF GitOK
<1>2. CASE op = "git_commit"
  <2> DEFINE x == [git[r] EXCEPT !.head = git[r].head + 1, !.dirty = FALSE]
  <2>1. git[r].head + 1 \in Nat /\ FALSE \in BOOLEAN
    BY <1>1
  <2>2. x \in G
    BY <1>1, <2>1
  <2>3. Effect(r, op) = [git EXCEPT ![r] = x]
    BY <1>2 DEF Effect, GitOK
  <2> HIDE DEF x
  <2> QED BY <2>2, <2>3 DEF GitOK
<1>3. CASE op = "git_push"
  <2> DEFINE x == [git[r] EXCEPT !.remote = git[r].head]
  <2>1. x \in G
    BY <1>1
  <2>2. Effect(r, op) = [git EXCEPT ![r] = x]
    BY <1>3 DEF Effect, GitOK
  <2> HIDE DEF x
  <2> QED BY <2>1, <2>2 DEF GitOK
<1>4. CASE op = "create_pr"
  <2> DEFINE x == [git[r] EXCEPT !.opened = git[r].opened + 1]
  <2>1. x \in G
    BY <1>1
  <2>2. Effect(r, op) = [git EXCEPT ![r] = x]
    BY <1>4 DEF Effect, GitOK
  <2> HIDE DEF x
  <2> QED BY <2>1, <2>2 DEF GitOK
<1> QED BY <1>2, <1>3, <1>4 DEF Operations

LEMMA ExecutorType ==
  ASSUME TypeOK, NEW w \in Workers,
         \/ Look(w) \/ Prepare(w) \/ Reconcile(w) \/ RecordPending(w)
         \/ FindPullRequest(w) \/ DoOperation(w) \/ RecordCompleted(w) \/ RecordFailed(w)
  PROVE  TypeOK'
<1> USE TypeParts, TypePartsNext
<1> DEFINE t == worker[w].task
<1>0. Delivering(w) /\ t.cmd \in Runs /\ t.op \in Operations /\ t.pre \in Nat
  <2>1. Delivering(w)
    BY AtDelivers DEF Look, Prepare, Reconcile, RecordPending, FindPullRequest,
                      DoOperation, RecordCompleted, RecordFailed, Steps
  <2> QED BY <2>1 DEF Delivering, WorkersOK, Worker, Task
<1>1. CASE Look(w)
  <2> DEFINE entry == ledger[t.cmd][t.op]
  <2>1. entry.pre \in Nat
    BY <1>0 DEF LedgerOK
  <2>2. ASSUME worker' = [worker EXCEPT ![w].task.step = "reconcile",
                                        ![w].task.pre = entry.pre]
        PROVE  WorkersOK(worker')
    <3> DEFINE p == entry.pre
    <3>1. worker' = [worker EXCEPT ![w].task.step = "reconcile", ![w].task.pre = p]
      BY <2>2
    <3>2. p \in Nat
      BY <2>1
    <3> HIDE DEF p
    <3> QED BY <1>0, <3>1, <3>2, ReadType
  <2>3. \/ GoTo(w, "thrown") \/ Advance(w) \/ GoTo(w, "prepare")
        \/ worker' = [worker EXCEPT ![w].task.step = "reconcile",
                                    ![w].task.pre = entry.pre]
    BY <1>1 DEF Look
  <2>4. WorkersOK(worker')
    BY <1>0, <2>2, <2>3, GoToType, AdvanceType DEF Steps
  <2> QED BY <1>1, <2>4 DEF Look
<1>2. CASE Prepare(w)
  <2>1. git[t.cmd].head \in Nat
    BY <1>0 DEF GitOK
  <2>2. ASSUME worker' = [worker EXCEPT ![w].task.step = "record",
                                        ![w].task.pre = git[t.cmd].head]
        PROVE  WorkersOK(worker')
    <3> DEFINE p == git[t.cmd].head
    <3>1. worker' = [worker EXCEPT ![w].task.step = "record", ![w].task.pre = p]
      BY <2>2
    <3>2. p \in Nat
      BY <2>1
    <3> HIDE DEF p
    <3> QED BY <1>0, <3>1, <3>2, ReadType
  <2>3. \/ GoTo(w, "thrown") \/ GoTo(w, "record")
        \/ worker' = [worker EXCEPT ![w].task.step = "record",
                                    ![w].task.pre = git[t.cmd].head]
    BY <1>2 DEF Prepare
  <2>4. WorkersOK(worker')
    BY <1>0, <2>2, <2>3, GoToType DEF Steps
  <2> QED BY <1>2, <2>4 DEF Prepare
<1>3. CASE Reconcile(w)
  <2>1. GoTo(w, "thrown") \/ GoTo(w, "done") \/ GoTo(w, "record")
    BY <1>3 DEF Reconcile
  <2>2. WorkersOK(worker')
    BY <1>0, <2>1, GoToType DEF Steps
  <2> QED BY <1>3, <2>2 DEF Reconcile
<1>4. CASE RecordPending(w)
  <2>1. \/ GoTo(w, "failed") \/ GoTo(w, "do")
        \/ t.op = "create_pr" /\ GoTo(w, "find")
    BY <1>4 DEF RecordPending
  <2>2. WorkersOK(worker')
    BY <1>0, <2>1, GoToType DEF Steps
  <2>3. LedgerOK(ledger')
    BY <1>0, <1>4, EntryType DEF RecordPending
  <2> QED BY <1>4, <2>2, <2>3 DEF RecordPending
<1>5. CASE FindPullRequest(w)
  <2>1. GoTo(w, "failed") \/ GoTo(w, "done") \/ GoTo(w, "do")
    BY <1>5 DEF FindPullRequest
  <2>2. WorkersOK(worker')
    BY <1>0, <2>1, GoToType DEF Steps
  <2> QED BY <1>5, <2>2 DEF FindPullRequest
<1>6. CASE DoOperation(w)
  <2>1. GoTo(w, "failed") \/ GoTo(w, "done")
    BY <1>6 DEF DoOperation
  <2>2. WorkersOK(worker')
    BY <1>0, <2>1, GoToType DEF Steps
  <2>3. GitOK(git')
    BY <1>0, <1>6, EffectType DEF DoOperation
  <2> QED BY <1>6, <2>2, <2>3 DEF DoOperation
<1>7. CASE RecordCompleted(w)
  <2>1. LedgerOK(ledger')
    BY <1>0, <1>7, EntryType DEF RecordCompleted
  <2> QED BY <1>0, <1>7, <2>1, AdvanceType DEF RecordCompleted
<1>8. CASE RecordFailed(w)
  <2>1. WorkersOK(worker')
    BY <1>0, <1>8, GoToType DEF RecordFailed, Steps
  <2>2. LedgerOK(ledger')
    BY <1>0, <1>8, EntryType DEF RecordFailed
  <2> QED BY <1>8, <2>1, <2>2 DEF RecordFailed
<1> QED BY <1>1, <1>2, <1>3, <1>4, <1>5, <1>6, <1>7, <1>8

LEMMA RunnerType ==
  ASSUME TypeOK, NEW w \in Workers, LeaveToLease(w) \/ CommitPassed(w) \/ CommitFailed(w)
  PROVE  TypeOK'
<1> USE TypeParts, TypePartsNext
<1> DEFINE r == worker[w].task.cmd
<1>1. r \in Runs /\ r \in Commands
  <2>1. Delivering(w)
    BY AtDelivers DEF LeaveToLease, CommitPassed, CommitFailed, Steps
  <2> QED BY <2>1 DEF Delivering, Commands
<1>2. WorkersOK(worker')
  BY RestType DEF LeaveToLease, CommitPassed, CommitFailed
<1>3. CASE LeaveToLease(w)
  BY <1>2, <1>3 DEF LeaveToLease
<1>4. CASE CommitPassed(w)
  <2>1. CommandsOK(cmd')
    BY <1>1, <1>4, SettleType DEF CommitPassed
  <2>2. RunsOK(run')
    BY <1>1, <1>4 DEF CommitPassed, RunsOK
  <2> QED BY <1>2, <1>4, <2>1, <2>2 DEF CommitPassed
<1>5. CASE CommitFailed(w)
  <2>1. CommandsOK(cmd')
    BY <1>1, <1>5, SettleType DEF CommitFailed
  <2> QED BY <1>2, <1>5, <2>1 DEF CommitFailed
<1> QED BY <1>3, <1>4, <1>5

LEMMA FaultType ==
  ASSUME faults \in 0..MaxFaults, Fault
  PROVE  faults' \in 0..MaxFaults
BY DeliveryAssumption DEF Fault

(* What a worker leaves behind is an operation of a run. *)
LEMMA StrayType ==
  ASSUME TypeOK, NEW w \in Workers, Live(w), stray' = stray \cup LeftBehind(w)
  PROVE  stray' \subseteq Runs \X Operations
<1>1. CASE worker[w].task.step = "do"
  <2>1. Delivering(w)
    BY <1>1, AtDelivers, TypeParts DEF At, Steps
  <2> QED BY <1>1, <2>1, TypeParts DEF LeftBehind, Delivering
<1>2. CASE worker[w].task.step # "do"
  BY <1>2, TypeParts DEF LeftBehind
<1> QED BY <1>1, <1>2

LEMMA EnvironmentType ==
  ASSUME TypeOK, Environment
  PROVE  TypeOK'
<1> USE TypeParts, TypePartsNext
<1>1. ASSUME NEW c \in Commands, Lapse(c)
      PROVE  TypeOK'
  <2>1. CommandsOK(cmd')
    <3> DEFINE y == [cmd[c] EXCEPT !.lapsed = TRUE]
    <3>1. y \in Command /\ y.status = cmd[c].status /\ y.owner = cmd[c].owner
          /\ y.attempts = cmd[c].attempts
      BY DEF CommandsOK, Command
    <3>2. cmd' = [cmd EXCEPT ![c] = y]
      BY <1>1 DEF Lapse, CommandsOK, Command
    <3>3. /\ y.status = "claimed" => y.owner # NoWorker /\ y.attempts > 0
          /\ y.status = "pending" => y.attempts = 0
      BY <3>1 DEF CommandsOK
    <3> HIDE DEF y
    <3>4. CommandsOK([cmd EXCEPT ![c] = y])
      BY <3>1, <3>3, CommandWritten
    <3> QED BY ONLY <3>2, <3>4
  <2>2. faults' \in 0..MaxFaults
    BY <1>1, FaultType DEF Lapse
  <2> QED BY <1>1, <2>1, <2>2 DEF Lapse
<1>2. ASSUME NEW e \in stray, Land(e)
      PROVE  TypeOK'
  <2>1. e[1] \in Runs /\ e[2] \in Operations
    OBVIOUS
  <2>2. GitOK(git')
    BY <1>2, <2>1, EffectType DEF Land
  <2> QED BY <1>2, <2>2 DEF Land
<1>3. ASSUME NEW w \in Workers, NEW y \in Worker, TaskFits(y),
             worker' = [worker EXCEPT ![w] = y]
      PROVE  WorkersOK(worker')
  BY <1>3, WorkerWritten
<1>4. ASSUME NEW w \in Workers, Shutdown(w)
      PROVE  TypeOK'
  <2> DEFINE x == worker[w]
             y == [x EXCEPT !.mode = "stopping",
                            !.task = [x.task EXCEPT !.aborted = x.task.cmd \in Runs]]
  <2>1. x \in Worker /\ TaskFits(x)
    BY DEF WorkersOK
  <2>2. (x.task.cmd \in Runs) \in BOOLEAN
    OBVIOUS
  <2>3. y \in Worker
    BY <2>1, <2>2 DEF Worker, Task
  <2>4. y.mode = "stopping" /\ y.task.step = x.task.step /\ y.task.cmd = x.task.cmd
        /\ y.task.op = x.task.op
    BY <2>1 DEF Worker, Task
  <2>5. worker' = [worker EXCEPT ![w] = y]
    BY <1>4, <2>1 DEF Shutdown, WorkersOK, Worker, Task
  <2>6. TaskFits(y)
    <3> HIDE DEF y
    <3> QED BY <2>1, <2>4 DEF TaskFits
  <2> HIDE DEF y
  <2>7. WorkersOK(worker')
    BY <1>3, <2>3, <2>5, <2>6
  <2> QED BY <1>4, <2>7, FaultType DEF Shutdown
<1>5. \A fresh \in BOOLEAN : Gone(fresh) \in Worker /\ TaskFits(Gone(fresh))
  BY AtRestFits DEF Gone, Worker, TaskFits
<1>6. ASSUME NEW w \in Workers, Exit(w)
      PROVE  TypeOK'
  <2>1. WorkersOK(worker')
    BY <1>3, <1>5, <1>6 DEF Exit
  <2>2. stray' \subseteq Runs \X Operations
    BY <1>6, StrayType DEF Exit, Live
  <2> QED BY <1>6, <2>1, <2>2 DEF Exit
<1>7. ASSUME NEW w \in Workers, Crash(w)
      PROVE  TypeOK'
  <2>1. WorkersOK(worker')
    BY <1>3, <1>5, <1>7 DEF Crash
  <2>2. stray' \subseteq Runs \X Operations
    BY <1>7, StrayType DEF Crash
  <2> QED BY <1>7, <2>1, <2>2, FaultType DEF Crash
<1>8. ASSUME NEW w \in Workers, HeartbeatAges(w)
      PROVE  TypeOK'
  <2> DEFINE y == [worker[w] EXCEPT !.fresh = FALSE]
  <2>1. y \in Worker /\ TaskFits(y)
    BY DEF WorkersOK, Worker, TaskFits
  <2>2. worker' = [worker EXCEPT ![w] = y]
    BY <1>8 DEF HeartbeatAges, WorkersOK, Worker
  <2> HIDE DEF y
  <2>3. WorkersOK(worker')
    BY <1>3, <2>1, <2>2
  <2> QED BY <1>8, <2>3 DEF HeartbeatAges
<1>9. ASSUME NEW w \in Workers, CommitThrows(w)
      PROVE  TypeOK'
  <2> DEFINE y == [worker[w] EXCEPT !.batch = {}, !.task = AtRest]
  <2>1. y \in Worker /\ TaskFits(y)
    BY AtRestFits DEF WorkersOK, Worker, TaskFits
  <2>2. worker' = [worker EXCEPT ![w] = y]
    BY <1>9 DEF CommitThrows, WorkersOK, Worker
  <2> HIDE DEF y
  <2>3. WorkersOK(worker')
    BY <1>3, <2>1, <2>2
  <2> QED BY <1>9, <2>3, FaultType DEF CommitThrows
<1> QED BY <1>1, <1>2, <1>4, <1>6, <1>7, <1>8, <1>9 DEF Environment

LEMMA TypeStep ==
  ASSUME TypeOK, [Next]_vars
  PROVE  TypeOK'
<1>1. CASE UNCHANGED vars
  BY <1>1, TypeParts, TypePartsNext DEF vars
<1>2. CASE Next
  BY <1>2, OperatorType, EnvironmentType, LoopType, ExecutorType, RunnerType
     DEF Next, Execute
<1> QED BY <1>1, <1>2

(***************************************************************************)
(* No call, claim, operation, crash or stray effect writes a value its     *)
(* table cannot hold: attempts stay within max_attempts, and a worker at   *)
(* rest or gone holds no delivery.                                         *)
(***************************************************************************)
THEOREM DeliveryTypeCorrect == Spec => []TypeOK
BY TypeInit, TypeStep, PTL DEF Spec

-----------------------------------------------------------------------------
(***************************************************************************)
(* The ledger, the runs and the commands never claim what did not happen,  *)
(* for any number of runs, commands, workers, attempts and faults.  The    *)
(* invariants are proved together, as one inductive invariant:             *)
(*                                                                         *)
(*  - effects are only ever added to a branch, each at most once, and in   *)
(*    order: a pull request needs a pushed branch, the push takes the      *)
(*    branch as it is, and a clean tree is not committed;                  *)
(*  - an executor knows that the operations it has passed have happened,   *)
(*    either from its own work or from what it found; as effects stay,     *)
(*    nothing another executor or a stray effect does can make it wrong;   *)
(*  - so what it writes to the ledger is true whenever it writes it, and a *)
(*    run is committed after its pull request was opened, in the same      *)
(*    transaction as its command.                                          *)
(***************************************************************************)

BranchOK(b) ==
  /\ b.head \in {0, 1} /\ (b.dirty => b.head = 0)
  /\ b.remote \in {0, 1} /\ (b.remote = 1 => b.head = 1)
  /\ b.opened \in {0, 1} /\ (b.opened = 1 => b.remote = 1)

(* The effect of the operation is on the branch, or on its host. *)
Reached(b, op) ==
  /\ op = "git_commit" => b.head = 1
  /\ op = "git_push"   => b.remote = 1
  /\ op = "create_pr"  => b.opened = 1

(* What an executor knows of the branch: the operation before the one it is *)
(* on has happened, and this one too once it is done.                       *)
Knows(t, b) ==
  /\ t.op = "git_push"  => Reached(b, "git_commit")
  /\ t.op = "create_pr" => Reached(b, "git_push")
  /\ t.step \in {"done", "passed"} => Reached(b, t.op)

BranchesOK == \A r \in Runs : BranchOK(git[r])

LedgerTrue ==
  \A r \in Runs, op \in Operations :
    ledger[r][op].status = "completed" => Reached(git[r], op)

ExecutorsKnow ==
  \A w \in Workers :
    worker[w].task.cmd \in Runs => Knows(worker[w].task, git[worker[w].task.cmd])

EndsAgree ==
  \A r \in Runs : /\ run[r] = "pr_created" <=> cmd[r].status = "completed"
                  /\ run[r] = "pr_created" => Reached(git[r], "create_pr")

DeliverySafe == BranchesOK /\ LedgerTrue /\ ExecutorsKnow /\ EndsAgree

DeliveryInv == TypeOK /\ DeliverySafe

-----------------------------------------------------------------------------
(* What a step does to each part.                                          *)

(* Branches only grow. *)
Grows ==
  \A r \in Runs : /\ BranchOK(git'[r])
                  /\ \A op : Reached(git[r], op) => Reached(git'[r], op)

LedgerStays ==
  \A r \in Runs, op \in Operations :
    ledger'[r][op].status = "completed" =>
      ledger[r][op].status = "completed" \/ Reached(git'[r], op)

(* The worker's executor knows no more than before, or it knows what it says. *)
TaskStays(w) ==
  worker'[w].task.cmd \in Runs =>
    \/ /\ worker'[w].task.cmd = worker[w].task.cmd
       /\ worker'[w].task.op = worker[w].task.op
       /\ \/ worker'[w].task.step = worker[w].task.step
          \/ worker'[w].task.step \notin {"done", "passed"}
    \/ Knows(worker'[w].task, git'[worker'[w].task.cmd])

EndsKept ==
  \A r \in Runs : /\ run'[r] = "pr_created" <=> run[r] = "pr_created"
                  /\ cmd'[r].status = "completed" <=> cmd[r].status = "completed"

LEMMA Steady ==
  ASSUME BranchesOK, UNCHANGED git
  PROVE  Grows
BY DEF Grows, BranchesOK

LEMMA EffectGrows ==
  ASSUME TypeOK, BranchesOK, NEW r \in Runs, NEW op \in Operations, CanHappen(r, op),
         git' = Effect(r, op)
  PROVE  /\ Grows
         /\ op = "git_push" => (Reached(git[r], "git_commit") => Reached(git'[r], op))
         /\ op # "git_push" => Reached(git'[r], op)
<1> DEFINE b == git[r]
<1>1. /\ BranchOK(b)
      /\ b \in [dirty : BOOLEAN, head : Nat, remote : Nat, opened : Nat]
      /\ git \in [Runs -> [dirty : BOOLEAN, head : Nat, remote : Nat, opened : Nat]]
  BY DEF TypeOK, BranchesOK
<1>2. \A q \in Runs : q # r => git'[q] = git[q]
  BY <1>1 DEF Effect, Operations
<1>3. /\ BranchOK(git'[r])
      /\ \A o : Reached(b, o) => Reached(git'[r], o)
      /\ op = "git_push" => (Reached(b, "git_commit") => Reached(git'[r], op))
      /\ op # "git_push" => Reached(git'[r], op)
  <2>1. CASE op = "git_commit"
    <3>1. git'[r] = [b EXCEPT !.head = b.head + 1, !.dirty = FALSE] /\ b.dirty
      BY <1>1, <2>1 DEF Effect, CanHappen
    <3>2. b.head = 0
      BY <1>1, <3>1 DEF BranchOK
    <3>3. /\ git'[r].head = 1 /\ ~git'[r].dirty
          /\ git'[r].remote = b.remote /\ git'[r].opened = b.opened
      BY <1>1, <3>1, <3>2
    <3> QED BY <1>1, <2>1, <3>2, <3>3 DEF BranchOK, Reached
  <2>2. CASE op = "git_push"
    <3>1. git'[r] = [b EXCEPT !.remote = b.head]
      BY <1>1, <2>2 DEF Effect
    <3>2. /\ git'[r].head = b.head /\ git'[r].dirty = b.dirty
          /\ git'[r].remote = b.head /\ git'[r].opened = b.opened
      BY <1>1, <3>1
    <3> QED BY <1>1, <2>2, <3>2 DEF BranchOK, Reached
  <2>3. CASE op = "create_pr"
    <3>1. git'[r] = [b EXCEPT !.opened = b.opened + 1] /\ b.remote > 0 /\ b.opened = 0
      BY <1>1, <2>3 DEF Effect, CanHappen
    <3>2. /\ git'[r].head = b.head /\ git'[r].dirty = b.dirty
          /\ git'[r].remote = b.remote /\ git'[r].opened = 1
      BY <1>1, <3>1
    <3>3. b.remote = 1
      BY <1>1, <3>1 DEF BranchOK
    <3> QED BY <1>1, <2>3, <3>1, <3>2, <3>3 DEF BranchOK, Reached
  <2> QED BY <2>1, <2>2, <2>3 DEF Operations
<1> QED BY <1>1, <1>2, <1>3 DEF Grows, BranchesOK

(* The four parts of the invariant, put together again. *)
LEMMA Together ==
  ASSUME DeliverySafe, Grows, LedgerStays, \A w \in Workers : TaskStays(w),
         EndsKept \/ EndsAgree'
  PROVE  DeliverySafe'
<1>1. BranchesOK'
  BY DEF Grows, BranchesOK
<1>2. LedgerTrue'
  BY DEF DeliverySafe, Grows, LedgerStays, LedgerTrue
<1>3. ExecutorsKnow'
  <2>1. ASSUME NEW w \in Workers, worker'[w].task.cmd \in Runs
        PROVE  Knows(worker'[w].task, git'[worker'[w].task.cmd])
    <3>1. CASE /\ worker'[w].task.cmd = worker[w].task.cmd
               /\ worker'[w].task.op = worker[w].task.op
               /\ \/ worker'[w].task.step = worker[w].task.step
                  \/ worker'[w].task.step \notin {"done", "passed"}
      <4>1. Knows(worker[w].task, git[worker[w].task.cmd])
        BY <2>1, <3>1 DEF DeliverySafe, ExecutorsKnow
      <4> QED BY <2>1, <3>1, <4>1 DEF Knows, Grows
    <3> QED BY <2>1, <3>1 DEF TaskStays
  <2> QED BY <2>1 DEF ExecutorsKnow
<1>4. EndsAgree'
  BY DEF DeliverySafe, EndsKept, EndsAgree, Grows
<1> QED BY <1>1, <1>2, <1>3, <1>4 DEF DeliverySafe

(* A step that writes neither ledger, git nor worker. *)
LEMMA QuietSafe ==
  ASSUME DeliverySafe, UNCHANGED <<ledger, git, worker>>, EndsKept
  PROVE  DeliverySafe'
<1>1. Grows
  BY Steady DEF DeliverySafe
<1>2. LedgerStays /\ \A w \in Workers : TaskStays(w)
  BY DEF LedgerStays, TaskStays
<1> QED BY <1>1, <1>2, Together

-----------------------------------------------------------------------------
(* Commands: no statement but completeCommand completes a deliver command, *)
(* and none takes a completed one up again.                                *)

LEMMA Apart ==
  /\ \A r \in Runs : r \in Commands /\ r \notin Stops /\ r \notin Checks /\ r # NoCommand
  /\ \A s \in Stops : s \in Commands /\ s \notin Runs /\ s \notin Checks /\ s # NoCommand
  /\ \A k \in Checks : k \in Commands /\ k \notin Runs /\ k \notin Stops /\ k # NoCommand
BY CommandsAssumption, DeliveryAssumption DEF Commands

(* Of the commands other than c nothing is written. *)
Only(c) == \A d \in Commands : d # c => cmd'[d] = cmd[d]

LEMMA InsertWrites ==
  ASSUME CommandsOK(cmd), NEW c \in Commands, NEW target, cmd' = InsertOrRetry(c, target)
  PROVE  /\ Only(c)
         /\ cmd[c].status = "completed" => cmd'[c] = cmd[c]
         /\ cmd'[c].status = "completed" => cmd[c].status = "completed"
<1>1. \A t : Pending(t).status = "pending"
  BY DEF Pending, Absent
<1>2. CASE cmd' = cmd
  BY <1>2 DEF Only
<1>3. CASE cmd' # cmd
  <2>1. PICK t : cmd' = [cmd EXCEPT ![c] = Pending(t)] /\ cmd[c].status \in {"absent", "failed"}
    BY <1>3 DEF InsertOrRetry
  <2> QED BY <1>1, <2>1 DEF Only, CommandsOK
<1> QED BY <1>2, <1>3

LEMMA SettleWrites ==
  ASSUME CommandsOK(cmd), NEW w \in Workers, NEW c \in Commands,
         cmd' \in {CompleteIfHeld(w, c), FailIfHeld(w, c), cmd}
  PROVE  /\ Only(c)
         /\ cmd[c].status = "completed" => cmd'[c] = cmd[c]
         /\ cmd' \in {FailIfHeld(w, c), cmd} =>
              (cmd'[c].status = "completed" => cmd[c].status = "completed")
<1>1. CASE cmd' = cmd
  BY <1>1 DEF Only
<1>2. CASE cmd' # cmd
  <2>1. cmd[c].status = "claimed" /\ cmd' \in {Completed(c), Failed(c)}
    BY <1>2 DEF CompleteIfHeld, FailIfHeld, Holds
  <2>2. Only(c)
    BY <2>1 DEF Only, Completed, Failed, CommandsOK
  <2>3. Failed(c)[c].status = "failed"
    BY DEF Failed, CommandsOK, Command
  <2>4. cmd' = FailIfHeld(w, c) => cmd' = Failed(c)
    BY <1>2 DEF FailIfHeld
  <2> QED BY <1>2, <2>1, <2>2, <2>3, <2>4
<1> QED BY <1>1, <1>2

LEMMA ClaimWrites ==
  ASSUME CommandsOK(cmd), NEW w \in Workers, NEW dead \in SUBSET Workers,
         cmd' = AfterClaim(w, dead), NEW c \in Commands
  PROVE  /\ cmd[c].status = "completed" => cmd'[c] = cmd[c]
         /\ c \notin Stops => (cmd'[c].status = "completed" => cmd[c].status = "completed")
<1>1. cmd[c] \in Command
  BY DEF CommandsOK
<1>2. CASE c \in Exhausted
  <2>1. cmd'[c] = [cmd[c] EXCEPT !.status = "failed", !.owner = NoWorker, !.lapsed = FALSE]
    BY <1>2, ClaimDisjoint DEF AfterClaim
  <2>2. cmd'[c].status = "failed" /\ cmd[c].status = "claimed"
    BY <1>1, <1>2, <2>1 DEF Command, Exhausted
  <2> QED BY <2>2
<1>3. CASE c \in Orphaned(w, dead)
  BY <1>3 DEF Orphaned
<1>4. CASE c \notin Exhausted /\ c \notin Orphaned(w, dead) /\ c \in Claimable(w)
  <2>1. cmd'[c] = [cmd[c] EXCEPT !.status = "claimed", !.owner = w, !.lapsed = FALSE,
                                 !.attempts = cmd[c].attempts + 1]
    BY <1>4 DEF AfterClaim
  <2>2. cmd'[c].status = "claimed" /\ cmd[c].status # "completed"
    BY <1>1, <1>4, <2>1 DEF Command, Claimable
  <2> QED BY <2>2
<1>5. CASE c \notin Exhausted /\ c \notin Orphaned(w, dead) /\ c \notin Claimable(w)
  BY <1>5 DEF AfterClaim
<1> QED BY <1>2, <1>3, <1>4, <1>5

(* A lease that lapses or is renewed ends nothing. *)
LEMMA LeaseWrites ==
  ASSUME CommandsOK(cmd), NEW c \in Commands, cmd[c].status = "claimed", NEW flag \in BOOLEAN,
         cmd' = [cmd EXCEPT ![c].lapsed = flag]
  PROVE  Only(c) /\ cmd'[c].status = "claimed"
BY DEF CommandsOK, Command, Only

-----------------------------------------------------------------------------
(* The steps.                                                              *)

(* A step on a command that is no run's, or that neither ends nor was one    *)
(* that ended.                                                               *)
LEMMA OtherCommand ==
  ASSUME UNCHANGED run, NEW c \in Commands, Only(c),
         c \in Runs => (cmd'[c].status = "completed" <=> cmd[c].status = "completed")
  PROVE  EndsKept
BY Apart DEF EndsKept, Only

LEMMA OperatorSafe ==
  ASSUME DeliveryInv, Operator
  PROVE  DeliverySafe'
<1>0. CommandsOK(cmd) /\ DeliverySafe
  BY TypeParts DEF DeliveryInv
<1>1. ASSUME NEW r \in Runs, RequestDelivery(r)
      PROVE  DeliverySafe'
  <2>1. EndsKept
    BY <1>0, <1>1, Apart, InsertWrites, OtherCommand DEF RequestDelivery
  <2> QED BY <1>0, <1>1, <2>1, QuietSafe DEF RequestDelivery
<1>2. ASSUME NEW r \in Runs, Abandon(r)
      PROVE  DeliverySafe'
  <2>1. EndsKept
    <3>1. \A q \in Runs : run'[q] = "pr_created" <=> run[q] = "pr_created"
      BY <1>2, TypeParts DEF Abandon, DeliveryInv, RunsOK
    <3> QED BY <1>2, <3>1 DEF Abandon, EndsKept
  <2> QED BY <1>0, <1>2, <2>1, QuietSafe DEF Abandon
<1>3. ASSUME NEW s \in Stops, NEW w \in Workers, RequestStop(s, w)
      PROVE  DeliverySafe'
  <2>1. EndsKept
    BY <1>0, <1>3, Apart, InsertWrites, OtherCommand DEF RequestStop
  <2> QED BY <1>0, <1>3, <2>1, QuietSafe DEF RequestStop
<1>4. ASSUME NEW k \in Checks, RequestCheck(k)
      PROVE  DeliverySafe'
  <2>1. Only(k)
    BY <1>0, <1>4, Apart DEF RequestCheck, Only, CommandsOK
  <2>2. EndsKept
    BY <1>4, <2>1, Apart, OtherCommand DEF RequestCheck
  <2> QED BY <1>0, <1>4, <2>2, QuietSafe DEF RequestCheck
<1> QED BY <1>1, <1>2, <1>3, <1>4 DEF Operator

(* A step of one worker's loop: it writes no git and no ledger, and leaves *)
(* its executor as it was, at rest, or at its beginning.                   *)
LoopStep(w) ==
  /\ UNCHANGED <<git, ledger>>
  /\ \A v \in Workers : v # w => worker'[v] = worker[v]
  /\ \/ worker'[w].task = worker[w].task
     \/ worker'[w].task.cmd \notin Runs
     \/ worker'[w].task.op = "git_commit" /\ worker'[w].task.step \in {"look", "thrown"}

LEMMA LoopSafe ==
  ASSUME DeliverySafe, NEW w \in Workers, LoopStep(w), EndsKept \/ EndsAgree'
  PROVE  DeliverySafe'
<1>1. Grows
  BY Steady DEF DeliverySafe, LoopStep
<1>2. LedgerStays
  BY DEF LedgerStays, LoopStep
<1>3. ASSUME NEW v \in Workers
      PROVE  TaskStays(v)
  BY DEF TaskStays, LoopStep, Knows
<1> QED BY <1>1, <1>2, <1>3, Together

LEMMA RestIsLoopStep ==
  ASSUME TypeOK, NEW w \in Workers, Rest(w), UNCHANGED <<git, ledger>>
  PROVE  LoopStep(w)
<1>1. worker'[w].task.cmd = NoCommand /\ \A v \in Workers : v # w => worker'[v] = worker[v]
  BY AtRestFits, TypeParts DEF Rest, WorkersOK, Worker
<1> QED BY <1>1, Apart DEF LoopStep

LEMMA CommandLoopSafe ==
  ASSUME DeliveryInv, NEW w \in Workers,
         Start(w) \/ Claim(w) \/ Process(w) \/ EndCheck(w) \/ \E c \in Runs : Renew(w, c)
  PROVE  DeliverySafe'
<1>0. CommandsOK(cmd) /\ WorkersOK(worker) /\ DeliverySafe /\ TypeOK
  BY TypeParts DEF DeliveryInv
<1>1. CASE Start(w)
  <2>1. LoopStep(w) /\ EndsKept
    BY <1>0, <1>1 DEF Start, LoopStep, EndsKept, WorkersOK, Worker
  <2> QED BY <1>0, <2>1, LoopSafe
<1>2. CASE Claim(w)
  <2>1. LoopStep(w)
    BY <1>0, <1>2 DEF Claim, LoopStep, WorkersOK, Worker
  <2>2. Stale \in SUBSET Workers
    BY DEF Stale
  <2>3. EndsKept
    BY <1>0, <1>2, <2>2, Apart, ClaimWrites DEF Claim, EndsKept
  <2> QED BY <1>0, <2>1, <2>3, LoopSafe
<1>3. ASSUME NEW s \in Stops, ProcessStop(w, s)
      PROVE  DeliverySafe'
  <2>1. LoopStep(w)
    BY <1>0, <1>3 DEF ProcessStop, LoopStep, WorkersOK, Worker
  <2>2. EndsKept
    BY <1>0, <1>3, Apart, SettleWrites, OtherCommand DEF ProcessStop
  <2> QED BY <1>0, <2>1, <2>2, LoopSafe
<1>4. ASSUME NEW k \in Checks, BeginCheck(w, k)
      PROVE  DeliverySafe'
  <2>1. worker'[w].task.cmd = k /\ \A v \in Workers : v # w => worker'[v] = worker[v]
    BY <1>0, <1>4 DEF BeginCheck, WorkersOK, Worker, AtRest
  <2>2. LoopStep(w) /\ EndsKept
    BY <1>4, <2>1, Apart DEF BeginCheck, LoopStep, EndsKept
  <2> QED BY <1>0, <2>2, LoopSafe
<1>5. ASSUME NEW r \in Runs, RefuseDelivery(w, r)
      PROVE  DeliverySafe'
  <2>1. LoopStep(w)
    BY <1>0, <1>5 DEF RefuseDelivery, LoopStep, WorkersOK, Worker
  <2>2. EndsKept
    BY <1>0, <1>5, Apart, SettleWrites, OtherCommand DEF RefuseDelivery
  <2> QED BY <1>0, <2>1, <2>2, LoopSafe
<1>6. ASSUME NEW r \in Runs, BeginDelivery(w, r)
      PROVE  DeliverySafe'
  <2>1. PICK step \in {"look", "thrown"} :
          worker' = [worker EXCEPT
            ![w].batch = @ \ {r},
            ![w].task = [AtRest EXCEPT !.step = step, !.cmd = r, !.op = "git_commit"]]
    BY <1>6 DEF BeginDelivery
  <2>2. /\ worker'[w].task.op = "git_commit" /\ worker'[w].task.step = step
        /\ \A v \in Workers : v # w => worker'[v] = worker[v]
    BY <1>0, <2>1 DEF WorkersOK, Worker, AtRest
  <2>3. LoopStep(w) /\ EndsKept
    BY <1>6, <2>2 DEF BeginDelivery, LoopStep, EndsKept
  <2> QED BY <1>0, <2>3, LoopSafe
<1>7. CASE EndCheck(w)
  <2>1. worker[w].task.cmd \in Checks
    BY <1>0, <1>7 DEF EndCheck, At, WorkersOK, TaskFits
  <2>2. EndsKept
    BY <1>0, <1>7, <2>1, Apart, SettleWrites, OtherCommand DEF EndCheck
  <2> QED BY <1>0, <1>7, <2>2, RestIsLoopStep, LoopSafe DEF EndCheck
<1>8. ASSUME NEW c \in Runs, Renew(w, c)
      PROVE  DeliverySafe'
  <2>1. EndsKept
    BY <1>0, <1>8, Apart, LeaseWrites, OtherCommand DEF Renew, Holds
  <2> QED BY <1>0, <1>8, <2>1, QuietSafe DEF Renew
<1> QED BY <1>1, <1>2, <1>3, <1>4, <1>5, <1>6, <1>7, <1>8 DEF Process

LEMMA RunnerSafe ==
  ASSUME DeliveryInv, NEW w \in Workers, LeaveToLease(w) \/ CommitPassed(w) \/ CommitFailed(w)
  PROVE  DeliverySafe'
<1> DEFINE r == worker[w].task.cmd
<1>0. CommandsOK(cmd) /\ RunsOK(run) /\ DeliverySafe /\ TypeOK
  BY TypeParts DEF DeliveryInv
<1>1. r \in Runs
  BY AtDelivers, TypeParts, <1>0 DEF LeaveToLease, CommitPassed, CommitFailed, Steps, Delivering
<1>2. LoopStep(w)
  BY <1>0, RestIsLoopStep DEF LeaveToLease, CommitPassed, CommitFailed
<1>3. CASE LeaveToLease(w)
  <2>1. EndsKept
    BY <1>3 DEF LeaveToLease, EndsKept
  <2> QED BY <1>0, <1>2, <2>1, LoopSafe
<1>4. CASE CommitPassed(w) /\ StillMine(w)
  <2>1. run' = [run EXCEPT ![r] = "pr_created"] /\ cmd' = Completed(r)
    BY <1>4 DEF CommitPassed, StillMine, CompleteIfHeld
  <2>2. Completed(r)[r].status = "completed" /\ Only(r)
    BY <1>0, <1>1, <2>1, Apart DEF Completed, CommandsOK, Command, Only
  <2>3. Reached(git[r], "create_pr")
    <3>1. worker[w].task.op = "create_pr" /\ worker[w].task.step = "passed"
      BY <1>0, <1>4, TypeParts DEF CommitPassed, At, WorkersOK, TaskFits
    <3> QED BY <1>0, <1>1, <3>1 DEF DeliverySafe, ExecutorsKnow, Knows
  <2>4. git' = git
    BY <1>2 DEF LoopStep
  <2>5. ASSUME NEW q \in Runs
        PROVE  /\ run'[q] = "pr_created" <=> cmd'[q].status = "completed"
               /\ run'[q] = "pr_created" => Reached(git'[q], "create_pr")
    <3>1. CASE q = r
      BY <1>0, <2>1, <2>2, <2>3, <2>4, <3>1 DEF RunsOK
    <3>2. CASE q # r
      <4>1. run'[q] = run[q] /\ cmd'[q] = cmd[q]
        BY <1>0, <2>1, <2>2, <3>2, Apart DEF RunsOK, Only
      <4> QED BY <1>0, <2>4, <4>1 DEF DeliverySafe, EndsAgree
    <3> QED BY <3>1, <3>2
  <2>6. EndsAgree'
    BY <2>5 DEF EndsAgree
  <2> QED BY <1>0, <1>2, <2>6, LoopSafe
<1>5. CASE CommitPassed(w) /\ ~StillMine(w)
  <2>1. EndsKept
    BY <1>5 DEF CommitPassed, EndsKept
  <2> QED BY <1>0, <1>2, <2>1, LoopSafe
<1>6. CASE CommitFailed(w)
  <2>1. EndsKept
    BY <1>0, <1>1, <1>6, Apart, SettleWrites, OtherCommand DEF CommitFailed
  <2> QED BY <1>0, <1>2, <2>1, LoopSafe
<1> QED BY <1>3, <1>4, <1>5, <1>6

(* The executor of w goes to a step, the branch and the ledger grown or not. *)
LEMMA StepSafe ==
  ASSUME WorkersOK(worker), NEW w \in Workers, Delivering(w), Grows,
         NEW s \in Steps, GoTo(w, s),
         s \in {"done", "passed"} =>
           /\ ExecutorsKnow
           /\ Reached(git'[worker[w].task.cmd], worker[w].task.op)
  PROVE  \A v \in Workers : TaskStays(v)
<1>1. /\ worker'[w].task.cmd = worker[w].task.cmd
      /\ worker'[w].task.op = worker[w].task.op
      /\ worker'[w].task.step = s
      /\ \A v \in Workers : v # w => worker'[v] = worker[v]
  BY DEF GoTo, WorkersOK, Worker, Task
<1>2. ASSUME s \in {"done", "passed"}
      PROVE  Knows(worker'[w].task, git'[worker'[w].task.cmd])
  <2>1. Knows(worker[w].task, git[worker[w].task.cmd]) /\ worker[w].task.cmd \in Runs
    BY <1>2 DEF ExecutorsKnow, Delivering
  <2> QED BY <1>1, <1>2, <2>1 DEF Knows, Grows
<1> QED BY <1>1, <1>2 DEF TaskStays

(* The executor of w is done with its operation. *)
LEMMA AdvanceSafe ==
  ASSUME WorkersOK(worker), NEW w \in Workers, Delivering(w), Grows, ExecutorsKnow,
         Reached(git'[worker[w].task.cmd], worker[w].task.op), Advance(w)
  PROVE  \A v \in Workers : TaskStays(v)
<1> DEFINE op == worker[w].task.op
<1>1. CASE op = "create_pr"
  BY <1>1, StepSafe DEF Advance, After, Steps
<1>2. CASE op # "create_pr"
  <2>1. /\ op = "git_commit" => After[op] = "git_push"
        /\ op = "git_push" => After[op] = "create_pr"
        /\ op \in {"git_commit", "git_push"}
    BY <1>2 DEF After, Delivering, Operations
  <2>2. worker' = [worker EXCEPT ![w].task.step = "look", ![w].task.op = After[op],
                                 ![w].task.pre = 0]
    BY <2>1 DEF Advance
  <2>3. /\ worker'[w].task.cmd = worker[w].task.cmd
        /\ worker'[w].task.op = After[op]
        /\ worker'[w].task.step = "look"
        /\ \A v \in Workers : v # w => worker'[v] = worker[v]
    BY <2>2 DEF WorkersOK, Worker, Task
  <2>4. Knows(worker'[w].task, git'[worker'[w].task.cmd])
    BY <2>1, <2>3 DEF Knows, Reached
  <2> QED BY <2>3, <2>4 DEF TaskStays
<1> QED BY <1>1, <1>2

(* An entry of w's operation, completed only when the operation has happened. *)
LEMMA EntrySafe ==
  ASSUME LedgerOK(ledger), NEW w \in Workers, Delivering(w), NEW entry, NEW pre,
         entry = "completed" => Reached(git'[worker[w].task.cmd], worker[w].task.op),
         SetEntry(w, entry, pre)
  PROVE  LedgerStays
<1>1. Entry(entry, pre).status = entry
  BY DEF Entry
<1> QED BY <1>1 DEF LedgerStays, SetEntry, LedgerOK, Delivering

LEMMA ExecutorSafe ==
  ASSUME DeliveryInv, NEW w \in Workers,
         \/ Look(w) \/ Prepare(w) \/ Reconcile(w) \/ RecordPending(w)
         \/ FindPullRequest(w) \/ DoOperation(w) \/ RecordCompleted(w) \/ RecordFailed(w)
  PROVE  DeliverySafe'
<1> DEFINE t == worker[w].task
<1>0. /\ WorkersOK(worker) /\ LedgerOK(ledger) /\ GitOK(git)
      /\ DeliverySafe /\ ExecutorsKnow /\ BranchesOK /\ TypeOK
  BY TypeParts DEF DeliveryInv, DeliverySafe
<1>1. Delivering(w) /\ t.cmd \in Runs /\ t.op \in Operations
  BY <1>0, AtDelivers DEF Look, Prepare, Reconcile, RecordPending, FindPullRequest,
                    DoOperation, RecordCompleted, RecordFailed, Steps, Delivering
<1>2. EndsKept
  BY DEF EndsKept, Look, Prepare, Reconcile, RecordPending, FindPullRequest,
         DoOperation, RecordCompleted, RecordFailed
<1>3. UNCHANGED git => Grows
  BY <1>0, Steady
<1>4. UNCHANGED ledger => LedgerStays
  BY DEF LedgerStays
<1>5. Knows(t, git[t.cmd]) /\ BranchOK(git[t.cmd])
  BY <1>0, <1>1 DEF ExecutorsKnow, BranchesOK
<1>6. ASSUME NEW v \in Workers,
             worker' = [worker EXCEPT ![v].task.step = "reconcile",
                                      ![v].task.pre = ledger[t.cmd][t.op].pre]
             \/ worker' = [worker EXCEPT ![v].task.step = "record",
                                         ![v].task.pre = git[t.cmd].head]
      PROVE  \A u \in Workers : TaskStays(u)
  <2>1. /\ worker'[v].task.cmd = worker[v].task.cmd
        /\ worker'[v].task.op = worker[v].task.op
        /\ worker'[v].task.step \in {"reconcile", "record"}
        /\ \A u \in Workers : u # v => worker'[u] = worker[u]
    BY <1>0, <1>6 DEF WorkersOK, Worker, Task
  <2> QED BY <2>1 DEF TaskStays
<1>7. CASE Look(w)
  <2>1. Grows /\ LedgerStays
    BY <1>3, <1>4, <1>7 DEF Look
  <2>2. ASSUME ledger[t.cmd][t.op].status = "completed"
        PROVE  Reached(git'[t.cmd], t.op)
    BY <1>0, <1>1, <2>1, <2>2 DEF DeliverySafe, LedgerTrue, Grows
  <2>3. \/ GoTo(w, "thrown") \/ GoTo(w, "prepare")
        \/ ledger[t.cmd][t.op].status = "completed" /\ Advance(w)
        \/ worker' = [worker EXCEPT ![w].task.step = "reconcile",
                                    ![w].task.pre = ledger[t.cmd][t.op].pre]
    BY <1>7 DEF Look
  <2>4. \A v \in Workers : TaskStays(v)
    BY <1>0, <1>1, <1>6, <2>1, <2>2, <2>3, StepSafe, AdvanceSafe DEF Steps
  <2> QED BY <1>0, <1>2, <2>1, <2>4, Together
<1>8. CASE Prepare(w)
  <2>1. Grows /\ LedgerStays
    BY <1>3, <1>4, <1>8 DEF Prepare
  <2>2. \/ GoTo(w, "thrown") \/ GoTo(w, "record")
        \/ worker' = [worker EXCEPT ![w].task.step = "record",
                                    ![w].task.pre = git[t.cmd].head]
    BY <1>8 DEF Prepare
  <2>3. \A v \in Workers : TaskStays(v)
    BY <1>0, <1>1, <1>6, <2>1, <2>2, StepSafe DEF Steps
  <2> QED BY <1>0, <1>2, <2>1, <2>3, Together
<1>9. CASE Reconcile(w)
  <2>1. Grows /\ LedgerStays
    BY <1>3, <1>4, <1>9 DEF Reconcile
  <2>2. ASSUME Found(t.cmd, t.op, t.pre)
        PROVE  Reached(git'[t.cmd], t.op)
    <3>1. t.pre \in Nat /\ git[t.cmd].head \in Nat /\ git[t.cmd].opened \in Nat
      BY <1>0, <1>1 DEF WorkersOK, Worker, Task, GitOK
    <3>2. Reached(git[t.cmd], t.op)
      <4>1. CASE t.op = "git_commit"
        <5>1. t.pre < git[t.cmd].head
          BY <2>2, <4>1 DEF Found
        <5>2. git[t.cmd].head = 1
          BY <1>5, <3>1, <5>1 DEF BranchOK
        <5> QED BY <4>1, <5>2 DEF Reached
      <4>2. CASE t.op = "git_push"
        <5>1. git[t.cmd].remote = git[t.cmd].head
          BY <2>2, <4>2 DEF Found
        <5>2. git[t.cmd].head = 1
          BY <1>5, <4>2 DEF Knows, Reached
        <5> QED BY <4>2, <5>1, <5>2 DEF Reached
      <4>3. CASE t.op = "create_pr"
        <5>1. git[t.cmd].opened > 0
          BY <2>2, <4>3 DEF Found
        <5>2. git[t.cmd].opened = 1
          BY <1>5, <5>1 DEF BranchOK
        <5> QED BY <4>3, <5>2 DEF Reached
      <4> QED BY <1>1, <4>1, <4>2, <4>3 DEF Operations
    <3> QED BY <1>1, <2>1, <3>2 DEF Grows
  <2>3. \/ GoTo(w, "thrown") \/ GoTo(w, "record")
        \/ Found(t.cmd, t.op, t.pre) /\ GoTo(w, "done")
    BY <1>9 DEF Reconcile
  <2>4. \A v \in Workers : TaskStays(v)
    BY <1>0, <1>1, <2>1, <2>2, <2>3, StepSafe DEF Steps
  <2> QED BY <1>0, <1>2, <2>1, <2>4, Together
<1>10. CASE RecordPending(w)
  <2>1. Grows /\ LedgerStays
    BY <1>0, <1>1, <1>3, <1>10, EntrySafe DEF RecordPending
  <2>2. GoTo(w, "failed") \/ GoTo(w, "find") \/ GoTo(w, "do")
    BY <1>10 DEF RecordPending
  <2>3. \A v \in Workers : TaskStays(v)
    BY <1>0, <1>1, <2>1, <2>2, StepSafe DEF Steps
  <2> QED BY <1>0, <1>2, <2>1, <2>3, Together
<1>11. CASE FindPullRequest(w)
  <2>1. Grows /\ LedgerStays
    BY <1>3, <1>4, <1>11 DEF FindPullRequest
  <2>2. ASSUME git[t.cmd].opened > 0
        PROVE  Reached(git'[t.cmd], t.op)
    <3>1. t.op = "create_pr"
      BY <1>0, <1>11 DEF FindPullRequest, At, WorkersOK, TaskFits
    <3>2. Reached(git[t.cmd], t.op)
      BY <1>5, <2>2, <3>1 DEF Reached, BranchOK
    <3> QED BY <1>1, <2>1, <3>2 DEF Grows
  <2>3. \/ GoTo(w, "failed") \/ GoTo(w, "do")
        \/ git[t.cmd].opened > 0 /\ GoTo(w, "done")
    BY <1>11 DEF FindPullRequest
  <2>4. \A v \in Workers : TaskStays(v)
    BY <1>0, <1>1, <2>1, <2>2, <2>3, StepSafe DEF Steps
  <2> QED BY <1>0, <1>2, <2>1, <2>4, Together
<1>12. CASE DoOperation(w)
  <2>1. LedgerStays
    BY <1>4, <1>12 DEF DoOperation
  <2>2. CASE UNCHANGED git /\ GoTo(w, "failed")
    <3>1. \A v \in Workers : TaskStays(v)
      BY <1>0, <1>1, <1>3, <2>2, StepSafe DEF Steps
    <3> QED BY <1>0, <1>2, <1>3, <2>1, <2>2, <3>1, Together
  <2>3. CASE /\ CanHappen(t.cmd, t.op) /\ git' = Effect(t.cmd, t.op)
             /\ GoTo(w, "done") \/ GoTo(w, "failed")
    <3>1. Grows /\ Reached(git'[t.cmd], t.op)
      BY <1>0, <1>1, <1>5, <2>3, EffectGrows DEF Knows
    <3>2. \A v \in Workers : TaskStays(v)
      BY <1>0, <1>1, <2>3, <3>1, StepSafe DEF Steps
    <3> QED BY <1>0, <1>2, <2>1, <3>1, <3>2, Together
  <2> QED BY <1>12, <2>2, <2>3 DEF DoOperation
<1>13. CASE RecordCompleted(w)
  <2>1. Grows
    BY <1>3, <1>13 DEF RecordCompleted
  <2>2. Reached(git'[t.cmd], t.op)
    BY <1>1, <1>5, <1>13, <2>1 DEF RecordCompleted, At, Knows, Grows
  <2>3. LedgerStays
    BY <1>0, <1>1, <1>13, <2>2, EntrySafe DEF RecordCompleted
  <2>4. \A v \in Workers : TaskStays(v)
    BY <1>0, <1>1, <1>13, <2>1, <2>2, AdvanceSafe DEF RecordCompleted
  <2> QED BY <1>0, <1>2, <2>1, <2>3, <2>4, Together
<1>14. CASE RecordFailed(w)
  <2>1. Grows /\ LedgerStays
    BY <1>0, <1>1, <1>3, <1>14, EntrySafe DEF RecordFailed
  <2>2. \A v \in Workers : TaskStays(v)
    BY <1>0, <1>1, <1>14, <2>1, StepSafe DEF RecordFailed, Steps
  <2> QED BY <1>0, <1>2, <2>1, <2>2, Together
<1> QED BY <1>7, <1>8, <1>9, <1>10, <1>11, <1>12, <1>13, <1>14

(* A worker that rests or is gone knows nothing. *)
LEMMA EnvironmentSafe ==
  ASSUME DeliveryInv, Environment
  PROVE  DeliverySafe'
<1>0. /\ CommandsOK(cmd) /\ WorkersOK(worker) /\ TypeOK
      /\ DeliverySafe /\ BranchesOK
  BY TypeParts DEF DeliveryInv, DeliverySafe
<1>1. ASSUME NEW c \in Commands, Lapse(c)
      PROVE  DeliverySafe'
  <2>1. EndsKept
    BY <1>0, <1>1, LeaseWrites, OtherCommand DEF Lapse
  <2> QED BY <1>0, <1>1, <2>1, QuietSafe DEF Lapse
<1>2. ASSUME NEW e \in stray, Land(e)
      PROVE  DeliverySafe'
  <2>1. e[1] \in Runs /\ e[2] \in Operations
    BY <1>0, TypeParts
  <2>2. Grows
    BY <1>0, <1>2, <2>1, Steady, EffectGrows DEF Land
  <2>3. LedgerStays /\ EndsKept /\ \A w \in Workers : TaskStays(w)
    BY <1>2 DEF Land, LedgerStays, EndsKept, TaskStays
  <2> QED BY <1>0, <2>2, <2>3, Together
<1>3. ASSUME NEW w \in Workers, Shutdown(w)
      PROVE  DeliverySafe'
  <2>1. /\ worker'[w].task.cmd = worker[w].task.cmd
        /\ worker'[w].task.op = worker[w].task.op
        /\ worker'[w].task.step = worker[w].task.step
        /\ \A v \in Workers : v # w => worker'[v] = worker[v]
    BY <1>0, <1>3 DEF Shutdown, WorkersOK, Worker, Task
  <2>2. Grows
    BY <1>0, <1>3, Steady DEF Shutdown
  <2>3. LedgerStays /\ EndsKept /\ \A v \in Workers : TaskStays(v)
    BY <1>3, <2>1 DEF Shutdown, LedgerStays, EndsKept, TaskStays
  <2> QED BY <1>0, <2>2, <2>3, Together
<1>4. \A fresh : Gone(fresh).task = AtRest
  BY DEF Gone
<1>5. ASSUME NEW w \in Workers, Exit(w) \/ Crash(w)
      PROVE  DeliverySafe'
  <2>1. worker'[w].task = AtRest /\ \A v \in Workers : v # w => worker'[v] = worker[v]
    BY <1>0, <1>4, <1>5 DEF Exit, Crash, WorkersOK
  <2>2. LoopStep(w) /\ EndsKept
    BY <1>5, <2>1, AtRestFits DEF Exit, Crash, LoopStep, EndsKept
  <2> QED BY <1>0, <2>2, LoopSafe
<1>6. ASSUME NEW w \in Workers, HeartbeatAges(w)
      PROVE  DeliverySafe'
  <2>1. LoopStep(w) /\ EndsKept
    BY <1>0, <1>6 DEF HeartbeatAges, LoopStep, EndsKept, WorkersOK, Worker
  <2> QED BY <1>0, <2>1, LoopSafe
<1>7. ASSUME NEW w \in Workers, CommitThrows(w)
      PROVE  DeliverySafe'
  <2>1. worker'[w].task = AtRest /\ \A v \in Workers : v # w => worker'[v] = worker[v]
    BY <1>0, <1>7 DEF CommitThrows, WorkersOK, Worker
  <2>2. LoopStep(w) /\ EndsKept
    BY <1>7, <2>1, AtRestFits DEF CommitThrows, LoopStep, EndsKept
  <2> QED BY <1>0, <2>2, LoopSafe
<1> QED BY <1>1, <1>2, <1>3, <1>5, <1>6, <1>7 DEF Environment

-----------------------------------------------------------------------------
(* The theorems.                                                           *)

LEMMA InitSafe ==
  ASSUME Init
  PROVE  DeliveryInv
<1>1. BranchesOK
  BY DEF Init, BranchesOK, BranchOK, Reviewed
<1>2. LedgerTrue
  BY DEF Init, LedgerTrue, Entry
<1>3. ExecutorsKnow
  BY AtRestFits DEF Init, ExecutorsKnow, NotStarted
<1>4. EndsAgree
  BY Apart DEF Init, EndsAgree, Absent
<1> QED BY <1>1, <1>2, <1>3, <1>4, TypeInit DEF DeliveryInv, DeliverySafe

LEMMA DeliveryStep ==
  ASSUME DeliveryInv, [Next]_vars
  PROVE  DeliveryInv'
<1>1. TypeOK'
  BY TypeStep DEF DeliveryInv
<1>2. CASE UNCHANGED vars
  BY <1>1, <1>2, QuietSafe DEF vars, DeliveryInv, EndsKept
<1>3. CASE Next
  BY <1>1, <1>3, OperatorSafe, EnvironmentSafe, CommandLoopSafe, ExecutorSafe, RunnerSafe
     DEF Next, Execute, DeliveryInv
<1> QED BY <1>2, <1>3

THEOREM DeliveryInvariant == Spec => []DeliveryInv
BY InitSafe, DeliveryStep, PTL DEF Spec

(***************************************************************************)
(* An operation the ledger calls completed has happened, and is on the     *)
(* branch, its remote or its host for good: in whatever order two          *)
(* executors, their retries and what dead workers left behind write.       *)
(***************************************************************************)
THEOREM LedgerCorrect == Spec => []LedgerTellsTheTruth
<1>1. DeliveryInv => LedgerTellsTheTruth
  BY DEF DeliveryInv, DeliverySafe, LedgerTrue, Reached, LedgerTellsTheTruth, Operations
<1> QED BY <1>1, DeliveryInvariant, PTL

(***************************************************************************)
(* The branch of a run never gets a second delivery commit, nor does its   *)
(* remote.                                                                 *)
(***************************************************************************)
THEOREM OneCommitCorrect == Spec => []OneDeliveryCommit
<1>1. DeliveryInv => OneDeliveryCommit
  <2>1. ASSUME DeliveryInv, NEW r \in Runs
        PROVE  git[r].head <= 1 /\ git[r].remote <= 1
    <3>1. git[r].head \in {0, 1} /\ git[r].remote \in {0, 1}
      BY <2>1 DEF DeliveryInv, DeliverySafe, BranchesOK, BranchOK
    <3>2. 0 <= 1 /\ 1 <= 1
      OBVIOUS
    <3> QED BY <3>1, <3>2
  <2> QED BY <2>1 DEF OneDeliveryCommit
<1> QED BY <1>1, DeliveryInvariant, PTL

(***************************************************************************)
(* A run is delivered exactly when its command is completed, and then its  *)
(* pull request is open, on its one commit.                                *)
(***************************************************************************)
THEOREM TogetherCorrect == Spec => []DeliveredTogether
<1>1. DeliveryInv => DeliveredTogether
  <2>1. ASSUME DeliveryInv, NEW r \in Runs
        PROVE  /\ run[r] = "pr_created" <=> cmd[r].status = "completed"
               /\ run[r] = "pr_created" =>
                    git[r].opened = 1 /\ git[r].remote = 1 /\ git[r].head = 1
    BY <2>1 DEF DeliveryInv, DeliverySafe, BranchesOK, BranchOK, EndsAgree, Reached
  <2> QED BY <2>1 DEF DeliveredTogether
<1> QED BY <1>1, DeliveryInvariant, PTL

-----------------------------------------------------------------------------
(* What has ended stays so.                                                *)

(* A step that writes no command but c, and not a completed one. *)
LEMMA CommandStays ==
  ASSUME UNCHANGED run, NEW c \in Commands, Only(c),
         c \in Checks \/ (cmd[c].status = "completed" => cmd'[c] = cmd[c])
  PROVE  EndsStay
BY Apart DEF Only, EndsStay

LEMMA StayStep ==
  ASSUME TypeOK, [Next]_vars
  PROVE  [EndsStay]_vars
<1>0. CommandsOK(cmd) /\ RunsOK(run) /\ WorkersOK(worker)
  BY TypeParts
<1>1. ASSUME UNCHANGED <<cmd, run>>
      PROVE  EndsStay
  BY <1>1 DEF EndsStay
<1>2. ASSUME NEW r \in Runs, RequestDelivery(r)
      PROVE  EndsStay
  BY <1>0, <1>2, Apart, InsertWrites, CommandStays DEF RequestDelivery
<1>3. ASSUME NEW r \in Runs, Abandon(r)
      PROVE  EndsStay
  BY <1>0, <1>3 DEF Abandon, EndsStay, RunsOK
<1>4. ASSUME NEW s \in Stops, NEW w \in Workers, RequestStop(s, w)
      PROVE  EndsStay
  BY <1>0, <1>4, Apart, InsertWrites, CommandStays DEF RequestStop
<1>5. ASSUME NEW k \in Checks, RequestCheck(k)
      PROVE  EndsStay
  BY <1>0, <1>5, Apart, CommandStays DEF RequestCheck, Only, CommandsOK
<1>6. ASSUME NEW c \in Commands, NEW flag \in BOOLEAN, cmd[c].status = "claimed",
             cmd' = [cmd EXCEPT ![c].lapsed = flag], UNCHANGED run
      PROVE  EndsStay
  BY <1>0, <1>6, LeaseWrites, CommandStays
<1>7. ASSUME NEW w \in Workers, NEW c \in Commands, UNCHANGED run,
             cmd' \in {CompleteIfHeld(w, c), FailIfHeld(w, c), cmd}
      PROVE  EndsStay
  BY <1>0, <1>7, SettleWrites, CommandStays
<1>8. ASSUME NEW w \in Workers, Claim(w)
      PROVE  EndsStay
  <2>1. Stale \in SUBSET Workers
    BY DEF Stale
  <2> QED BY <1>0, <1>8, <2>1, Apart, ClaimWrites DEF Claim, EndsStay
<1>9. ASSUME NEW w \in Workers, Process(w)
      PROVE  EndsStay
  BY <1>1, <1>7, <1>9, Apart DEF Process, ProcessStop, BeginCheck, RefuseDelivery, BeginDelivery
<1>10. ASSUME NEW w \in Workers, EndCheck(w)
       PROVE  EndsStay
  <2>1. worker[w].task.cmd \in Checks
    BY <1>0, <1>10 DEF EndCheck, At, WorkersOK, TaskFits
  <2> QED BY <1>7, <1>10, <2>1, Apart DEF EndCheck
<1>11. ASSUME NEW w \in Workers, CommitPassed(w) \/ CommitFailed(w)
       PROVE  EndsStay
  <2> DEFINE r == worker[w].task.cmd
  <2>1. r \in Runs /\ r \in Commands
    BY <1>0, <1>11, AtDelivers, Apart DEF CommitPassed, CommitFailed, Steps, Delivering
  <2>2. CASE CommitPassed(w) /\ StillMine(w)
    <3>1. /\ run' = [run EXCEPT ![r] = "pr_created"] /\ cmd' = CompleteIfHeld(w, r)
          /\ run[r] = "ready_for_pr"
      BY <2>2 DEF CommitPassed, StillMine
    <3>2. Only(r) /\ (cmd[r].status = "completed" => cmd'[r] = cmd[r])
      BY <1>0, <2>1, <3>1, SettleWrites
    <3> QED BY <1>0, <2>1, <3>1, <3>2, Apart DEF EndsStay, Only, RunsOK
  <2>3. CASE CommitPassed(w) /\ ~StillMine(w)
    BY <1>1, <2>3 DEF CommitPassed
  <2>4. CASE CommitFailed(w)
    BY <1>7, <2>1, <2>4 DEF CommitFailed
  <2> QED BY <1>11, <2>2, <2>3, <2>4
<1>12. ASSUME Environment
       PROVE  EndsStay
  BY <1>1, <1>6, <1>12 DEF Environment, Lapse, Land, Shutdown, Exit, Crash, HeartbeatAges,
                           CommitThrows
<1>13. ASSUME NEW w \in Workers, Execute(w) \/ Start(w) \/ \E c \in Runs : Renew(w, c)
       PROVE  EndsStay
  BY <1>1, <1>6, <1>10, <1>11, <1>13, Apart
     DEF Execute, Start, Renew, Holds, Look, Prepare, Reconcile, RecordPending,
         FindPullRequest, DoOperation, RecordCompleted, RecordFailed, LeaveToLease
<1>14. CASE Next
  BY <1>2, <1>3, <1>4, <1>5, <1>8, <1>9, <1>12, <1>13, <1>14 DEF Next, Operator
<1> QED BY <1>14

(***************************************************************************)
(* A delivered or an abandoned run stays so, and a completed deliver or    *)
(* stop command is never taken up again, whoever is still at work on it.   *)
(***************************************************************************)
THEOREM EndsCorrect == Spec => EndsStayEnded
<1>1. TypeOK /\ [Next]_vars => [EndsStay]_vars
  BY StayStep
<1> QED BY <1>1, DeliveryTypeCorrect, PTL DEF Spec, EndsStayEnded

-----------------------------------------------------------------------------
(***************************************************************************)
(* Delivery implements RunDelivery.  A step is the abstract step of the    *)
(* one run it delivers, asks for or abandons, or gives up the requests     *)
(* that spent their attempts, or changes nothing the abstraction shows.    *)
(* That nothing is done to the branch of a run nobody asked for needs an   *)
(* invariant of its own: workers and what they leave behind only name runs *)
(* that have a command, and a command is never deleted.                    *)
(***************************************************************************)

Names(w, r) == worker[w].task.cmd = r \/ r \in worker[w].batch

OnlyAsked ==
  \A r \in Runs :
    (\E w \in Workers : Names(w, r)) \/ (\E e \in stray : e[1] = r)
      => cmd[r].status # "absent"

RefineInv == DeliveryInv /\ OnlyAsked

(* The request a command with this status stands for. *)
RequestIn(status) ==
  IF status \in {"pending", "claimed"} THEN "asked"
  ELSE IF status = "absent" THEN "none" ELSE status

LEMMA RequestsMapped ==
  /\ requests = [r \in Runs |-> RequestIn(cmd[r].status)]
  /\ requests' = [r \in Runs |-> RequestIn(cmd'[r].status)]
BY DEF requests, requestOf, Active, RequestIn

LEMMA BranchesMapped ==
  /\ branches = [r \in Runs |-> RD!Branch(git[r].head, git[r].remote, git[r].opened)]
  /\ branches' = [r \in Runs |-> RD!Branch(git'[r].head, git'[r].remote, git'[r].opened)]
BY DEF branches, branchOf, RD!Branch

(* A step that keeps runs, branches and the statuses of runs' commands. *)
LEMMA Hidden ==
  ASSUME UNCHANGED <<run, git>>, \A r \in Runs : cmd'[r].status = cmd[r].status
  PROVE  UNCHANGED RD!vars
BY RequestsMapped, BranchesMapped DEF RD!vars

LEMMA OtherHidden ==
  ASSUME UNCHANGED <<run, git>>, NEW c \in Stops \cup Checks, Only(c)
  PROVE  UNCHANGED RD!vars
BY Hidden, Apart DEF Only

LEMMA FailureGivesUp ==
  ASSUME CommandsOK(cmd), UNCHANGED <<run, git>>, NEW w \in Workers, NEW r \in Runs,
         cmd' \in {FailIfHeld(w, r), cmd}
  PROVE  [RD!Next]_RD!vars
<1>1. CASE cmd' = cmd
  BY <1>1, Hidden
<1>2. CASE cmd' # cmd
  <2>1. cmd' = Failed(r) /\ cmd[r].status = "claimed"
    BY <1>2 DEF FailIfHeld, Holds
  <2>2. cmd'[r].status = "failed" /\ \A q \in Runs : q # r => cmd'[q] = cmd[q]
    BY <2>1, Apart DEF Failed, CommandsOK, Command
  <2>3. requests[r] = "asked"
    BY <2>1, RequestsMapped DEF RequestIn
  <2>4. requests' = [q \in Runs |-> IF q \in {r} THEN "failed" ELSE requests[q]]
    BY <2>2, RequestsMapped DEF RequestIn
  <2>5. branches' = branches
    BY BranchesMapped
  <2>6. RD!GiveUp({r})
    BY <2>3, <2>4, <2>5 DEF RD!GiveUp
  <2> QED BY <2>6 DEF RD!Next
<1> QED BY <1>1, <1>2

LEMMA ClaimGivesUp ==
  ASSUME CommandsOK(cmd), NEW w \in Workers, Claim(w)
  PROVE  [RD!Next]_RD!vars
<1> DEFINE R == Runs \cap Exhausted
<1>1. \A r \in R : cmd[r].status = "claimed" /\ cmd'[r].status = "failed"
  <2> SUFFICES ASSUME NEW r \in R
               PROVE  cmd[r].status = "claimed" /\ cmd'[r].status = "failed"
    OBVIOUS
  <2>1. r \in Exhausted /\ r \in Commands /\ cmd[r] \in Command
    BY Apart DEF CommandsOK
  <2>2. cmd'[r] = [cmd[r] EXCEPT !.status = "failed", !.owner = NoWorker, !.lapsed = FALSE]
    <3>1. Stale \in SUBSET Workers
      BY DEF Stale
    <3>2. cmd' = AfterClaim(w, Stale)
      BY DEF Claim
    <3>3. r \notin Orphaned(w, Stale) /\ r \notin Claimable(w)
      BY <2>1, <3>1, ClaimDisjoint
    <3> QED BY <2>1, <3>2, <3>3 DEF AfterClaim
  <2>3. cmd'[r].status = "failed"
    BY <2>1, <2>2 DEF Command
  <2>4. cmd[r].status = "claimed"
    BY DEF Exhausted
  <2> QED BY <2>3, <2>4
<1>2. ASSUME NEW r \in Runs, r \notin R
      PROVE  RequestIn(cmd'[r].status) = RequestIn(cmd[r].status)
  <2>1. r \notin Exhausted /\ r \notin Orphaned(w, Stale) /\ cmd[r] \in Command
    BY <1>2, Apart DEF Orphaned, CommandsOK
  <2>2. CASE r \in Claimable(w)
    <3>1. cmd'[r].status = "claimed"
      BY <2>1, <2>2, Apart DEF Claim, AfterClaim, Command
    <3>2. cmd[r].status \in {"pending", "claimed"}
      BY <2>2 DEF Claimable
    <3> QED BY <3>1, <3>2 DEF RequestIn
  <2>3. CASE r \notin Claimable(w)
    BY <2>1, <2>3, Apart DEF Claim, AfterClaim
  <2> QED BY <2>2, <2>3
<1>3. \A r \in R : requests[r] = "asked"
  BY <1>1, RequestsMapped DEF RequestIn
<1>4. requests' = [r \in Runs |-> IF r \in R THEN "failed" ELSE requests[r]]
  <2>1. \A r \in R : RequestIn(cmd'[r].status) = "failed"
    BY <1>1 DEF RequestIn
  <2> QED BY <1>2, <2>1, RequestsMapped
<1>5. branches' = branches /\ run' = run
  BY BranchesMapped DEF Claim
<1>6. RD!GiveUp(R) /\ R \in SUBSET Runs
  BY <1>3, <1>4, <1>5 DEF RD!GiveUp
<1> QED BY <1>6 DEF RD!Next

LEMMA OperatorDelivers ==
  ASSUME DeliveryInv, Operator
  PROVE  [RD!Next]_RD!vars
<1>0. CommandsOK(cmd) /\ RunsOK(run)
  BY TypeParts DEF DeliveryInv
<1>1. ASSUME NEW r \in Runs, RequestDelivery(r)
      PROVE  RD!Next
  <2>1. \A t : Pending(t).status = "pending"
    BY DEF Pending, Absent
  <2>2. PICK t : cmd' = [cmd EXCEPT ![r] = Pending(t)]
    BY <1>1 DEF RequestDelivery, InsertOrRetry
  <2>3. cmd'[r].status = "pending" /\ \A q \in Runs : q # r => cmd'[q] = cmd[q]
    BY <1>0, <2>1, <2>2, Apart DEF CommandsOK
  <2>4. requests[r] \in {"none", "failed"}
    BY <1>1, RequestsMapped DEF RequestDelivery, RequestIn
  <2>5. requests' = [requests EXCEPT ![r] = "asked"]
    BY <2>3, RequestsMapped DEF RequestIn
  <2>6. RD!Ask(r)
    BY <1>1, <2>4, <2>5, BranchesMapped DEF RequestDelivery, RD!Ask
  <2> QED BY <2>6 DEF RD!Next
<1>2. ASSUME NEW r \in Runs, Abandon(r)
      PROVE  RD!Next
  <2>1. RD!Abandon(r)
    BY <1>2, RequestsMapped, BranchesMapped DEF Abandon, RD!Abandon
  <2> QED BY <2>1 DEF RD!Next
<1>3. ASSUME NEW s \in Stops, NEW w \in Workers, RequestStop(s, w)
      PROVE  UNCHANGED RD!vars
  BY <1>0, <1>3, Apart, InsertWrites, OtherHidden DEF RequestStop
<1>4. ASSUME NEW k \in Checks, RequestCheck(k)
      PROVE  UNCHANGED RD!vars
  <2>1. Only(k)
    BY <1>0, <1>4, Apart DEF RequestCheck, Only, CommandsOK
  <2> QED BY <1>4, <2>1, OtherHidden DEF RequestCheck
<1> QED BY <1>1, <1>2, <1>3, <1>4 DEF Operator

(* An effect, by an executor or a stray, adds the next part to its branch. *)
LEMMA EffectDelivers ==
  ASSUME DeliveryInv, NEW r \in Runs, NEW op \in Operations, CanHappen(r, op),
         cmd[r].status # "absent", git' = Effect(r, op), UNCHANGED <<run, cmd>>
  PROVE  [RD!Next]_RD!vars
<1> DEFINE b == git[r]
<1>0. /\ GitOK(git) /\ BranchOK(b)
      /\ b \in [dirty : BOOLEAN, head : Nat, remote : Nat, opened : Nat]
  BY TypeParts DEF DeliveryInv, DeliverySafe, BranchesOK, GitOK
<1>1. requests[r] # "none" /\ requests' = requests
  <2>1. cmd[r].status \in CommandStatus
    BY TypeParts, Apart DEF DeliveryInv, CommandsOK, Command
  <2> QED BY <2>1, RequestsMapped DEF RequestIn, CommandStatus
<1>2. branches[r] = RD!Branch(b.head, b.remote, b.opened)
  BY BranchesMapped
<1>3. ASSUME NEW h, NEW m, NEW o, git'[r].head = h, git'[r].remote = m, git'[r].opened = o
      PROVE  branches' = [branches EXCEPT ![r] = RD!Branch(h, m, o)]
  <2>1. \A q \in Runs : q # r => git'[q] = git[q]
    BY <1>0 DEF Effect, Operations, GitOK
  <2> QED BY <1>3, <2>1, BranchesMapped
<1>4. CASE op = "git_commit"
  <2>1. git'[r] = [b EXCEPT !.head = b.head + 1, !.dirty = FALSE] /\ b.dirty
    BY <1>0, <1>4 DEF Effect, CanHappen, GitOK
  <2>2. b.head = 0 /\ b.remote = 0 /\ b.opened = 0
    BY <1>0, <2>1 DEF BranchOK
  <2>3. git'[r].head = 1 /\ git'[r].remote = 0 /\ git'[r].opened = 0
    BY <1>0, <2>1, <2>2
  <2>4. RD!Commit(r)
    BY <1>1, <1>2, <1>3, <2>2, <2>3 DEF RD!Commit, RD!Grow
  <2> QED BY <2>4 DEF RD!Next
<1>5. CASE op = "git_push"
  <2>1. git'[r] = [b EXCEPT !.remote = b.head]
    BY <1>0, <1>5 DEF Effect, GitOK
  <2>2. git'[r].head = b.head /\ git'[r].remote = b.head /\ git'[r].opened = b.opened
    BY <1>0, <2>1
  <2>3. CASE b.remote = b.head
    <3>1. branches' = [branches EXCEPT ![r] = branches[r]]
      BY <1>2, <1>3, <2>2, <2>3
    <3>2. branches' = branches
      BY <3>1, BranchesMapped
    <3> QED BY <1>1, <3>2 DEF RD!vars
  <2>4. CASE b.remote # b.head
    <3>1. b.head = 1 /\ b.remote = 0 /\ b.opened = 0
      BY <1>0, <2>4 DEF BranchOK
    <3>2. RD!Push(r)
      BY <1>1, <1>2, <1>3, <2>2, <3>1 DEF RD!Push, RD!Grow
    <3> QED BY <3>2 DEF RD!Next
  <2> QED BY <2>3, <2>4
<1>6. CASE op = "create_pr"
  <2>1. git'[r] = [b EXCEPT !.opened = b.opened + 1] /\ b.remote > 0 /\ b.opened = 0
    BY <1>0, <1>6 DEF Effect, CanHappen, GitOK
  <2>2. b.head = 1 /\ b.remote = 1
    BY <1>0, <2>1 DEF BranchOK
  <2>3. git'[r].head = 1 /\ git'[r].remote = 1 /\ git'[r].opened = 1
    BY <1>0, <2>1, <2>2
  <2>4. RD!Open(r)
    BY <1>1, <1>2, <1>3, <2>1, <2>2, <2>3 DEF RD!Open, RD!Grow
  <2> QED BY <2>4 DEF RD!Next
<1> QED BY <1>4, <1>5, <1>6 DEF Operations

LEMMA LoopDelivers ==
  ASSUME DeliveryInv, NEW w \in Workers,
         Start(w) \/ Claim(w) \/ Process(w) \/ \E c \in Runs : Renew(w, c)
  PROVE  [RD!Next]_RD!vars
<1>0. CommandsOK(cmd)
  BY TypeParts DEF DeliveryInv
<1>1. CASE Start(w)
  BY <1>1, Hidden DEF Start
<1>2. CASE Claim(w)
  BY <1>0, <1>2, ClaimGivesUp
<1>3. ASSUME NEW s \in Stops, ProcessStop(w, s)
      PROVE  UNCHANGED RD!vars
  BY <1>0, <1>3, Apart, SettleWrites, OtherHidden DEF ProcessStop
<1>4. ASSUME NEW k \in Checks, BeginCheck(w, k)
      PROVE  UNCHANGED RD!vars
  BY <1>4, Hidden DEF BeginCheck
<1>5. ASSUME NEW r \in Runs, RefuseDelivery(w, r)
      PROVE  [RD!Next]_RD!vars
  BY <1>0, <1>5, FailureGivesUp DEF RefuseDelivery
<1>6. ASSUME NEW r \in Runs, BeginDelivery(w, r)
      PROVE  UNCHANGED RD!vars
  BY <1>6, Hidden DEF BeginDelivery
<1>7. ASSUME NEW c \in Runs, Renew(w, c)
      PROVE  UNCHANGED RD!vars
  <2>1. Only(c) /\ cmd'[c].status = cmd[c].status
    BY <1>0, <1>7, Apart, LeaseWrites DEF Renew, Holds
  <2> QED BY <1>7, <2>1, Apart, Hidden DEF Renew, Only
<1> QED BY <1>1, <1>2, <1>3, <1>4, <1>5, <1>6, <1>7 DEF Process

LEMMA CommitDelivers ==
  ASSUME DeliveryInv, NEW w \in Workers, CommitPassed(w), StillMine(w)
  PROVE  RD!Next
<1> DEFINE r == worker[w].task.cmd
<1>0. CommandsOK(cmd) /\ WorkersOK(worker) /\ DeliverySafe
  BY TypeParts DEF DeliveryInv
<1>1. r \in Runs
  BY <1>0, AtDelivers DEF CommitPassed, Steps, Delivering
<1>2. /\ run' = [run EXCEPT ![r] = "pr_created"] /\ cmd' = Completed(r)
      /\ run[r] = "ready_for_pr" /\ cmd[r].status = "claimed" /\ git' = git
  BY DEF CommitPassed, StillMine, CompleteIfHeld, Holds
<1>3. cmd'[r].status = "completed" /\ \A q \in Runs : q # r => cmd'[q] = cmd[q]
  BY <1>0, <1>1, <1>2, Apart DEF Completed, CommandsOK, Command
<1>4. git[r].head = 1 /\ git[r].remote = 1 /\ git[r].opened = 1
  <2>1. worker[w].task.op = "create_pr" /\ worker[w].task.step = "passed"
    BY <1>0 DEF CommitPassed, At, WorkersOK, TaskFits
  <2> QED BY <1>0, <1>1, <2>1
          DEF DeliverySafe, ExecutorsKnow, BranchesOK, Knows, Reached, BranchOK
<1>5. requests[r] = "asked" /\ requests' = [requests EXCEPT ![r] = "completed"]
  BY <1>1, <1>2, <1>3, RequestsMapped DEF RequestIn
<1>6. branches[r] = RD!Branch(1, 1, 1) /\ branches' = branches
  BY <1>1, <1>2, <1>4, BranchesMapped
<1>7. RD!Deliver(r)
  BY <1>2, <1>5, <1>6 DEF RD!Deliver
<1> QED BY <1>1, <1>7 DEF RD!Next

LEMMA ExecutorDelivers ==
  ASSUME RefineInv, NEW w \in Workers, Execute(w)
  PROVE  [RD!Next]_RD!vars
<1> DEFINE t == worker[w].task
<1>0. CommandsOK(cmd) /\ WorkersOK(worker) /\ DeliveryInv /\ OnlyAsked
  BY TypeParts DEF RefineInv, DeliveryInv
<1>1. CASE DoOperation(w)
  <2>1. CASE UNCHANGED git
    BY <1>1, <2>1, Hidden DEF DoOperation
  <2>2. CASE CanHappen(t.cmd, t.op) /\ git' = Effect(t.cmd, t.op)
    <3>1. t.cmd \in Runs /\ t.op \in Operations
      BY <1>0, <1>1, AtDelivers DEF DoOperation, Steps, Delivering
    <3>2. cmd[t.cmd].status # "absent"
      BY <1>0, <3>1 DEF OnlyAsked, Names
    <3> QED BY <1>0, <1>1, <2>2, <3>1, <3>2, EffectDelivers DEF DoOperation
  <2> QED BY <1>1, <2>1, <2>2 DEF DoOperation
<1>2. CASE CommitPassed(w) /\ StillMine(w)
  BY <1>0, <1>2, CommitDelivers
<1>3. CASE CommitPassed(w) /\ ~StillMine(w)
  BY <1>3, Hidden DEF CommitPassed
<1>4. CASE CommitFailed(w)
  <2>1. t.cmd \in Runs
    BY <1>0, <1>4, AtDelivers DEF CommitFailed, Steps, Delivering
  <2> QED BY <1>0, <1>4, <2>1, FailureGivesUp DEF CommitFailed
<1>5. CASE EndCheck(w)
  <2>1. t.cmd \in Checks
    BY <1>0, <1>5 DEF EndCheck, At, WorkersOK, TaskFits
  <2>2. Only(t.cmd)
    BY <1>0, <1>5, <2>1, Apart, SettleWrites DEF EndCheck
  <2> QED BY <1>5, <2>1, <2>2, OtherHidden DEF EndCheck
<1>6. CASE UNCHANGED <<cmd, run, git>>
  BY <1>6, Hidden
<1> QED BY <1>1, <1>2, <1>3, <1>4, <1>5, <1>6
        DEF Execute, Look, Prepare, Reconcile, RecordPending, FindPullRequest,
            RecordCompleted, RecordFailed, LeaveToLease

LEMMA EnvironmentDelivers ==
  ASSUME RefineInv, Environment
  PROVE  [RD!Next]_RD!vars
<1>0. CommandsOK(cmd) /\ DeliveryInv /\ TypeOK /\ OnlyAsked
  BY TypeParts DEF RefineInv, DeliveryInv
<1>1. ASSUME NEW c \in Commands, Lapse(c)
      PROVE  UNCHANGED RD!vars
  <2>1. Only(c) /\ cmd'[c].status = cmd[c].status
    BY <1>0, <1>1, LeaseWrites DEF Lapse
  <2> QED BY <1>1, <2>1, Apart, Hidden DEF Lapse, Only
<1>2. ASSUME NEW e \in stray, Land(e)
      PROVE  [RD!Next]_RD!vars
  <2>1. e[1] \in Runs /\ e[2] \in Operations
    BY <1>0 DEF TypeOK
  <2>2. cmd[e[1]].status # "absent"
    BY <1>0, <2>1 DEF OnlyAsked
  <2>3. CASE UNCHANGED git
    BY <1>2, <2>3, Hidden DEF Land
  <2>4. CASE CanHappen(e[1], e[2]) /\ git' = Effect(e[1], e[2])
    BY <1>0, <1>2, <2>1, <2>2, <2>4, EffectDelivers DEF Land
  <2> QED BY <1>2, <2>3, <2>4 DEF Land
<1>3. CASE UNCHANGED <<cmd, run, git>>
  BY <1>3, Hidden
<1> QED BY <1>1, <1>2, <1>3 DEF Environment, Shutdown, Exit, Crash, HeartbeatAges, CommitThrows

LEMMA StepDelivers ==
  ASSUME RefineInv, [Next]_vars
  PROVE  [RD!Next]_RD!vars
<1>1. CASE UNCHANGED vars
  BY <1>1, Hidden DEF vars
<1>2. CASE Next
  BY <1>2, OperatorDelivers, EnvironmentDelivers, LoopDelivers, ExecutorDelivers
     DEF Next, RefineInv
<1> QED BY <1>1, <1>2

(* No command is deleted: the abstract step says so. *)
LEMMA RequestsStay ==
  ASSUME TypeOK, TypeOK', [RD!Next]_RD!vars, NEW r \in Runs, cmd[r].status # "absent"
  PROVE  cmd'[r].status # "absent"
<1>1. cmd[r].status \in CommandStatus /\ cmd'[r].status \in CommandStatus
  BY Apart DEF TypeOK, Command
<1>2. requests[r] # "none"
  BY <1>1, RequestsMapped DEF RequestIn, CommandStatus
<1>3. requests'[r] # "none"
  <2>1. requests \in [Runs -> {"none", "asked", "failed", "completed"}]
    BY Apart, RequestsMapped DEF RequestIn, TypeOK, Command, CommandStatus
  <2> QED BY <1>2, <2>1
          DEF RD!Next, RD!vars, RD!Ask, RD!GiveUp, RD!Abandon, RD!Grow, RD!Commit, RD!Push,
              RD!Open, RD!Deliver
<1>4. requests'[r] = RequestIn(cmd'[r].status)
  BY RequestsMapped
<1> QED BY <1>1, <1>3, <1>4 DEF RequestIn

(* A step of worker w after which it names no run it did not name before,   *)
(* or only runs that have a command, and leaves behind only what it named.  *)
LEMMA AskedStays ==
  ASSUME OnlyAsked, \A r \in Runs : cmd[r].status # "absent" => cmd'[r].status # "absent",
         NEW w \in Workers, \A v \in Workers : v # w => worker'[v] = worker[v],
         \A r \in Runs : Names(w, r)' => Names(w, r) \/ cmd[r].status # "absent",
         \A e \in stray' : e \in stray \/ e[1] = worker[w].task.cmd
  PROVE  OnlyAsked'
<1> SUFFICES ASSUME NEW r \in Runs,
                    (\E v \in Workers : Names(v, r)') \/ (\E e \in stray' : e[1] = r)
             PROVE  cmd[r].status # "absent"
  BY DEF OnlyAsked
<1>1. ASSUME NEW v \in Workers, Names(v, r)'
      PROVE  cmd[r].status # "absent"
  <2>1. CASE v = w
    BY <1>1, <2>1 DEF OnlyAsked
  <2>2. CASE v # w
    BY <1>1, <2>2 DEF OnlyAsked, Names
  <2> QED BY <2>1, <2>2
<1>2. ASSUME NEW e \in stray', e[1] = r
      PROVE  cmd[r].status # "absent"
  BY <1>2 DEF OnlyAsked, Names
<1> QED BY <1>1, <1>2

(* The worker keeps its batch and the run of its task, or loses them, or    *)
(* takes up a run of its batch.                                             *)
SameOrLess(w) ==
  /\ \A v \in Workers : v # w => worker'[v] = worker[v]
  /\ worker'[w].batch \subseteq worker[w].batch
  /\ \/ worker'[w].task.cmd = worker[w].task.cmd
     \/ worker'[w].task.cmd \notin Runs
     \/ worker'[w].task.cmd \in worker[w].batch

LEMMA LessNamed ==
  ASSUME OnlyAsked, \A r \in Runs : cmd[r].status # "absent" => cmd'[r].status # "absent",
         NEW w \in Workers, SameOrLess(w), stray' \subseteq stray \cup LeftBehind(w)
  PROVE  OnlyAsked'
<1>1. \A r \in Runs : Names(w, r)' => Names(w, r) \/ cmd[r].status # "absent"
  BY DEF Names, SameOrLess
<1>2. \A e \in stray' : e \in stray \/ e[1] = worker[w].task.cmd
  BY DEF LeftBehind
<1> QED BY <1>1, <1>2, AskedStays DEF SameOrLess

LEMMA OnlyAskedStep ==
  ASSUME RefineInv, TypeOK', [Next]_vars
  PROVE  OnlyAsked'
<1>0. /\ WorkersOK(worker) /\ OnlyAsked /\ TypeOK
      /\ \A w \in Workers : worker[w] \in Worker /\ worker[w].task \in Task
      /\ worker \in [Workers -> Worker]
  BY TypeParts DEF RefineInv, DeliveryInv, WorkersOK, Worker
<1>1. \A r \in Runs : cmd[r].status # "absent" => cmd'[r].status # "absent"
  BY <1>0, StepDelivers, RequestsStay
<1>2. ASSUME UNCHANGED worker, stray' \subseteq stray
      PROVE  OnlyAsked'
  BY <1>0, <1>1, <1>2 DEF OnlyAsked, Names
<1>3. ASSUME NEW w \in Workers, NEW x, worker' = [worker EXCEPT ![w] = x],
             stray' \subseteq stray \cup LeftBehind(w), x.batch \subseteq worker[w].batch,
             \/ x.task.cmd = worker[w].task.cmd
             \/ x.task.cmd \notin Runs
             \/ x.task.cmd \in worker[w].batch
      PROVE  OnlyAsked'
  BY <1>0, <1>1, <1>3, LessNamed DEF SameOrLess
<1>4. AtRest.cmd = NoCommand /\ NoCommand \notin Runs
  BY Apart DEF AtRest
<1>5. ASSUME NEW w \in Workers, Start(w)
      PROVE  OnlyAsked'
  <2>1. worker' = [worker EXCEPT ![w] = [worker[w] EXCEPT !.mode = "up", !.fresh = TRUE]]
    BY <1>5 DEF Start
  <2> QED BY <1>0, <1>3, <1>5, <2>1 DEF Start, Worker
<1>6. ASSUME NEW w \in Workers, Claim(w)
      PROVE  OnlyAsked'
  <2>1. /\ worker'[w].batch = Claimable(w) /\ worker'[w].task = worker[w].task
        /\ \A v \in Workers : v # w => worker'[v] = worker[v]
    BY <1>0, <1>6 DEF Claim, Worker
  <2>2. \A r \in Runs : Names(w, r)' => Names(w, r) \/ cmd[r].status # "absent"
    BY <2>1 DEF Names, Claimable
  <2> QED BY <1>0, <1>1, <1>6, <2>1, <2>2, AskedStays DEF Claim
<1>7. ASSUME NEW w \in Workers, Process(w)
      PROVE  OnlyAsked'
  <2>1. ASSUME NEW c, NEW t, stray' = stray, t.cmd = worker[w].task.cmd \/ t.cmd \notin Runs
                                            \/ t.cmd \in worker[w].batch,
               worker' = [worker EXCEPT ![w].batch = @ \ {c}, ![w].task = t]
        PROVE  OnlyAsked'
    <3> DEFINE x == [worker[w] EXCEPT !.batch = @ \ {c}, !.task = t]
    <3>1. x.batch = worker[w].batch \ {c} /\ x.task = t
      BY <1>0 DEF Worker
    <3>2. worker' = [worker EXCEPT ![w] = x]
      BY <1>0, <2>1
    <3> HIDE DEF x
    <3> QED BY <1>3, <2>1, <3>1, <3>2
  <2>2. ASSUME NEW c, stray' = stray, worker' = [worker EXCEPT ![w].batch = @ \ {c}]
        PROVE  OnlyAsked'
    <3>1. worker' = [worker EXCEPT ![w].batch = @ \ {c}, ![w].task = worker[w].task]
      BY <1>0, <2>2 DEF Worker
    <3> QED BY <2>1, <2>2, <3>1
  <2>3. ASSUME NEW k \in Checks, BeginCheck(w, k)
        PROVE  OnlyAsked'
    <3>1. [AtRest EXCEPT !.step = "check", !.cmd = k].cmd = k
      BY DEF AtRest
    <3> QED BY <2>1, <2>3, <3>1, Apart DEF BeginCheck
  <2>4. ASSUME NEW r \in Runs, BeginDelivery(w, r)
        PROVE  OnlyAsked'
    <3>1. \A s : [AtRest EXCEPT !.step = s, !.cmd = r, !.op = "git_commit"].cmd = r
      BY DEF AtRest
    <3>2. PICK s \in {"look", "thrown"} :
            worker' = [worker EXCEPT
              ![w].batch = @ \ {r},
              ![w].task = [AtRest EXCEPT !.step = s, !.cmd = r, !.op = "git_commit"]]
      BY <2>4 DEF BeginDelivery
    <3> DEFINE t == [AtRest EXCEPT !.step = s, !.cmd = r, !.op = "git_commit"]
    <3>3. t.cmd = r /\ worker' = [worker EXCEPT ![w].batch = @ \ {r}, ![w].task = t]
      BY <3>1, <3>2
    <3>4. r \in worker[w].batch /\ stray' = stray
      BY <2>4 DEF BeginDelivery
    <3> HIDE DEF t
    <3> QED BY <2>1, <3>3, <3>4
  <2> QED BY <1>7, <2>2, <2>3, <2>4 DEF Process, ProcessStop, RefuseDelivery
<1>8. ASSUME NEW w \in Workers, stray' = stray, Rest(w)
      PROVE  OnlyAsked'
  <2>1. worker' = [worker EXCEPT ![w] = [worker[w] EXCEPT !.task = AtRest]]
    BY <1>8 DEF Rest
  <2> QED BY <1>0, <1>3, <1>4, <1>8, <2>1 DEF Worker
<1>9. ASSUME NEW w \in Workers, NEW s, NEW o, NEW p, stray' = stray,
             worker' = [worker EXCEPT ![w].task.step = s, ![w].task.op = o, ![w].task.pre = p]
      PROVE  OnlyAsked'
  <2> DEFINE x == [worker[w] EXCEPT !.task = [worker[w].task EXCEPT !.step = s, !.op = o, !.pre = p]]
  <2>1. worker' = [worker EXCEPT ![w] = x]
    BY <1>0, <1>9
  <2>2. x.batch = worker[w].batch /\ x.task.cmd = worker[w].task.cmd
    BY <1>0 DEF Worker, Task
  <2> HIDE DEF x
  <2> QED BY <1>3, <1>9, <2>1, <2>2
<1>10. ASSUME NEW w \in Workers, NEW s, stray' = stray,
              \/ GoTo(w, s)
              \/ \E p : worker' = [worker EXCEPT ![w].task.step = s, ![w].task.pre = p]
       PROVE  OnlyAsked'
  <2>1. ASSUME NEW p, worker' = [worker EXCEPT ![w].task.step = s, ![w].task.pre = p]
        PROVE  SameOrLess(w)
    BY <1>0, <2>1 DEF Worker, Task, SameOrLess
  <2>2. GoTo(w, s) => SameOrLess(w)
    BY <1>0 DEF GoTo, Worker, Task, SameOrLess
  <2>3. SameOrLess(w)
    BY <1>10, <2>1, <2>2
  <2> QED BY <1>0, <1>1, <1>10, <2>3, LessNamed
<1>11. ASSUME NEW w \in Workers, stray' = stray, Advance(w)
       PROVE  OnlyAsked'
  BY <1>9, <1>10, <1>11 DEF Advance
<1>12. ASSUME NEW w \in Workers, Execute(w)
       PROVE  OnlyAsked'
  BY <1>8, <1>10, <1>11, <1>12
     DEF Execute, Look, Prepare, Reconcile, RecordPending, FindPullRequest, DoOperation,
         RecordCompleted, RecordFailed, LeaveToLease, CommitPassed, CommitFailed, EndCheck
<1>13. CASE Operator
  BY <1>2, <1>13 DEF Operator, RequestDelivery, Abandon, RequestStop, RequestCheck
<1>14. ASSUME NEW w \in Workers, Exit(w) \/ Crash(w)
       PROVE  OnlyAsked'
  <2>1. \A b : Gone(b).batch = {} /\ Gone(b).task = AtRest
    BY DEF Gone
  <2> QED BY <1>3, <1>4, <1>14, <2>1 DEF Exit, Crash
<1>15. ASSUME NEW w \in Workers, HeartbeatAges(w)
       PROVE  OnlyAsked'
  <2>1. worker' = [worker EXCEPT ![w] = [worker[w] EXCEPT !.fresh = FALSE]]
    BY <1>15 DEF HeartbeatAges
  <2> QED BY <1>0, <1>3, <1>15, <2>1 DEF HeartbeatAges, Worker
<1>16. ASSUME NEW w \in Workers, CommitThrows(w)
       PROVE  OnlyAsked'
  <2>1. worker' = [worker EXCEPT ![w] = [worker[w] EXCEPT !.batch = {}, !.task = AtRest]]
    BY <1>0, <1>16 DEF CommitThrows
  <2> QED BY <1>0, <1>3, <1>4, <1>16, <2>1 DEF CommitThrows, Worker
<1>17. ASSUME NEW w \in Workers, Shutdown(w)
       PROVE  OnlyAsked'
  <2> DEFINE x == [worker[w] EXCEPT !.mode = "stopping",
                     !.task = [worker[w].task EXCEPT !.aborted = (worker[w].task.cmd \in Runs)]]
  <2>1. worker' = [worker EXCEPT ![w] = x]
    BY <1>0, <1>17 DEF Shutdown
  <2>2. x.batch = worker[w].batch /\ x.task.cmd = worker[w].task.cmd
    BY <1>0 DEF Worker, Task
  <2> HIDE DEF x
  <2> QED BY <1>3, <1>17, <2>1, <2>2 DEF Shutdown
<1>18. CASE Environment
  BY <1>2, <1>14, <1>15, <1>16, <1>17, <1>18 DEF Environment, Lapse, Land
<1>19. CASE UNCHANGED vars
  BY <1>2, <1>19 DEF vars
<1>20. CASE Next
  <2>1. \A w \in Workers : ~ \E c \in Runs : Renew(w, c) /\ ~OnlyAsked'
    BY <1>2 DEF Renew
  <2> QED BY <1>5, <1>6, <1>7, <1>12, <1>13, <1>18, <1>20, <2>1 DEF Next
<1> QED BY <1>19, <1>20

LEMMA RefineInit ==
  ASSUME Init
  PROVE  RefineInv /\ RD!Init
<1>1. OnlyAsked
  BY AtRestFits, Apart DEF Init, NotStarted, OnlyAsked, Names
<1>2. \A r \in Runs : requests[r] = "none"
  BY Apart, RequestsMapped DEF Init, Absent, RequestIn
<1>3. \A r \in Runs : branches[r] = RD!Branch(0, 0, 0)
  BY BranchesMapped DEF Init, Reviewed
<1>4. RD!Init
  BY <1>2, <1>3, RequestsMapped, BranchesMapped DEF Init, RD!Init
<1> QED BY <1>1, <1>4, InitSafe DEF RefineInv

(***************************************************************************)
(* Delivery implements RunDelivery: whatever crashes, late executors,      *)
(* retries, stray effects and lost leases do, the branch of a run gets its *)
(* commit, its push and its pull request once each, in this order and only *)
(* on request, and the run and its request end together after all three.   *)
(***************************************************************************)
THEOREM DeliveryImplementsRunDelivery == Spec => ImplementsRunDelivery
<1>1. Init => RefineInv /\ RD!Init
  BY RefineInit
<1>2. RefineInv /\ [Next]_vars => RefineInv' /\ [RD!Next]_RD!vars
  BY StepDelivers, DeliveryStep, OnlyAskedStep DEF RefineInv, DeliveryInv
<1> QED BY <1>1, <1>2, PTL DEF Spec, ImplementsRunDelivery, RD!Spec
=============================================================================
