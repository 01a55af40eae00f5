----------------------------- MODULE RunCommands -----------------------------
(***************************************************************************)
(* The run_commands table: what the API process asks of the workers.  A    *)
(* run has one deliver command, under the key deliver:<run>, and is itself *)
(* the name of that command here.  A stop command goes to the worker whose *)
(* job it interrupts and to no other; its key is stop:<run>, so a run has  *)
(* one at most.  A check_pr command asks for a look at the pull request of *)
(* a delivered run; it has no key, and a run has one active at most, so    *)
(* one name stands for each such run's latest.                             *)
(*                                                                         *)
(* The operators are the statements of the repository: what the table is   *)
(* after each.  When and by whom they are issued is in module Delivery.    *)
(* lapsed stands for lease_until < now.                                    *)
(***************************************************************************)
EXTENDS Naturals

CONSTANTS
  Runs,         (* run ids, and so deliver commands                        *)
  Stops,        (* stop commands                                           *)
  Checks,       (* check_pr commands                                       *)
  Workers,      (* worker ids: one per lifetime of a worker process        *)
  MaxAttempts,  (* run_commands.max_attempts                               *)
  NoWorker

ASSUME CommandsAssumption ==
  /\ Runs \cap Stops = {} /\ Runs \cap Checks = {} /\ Stops \cap Checks = {}
  /\ MaxAttempts \in Nat \ {0}
  /\ NoWorker \notin Workers

VARIABLE cmd    (* the run_commands table                                  *)

Commands == Runs \cup Stops \cup Checks

CommandStatus == {"absent", "pending", "claimed", "completed", "failed"}

Command == [status : CommandStatus, owner : Workers \cup {NoWorker},
            target : Workers \cup {NoWorker}, lapsed : BOOLEAN,
            attempts : 0..MaxAttempts]

Absent == [status |-> "absent", owner |-> NoWorker, target |-> NoWorker,
           lapsed |-> FALSE, attempts |-> 0]

Pending(target) == [Absent EXCEPT !.status = "pending", !.target = target]

(* insertOrRetryCommand: a command under a key that is taken is returned as  *)
(* it is, unless it failed; then it starts over, for its old target.         *)
InsertOrRetry(c, target) ==
  CASE cmd[c].status = "absent" -> [cmd EXCEPT ![c] = Pending(target)]
    [] cmd[c].status = "failed" -> [cmd EXCEPT ![c] = Pending(cmd[c].target)]
    [] OTHER -> cmd

(* hasActiveCommand                                                           *)
Active(c) == cmd[c].status \in {"pending", "claimed"}

(* The compare-and-set of completeCommand, failCommand and renewLease.        *)
Holds(w, c) == cmd[c].status = "claimed" /\ cmd[c].owner = w

Completed(c) == [cmd EXCEPT ![c].status = "completed", ![c].lapsed = FALSE]

Failed(c) == [cmd EXCEPT ![c].status = "failed", ![c].owner = NoWorker,
                         ![c].lapsed = FALSE]

(* completeCommand and failCommand: nothing happens to a command w lost.      *)
CompleteIfHeld(w, c) == IF Holds(w, c) THEN Completed(c) ELSE cmd
FailIfHeld(w, c)     == IF Holds(w, c) THEN Failed(c) ELSE cmd

(* failExpiredCommands: no attempt is left and the lease has lapsed.          *)
Exhausted == {c \in Commands : /\ cmd[c].status = "claimed"
                               /\ cmd[c].lapsed
                               /\ cmd[c].attempts >= MaxAttempts}

(* The stops that claimPendingCommands completes for a dead worker.           *)
Orphaned(w, dead) == {c \in Stops : /\ cmd[c].status = "pending"
                                    /\ cmd[c].target # w
                                    /\ cmd[c].target \in dead}

(* Mutant of Claimable: a lapsed lease hands nothing back.                     *)
ClaimableFresh(w) == {c \in Commands : /\ cmd[c].status = "pending"
                                       /\ cmd[c].target \in {NoWorker, w}}

(* What w may claim: pending, or handed back by a lapsed lease, and for w.    *)
Claimable(w) == {c \in Commands :
                   /\ \/ cmd[c].status = "pending"
                      \/ /\ cmd[c].status = "claimed"
                         /\ cmd[c].lapsed
                         /\ cmd[c].attempts < MaxAttempts
                   /\ cmd[c].target \in {NoWorker, w}}

(* Mutant of AfterClaim: the claim forgets worker_id.                         *)
AfterClaimUnowned(w, dead) ==
  [c \in Commands |->
     IF c \in Claimable(w) THEN [cmd[c] EXCEPT !.status = "claimed"] ELSE cmd[c]]

(* claimCommands: the three statements, in order; dead is the set of workers  *)
(* whose heartbeat is missing or too old.                                     *)
AfterClaim(w, dead) ==
  [c \in Commands |->
     CASE c \in Exhausted ->
            [cmd[c] EXCEPT !.status = "failed", !.owner = NoWorker, !.lapsed = FALSE]
       [] c \in Orphaned(w, dead) -> [cmd[c] EXCEPT !.status = "completed"]
       [] c \in Claimable(w) ->
            [cmd[c] EXCEPT !.status = "claimed", !.owner = w, !.lapsed = FALSE,
                           !.attempts = @ + 1]
       [] OTHER -> cmd[c]]
=============================================================================
