------------------------------ MODULE RunWork ------------------------------
(***************************************************************************)
(* What the queue promises of a run, with jobs, workers and leases left    *)
(* out: a run is in a status, and its work is none, waiting, or taken.     *)
(* Work exists only while the run's status says so, only taken work moves  *)
(* the run along the workflow, and everything else that moves it is an     *)
(* operator's decision on a run at rest, its end, or the recovery of a run *)
(* that lost its work.                                                     *)
(***************************************************************************)
EXTENDS RunPolicy

CONSTANTS
  Runs,         (* run ids                                                 *)
  ImportStatus  (* the statuses a run may be imported in, without work     *)

VARIABLES status, work

vars == <<status, work>>

Init ==
  /\ status = [r \in Runs |-> "absent"]
  /\ work = [r \in Runs |-> "none"]

AtRest(r) == status[r] \in AWAITING_HUMAN \cup {"recovery_required"}

(* Work for a run that has moved to this status: waiting, if a job can run in it. *)
WorkIn(to) == IF to \in EXECUTABLE THEN "pending" ELSE "none"

Becomes(r, to, w) ==
  /\ status' = [status EXCEPT ![r] = to]
  /\ work' = [work EXCEPT ![r] = w]

(* The run moves along the policy's table, and its work with it. *)
MovesTo(r, to) ==
  /\ canTransition(status[r], to)
  /\ Becomes(r, to, WorkIn(to))

Appear(r) ==
  /\ status[r] = "absent"
  /\ \/ Becomes(r, "preparing", "pending")
     \/ \E s \in ImportStatus : Becomes(r, s, "none")

Decide(r) == AtRest(r) /\ work[r] = "none" /\ \E to \in RunStatus : MovesTo(r, to)

End(r) == status[r] \in RunStatus /\ \E to \in {"stopped", "failed"} : MovesTo(r, to)

Take(r) == work[r] = "pending" /\ Becomes(r, status[r], "claimed")

GiveBack(r) == work[r] = "claimed" /\ Becomes(r, status[r], "pending")

Advance(r) == work[r] = "claimed" /\ \E to \in RunStatus : MovesTo(r, to)

Recover(r) == work[r] = "none" /\ status[r] \in EXECUTABLE /\ MovesTo(r, "recovery_required")

Next ==
  \E r \in Runs : \/ Appear(r) \/ Decide(r) \/ End(r)
                  \/ Take(r) \/ GiveBack(r) \/ Advance(r) \/ Recover(r)

Spec == Init /\ [][Next]_vars

(***************************************************************************)
(* Work is waiting or taken only in a status that can execute it: what the *)
(* queue holds and what the run says never contradict each other.          *)
(***************************************************************************)
WorkOnlyWhileExecutable ==
  \A r \in Runs : work[r] # "none" => status[r] \in EXECUTABLE
=============================================================================
