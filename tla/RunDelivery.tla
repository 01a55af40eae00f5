---------------------------- MODULE RunDelivery ----------------------------
(***************************************************************************)
(* What the delivery of a run promises, with commands' owners and leases,  *)
(* workers, the ledger and its retries left out: a reviewed run is asked   *)
(* for, its branch is committed, pushed and opened as a pull request, in   *)
(* this order, each at most once and never before somebody asked, and the  *)
(* run and the request end together, with the pull request open.           *)
(*                                                                         *)
(* The operator may abandon the run at any time before, and a request may  *)
(* be given up at any time; neither takes back what is on the branch, nor  *)
(* what is on its way there.                                               *)
(***************************************************************************)
EXTENDS Naturals

CONSTANT Runs   (* run ids                                                 *)

VARIABLES
  run,          (* the run waits for its pull request, has it, or failed   *)
  request,      (* the request for its delivery                            *)
  branch        (* its delivery commits, and what of them is published     *)

vars == <<run, request, branch>>

(* Delivery commits of the branch and of its remote, and its pull requests. *)
Branch(commits, pushed, pulls) ==
  [commits |-> commits, pushed |-> pushed, pulls |-> pulls]

Init ==
  /\ run = [r \in Runs |-> "ready_for_pr"]
  /\ request = [r \in Runs |-> "none"]
  /\ branch = [r \in Runs |-> Branch(0, 0, 0)]

Ask(r) ==
  /\ run[r] = "ready_for_pr"
  /\ request[r] \in {"none", "failed"}
  /\ request' = [request EXCEPT ![r] = "asked"]
  /\ UNCHANGED <<run, branch>>

(* One statement gives up every request that has spent its attempts.        *)
GiveUp(R) ==
  /\ \A r \in R : request[r] = "asked"
  /\ request' = [r \in Runs |-> IF r \in R THEN "failed" ELSE request[r]]
  /\ UNCHANGED <<run, branch>>

Abandon(r) ==
  /\ run[r] = "ready_for_pr"
  /\ run' = [run EXCEPT ![r] = "failed"]
  /\ UNCHANGED <<request, branch>>

Grow(r, from, to) ==
  /\ request[r] # "none"
  /\ branch[r] = from
  /\ branch' = [branch EXCEPT ![r] = to]
  /\ UNCHANGED <<run, request>>

Commit(r) == Grow(r, Branch(0, 0, 0), Branch(1, 0, 0))
Push(r)   == Grow(r, Branch(1, 0, 0), Branch(1, 1, 0))
Open(r)   == Grow(r, Branch(1, 1, 0), Branch(1, 1, 1))

Deliver(r) ==
  /\ run[r] = "ready_for_pr" /\ request[r] = "asked"
  /\ branch[r] = Branch(1, 1, 1)
  /\ run' = [run EXCEPT ![r] = "pr_created"]
  /\ request' = [request EXCEPT ![r] = "completed"]
  /\ UNCHANGED branch

Next ==
  \/ \E r \in Runs : \/ Ask(r) \/ Abandon(r) \/ Deliver(r)
                     \/ Commit(r) \/ Push(r) \/ Open(r)
  \/ \E R \in SUBSET Runs : GiveUp(R)

Spec == Init /\ [][Next]_vars
=============================================================================
