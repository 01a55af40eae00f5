----------------------------- MODULE RunPolicy -----------------------------
(***************************************************************************)
(* The tables every part of X-Factory that touches a run consults: the run *)
(* statuses and the moves between them (src/shared/run-status-policy.ts),  *)
(* and the routes that say which status and which job follow a stage's     *)
(* outcome or an operator's action (src/workflow.ts).  Pure data: no       *)
(* constants, no variables.                                                *)
(***************************************************************************)

(***************************************************************************)
(* From each status, the statuses a run may move to.                       *)
(***************************************************************************)
TRANSITIONS ==
  [ queued        |-> {"preparing", "failed", "stopped", "recovery_required"},
    preparing     |-> {"understanding", "failed", "stopped", "recovery_required"},
    understanding |-> {"awaiting_understanding_approval", "planning", "failed",
                       "stopped", "recovery_required"},
    awaiting_understanding_approval
                  |-> {"planning", "understanding", "failed", "stopped"},
    planning      |-> {"awaiting_plan_approval", "failed", "stopped",
                       "recovery_required"},
    awaiting_plan_approval
                  |-> {"executing", "understanding", "failed", "stopped"},
    executing     |-> {"awaiting_review", "failed", "stopped",
                       "recovery_required", "review_retry_required"},
    review_retry_required
                  |-> {"executing", "failed", "stopped"},
    awaiting_review
                  |-> {"ready_for_pr", "planning", "understanding", "failed",
                       "stopped", "recovery_required"},
    ready_for_pr  |-> {"pr_created", "failed", "stopped"},
    recovery_required
                  |-> {"preparing", "understanding", "planning", "executing",
                       "ready_for_pr", "failed", "stopped"},
    pr_created    |-> {},
    failed        |-> {},
    stopped       |-> {} ]

RunStatus == DOMAIN TRANSITIONS

canTransition(from, to) == to \in TRANSITIONS[from]

(***************************************************************************)
(* A job of the run may be claimed only in these statuses.                 *)
(***************************************************************************)
EXECUTABLE == {"queued", "preparing", "understanding", "planning", "executing"}

TERMINAL == {"pr_created", "failed", "stopped"}

AWAITING_HUMAN == {"awaiting_understanding_approval", "awaiting_plan_approval",
                   "awaiting_review", "ready_for_pr", "review_retry_required"}

STOPPABLE == {"queued", "preparing", "understanding",
              "awaiting_understanding_approval", "planning",
              "awaiting_plan_approval", "executing", "awaiting_review",
              "review_retry_required"}

(***************************************************************************)
(* The stages that run as jobs.  Delivery is a stage too, but it runs as   *)
(* the deliver command of module RunCommands.                              *)
(***************************************************************************)
JobStage == {"prepare", "understand", "plan", "execute", "review"}

(***************************************************************************)
(* The status a passed stage moves its run to, and the stage enqueued for  *)
(* it ("none": the run waits for a human).                                 *)
(***************************************************************************)
PASSED_ROUTES ==
  [ prepare    |-> [to |-> "understanding", next |-> "understand"],
    understand |-> [to |-> "awaiting_understanding_approval", next |-> "none"],
    plan       |-> [to |-> "awaiting_plan_approval", next |-> "none"],
    execute    |-> [to |-> "awaiting_review", next |-> "none"],
    review     |-> [to |-> "awaiting_review", next |-> "none"] ]

(***************************************************************************)
(* Where a recovered run re-enters the workflow, by the stage of its last  *)
(* recorded attempt; "none" when no attempt was ever recorded.  A review   *)
(* is work inside execute, so it resumes there.                            *)
(***************************************************************************)
RESUME_ROUTES ==
  [ none       |-> [to |-> "preparing", next |-> "prepare"],
    prepare    |-> [to |-> "preparing", next |-> "prepare"],
    understand |-> [to |-> "understanding", next |-> "understand"],
    plan       |-> [to |-> "planning", next |-> "plan"],
    execute    |-> [to |-> "executing", next |-> "execute"],
    review     |-> [to |-> "executing", next |-> "execute"] ]

APPROVE_ROUTES ==
  [ awaiting_understanding_approval |-> [to |-> "planning", next |-> "plan"],
    awaiting_plan_approval          |-> [to |-> "executing", next |-> "execute"],
    awaiting_review                 |-> [to |-> "ready_for_pr", next |-> "none"] ]

RESTARTABLE == {"awaiting_understanding_approval", "awaiting_plan_approval"}

(***************************************************************************)
(* What an executor can return for each stage.  "error" is retried while   *)
(* attempts are left, "fatal" is an error marked retryable: false.  Only   *)
(* stages that call a model can be paused for its budget; only those that  *)
(* judge code can reject it or hold the review.                            *)
(***************************************************************************)
Outcomes(stage) ==
  CASE stage = "prepare" -> {"passed", "error", "fatal"}
    [] stage \in {"understand", "plan"} -> {"passed", "error", "fatal", "paused"}
    [] OTHER -> {"passed", "error", "fatal", "paused", "rejected", "review_retry"}
=============================================================================
