----------------------------- MODULE AttemptLoop -----------------------------
(***************************************************************************)
(* The attempt loop of the execute stage (attempt-loop.ts): run the loop   *)
(* script, verify, repair, up to MAX_REPAIR_ATTEMPTS times.  The script is *)
(* another process: it announces each iteration on its output and begins   *)
(* it without waiting, while the worker reads the line later and counts it *)
(* against the day's budget, or stops the script there.  The script runs   *)
(* under the gateway (ModelGateway), which runs it again after a 429.      *)
(***************************************************************************)
EXTENDS Naturals, Sequences

CONSTANTS
  MaxRepairAttempts,  \* MAX_REPAIR_ATTEMPTS
  FirstIterations,    \* FIRST_ATTEMPT_ITERATIONS
  RepairIterations,   \* REPAIR_ATTEMPT_ITERATIONS
  CallsPerDay,        \* the model's daily budget
  MaxOtherCalls,      \* bound: calls of other stages meanwhile
  MaxRateLimits       \* bound: how often the gateway's ceiling lets a script rerun

ASSUME LoopAssumption ==
  /\ MaxRepairAttempts \in Nat \ {0}
  /\ FirstIterations \in Nat \ {0} /\ RepairIterations \in Nat \ {0}
  /\ CallsPerDay \in Nat /\ MaxOtherCalls \in Nat /\ MaxRateLimits \in Nat

VARIABLES
  attempt,     \* the number of the attempt, 0 before the first
  step,        \* where runAttemptLoop is
  script,      \* the script's process and what was read of it
  budgetStop,  \* the reader met a spent budget in this attempt
  calls,       \* calls counted today, of this stage and of others
  others,      \* those of other stages
  reruns,      \* reruns after a 429 in this attempt
  stopSignal,  \* the run's stop signal
  result       \* [outcome, failures]: what the loop returned, verifications failed

loopVars == <<attempt, step, script, budgetStop, calls, others, reruns, stopSignal, result>>

Steps == {"next", "gate", "queue", "script", "backoff", "verify", "returned"}
Outcomes == {"none", "verified", "aborted", "failed", "budget_exceeded", "exhausted"}

\* state: between iterations, in one, or how the process ended.
ScriptStates == {"between", "agent", "done", "failed", "rateLimited", "timedOut"}
FreshScript == [state |-> "between", announced |-> 0, read |-> 0, counted |-> 0]

LoopInit ==
  /\ attempt = 0
  /\ step = "next"
  /\ script = FreshScript
  /\ budgetStop = FALSE
  /\ calls = 0
  /\ others = 0
  /\ reruns = 0
  /\ stopSignal = FALSE
  /\ result = [outcome |-> "none", failures |-> 0]

CallsLeft == calls < CallsPerDay

\* The loop's own signal: the stop of the run, or the iteration that found the budget spent.
LoopAborted == stopSignal \/ budgetStop

Return(outcome) ==
  /\ step' = "returned"
  /\ result' = [result EXCEPT !.outcome = outcome]

Iterations == IF attempt = 1 THEN FirstIterations ELSE RepairIterations

-----------------------------------------------------------------------------
(***************************************************************************)
(* The worker: an attempt, through the gateway, to the script.             *)
(***************************************************************************)
\* Mutant of StopsBeforeAttempt: the stop is looked for in a running attempt only.
StopsBeforeAttemptMutant == FALSE
StopsBeforeAttempt == stopSignal

NextAttempt ==
  /\ step = "next"
  /\ IF StopsBeforeAttempt
     THEN Return("aborted") /\ UNCHANGED <<attempt, budgetStop, reruns>>
     ELSE /\ attempt' = attempt + 1
          /\ budgetStop' = FALSE
          /\ reruns' = 0
          /\ step' = "gate"
          /\ result' = result
  /\ UNCHANGED <<script, calls, others, stopSignal>>

\* The gateway's check: a spent budget is the loop's outcome, unless the run is stopped.
GateCheck ==
  /\ step \in {"gate", "backoff"}
  /\ IF CallsLeft /\ ~(step = "backoff" /\ stopSignal)
     THEN /\ step' = IF step = "gate" THEN "queue" ELSE "script"
          /\ result' = result
          /\ script' = FreshScript
     ELSE /\ Return(IF stopSignal THEN "aborted" ELSE "budget_exceeded")
          /\ script' = script
  /\ UNCHANGED <<attempt, budgetStop, calls, others, reruns, stopSignal>>

\* A slot, or the stop while waiting for one.
GateAcquire ==
  /\ step = "queue"
  /\ IF stopSignal
     THEN Return("aborted") /\ script' = script
     ELSE step' = "script" /\ script' = FreshScript /\ result' = result
  /\ UNCHANGED <<attempt, budgetStop, calls, others, reruns, stopSignal>>

-----------------------------------------------------------------------------
(***************************************************************************)
(* The script.                                                             *)
(***************************************************************************)
Running == step = "script" /\ script.state \in {"between", "agent"}

ScriptMoves(to) ==
  /\ script' = [script EXCEPT !.state = to]
  /\ UNCHANGED <<attempt, step, budgetStop, calls, others, reruns, stopSignal, result>>

\* "Iteration i of n", and the agent is called.
Announce ==
  /\ Running /\ script.state = "between"
  /\ script.announced < Iterations
  /\ script' = [script EXCEPT !.state = "agent", !.announced = @ + 1]
  /\ UNCHANGED <<attempt, step, budgetStop, calls, others, reruns, stopSignal, result>>

\* All tasks are ticked (exit 0), or the agent failed (set -e), or there is more to do.
AgentReturns ==
  /\ Running /\ script.state = "agent"
  /\ \E to \in {"done", "between", "failed", "rateLimited"} : ScriptMoves(to)

\* "Maximum iterations reached": exit 1, a 429 in the output or not.
GivesUp ==
  /\ Running /\ script.state = "between"
  /\ script.announced = Iterations
  /\ \E to \in {"failed", "rateLimited"} : ScriptMoves(to)

\* The loop's signal kills the script's process group; so does its timeout.
Killed == Running /\ LoopAborted /\ ScriptMoves("failed")
TimesOut == Running /\ ScriptMoves("timedOut")

\* The worker reads an announced iteration.  The budget is checked before the
\* iteration counts; spent, the script is stopped and later lines are ignored.
ReadIteration ==
  /\ step = "script"
  /\ script.read < script.announced
  /\ LET counts == ~budgetStop /\ CallsLeft IN
     /\ script' = [script EXCEPT !.read = @ + 1,
                                 !.counted = IF counts THEN @ + 1 ELSE @]
     /\ calls' = IF counts THEN calls + 1 ELSE calls
     /\ budgetStop' = (budgetStop \/ ~CallsLeft)
  /\ UNCHANGED <<attempt, step, others, reruns, stopSignal, result>>

\* Mutant of AfterScript: a script that finished past the budget is verified.
AfterScriptMutant(state) ==
  IF stopSignal THEN "aborted" ELSE IF state = "done" THEN "verify" ELSE "failed"
\* What the end of the script comes to, once its output is read to the end: the spent
\* budget first, then the stop, then the timeout and the exit code.
AfterScript(state) ==
  IF budgetStop THEN "budget_exceeded"
  ELSE IF stopSignal THEN "aborted"
  ELSE IF state = "done" THEN "verify"
  ELSE "failed"

ScriptEnds ==
  /\ step = "script" /\ ~Running
  /\ script.read = script.announced
  /\ IF script.state = "rateLimited" /\ ~LoopAborted /\ reruns < MaxRateLimits
     THEN step' = "backoff" /\ reruns' = reruns + 1 /\ result' = result
     ELSE /\ reruns' = reruns
          /\ IF AfterScript(script.state) = "verify"
             THEN step' = "verify" /\ result' = result
             ELSE Return(AfterScript(script.state))
  /\ UNCHANGED <<attempt, script, budgetStop, calls, others, stopSignal>>

-----------------------------------------------------------------------------
(***************************************************************************)
(* Verification, and what happens beside the loop.                         *)
(***************************************************************************)
\* The verdict: an aborted verification is no verdict, and never starts a repair.
Verify(passed) ==
  /\ step = "verify"
  /\ passed => ~stopSignal
  /\ IF stopSignal THEN Return("aborted")
     ELSE IF passed THEN Return("verified")
     ELSE LET failures == result.failures + 1 IN
          IF attempt < MaxRepairAttempts
          THEN step' = "next" /\ result' = [result EXCEPT !.failures = failures]
          ELSE step' = "returned" /\ result' = [outcome |-> "exhausted", failures |-> failures]
  /\ UNCHANGED <<attempt, script, budgetStop, calls, others, reruns, stopSignal>>

StopRun ==
  /\ step # "returned"
  /\ ~stopSignal
  /\ stopSignal' = TRUE
  /\ UNCHANGED <<attempt, step, script, budgetStop, calls, others, reruns, result>>

\* Another stage counts a call of the same model.
OtherCall ==
  /\ step # "returned"
  /\ others < MaxOtherCalls
  /\ others' = others + 1
  /\ calls' = calls + 1
  /\ UNCHANGED <<attempt, step, script, budgetStop, reruns, stopSignal, result>>

LoopStep ==
  \/ NextAttempt \/ GateCheck \/ GateAcquire
  \/ ReadIteration \/ ScriptEnds
  \/ \E passed \in BOOLEAN : Verify(passed)

ScriptStep == Announce \/ AgentReturns \/ GivesUp \/ Killed \/ TimesOut

LoopNext == LoopStep \/ ScriptStep \/ StopRun \/ OtherCall

LoopSpec == LoopInit /\ [][LoopNext]_loopVars

-----------------------------------------------------------------------------
\* The types: steps, outcomes and counters.
LoopTypeOK ==
  /\ attempt \in 0..MaxRepairAttempts
  /\ step \in Steps
  /\ script \in [state : ScriptStates, announced : Nat, read : Nat, counted : Nat]
  /\ budgetStop \in BOOLEAN /\ stopSignal \in BOOLEAN
  /\ calls \in Nat /\ others \in Nat
  /\ reruns \in 0..MaxRateLimits
  /\ result \in [outcome : Outcomes, failures : 0..MaxRepairAttempts]

\* What gets to verification was paid for in full: every iteration the script began
\* was counted, though the script never waits for the count
\* (attempt-loop.ts:458-479, 514-530).
VerifiedIsCounted ==
  step = "verify" \/ result.outcome \in {"verified", "exhausted"} =>
    script.counted = script.announced

\* The stop signal ends the loop: no attempt starts after it, and whatever step it
\* meets, the loop comes to "aborted", or to "budget_exceeded" when the budget was
\* found spent first (attempt-loop.ts:388-391).
StopEndsTheLoop ==
  [][stopSignal =>
       /\ attempt' = attempt
       /\ result' # result => result'.outcome \in {"aborted", "budget_exceeded"}]_loopVars
=============================================================================
