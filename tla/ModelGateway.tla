---------------------------- MODULE ModelGateway ----------------------------
(***************************************************************************)
(* The worker's one gateway to the models (model-gateway.ts) and the daily *)
(* request budget (model-budgets.ts, db/model-call-repository.ts).  A      *)
(* gateway keeps one lane per model, and a budget is per model too: two    *)
(* models share nothing, so this is one lane.  A caller is a stage of some *)
(* run: it checks the budget, takes or waits for a slot of the lane, and   *)
(* counts each call as it is about to be sent.  The caller of an execute   *)
(* stage holds its slot for the whole of a script and counts the           *)
(* iterations the script announces instead (attempt-loop.ts:458-479).      *)
(*                                                                         *)
(* Callers interleave at every await: after the first budget check, after  *)
(* a slot is handed over, during a call and during a wait.                 *)
(***************************************************************************)
EXTENDS Naturals, Sequences, FiniteSets, SequencesExt

CONSTANTS
  Callers,      \* the stages that use this model at the same time
  ScriptStages, \* those of them that run the loop script
  SlotLimit,    \* the connection's concurrency limit; 0 counts as 1
  DailyBudget,  \* the model's requests per UTC day
  MaxWaits      \* how many backoffs fit under the gateway's ceiling (maxWaitMs)

\* Callers are finitely many: the budget's overshoot is counted in them.
ASSUME GatewayAssumption ==
  /\ IsFiniteSet(Callers) /\ ScriptStages \subseteq Callers
  /\ SlotLimit \in Nat /\ DailyBudget \in Nat /\ MaxWaits \in Nat

VARIABLES
  active,   \* slots taken, as the lane counts them
  waiting,  \* the lane's queue
  at,       \* where each caller is
  aborted,  \* callers whose run is being stopped
  spent,    \* calls counted today
  waits     \* backoffs of each caller's present call

gateVars == <<active, waiting, at, aborted, spent, waits>>

\* "checked": past the first budget check.  "granted": has a slot, nothing sent yet.
\* "calling": fn runs.  "backoff": sleeps after a 429, keeping its slot.
Places == {"out", "checked", "queued", "granted", "calling", "backoff"}

GateInit ==
  /\ active = 0
  /\ waiting = <<>>
  /\ at = [c \in Callers |-> "out"]
  /\ aborted = {}
  /\ spent = 0
  /\ waits = [c \in Callers |-> 0]

Slots == IF SlotLimit > 1 THEN SlotLimit ELSE 1
Holders == {c \in Callers : at[c] \in {"granted", "calling", "backoff"}}

\* Mutant of BudgetLeft: the budget is never spent.
BudgetLeftMutant == TRUE
\* checkModelBudget.
BudgetLeft == spent < DailyBudget

-----------------------------------------------------------------------------
\* A stage comes to its model call; checkModelBudget refuses a spent budget.
CheckBudget(c) ==
  /\ at[c] = "out"
  /\ c \notin aborted
  /\ BudgetLeft
  /\ at' = [at EXCEPT ![c] = "checked"]
  /\ waits' = [waits EXCEPT ![c] = 0]
  /\ UNCHANGED <<active, waiting, aborted, spent>>

\* acquire: refused to a stopped run, else a free slot or the end of the queue.
Acquire(c) ==
  /\ at[c] = "checked"
  /\ IF c \in aborted
     THEN at' = [at EXCEPT ![c] = "out"] /\ UNCHANGED <<active, waiting>>
     ELSE IF active >= Slots
     THEN at' = [at EXCEPT ![c] = "queued"] /\ waiting' = Append(waiting, c) /\ active' = active
     ELSE at' = [at EXCEPT ![c] = "granted"] /\ active' = active + 1 /\ waiting' = waiting
  /\ UNCHANGED <<aborted, spent, waits>>

\* Mutants of HandOver: the slot is freed with callers in line; passed on and freed.
HandNowhere(c) ==
  /\ at' = [at EXCEPT ![c] = "out"] /\ active' = active - 1 /\ waiting' = waiting
HandOverTwice(c) ==
  IF waiting = <<>>
  THEN at' = [at EXCEPT ![c] = "out"] /\ active' = active - 1 /\ waiting' = waiting
  ELSE /\ at' = [at EXCEPT ![c] = "out", ![Head(waiting)] = "granted"]
       /\ waiting' = Tail(waiting)
       /\ active' = active - 1
\* release: the slot passes straight to the next caller in line.
HandOver(c) ==
  IF waiting = <<>>
  THEN at' = [at EXCEPT ![c] = "out"] /\ active' = active - 1 /\ waiting' = waiting
  ELSE /\ at' = [at EXCEPT ![c] = "out", ![Head(waiting)] = "granted"]
       /\ waiting' = Tail(waiting)
       /\ active' = active

Release(c) ==
  /\ HandOver(c)
  /\ UNCHANGED <<aborted, waits>>

\* The call is counted and sent; a script's calls are counted as it announces them.
Send(c) ==
  /\ at[c] = "granted"
  /\ at' = [at EXCEPT ![c] = "calling"]
  /\ spent' = IF c \in ScriptStages THEN spent ELSE spent + 1
  /\ UNCHANGED <<active, waiting, aborted, waits>>

\* The script announces an iteration: within the budget it is counted, else the
\* script is stopped and the stage gives its slot back.
Iterate(c) ==
  /\ at[c] = "calling"
  /\ c \in ScriptStages
  /\ IF BudgetLeft
     THEN spent' = spent + 1 /\ UNCHANGED <<active, waiting, at, aborted, waits>>
     ELSE Release(c) /\ spent' = spent

\* The call ends: an answer, an error, a quota used up, a kill of a stopped run.
CallEnds(c) ==
  /\ at[c] = "calling"
  /\ Release(c)
  /\ spent' = spent

\* A 429: the gateway waits with the slot in hand, unless its ceiling is reached.
RateLimited(c) ==
  /\ at[c] = "calling"
  /\ IF waits[c] < MaxWaits
     THEN /\ at' = [at EXCEPT ![c] = "backoff"]
          /\ waits' = [waits EXCEPT ![c] = @ + 1]
          /\ UNCHANGED <<active, waiting, aborted>>
     ELSE Release(c)
  /\ spent' = spent

\* The wait ends, or the stop of the run ends it; every retry is checked again.
WakeUp(c) ==
  /\ at[c] = "backoff"
  /\ IF c \notin aborted /\ BudgetLeft
     THEN at' = [at EXCEPT ![c] = "granted"] /\ UNCHANGED <<active, waiting, aborted, waits>>
     ELSE Release(c)
  /\ spent' = spent

InQueue(c) == \E i \in DOMAIN waiting : waiting[i] = c

\* The run is stopped: a queued caller leaves the queue and throws at once; a caller
\* that was handed a slot goes on with it.
AbortRun(c) ==
  /\ at[c] # "out"
  /\ c \notin aborted
  /\ aborted' = aborted \cup {c}
  /\ IF InQueue(c)
     THEN \E i \in DOMAIN waiting :
            /\ waiting[i] = c
            /\ at' = [at EXCEPT ![c] = "out"]
            /\ waiting' = RemoveAt(waiting, i)
     ELSE UNCHANGED <<at, waiting>>
  /\ UNCHANGED <<active, spent, waits>>

\* Another run takes the place of a stopped one.
NextRun(c) ==
  /\ at[c] = "out"
  /\ aborted' = aborted \ {c}
  /\ c \in aborted
  /\ UNCHANGED <<active, waiting, at, spent, waits>>

\* Midnight UTC: the count starts over.
NewDay ==
  /\ spent > 0
  /\ spent' = 0
  /\ UNCHANGED <<active, waiting, at, aborted, waits>>

GateNext ==
  \/ NewDay
  \/ \E c \in Callers :
       \/ CheckBudget(c)
       \/ Acquire(c)
       \/ Send(c)
       \/ Iterate(c)
       \/ CallEnds(c)
       \/ RateLimited(c)
       \/ WakeUp(c)
       \/ AbortRun(c)
       \/ NextRun(c)

GateSpec == GateInit /\ [][GateNext]_gateVars

\* Every await is resumed, every wait ends, and every call does: each runs under a
\* time limit of its stage.
CallerGoesOn(c) == Acquire(c) \/ Send(c) \/ CallEnds(c) \/ WakeUp(c)
GateFairness == \A c \in Callers : WF_gateVars(CallerGoesOn(c))

-----------------------------------------------------------------------------
\* The types: places, the queue and the counters.
GateTypeOK ==
  /\ active \in Nat
  /\ waiting \in Seq(Callers)
  /\ at \in [Callers -> Places]
  /\ aborted \subseteq Callers
  /\ spent \in Nat
  /\ waits \in [Callers -> 0..MaxWaits]

\* No slot is lost or taken twice, whatever order releases, handovers and stops come
\* in: the lane's counter is the number of callers that hold a slot, and never more
\* than the limit (model-gateway.ts:127-158).
SlotsAccountedFor ==
  /\ active = Cardinality(Holders)
  /\ active <= Slots

\* Nobody waits while a slot is free, so no newcomer overtakes the queue, and the
\* queue holds each waiting caller exactly once (model-gateway.ts:127-157).
QueueOnlyWhenFull ==
  /\ waiting # <<>> => active = Slots
  /\ \A c \in Callers : at[c] = "queued" <=> InQueue(c)
  /\ \A i, j \in DOMAIN waiting : waiting[i] = waiting[j] => i = j

\* The callers that passed a budget check and have not counted their call yet.
Uncounted == {c \in Callers : at[c] \in {"checked", "queued", "granted"}}

\* What the budget really bounds: a call is counted some time after its check, so the
\* callers of one moment may together exceed the budget, but only by one call for
\* each caller but the first (model-budgets.ts:6-8, model-gateway.ts:184-192).
OvershootBounded ==
  DailyBudget > 0 => spent + Cardinality(Uncounted) < DailyBudget + Cardinality(Callers)

\* A queued caller is served, or its run is stopped (model-gateway.ts:127-148).
QueueDrains == \A c \in Callers : (at[c] = "queued") ~> (at[c] # "queued")
=============================================================================
