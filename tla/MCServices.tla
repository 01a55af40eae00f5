----------------------------- MODULE MCServices -----------------------------
(***************************************************************************)
(* The services around the job queue on small instances.  As they share no *)
(* state, no step of one can be told apart by the others: a behaviour of   *)
(* this run is a behaviour of one of them, the others resting at their     *)
(* initial states.                                                         *)
(***************************************************************************)
EXTENDS Services

CONSTANTS tab1, tab2, stage1, stage2, coder, worker1, worker2, server, oldWorker, newWorker

MCCodeVersion == [p \in {server, oldWorker, newWorker} |-> IF p = oldWorker THEN 2 ELSE 3]

VARIABLE service  \* the one this behaviour is of

MCInit ==
  /\ service \in {"feed", "gateway", "loop", "checker", "schema", "page"}
  /\ ServicesInit
  /\ service # "schema" => schema = {}
  /\ service # "page" => RunsStatus = "executing"

MCNext ==
  /\ UNCHANGED service
  /\ \/ service = "feed" /\ FeedRuns
     \/ service = "gateway" /\ GatewayRuns
     \/ service = "loop" /\ LoopRuns
     \/ service = "checker" /\ CheckerRuns
     \/ service = "schema" /\ SchemaRuns
     \/ service = "page" /\ PageRuns

\* A service that rests at its initial state has no fair action enabled.
MCSpec ==
  /\ MCInit /\ [][MCNext]_<<service, servicesVars>>
  /\ FeedFairness /\ GateFairness /\ CheckFairness
=============================================================================
