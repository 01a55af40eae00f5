------------------------------ MODULE Services ------------------------------
(***************************************************************************)
(* The services around the job queue, side by side: the app event stream,  *)
(* the page of a run, the model gateway, the attempt loop, the pull        *)
(* request checks and the schema migrations.  They share no state: each    *)
(* step is a step of one of them, in whatever order they come.             *)
(***************************************************************************)
EXTENDS AppEvents, ModelGateway, AttemptLoop, PrChecker, SchemaMigration, RunPage

servicesVars == <<feedVars, gateVars, loopVars, prVars, schemaVars, pageVars>>

ServicesInit ==
  FeedInit /\ GateInit /\ LoopInit /\ CheckInit /\ SchemaInit /\ PageInit

FeedRuns    == FeedNext /\ UNCHANGED <<gateVars, loopVars, prVars, schemaVars, pageVars>>
GatewayRuns == GateNext /\ UNCHANGED <<feedVars, loopVars, prVars, schemaVars, pageVars>>
LoopRuns    == LoopNext /\ UNCHANGED <<feedVars, gateVars, prVars, schemaVars, pageVars>>
CheckerRuns == CheckNext /\ UNCHANGED <<feedVars, gateVars, loopVars, schemaVars, pageVars>>
SchemaRuns  == SchemaNext /\ UNCHANGED <<feedVars, gateVars, loopVars, prVars, pageVars>>
PageRuns    == PageNext /\ UNCHANGED <<feedVars, gateVars, loopVars, prVars, schemaVars>>

ServicesNext ==
  FeedRuns \/ GatewayRuns \/ LoopRuns \/ CheckerRuns \/ SchemaRuns \/ PageRuns

ServicesSpec == ServicesInit /\ [][ServicesNext]_servicesVars

\* Every service keeps its variables in their types, beside all the others.
ServicesTypeOK ==
  FeedTypeOK /\ GateTypeOK /\ LoopTypeOK /\ CheckTypeOK /\ SchemaTypeOK /\ PageTypeOK
=============================================================================
