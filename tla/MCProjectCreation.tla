-------------------------- MODULE MCProjectCreation --------------------------
(***************************************************************************)
(* ProjectCreation on small instances.  The calls are named by what they   *)
(* are: two creations with an env key each, an update that keeps the key   *)
(* of the second and replaces that of the first, and a creation of a       *)
(* project without connections.                                            *)
(***************************************************************************)
EXTENDS ProjectCreation

CONSTANTS create1, create2, update, plain, server, cli, k1, k2

MCProcessOf == [c \in Calls |-> IF c = create1 THEN cli ELSE server]
MCKind ==
  [c \in Calls |-> CASE c = update -> "update" [] c = plain -> "plain" [] OTHER -> "create"]
MCKeyOf == [c \in Calls |-> IF c = create1 THEN k1 ELSE k2]
=============================================================================
