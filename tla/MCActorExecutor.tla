--------------------------- MODULE MCActorExecutor ---------------------------
(***************************************************************************)
(* An actor with a queue of one: two callers and two shutdowns.            *)
(***************************************************************************)
EXTENDS ActorExecutor
=============================================================================
