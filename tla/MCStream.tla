-------------------------------- MODULE MCStream ---------------------------------
(***************************************************************************)
(* JobEventStream for TLC: one job, its writers and two connections of one  *)
(* client.                                                                  *)
(***************************************************************************)
EXTENDS JobEventStream
=============================================================================
