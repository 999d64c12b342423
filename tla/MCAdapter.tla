-------------------------------- MODULE MCAdapter --------------------------------
(***************************************************************************)
(* AdapterProcess for TLC.                                                  *)
(***************************************************************************)
EXTENDS AdapterProcess

=============================================================================
