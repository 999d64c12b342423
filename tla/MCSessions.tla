------------------------------- MODULE MCSessions --------------------------------
(***************************************************************************)
(* IdentitySessions for TLC.                                                *)
(***************************************************************************)
EXTENDS IdentitySessions, TLC

Symmetry == Permutations(Exchanges) \cup Permutations(IdentityClients) \cup Permutations(Revokes)
=============================================================================
