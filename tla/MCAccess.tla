-------------------------------- MODULE MCAccess ---------------------------------
(***************************************************************************)
(* RequestAccess for TLC: one key with each kind of scope, alone and with a   *)
(* scope that does not cover it.                                             *)
(***************************************************************************)
EXTENDS RequestAccess, TLC

MCScopeSets == {{}, {"gateway:*", "scan:write"}, {"gateway:read"},
                {"gateway:write", "scan:write"}, {"gateway:admin", "finding:write"}}

Symmetry == Permutations(Tenants)
=============================================================================
