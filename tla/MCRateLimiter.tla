------------------------------ MODULE MCRateLimiter ------------------------------
(***************************************************************************)
(* ExchangeRateLimiter for TLC: three callers share a table with room for   *)
(* one of them beside the overflow bucket.                                  *)
(***************************************************************************)
EXTENDS ExchangeRateLimiter, TLC

Symmetry == Permutations(Keys)
=============================================================================
