--------------------------------- MODULE MCJobs ---------------------------------
(***************************************************************************)
(* JobLifecycle for TLC.  The runs differ only in their configurations.     *)
(* Requests, cancels and workers are interchangeable: each set of model     *)
(* values is permuted in the runs that check no liveness property.          *)
(***************************************************************************)
EXTENDS JobLifecycle, TLC

Symmetry == Permutations(Requests) \cup Permutations(Workers) \cup Permutations(Cancels)

=============================================================================
