------------------------------- MODULE JobContract -------------------------------
(***************************************************************************)
(* What a client of /v1/scans may rely on, with no executor, broker or      *)
(* handler in sight: the states JobStatus names, and the moves between them *)
(* that JobStatus.terminal and the cancel endpoint promise.  A terminal     *)
(* status is final, but for a success whose report is not acknowledged to   *)
(* the one who made it: where that may happen it can be taken back.         *)
(***************************************************************************)
CONSTANTS Jobs,
          MayRetract \* an acknowledgement can be lost

VARIABLE status

Ended == {"succeeded", "failed", "cancelled", "timed_out"}

ContractInit == status = [j \in Jobs |-> "absent"]

Move(j, from, to) == status[j] = from /\ status' = [status EXCEPT ![j] = to]

Accept(j) == Move(j, "absent", "queued")

Start(j) == Move(j, "queued", "running")

\* A job that never ran was cancelled, or could not be dispatched or routed.
Drop(j) == \E s \in {"failed", "cancelled"} : Move(j, "queued", s)

Finish(j) == \E s \in Ended : Move(j, "running", s)

Retract(j) == MayRetract /\ Move(j, "succeeded", "failed")

ContractNext ==
  \E j \in Jobs : Accept(j) \/ Start(j) \/ Drop(j) \/ Finish(j) \/ Retract(j)

ContractSpec == ContractInit /\ [][ContractNext]_status

=============================================================================
