--------------------------------- MODULE ScanCall ---------------------------------
(***************************************************************************)
(* What JobExecutor.execute relies on when it calls                         *)
(* _scan_with_cancellation: the steps JobLifecycle takes in its "scan",     *)
(* "teardown" and "interrupted" states, and nothing of the adapter, its     *)
(* subprocess or its semaphore.                                             *)
(***************************************************************************)
CONSTANTS Scans   \* calls of _scan_with_cancellation

VARIABLES call,   \* where each call is, or how it ended
          flag    \* calls whose job has cancel_requested

vars == <<call, flag>>

ScanErrors == {"ADAPTER_TIMEOUT", "ADAPTER_UNAVAILABLE", "PRODUCT_CLI_ERROR", "INTERNAL_ERROR"}

Verdicts == {"returned", "JobCancelledError", "CancelledError"} \cup ScanErrors

Init == call = [s \in Scans |-> "scan"] /\ flag = {}

Request(s) == flag' = flag \cup {s} /\ UNCHANGED call

Becomes(s, from, to) ==
  call[s] \in from /\ call' = [call EXCEPT ![s] = to] /\ UNCHANGED flag

\* Findings are returned only to a call whose last poll saw no cancellation request.
Returns(s) == s \notin flag /\ Becomes(s, {"scan"}, "returned")

Raises(s, error) == Becomes(s, {"scan", "teardown"}, error)

\* JobCancelledError is raised only for a request that was made.
Cancels(s) == s \in flag /\ (\/ Becomes(s, {"scan"}, "teardown")
                             \/ Becomes(s, {"scan", "teardown"}, "JobCancelledError"))

Interrupted(s) == \/ Becomes(s, {"scan"}, "interrupted")
                  \/ Becomes(s, {"scan", "interrupted"}, "CancelledError")

Step(s) == Returns(s) \/ (\E e \in ScanErrors : Raises(s, e)) \/ Cancels(s) \/ Interrupted(s)

Next == \E s \in Scans : Request(s) \/ Step(s)

ScanCallSpec == Init /\ [][Next]_vars

=============================================================================
