------------------------------ MODULE JobRepository ------------------------------
(***************************************************************************)
(* The durable job row and the transactions of the job repository.         *)
(*                                                                         *)
(* SQLAlchemyJobRepository runs every mutation in one transaction that      *)
(* holds the row's lock (SELECT ... FOR UPDATE, or the lock the conditional *)
(* UPDATE takes); SQLiteJobRepository holds its process lock around the     *)
(* same statements.  A transaction is therefore a function of the row, and  *)
(* is written as one: the event the transaction appends is in the same      *)
(* commit.  The event's sequence number, max(sequence) + 1 under the lock,  *)
(* is its position in the log.                                              *)
(*                                                                         *)
(* create, mark_running, transition and request_cancel then read the row    *)
(* again in a transaction of its own, which may raise with the first one    *)
(* committed; who calls them and is told so is JobLifecycle's lost_ack.     *)
(***************************************************************************)
EXTENDS Naturals, Sequences

JobStatus == {"queued", "running", "succeeded", "failed", "cancelled", "timed_out"}

Terminal(status) == status \in {"succeeded", "failed", "cancelled", "timed_out"}

\* "absent" stands for a row that has not been inserted.
RowStatus == JobStatus \cup {"absent"}

EventKinds == {"status", "cancel_requested", "retrying", "finding", "correlation"}

\* Only status-bearing events carry a status; the other payloads are abstracted.
Events == [kind : EventKinds, status : JobStatus \cup {"none"}]

ErrorCodes == {"none", "UNKNOWN_SOURCE", "DISPATCH_FAILED", "ADAPTER_TIMEOUT",
               "ADAPTER_UNAVAILABLE", "PRODUCT_CLI_ERROR", "INTERNAL_ERROR"}

-----------------------------------------------------------------------------

AppendEvent(row, kind, status) ==
  [row EXCEPT !.events = Append(@, [kind |-> kind, status |-> status])]

\* The columns the INSERT of create() leaves to their defaults, and its event.
NewJob(tenant_id, source, idempotency_key) ==
  [status |-> "queued", tenant_id |-> tenant_id, source |-> source,
   idempotency_key |-> idempotency_key, dispatch_id |-> FALSE, attempt |-> 0,
   cancel_requested |-> FALSE, result_count |-> 0, error_code |-> "none",
   events |-> << [kind |-> "status", status |-> "queued"] >>]

\* Mutant: the UPDATE without its condition on the status.
CanMarkRunningAnyStatus(row, require_queued) == ~row.cancel_requested

\* The WHERE clause of mark_running's conditional UPDATE.
CanMarkRunning(row, require_queued) ==
  /\ row.status = IF require_queued THEN "queued" ELSE "running"
  /\ ~row.cancel_requested

MarkRunning(row) ==
  AppendEvent([row EXCEPT !.status = "running", !.attempt = @ + 1,
                          !.error_code = "none"],
              "status", "running")

\* transition() does not look at the status it overwrites.  A caller that omits
\* result_count passes the row's own.
Transition(row, status, result_count, error_code) ==
  AppendEvent([row EXCEPT !.status = status, !.result_count = result_count,
                          !.error_code = error_code],
              "status", status)

SetDispatchId(row) == [row EXCEPT !.dispatch_id = TRUE]

\* Mutant: the event carries the status the row had before.
RequestCancelLogsOldStatus(row) ==
  IF Terminal(row.status)
    THEN row
    ELSE AppendEvent([row EXCEPT !.status = IF @ = "queued" THEN "cancelled" ELSE @,
                                 !.cancel_requested = TRUE],
                     "cancel_requested", row.status)

\* Mutant: a running job is marked cancelled while its executor goes on.
RequestCancelEndsRunning(row) ==
  IF Terminal(row.status)
    THEN row
    ELSE AppendEvent([row EXCEPT !.status = "cancelled", !.cancel_requested = TRUE],
                     "cancel_requested", "cancelled")

RequestCancel(row) ==
  IF Terminal(row.status)
    THEN row
    ELSE LET next_status == IF row.status = "queued" THEN "cancelled" ELSE row.status
         IN  AppendEvent([row EXCEPT !.status = next_status, !.cancel_requested = TRUE],
                         "cancel_requested", next_status)

=============================================================================
