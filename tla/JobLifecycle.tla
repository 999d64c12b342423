------------------------------- MODULE JobLifecycle -------------------------------
(***************************************************************************)
(* The life of a scan job: the create and cancel handlers of the /v1 API,  *)
(* the dispatcher and its broker, and the JobExecutor that a worker runs,  *)
(* all meeting at the job row (JobRepository).                              *)
(*                                                                         *)
(* Mode "celery": every handler and every worker is its own process, and    *)
(* each repository call is one transaction, so any two calls interleave.    *)
(* Mode "inline": handlers and executor tasks share one event loop, so a    *)
(* process keeps its turn until it reaches an await that suspends.          *)
(*                                                                         *)
(* Faults names the faults of a run and MaxFaults bounds how many happen:   *)
(*   "crash"      a worker process dies, or the inline process dies;        *)
(*   "api"        an API process dies inside a handler (celery);            *)
(*   "redeliver"  the broker delivers an unacknowledged message again;      *)
(*   "publish"    dispatcher.submit raises;                                 *)
(*   "repository" a repository call raises and its transaction rolls back;  *)
(*   "lost_ack"   a repository call raises after its transaction committed: *)
(*                the COMMIT's answer is lost, or the second transaction in  *)
(*                which create, mark_running, transition and request_cancel  *)
(*                read their row again fails;                               *)
(*   "interrupt"  the event loop cancels an executor task at shutdown.      *)
(***************************************************************************)
EXTENDS JobRepository, FiniteSets

CONSTANTS Requests,       \* POST /v1/scans calls; a call that inserts a row gives it its own name
          Cancels,        \* POST /v1/scans/{id}/cancel calls
          Workers,        \* executor processes (celery) or tasks (inline)
          Tenants, Sources, Keys,
          NoKey,          \* the Idempotency-Key header is missing
          BadKey,         \* an Idempotency-Key that is empty or longer than 128
          None,
          GatewaySources, \* sources with an adapter in the API process
          WorkerSources,  \* sources with an adapter in the worker process
          Mode,
          MaxAttempts,
          MaxFindings,    \* bound: findings of one scan
          Faults, MaxFaults

FaultKinds == {"crash", "api", "redeliver", "publish", "repository", "lost_ack",
               "interrupt"}

ASSUME ConstantsAssumption ==
  /\ Requests \cap (Cancels \cup Workers) = {} /\ Cancels \cap Workers = {}
  /\ None \notin Requests
  /\ NoKey \notin Keys /\ BadKey \notin Keys /\ NoKey # BadKey
  /\ GatewaySources \subseteq Sources /\ WorkerSources \subseteq Sources
  /\ Mode \in {"inline", "celery"}
  /\ MaxAttempts \in Nat \ {0} /\ MaxFindings \in Nat /\ MaxFaults \in Nat
  /\ Faults \subseteq FaultKinds

VARIABLES jobs,     \* the job table, each row with its event log
          registry, \* findings stored under each job
          queue,    \* jobs with a message in the broker, or an inline task not yet started
          revoked,  \* task ids the workers were told to discard
          api,      \* frame of each create_scan call
          cancel,   \* frame of each cancel_scan call
          exec,     \* frame of each executor
          faults

vars == <<jobs, registry, queue, revoked, api, cancel, exec, faults>>

NoJob == [NewJob(None, None, NoKey) EXCEPT !.status = "absent", !.events = << >>]

NewCall == [pc |-> "new", tenant |-> None, source |-> None, key |-> NoKey,
            job |-> None, code |-> "none"]

NewCancel == [pc |-> "new", job |-> None, dispatch_id |-> FALSE]

Idle == [pc |-> "idle", job |-> None, attempt |-> 0, found |-> 0, done |-> 0,
         error |-> "none"]

Init ==
  /\ jobs = [r \in Requests |-> NoJob]
  /\ registry = [r \in Requests |-> 0]
  /\ queue = {} /\ revoked = {}
  /\ api = [r \in Requests |-> NewCall]
  /\ cancel = [c \in Cancels |-> NewCancel]
  /\ exec = [w \in Workers |-> Idle]
  /\ faults = 0

-----------------------------------------------------------------------------
(* Scheduling *)

ApiRunning == {"find", "insert", "submit", "record", "failing"}

CancelRunning == {"request", "revoke"}

\* Where an executor waits for the event loop: not started, inside asyncio.wait
\* or the scan task it cancelled, and inside the backoff's asyncio.sleep.
ExecSuspended == {"idle", "scan", "teardown", "interrupted", "backoff"}

Running == {r \in Requests : api[r].pc \in ApiRunning}
             \cup {c \in Cancels : cancel[c].pc \in CancelRunning}
             \cup {w \in Workers : exec[w].pc \notin ExecSuspended}

Turn(p) == Mode = "inline" => Running \subseteq {p}

Fault(kind) == kind \in Faults /\ faults < MaxFaults /\ faults' = faults + 1

-----------------------------------------------------------------------------
(* POST /v1/scans *)

Exists(j) == jobs[j].status # "absent"

Matches(j, tenant, key) ==
  Exists(j) /\ jobs[j].tenant_id = tenant /\ jobs[j].idempotency_key = key

Answer(r, j, code) ==
  api' = [api EXCEPT ![r].pc = "done", ![r].job = j, ![r].code = code]

\* Mutant: an unusable Idempotency-Key is not refused.
ReceiveScanAnyKey(r, tenant, source, key) ==
  /\ api[r].pc = "new" /\ Turn(r) /\ source \in GatewaySources
  /\ api' = [api EXCEPT ![r] =
       [NewCall EXCEPT !.pc = IF key = NoKey THEN "insert" ELSE "find",
                       !.tenant = tenant, !.source = source, !.key = key]]
  /\ UNCHANGED <<jobs, registry, queue, revoked, cancel, exec, faults>>

ReceiveScan(r, tenant, source, key) ==
  /\ api[r].pc = "new" /\ Turn(r)
  /\ api' = [api EXCEPT ![r] =
       [pc     |-> IF key = BadKey \/ source \notin GatewaySources THEN "done"
                  ELSE IF key = NoKey THEN "insert" ELSE "find",
        tenant |-> tenant, source |-> source, key |-> key, job |-> None,
        code   |-> IF key = BadKey THEN "INVALID_IDEMPOTENCY_KEY"
                  ELSE IF source \notin GatewaySources THEN "UNKNOWN_SOURCE" ELSE "none"]]
  /\ UNCHANGED <<jobs, registry, queue, revoked, cancel, exec, faults>>

\* create(): find_by_idempotency_key before the INSERT.
FindExisting(r) ==
  /\ api[r].pc = "find" /\ Turn(r)
  /\ \/ \E j \in Requests : Matches(j, api[r].tenant, api[r].key) /\ Answer(r, j, "existing")
     \/ /\ \A j \in Requests : ~Matches(j, api[r].tenant, api[r].key)
        /\ api' = [api EXCEPT ![r].pc = "insert"]
  /\ UNCHANGED <<jobs, registry, queue, revoked, cancel, exec, faults>>

\* Mutant: no unique index, only the lookup before the INSERT.
InsertJobUnindexed(r) ==
  /\ api[r].pc = "insert" /\ Turn(r)
  /\ jobs' = [jobs EXCEPT ![r] = NewJob(api[r].tenant, api[r].source, api[r].key)]
  /\ api' = [api EXCEPT ![r].pc = "submit"]
  /\ UNCHANGED <<registry, queue, revoked, cancel, exec, faults>>

\* create(): the INSERT, or the unique index's IntegrityError and the second lookup.
InsertJob(r) ==
  /\ api[r].pc = "insert" /\ Turn(r)
  /\ \/ /\ api[r].key = NoKey
           \/ \A j \in Requests : ~Matches(j, api[r].tenant, api[r].key)
        /\ jobs' = [jobs EXCEPT ![r] = NewJob(api[r].tenant, api[r].source, api[r].key)]
        /\ api' = [api EXCEPT ![r].pc = "submit"]
     \/ /\ api[r].key # NoKey
        /\ \E j \in Requests : Matches(j, api[r].tenant, api[r].key) /\ Answer(r, j, "existing")
        /\ UNCHANGED jobs
  /\ UNCHANGED <<registry, queue, revoked, cancel, exec, faults>>

Submit(r) ==
  /\ api[r].pc = "submit" /\ Turn(r)
  /\ queue' = queue \cup {r}
  /\ api' = [api EXCEPT ![r].pc = "record"]
  /\ UNCHANGED <<jobs, registry, revoked, cancel, exec, faults>>

RecordDispatch(r) ==
  /\ api[r].pc = "record" /\ Turn(r)
  /\ jobs' = [jobs EXCEPT ![r] = SetDispatchId(@)]
  /\ Answer(r, r, "accepted")
  /\ UNCHANGED <<registry, queue, revoked, cancel, exec, faults>>

\* Mutant: the failed dispatch is reported and the row left as it is.
FailDispatchReportedOnly(r) ==
  /\ api[r].pc = "failing" /\ Turn(r)
  /\ Answer(r, r, "DISPATCH_FAILED")
  /\ UNCHANGED <<jobs, registry, queue, revoked, cancel, exec, faults>>

FailDispatch(r) ==
  /\ api[r].pc = "failing" /\ Turn(r)
  /\ jobs' = [jobs EXCEPT ![r] = Transition(@, "failed", @.result_count, "DISPATCH_FAILED")]
  /\ Answer(r, r, "DISPATCH_FAILED")
  /\ UNCHANGED <<registry, queue, revoked, cancel, exec, faults>>

CreateScan(r) ==
  \/ FindExisting(r) \/ InsertJob(r) \/ Submit(r) \/ RecordDispatch(r) \/ FailDispatch(r)

-----------------------------------------------------------------------------
(* POST /v1/scans/{job_id}/cancel *)

\* The row the dispatcher will be told to cancel is read before request_cancel.
CancelRead(c, j) ==
  /\ cancel[c].pc = "new" /\ Turn(c) /\ Exists(j)
  /\ cancel' = [cancel EXCEPT ![c] =
                  [pc |-> "request", job |-> j, dispatch_id |-> jobs[j].dispatch_id]]
  /\ UNCHANGED <<jobs, registry, queue, revoked, api, exec, faults>>

CancelRequest(c) ==
  /\ cancel[c].pc = "request" /\ Turn(c)
  /\ jobs' = [jobs EXCEPT ![cancel[c].job] = RequestCancel(@)]
  /\ cancel' = [cancel EXCEPT ![c].pc = "revoke"]
  /\ UNCHANGED <<registry, queue, revoked, api, exec, faults>>

\* dispatcher.cancel: nothing inline, a revoke of the recorded task id in celery.
CancelRevoke(c) ==
  /\ cancel[c].pc = "revoke" /\ Turn(c)
  /\ revoked' = IF Mode = "celery" /\ cancel[c].dispatch_id
                  THEN revoked \cup {cancel[c].job} ELSE revoked
  /\ cancel' = [cancel EXCEPT ![c].pc = "done"]
  /\ UNCHANGED <<jobs, registry, queue, api, exec, faults>>

CancelScan(c) == CancelRequest(c) \/ CancelRevoke(c)

-----------------------------------------------------------------------------
(* JobExecutor.execute *)

At(w, pc) == exec[w].pc = pc /\ Turn(w)

Goto(w, pc) == exec' = [exec EXCEPT ![w].pc = pc]

\* execute() returns: the celery task is acknowledged, the inline task is done.
Return(w) == exec' = [exec EXCEPT ![w] = Idle]

SetJob(w, row) == jobs' = [jobs EXCEPT ![exec[w].job] = row]

Row(w) == jobs[exec[w].job]

Deliver(w, j) ==
  /\ At(w, "idle") /\ j \in queue
  /\ queue' = queue \ {j}
  /\ exec' = [exec EXCEPT ![w] = [Idle EXCEPT !.pc = "load", !.job = j]]
  /\ UNCHANGED <<jobs, registry, revoked, api, cancel, faults>>

\* A worker that knows of the revocation acknowledges the message without running it.
DiscardRevoked(j) ==
  /\ j \in queue \cap revoked
  /\ queue' = queue \ {j}
  /\ UNCHANGED <<jobs, registry, revoked, api, cancel, exec, faults>>

Load(w) ==
  /\ At(w, "load")
  /\ \/ Terminal(Row(w).status) /\ Return(w)
     \/ /\ ~Terminal(Row(w).status) /\ Row(w).source \notin WorkerSources
        /\ Goto(w, "unknown")
     \/ /\ ~Terminal(Row(w).status) /\ Row(w).source \in WorkerSources
        /\ exec' = [exec EXCEPT ![w].pc = "check", ![w].attempt = 1]
  /\ UNCHANGED <<jobs, registry, queue, revoked, api, cancel, faults>>

FailUnknownSource(w) ==
  /\ At(w, "unknown")
  /\ SetJob(w, Transition(Row(w), "failed", Row(w).result_count, "UNKNOWN_SOURCE"))
  /\ Return(w)
  /\ UNCHANGED <<registry, queue, revoked, api, cancel, faults>>

\* The top of the attempt loop: the row is read before it is claimed.
Check(w) ==
  /\ At(w, "check")
  /\ \/ Row(w).status = "cancelled" /\ Return(w)
     \/ Row(w).status # "cancelled" /\ Row(w).cancel_requested /\ Goto(w, "cancelling")
     \/ Row(w).status # "cancelled" /\ ~Row(w).cancel_requested /\ Goto(w, "claim")
  /\ UNCHANGED <<jobs, registry, queue, revoked, api, cancel, faults>>

\* The transition of a cancelled job: before a claim, or after the scan's teardown.
FinishCancelled(w) ==
  /\ At(w, "cancelling") \/ At(w, "teardown")
  /\ SetJob(w, Transition(Row(w), "cancelled", Row(w).result_count, "none"))
  /\ Return(w)
  /\ UNCHANGED <<registry, queue, revoked, api, cancel, faults>>

Claim(w) ==
  /\ At(w, "claim")
  /\ \/ /\ CanMarkRunning(Row(w), exec[w].attempt = 1)
        /\ SetJob(w, MarkRunning(Row(w)))
        /\ Goto(w, "scan")
     \/ /\ ~CanMarkRunning(Row(w), exec[w].attempt = 1)
        /\ Return(w)
        /\ UNCHANGED jobs
  /\ UNCHANGED <<registry, queue, revoked, api, cancel, faults>>

\* Errors a scan raises; PRODUCT_CLI_ERROR stands for every ProductCLIError that is
\* not retryable, INTERNAL_ERROR for every other exception.
ScanErrors == {"ADAPTER_TIMEOUT", "ADAPTER_UNAVAILABLE", "PRODUCT_CLI_ERROR", "INTERNAL_ERROR"}

Retryable(error) == error \in {"ADAPTER_TIMEOUT", "ADAPTER_UNAVAILABLE"}

\* _scan_with_cancellation: the poll that finds the scan done reads the row first, so
\* results are returned only when no cancellation was requested by then.
ScanReturns(w, found) ==
  /\ At(w, "scan") /\ ~Row(w).cancel_requested
  /\ exec' = [exec EXCEPT ![w].pc = "store", ![w].found = found]
  /\ UNCHANGED <<jobs, registry, queue, revoked, api, cancel, faults>>

\* The poll sees the flag, cancels the scan task and awaits it.
ScanCancelled(w) ==
  /\ At(w, "scan") /\ Row(w).cancel_requested
  /\ Goto(w, "teardown")
  /\ UNCHANGED <<jobs, registry, queue, revoked, api, cancel, faults>>

\* A scan that ends with an error raises it, from the loop or from the awaited teardown.
ScanRaises(w, error) ==
  /\ At(w, "scan") \/ At(w, "teardown")
  /\ exec' = [exec EXCEPT ![w].pc = "raised", ![w].error = error]
  /\ UNCHANGED <<jobs, registry, queue, revoked, api, cancel, faults>>

WillRetry(w) == Retryable(exec[w].error) /\ exec[w].attempt < MaxAttempts

Retry(w) ==
  /\ At(w, "raised") /\ WillRetry(w)
  /\ SetJob(w, AppendEvent(Row(w), "retrying", "none"))
  /\ Goto(w, "backoff")
  /\ UNCHANGED <<registry, queue, revoked, api, cancel, faults>>

FinishFailed(w) ==
  /\ At(w, "raised") /\ ~WillRetry(w)
  /\ SetJob(w, Transition(Row(w),
                 IF exec[w].error = "ADAPTER_TIMEOUT" THEN "timed_out" ELSE "failed",
                 Row(w).result_count, exec[w].error))
  /\ Return(w)
  /\ UNCHANGED <<registry, queue, revoked, api, cancel, faults>>

BackoffEnds(w) ==
  /\ At(w, "backoff")
  /\ exec' = [exec EXCEPT ![w].pc = "check", ![w].attempt = @ + 1, ![w].error = "none"]
  /\ UNCHANGED <<jobs, registry, queue, revoked, api, cancel, faults>>

\* _store_results: each finding is stored and then published as an event, two transactions.
StoreFinding(w) ==
  /\ At(w, "store") /\ exec[w].done < exec[w].found
  /\ registry' = [registry EXCEPT ![exec[w].job] = @ + 1]
  /\ Goto(w, "publish")
  /\ UNCHANGED <<jobs, queue, revoked, api, cancel, faults>>

PublishFinding(w) ==
  /\ At(w, "publish")
  /\ SetJob(w, AppendEvent(Row(w), "finding", "none"))
  /\ exec' = [exec EXCEPT ![w].pc = "correlate", ![w].done = @ + 1]
  /\ UNCHANGED <<registry, queue, revoked, api, cancel, faults>>

\* The correlations a finding adds; bound: at most one per finding.
Correlate(w) ==
  /\ At(w, "correlate")
  /\ SetJob(w, AppendEvent(Row(w), "correlation", "none")) \/ UNCHANGED jobs
  /\ Goto(w, "store")
  /\ UNCHANGED <<registry, queue, revoked, api, cancel, faults>>

\* Mutant: the job succeeds when the scan does, before its results are stored.
FinishSucceededEarly(w) ==
  /\ At(w, "store")
  /\ SetJob(w, Transition(Row(w), "succeeded", exec[w].found, "none"))
  /\ Return(w)
  /\ UNCHANGED <<registry, queue, revoked, api, cancel, faults>>

FinishSucceeded(w) ==
  /\ At(w, "store") /\ exec[w].done = exec[w].found
  /\ SetJob(w, Transition(Row(w), "succeeded", exec[w].found, "none"))
  /\ Return(w)
  /\ UNCHANGED <<registry, queue, revoked, api, cancel, faults>>

\* except asyncio.CancelledError: the row is read and a live job is cancelled.
FinishInterrupted(w) ==
  /\ At(w, "interrupted")
  /\ IF Terminal(Row(w).status)
       THEN UNCHANGED jobs
       ELSE SetJob(w, Transition(Row(w), "cancelled", Row(w).result_count, "none"))
  /\ Return(w)
  /\ UNCHANGED <<registry, queue, revoked, api, cancel, faults>>

Execute(w) ==
  \/ Load(w) \/ FailUnknownSource(w) \/ Check(w) \/ FinishCancelled(w) \/ Claim(w)
  \/ \E n \in 0..MaxFindings : ScanReturns(w, n)
  \/ ScanCancelled(w)
  \/ \E e \in ScanErrors : ScanRaises(w, e)
  \/ Retry(w) \/ FinishFailed(w) \/ BackoffEnds(w)
  \/ StoreFinding(w) \/ PublishFinding(w) \/ Correlate(w) \/ FinishSucceeded(w)
  \/ FinishInterrupted(w)

-----------------------------------------------------------------------------
(* Faults *)

\* A celery worker dies; acks_late and reject_on_worker_lost return its message.
WorkerCrash(w) ==
  /\ Mode = "celery" /\ exec[w].pc # "idle" /\ Fault("crash")
  /\ Return(w)
  /\ queue' = queue \cup {exec[w].job}
  /\ UNCHANGED <<jobs, registry, revoked, api, cancel>>

Died(frame, running) == IF frame.pc \in running THEN [frame EXCEPT !.pc = "died"] ELSE frame

\* The single inline process dies: no task and no handler survives, the rows do.
ProcessCrash ==
  /\ Mode = "inline" /\ Fault("crash")
  /\ exec' = [w \in Workers |-> Idle]
  /\ queue' = {}
  /\ api' = [r \in Requests |-> Died(api[r], ApiRunning)]
  /\ cancel' = [c \in Cancels |-> Died(cancel[c], CancelRunning)]
  /\ UNCHANGED <<jobs, registry, revoked>>

ApiCrash(r) ==
  /\ Mode = "celery" /\ api[r].pc \in ApiRunning /\ Fault("api")
  /\ api' = [api EXCEPT ![r] = Died(@, ApiRunning)]
  /\ UNCHANGED <<jobs, registry, queue, revoked, cancel, exec>>

CancelCrash(c) ==
  /\ Mode = "celery" /\ cancel[c].pc \in CancelRunning /\ Fault("api")
  /\ cancel' = [cancel EXCEPT ![c] = Died(@, CancelRunning)]
  /\ UNCHANGED <<jobs, registry, queue, revoked, api, exec>>

\* The broker's visibility timeout passes while the worker still runs.
Redeliver(w) ==
  /\ Mode = "celery" /\ exec[w].pc # "idle" /\ Fault("redeliver")
  /\ queue' = queue \cup {exec[w].job}
  /\ UNCHANGED <<jobs, registry, revoked, api, cancel, exec>>

SubmitFails(r) ==
  /\ api[r].pc = "submit" /\ Turn(r) /\ Fault("publish")
  /\ api' = [api EXCEPT ![r].pc = "failing"]
  /\ UNCHANGED <<jobs, registry, queue, revoked, cancel, exec>>

\* A repository call of create_scan raises: inside the try it becomes DISPATCH_FAILED,
\* elsewhere the request fails with 500.
ApiRepositoryFails(r) ==
  /\ api[r].pc \in {"find", "insert", "record", "failing"} /\ Turn(r) /\ Fault("repository")
  /\ api' = [api EXCEPT ![r].pc = IF @ = "record" THEN "failing" ELSE "died"]
  /\ UNCHANGED <<jobs, registry, queue, revoked, cancel, exec>>

\* Its write is committed and the call raises: an inserted row is never submitted, a recorded
\* dispatch becomes DISPATCH_FAILED, a row that was given that status keeps it.
ApiAckLost(r) ==
  /\ Turn(r) /\ Fault("lost_ack")
  /\ \/ /\ api[r].pc = "insert"
        /\ \/ api[r].key = NoKey
           \/ \A j \in Requests : ~Matches(j, api[r].tenant, api[r].key)
        /\ jobs' = [jobs EXCEPT ![r] = NewJob(api[r].tenant, api[r].source, api[r].key)]
        /\ api' = [api EXCEPT ![r].pc = "died"]
     \/ /\ api[r].pc = "record"
        /\ jobs' = [jobs EXCEPT ![r] = SetDispatchId(@)]
        /\ api' = [api EXCEPT ![r].pc = "failing"]
     \/ /\ api[r].pc = "failing"
        /\ jobs' = [jobs EXCEPT ![r] = Transition(@, "failed", @.result_count, "DISPATCH_FAILED")]
        /\ api' = [api EXCEPT ![r].pc = "died"]
  /\ UNCHANGED <<registry, queue, revoked, cancel, exec>>

\* request_cancel raises: no task is revoked and the caller gets a 500.
CancelRepositoryFails(c) ==
  /\ cancel[c].pc = "request" /\ Turn(c) /\ Fault("repository")
  /\ cancel' = [cancel EXCEPT ![c].pc = "died"]
  /\ UNCHANGED <<jobs, registry, queue, revoked, api, exec>>

\* It raises with the request committed; on a terminal row it commits nothing.
CancelAckLost(c) ==
  /\ cancel[c].pc = "request" /\ Turn(c) /\ Fault("lost_ack")
  /\ ~Terminal(jobs[cancel[c].job].status)
  /\ jobs' = [jobs EXCEPT ![cancel[c].job] = RequestCancel(@)]
  /\ cancel' = [cancel EXCEPT ![c].pc = "died"]
  /\ UNCHANGED <<registry, queue, revoked, api, exec>>

\* A repository or registry call of the executor raises: inside the try, poll included,
\* it is caught by "except Exception"; elsewhere it leaves execute().
ExecRepositoryFails(w) ==
  /\ exec[w].pc \notin {"idle", "backoff"} /\ Turn(w) /\ Fault("repository")
  /\ IF exec[w].pc \in {"scan", "store", "publish", "correlate"}
       THEN exec' = [exec EXCEPT ![w].pc = "raised", ![w].error = "INTERNAL_ERROR"]
       ELSE Return(w)
  /\ UNCHANGED <<jobs, registry, queue, revoked, api, cancel>>

\* The executor's write is committed and the call raises.  A claim or a retry event leaves
\* execute() with the row still running; inside the try the error is caught, the one of
\* transition(SUCCEEDED) too.  A write that execute() returns after ends the same either way.
ExecAckLost(w) ==
  /\ Turn(w) /\ Fault("lost_ack")
  /\ \/ /\ \/ /\ exec[w].pc = "claim" /\ CanMarkRunning(Row(w), exec[w].attempt = 1)
              /\ SetJob(w, MarkRunning(Row(w)))
           \/ /\ exec[w].pc = "raised" /\ WillRetry(w)
              /\ SetJob(w, AppendEvent(Row(w), "retrying", "none"))
        /\ Return(w)
        /\ UNCHANGED registry
     \/ /\ \/ /\ exec[w].pc = "store" /\ exec[w].done < exec[w].found
              /\ registry' = [registry EXCEPT ![exec[w].job] = @ + 1]
              /\ UNCHANGED jobs
           \/ /\ exec[w].pc = "store" /\ exec[w].done = exec[w].found
              /\ SetJob(w, Transition(Row(w), "succeeded", exec[w].found, "none"))
              /\ UNCHANGED registry
           \/ /\ exec[w].pc = "publish"
              /\ SetJob(w, AppendEvent(Row(w), "finding", "none"))
              /\ UNCHANGED registry
           \/ /\ exec[w].pc = "correlate"
              /\ SetJob(w, AppendEvent(Row(w), "correlation", "none"))
              /\ UNCHANGED registry
        /\ exec' = [exec EXCEPT ![w].pc = "raised", ![w].error = "INTERNAL_ERROR"]
  /\ UNCHANGED <<queue, revoked, api, cancel>>

\* Shutdown cancels the inline task: the scan's handlers catch it, the backoff's sleep
\* is inside an except clause and nothing does.
Interrupt(w) ==
  /\ Mode = "inline" /\ Fault("interrupt") /\ Turn(w)
  /\ \/ exec[w].pc = "scan" /\ Goto(w, "interrupted")
     \/ exec[w].pc = "backoff" /\ Return(w)
  /\ UNCHANGED <<jobs, registry, queue, revoked, api, cancel>>

-----------------------------------------------------------------------------

Step ==
  \/ \E r \in Requests :
       \/ \E t \in Tenants, s \in Sources, k \in Keys \cup {NoKey, BadKey} : ReceiveScan(r, t, s, k)
       \/ CreateScan(r)
       \/ ApiCrash(r) \/ SubmitFails(r) \/ ApiRepositoryFails(r) \/ ApiAckLost(r)
       \/ DiscardRevoked(r)
  \/ \E c \in Cancels :
       \/ \E j \in Requests : CancelRead(c, j)
       \/ CancelScan(c)
       \/ CancelCrash(c) \/ CancelRepositoryFails(c) \/ CancelAckLost(c)
  \/ \E w \in Workers :
       \/ \E j \in Requests : Deliver(w, j)
       \/ Execute(w)
       \/ WorkerCrash(w) \/ Redeliver(w) \/ Interrupt(w)
       \/ ExecRepositoryFails(w) \/ ExecAckLost(w)

Next == Step \/ ProcessCrash

Spec == Init /\ [][Next]_vars

\* A handler that has begun runs on, a worker takes messages while there are any, and
\* an executor makes steps: every scan ends because the adapter times it out.
Fairness ==
  /\ \A r \in Requests : WF_vars(CreateScan(r))
  /\ \A c \in Cancels : WF_vars(CancelScan(c))
  /\ \A w \in Workers : /\ WF_vars(\E j \in Requests : Deliver(w, j))
                        /\ WF_vars(Execute(w))

FairSpec == Spec /\ Fairness

-----------------------------------------------------------------------------
(* Types *)

Rows == [status : RowStatus, tenant_id : Tenants \cup {None}, source : Sources \cup {None},
         idempotency_key : Keys \cup {NoKey}, dispatch_id : BOOLEAN, attempt : Nat,
         cancel_requested : BOOLEAN, result_count : Nat, error_code : ErrorCodes,
         events : Seq(Events)]

ApiFrames == [pc : {"new", "done", "died"} \cup ApiRunning,
              tenant : Tenants \cup {None}, source : Sources \cup {None},
              key : Keys \cup {NoKey, BadKey}, job : Requests \cup {None},
              code : {"none", "INVALID_IDEMPOTENCY_KEY", "UNKNOWN_SOURCE", "existing",
                      "accepted", "DISPATCH_FAILED"}]

CancelFrames == [pc : {"new", "done", "died"} \cup CancelRunning,
                 job : Requests \cup {None}, dispatch_id : BOOLEAN]

ExecPcs == {"idle", "load", "unknown", "check", "cancelling", "claim", "scan", "teardown",
            "interrupted", "raised", "backoff", "store", "publish", "correlate"}

ExecFrames == [pc : ExecPcs, job : Requests \cup {None}, attempt : Nat, found : Nat,
               done : Nat, error : ErrorCodes]

\* Every row, frame and counter keeps its shape; a frame past its first step names a job,
\* and an INSERT only ever carries a key the handler accepted.
TypeOK ==
  /\ jobs \in [Requests -> Rows]
  /\ registry \in [Requests -> Nat]
  /\ queue \subseteq Requests /\ revoked \subseteq Requests
  /\ api \in [Requests -> ApiFrames]
  /\ \A r \in Requests : api[r].pc \in ApiRunning =>
       api[r].tenant \in Tenants /\ api[r].source \in Sources /\ api[r].key \in Keys \cup {NoKey}
  /\ cancel \in [Cancels -> CancelFrames]
  /\ \A c \in Cancels : cancel[c].pc # "new" => cancel[c].job \in Requests
  /\ exec \in [Workers -> ExecFrames]
  /\ \A w \in Workers : exec[w].pc # "idle" => exec[w].job \in Requests
  /\ faults \in 0..MaxFaults

-----------------------------------------------------------------------------
(* Safety *)

\* The unique index of (tenant_id, idempotency_key), with the lookup before the INSERT and
\* the one after an IntegrityError: calls that repeat a tenant's key are answered with one
\* job, however they interleave, and no other row ever carries that key.
OneJobPerKey ==
  /\ \A i, j \in Requests :
       /\ Exists(i) /\ Exists(j) /\ i # j
       /\ jobs[i].tenant_id = jobs[j].tenant_id
       => jobs[i].idempotency_key # jobs[j].idempotency_key \/ jobs[i].idempotency_key = NoKey
  /\ \A q, r \in Requests :
       /\ api[q].job # None /\ api[r].job # None
       /\ api[q].tenant = api[r].tenant /\ api[q].key = api[r].key /\ api[q].key # NoKey
       => api[q].job = api[r].job

\* Inside an attempt, and at the top of the attempt loop.
InAttempt == {"scan", "teardown", "interrupted", "raised", "backoff", "store", "publish",
              "correlate"}

LoopTop == {"check", "cancelling", "claim"}

\* An executor past a successful mark_running that has not returned from execute().
Owns(w, j) ==
  /\ exec[w].job = j
  /\ exec[w].pc \in InAttempt \/ (exec[w].pc \in LoopTop /\ exec[w].attempt > 1)

\* mark_running's conditional UPDATE is the only mutual exclusion between executors: under
\* redelivery, crashes and retries, at most one of them scans or stores results for a job.
SingleOwner ==
  \A v, w \in Workers, j \in Requests : Owns(v, j) /\ Owns(w, j) => v = w

\* The attempt column counts scans over all deliveries of the job, and the retry loop's
\* bound is on a local counter: a redelivered job never gets more than MaxAttempts scans,
\* and a scan in progress is the attempt its row says.
AttemptsBounded ==
  /\ \A j \in Requests : jobs[j].attempt <= MaxAttempts
  /\ \A w \in Workers : exec[w].pc = "scan" => exec[w].attempt = jobs[exec[w].job].attempt

\* The log a client streams: each status the row takes is in the commit that writes it, so
\* the last status-bearing event is the row's status, whichever handler wrote it.
EventsExplainStatus ==
  \A j \in Requests : Exists(j) =>
    LET log == jobs[j].events
    IN  \E i \in DOMAIN log : /\ log[i].status = jobs[j].status
                              /\ \A k \in DOMAIN log : k > i => log[k].status = "none"

FindingEvents(j) ==
  Cardinality({i \in DOMAIN jobs[j].events : jobs[j].events[i].kind = "finding"})

\* No finding is announced before it is stored, and a job that succeeded stored, announced
\* and counted the same findings: no duplicate or partial second run got in between.
ResultsAccounted ==
  \A j \in Requests :
    /\ FindingEvents(j) <= registry[j]
    /\ jobs[j].status = "succeeded" =>
         FindingEvents(j) = jobs[j].result_count /\ registry[j] = jobs[j].result_count

\* An executor told that its committed transition(SUCCEEDED) failed: "except Exception" is
\* about to write FAILED over it.
Unacknowledged(w) ==
  /\ "lost_ack" \in Faults
  /\ exec[w].pc = "raised" /\ exec[w].error = "INTERNAL_ERROR"
  /\ Row(w).status = "succeeded"

\* A terminal job is really over: no executor still scans, stores or retries for it.  At most
\* the one that reported its success without an acknowledgement still has its FAILED to write.
TerminalIsQuiet ==
  \A j \in Requests : Terminal(jobs[j].status) =>
    \A w \in Workers : Owns(w, j) => Unacknowledged(w)

\* transition() overwrites whatever it finds, yet a scan that was reported as succeeded or
\* timed out is never run or reported again: its status gives way only to the DISPATCH_FAILED
\* of a create call that is still recording the dispatch, to the CANCELLED of an executor
\* that had read a cancellation request before, or, from SUCCEEDED only, to the FAILED of the
\* executor that reported it and got no acknowledgement.
ResultStands ==
  [][\A j \in Requests :
       jobs[j].status \in {"succeeded", "timed_out"} /\ jobs'[j].status # jobs[j].status =>
         \/ jobs'[j].status = "failed" /\ api[j].pc = "failing"
         \/ /\ jobs'[j].status = "cancelled" /\ jobs[j].cancel_requested
            /\ \E w \in Workers : exec[w].job = j /\ exec[w].pc = "cancelling"
         \/ /\ jobs'[j].status = "failed"
            /\ \E w \in Workers : exec[w].job = j /\ Unacknowledged(w)]_vars

\* The job statuses move as the API's contract says, a success being taken back only where
\* an acknowledgement can be lost.
Contract == INSTANCE JobContract WITH Jobs <- Requests,
                                      MayRetract <- "lost_ack" \in Faults,
                                      status <- [j \in Requests |-> jobs[j].status]

RefinesContract == Contract!ContractSpec

-----------------------------------------------------------------------------
(* The inductive invariant behind SingleOwner, AttemptsBounded and OneJobPerKey *)

\* A handler's own row is missing until it inserts it; every message, frame and answer
\* refers to a row that exists, and an answer to one with the call's tenant and key.
RowsPrecedeUse ==
  /\ \A r \in Requests : api[r].pc \in {"new", "find", "insert"} => ~Exists(r)
  /\ \A r \in Requests : api[r].pc \in {"submit", "record", "failing"} =>
       Matches(r, api[r].tenant, api[r].key)
  /\ \A j \in queue : Exists(j)
  /\ \A c \in Cancels : cancel[c].pc # "new" => Exists(cancel[c].job)
  /\ \A w \in Workers : exec[w].pc # "idle" => Exists(exec[w].job)
  /\ \A r \in Requests : api[r].job # None => Matches(api[r].job, api[r].tenant, api[r].key)

\* A row leaves "queued" once and for good, on its first claim or without one: an owner's
\* row is past "queued" and carries the owner's attempt, one less between two attempts.
OwnershipInv ==
  /\ SingleOwner
  /\ \A j \in Requests : jobs[j].status \in {"absent", "queued"} => jobs[j].attempt = 0
  /\ \A j \in Requests : jobs[j].attempt <= MaxAttempts
  /\ \A w \in Workers, j \in Requests : Owns(w, j) =>
       /\ jobs[j].status \notin {"absent", "queued"}
       /\ exec[w].attempt = IF exec[w].pc \in LoopTop
                              THEN jobs[j].attempt + 1 ELSE jobs[j].attempt
  /\ \A w \in Workers : exec[w].pc \in LoopTop => exec[w].attempt \in 1..MaxAttempts
  /\ \A w \in Workers : exec[w].pc = "backoff" => exec[w].attempt < MaxAttempts

IndInv == TypeOK /\ RowsPrecedeUse /\ OneJobPerKey /\ OwnershipInv

-----------------------------------------------------------------------------
(* Liveness *)

\* Every accepted job ends.
JobsEnd == \A j \in Requests : Exists(j) ~> Terminal(jobs[j].status)

\* A cancellation the API accepted ends the job.
CancelTakesEffect == \A j \in Requests : jobs[j].cancel_requested ~> Terminal(jobs[j].status)

=============================================================================
