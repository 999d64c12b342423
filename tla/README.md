# Verification of shared-integration

TLA+ models of the integration gateway in `src/shared_integration`, the TLC configurations that check
them and TLAPS proofs about them. Paths below are relative to the repository unless they name a file of
this directory.

## 1. The system

The gateway accepts security scans over HTTP, runs them in product adapters, stores the findings per
tenant and correlates them across products.

| Part | State | Operations | Interacts with |
|---|---|---|---|
| Job repository (`jobs.py`, `sql_jobs.py`) | job rows, event log per job | create, mark_running, transition, append_event, set_dispatch_id, request_cancel, list_events | every other part of a job's life |
| Scan API (`api_v1.py`) | none beyond a request | create_scan, cancel_scan, scan_events (SSE) | repository, dispatcher |
| Dispatchers, Celery (`dispatch.py`, `celery_app.py`, `tasks.py`) | broker messages, or asyncio tasks | submit, cancel (revoke), execute_job | API, executor |
| Executor (`execution.py`) | locals of one execution | execute, _scan_with_cancellation, _store_results | repository, adapter, finding registry |
| Adapters (`adapters/`) | semaphore, child processes and their payload files | scan | executor |
| Finding registry (`finding_lifecycle.py`; `persistence.py` for SQLite) | finding, correlation and tenant rows, subscriber queues | add_for_job, add_correlation, update_lifecycle, list_page, subscribe | executor, API |
| Correlation rule (`correlations.py`) | none | correlate | executor |
| Rate limiter (`auth.py`) | table of buckets | check | exchange handler |
| Identity (`identity.py`, `api_v1.py`, `auth.py`) | tenants, users, memberships, clients, sessions, API keys, audit log | exchange, authenticate, revoke, administration | every request |
| Administration (`admin_cli.py`) | none | commands on the identity repository | identity, migration |
| Migration (`migration_tools.py`) | two databases | run | both finding registries, job repository |
| RBAC middleware (`auth.py`, `tenancy.py`) | the tenant of the context | authenticate and authorize every request | identity, registries |
| Composition, tracing, schema, seeds | none of their own | — | — |

What is hard here:

* **Concurrency.** With Celery, API processes and workers meet only in the database. Every repository
  call is one transaction, so any two calls of different processes interleave; the executor and the
  handlers repeatedly read a row and act on it later. Inline, the same code runs as coroutines of one
  event loop and interleaves only at awaits that suspend.
* **Failure.** `acks_late` and `reject_on_worker_lost` redeliver messages, a visibility timeout duplicates
  them, repository calls raise inside and outside `try` blocks, before their write or after its commit, and
  processes die between two transactions.
* **Ordering.** The event log is streamed while it is written; the cursor of a listing is used while rows
  are inserted; an identity decision reads four rows one after the other.
* **Limits.** The limiter's table, an adapter's semaphore, a subscriber's queue and the SQLite registry are
  bounded, and what happens at the bound decides who is let through or what is lost.
* **Cancellation.** A scan may be cancelled at every await of the adapter, by the job's cancel flag, by the
  loop's shutdown or by both, while a timer fires and the product's process ends.
* **Reruns.** The migration reads one database and writes another that a gateway already serves from, and
  is run again after a failure.

What makes each part correct: one executor per job and a bounded number of scans; one job per key; a log
that explains the status; results stored, announced and counted once; terminal jobs that are over;
streams without gaps, duplicates or missing ends; findings merged without loss; triage kept; complete
paging; bounded memory and attempts in the limiter; revocation that is permanent, and refused exchanges
that leave nothing behind; slots, files and processes that are given back; the documented matrix of roles
and scopes, and no access to another tenant's rows; an import that is complete and may be repeated. `PROJECT.json` lists the hazards behind these with their lines.

## 2. Modules

| Module | Models | Composes |
|---|---|---|
| `JobRepository` | the transactions on a job row, as functions of the row | |
| `JobLifecycle` | create and cancel handlers, dispatch, broker, executor, faults | `JobRepository` |
| `JobContract` | abstract: how a job's status may move, seen by a client | |
| `JobEventStream` | `scan_events` and a reconnecting client beside the writers | `JobLifecycle` |
| `ExchangeRateLimiter` | `ExchangeRateLimiter.check` | |
| `FindingRegistry` | `_store_results`, `_store_finding`, correlation, PATCH, paging | |
| `IdentitySessions` | exchange, session authentication, revocation, administration | |
| `RequestAccess` | API keys, static tokens, backends, roles and scopes, the tenant context | |
| `ScanCall` | abstract: what an executor may see of `_scan_with_cancellation` | |
| `AdapterProcess` | `JSONSubprocessAdapter` and the executor's poll loop, on one event loop | `ScanCall` |
| `LegacyRegistry` | the SQLite finding registry: merge, prune, subscriber queues | |
| `LegacyMigration` | the import of a SQLite registry and its jobs into the relational database | `LegacyRegistry` |
| `JobLifecycle_proofs` | theorems: who owns a job, keys, types; logs, results, verdicts, the contract | `JobLifecycle` |
| `JobEventStream_proofs` | theorems: streams | `JobEventStream`, `JobLifecycle_proofs` |
| `LegacyMigration_proofs` | theorems: the SQLite registry and its import | `LegacyMigration` |
| `ExchangeRateLimiter_proofs`, `FindingRegistry_proofs`, `IdentitySessions_proofs`, `RequestAccess_proofs`, `AdapterProcess_proofs` | theorems about the module of that name | that module |
| `MCJobs`, `MCStream`, `MCRateLimiter`, `MCFindings`, `MCSessions`, `MCAccess`, `MCAdapter`, `MCMigration` | TLC instances | |

Operators marked *Mutant* are wrong versions of the definition that follows them. Each is substituted for
it in a run of its own, where the property it is paired with in `PROJECT.json` must fail.

**JobRepository, JobLifecycle.** A row keeps status, tenant, key, source, dispatch flag, attempt, cancel
flag, result count, error code and its event log; payloads and messages are gone. A transaction is atomic
because the SQLAlchemy repository locks the row (`FOR UPDATE`, or the lock of the conditional `UPDATE`)
and the SQLite one holds its lock; the event is in the same commit. `create` is two steps, its lookup and
its INSERT, since another process may insert between them. A handler or executor is a frame: a program
counter and the locals that outlive a call. There is one step per repository call. `Mode = "inline"` adds
`Turn`: a coroutine that has not suspended keeps the event loop. The scan is one suspended step with the
outcomes of `_scan_with_cancellation`; the poll reads the row before results are returned. The executor's
handlers decide where an exception goes, including exceptions of the repository itself. A repository call that
raises has either written nothing (fault `repository`) or committed and lost its acknowledgement
(fault `lost_ack`: `ApiAckLost`, `CancelAckLost`, `ExecAckLost`): `create`, `mark_running`, `transition` and
`request_cancel` of `sql_jobs.py` commit and then re-read the row in a second transaction, which may raise, and
the answer to any COMMIT may get lost. The caller goes on as after any other exception, though its write
stands. `DiscardRevoked`, `Redeliver` and the crashes are the broker's and the operating system's, modelled
from the Celery configuration. A message is a job's membership in `queue`: more than one waiting copy of a message is not
told apart, one waiting copy beside a running delivery is.

**JobContract.** `absent -> queued -> running -> terminal`, with `queued -> failed | cancelled`. A terminal
status is final with one exception, `Retract` (`succeeded -> failed`), which is allowed only where an
acknowledgement can be lost (`MayRetract`): the executor whose success was committed but not acknowledged
then reports the job as failed (`execution.py:127`). `RefinesContract` says that the statuses of
`JobLifecycle` move that way. It holds inline with every fault of that mode, and in Celery mode with crashes
of workers and API processes; with redelivery, failed publishing or failed or unacknowledged repository calls
in Celery mode it does not, because `transition` overwrites terminal statuses (see "met while modelling").

**JobEventStream.** The generator's two reads are two steps; inline nothing runs between them if the
first found no event. `received` is what the client holds over all its connections. A process crash ends
every inline stream.

**ExchangeRateLimiter.** The clock counts ticks, so `int()` truncates. `granted` is a history variable.

**FindingRegistry.** One tenant. `_store_finding` is up to three steps. `severity` stands for the three
columns written with it; a finding's timestamp is a small number; fingerprints are given, with the
assumption that equal fingerprints mean equal source, which is hashed as it is. The host is stripped and
casefolded before it is hashed, so findings of one fingerprint may spell it differently: a merge takes the
incoming spelling, while the correlation rule compares hosts exactly. `LaterRunsCorrelate` is therefore about
an earlier finding whose stored sightings all spell the host as the later finding does.

**IdentitySessions.** Each SELECT of a decision is a step, since READ COMMITTED lets another process
commit between any two. Secrets are abstracted: a token can be used once an exchange disclosed it.
`disturbed` and `dead` are history variables.

**RequestAccess.** A request's token is looked up as its backend says: `static` in the configured table,
`database` as a session or an API key, `hybrid` in both. `authenticate_api_key` reads the key's row and then
its tenant's, each a step, between which keys are issued, revoked and expire and tenants are suspended. A
session token gets any answer here, because that decision is `IdentitySessions`'. Then the method and path
are checked against the role and the key's scopes, and the handler runs with the tenant in a context
variable: the request's own, or the copy that the scan's executor inherited. `None` and an empty list of
scopes are one value, as they are for the code. Requests in `Plain` only read, which bounds the state space.

**AdapterProcess, ScanCall.** The event loop of the inline gateway; in Celery mode each task builds a
gateway of its own, so its semaphore is shared by nobody, and the model's single-scan behaviours are the
task's. There is no clock: a timer may fire as long as the await it bounds is pending. Cancellation follows
asyncio of Python 3.12: `Task.cancel()` leaves a pending `CancelledError` that the task takes at its next
step, and a cancelled waiter leaves the semaphore's queue. `asyncio.run`'s shutdown cancels executors and
scans alike. `proc.wait()` is assumed to return once the process has exited, and a grace timer that fires in
the very turn of the exit is left out. `ImplementsScanCall` closes the gap between the executor's two models:
the outcomes and cancellations `JobLifecycle` lets `_scan_with_cancellation` have are `ScanCall`'s, and the
detailed poll loop over the adapter refines it.

**LegacyRegistry, LegacyMigration.** The registry's store, prune and offer to the subscribers run under one
lock and are one step; a report carries one finding. Its two tables are sets of rows numbered by `seq`, which
an update keeps and pruning goes by. A correlation names a set of finding ids; their order in the payload is
left out, since nothing reads it but the hash that makes the correlation's id, and the model takes the legacy
row itself for that id. The
import is one transaction of the target, modelled a statement at a time beside the gateway's own
transactions (new findings, triage, new jobs, cancellations); its tenants are locked from the flush on, so
that another writer's tenant can still make the flush fail. There may be a crash before or after the commit, and there is a
second run. Legacy job ids are UUIDs, so the error for an id that belongs to another tenant is left out, as
are malformed rows and the dry run, which changes nothing.

## 3. What TLC checks

| Run | Bounds | Shows |
|---|---|---|
| `jobs_faults` | 1 job, 2 cancels, 2 workers, 2 sources (the workers know one), 2 attempts, 2 findings, 2 faults of 6 kinds | `SingleOwner`, `AttemptsBounded`, `EventsExplainStatus`, `ResultsAccounted`, `ResultStands` |
| `jobs_contract` | 2 creates, 1 key, 1 cancel, 2 workers, 2 attempts, 1 crash of a worker or API process | `OneJobPerKey`, `TerminalIsQuiet`, `RefinesContract` |
| `stream_celery` | 1 job, 1 cancel, 1 worker, 1 attempt, 1 fault (publish or redelivery), 2 connections, pages of 2 | `StreamIsPrefix`, `JobsEnd`, `StreamsClose` |
| `stream_inline` | 1 job, 1 cancel, 2 tasks, 2 attempts, 2 faults (process death, shutdown, repository, lost acknowledgement), 2 connections | `StreamIsComplete` |
| `jobs_inline` | 2 creates, 1 key, 1 cancel, 2 tasks, 2 attempts, 1 finding, 2 faults of the same kinds | `RefinesContract` |
| `rate_limiter` | 3 callers, 3 buckets, 2 attempts, window of 4 ticks, 6 ticks | `MemoryBounded`, `WindowsBounded`, `RetryAfterSuffices` |
| `findings` | 3 runs, 1 PATCH, 1 pager with pages of 1, 6 possible reports, one with the same problem twice, its host in two spellings | `NothingLost`, `TriageSurvives`, `PagingIsComplete`, `LaterRunsCorrelate` |
| `sessions` | 2 exchanges, 1 request, 1 revocation, 2 clients, 2 administrative changes, 1 tick | `RevocationIsPermanent`, `DecisionsAreExact`, `RefusedLeavesNothing`, `OneUserPerSubject` |
| `access` | 2 requests, 1 API key, 1 static token, 2 tenants, every backend, 2 administrative changes, 1 tick | `PermissionMatrix`, `RevokedKeysStayOut`, `TenantIsolation` |
| `adapter` | 3 scans, 1 slot, 1 scan that may be cancelled, refused or polled in vain, shutdown at any time | `SlotsConserved`, `PayloadLives`, `OrphansAreExplained`, `VerdictIsHonest`, `ScansEnd`, `ImplementsScanCall` |
| `migration` | 2 tenants (1 moved), 3 reports, 2 rows kept, queue of 2, 2 imports, 2 writes of the gateway | `FeedInOrder`, `NothingMissing`, `SafeToRerun`, `PruningKeepsNewest` |
| `v_cancel_between_attempts` | 1 job, 1 cancel, 1 worker, 2 attempts, no fault | violates `CancelTakesEffect` |

Why the bounds suffice: a job's races are between two executors, an executor and a handler, or two
handlers, and a second delivery after a first already shows what a third would; two attempts make one
retry; two findings let a failure fall between them; two faults combine, for instance, a redelivery and a
crash. Three callers fill the limiter's table and overflow it, and six ticks let a window of four slide
over it. Three runs let two race for a row that a third has seen, two changes suspend and reactivate what
a decision depends on. Three scans on one slot keep two waiting, one of them to be cancelled in the queue.
Three reports overflow a registry of two rows and a queue of two; one import that crashes or commits and one
after it show a rerun. Clocks, faults and changes stop at their bounds, so runs may end; deadlock is
checked only for the limiter, which never may.

Fairness (`JobsEnd`, `StreamsClose`, `CancelTakesEffect`): weak fairness of each handler, of each
worker's taking a message and of each executor. A handler or a task that can run does, because the event
loop and the operating system schedule it; a scan ends because the adapter limits its time, which is
what `ScansEnd` shows of `AdapterProcess`: there the steps of scans and executors are weakly fair, and a
process ends only after SIGKILL, never by itself or on SIGTERM. No fairness
is assumed of clients that call, of faults or of the discarding of revoked messages. Stream clients are
assumed to read and to reconnect.

`JobsEnd` is checked with one attempt: with two it fails for the reason of the finding. It is not claimed
under crashes, see section 6.

### Findings

`v_cancel_between_attempts`: a cancellation between the retry's read and its claim leaves the job
RUNNING for good (`execution.py:75`).

Met while modelling, without a run of their own; the properties named state what holds instead:

* A cancellation in the grace period of a scan that timed out ends `_stop_process` before its `kill()`, and a
  process that ignores SIGTERM lives on without a slot (`adapters/base.py:290`), though
  `docs/architecture.md:233` has every job end in a forced termination; `OrphansAreExplained` names this case
  and the shutdown as the only ones.
* A failed dispatch overwrites CANCELLED (`api_v1.py:340`), and redelivery lets CANCELLED overwrite
  SUCCEEDED (`execution.py:67`); `ResultStands`, `EventsExplainStatus`.
* A success that was committed but not acknowledged is overwritten with FAILED by the executor itself
  (`sql_jobs.py:247` re-reads after the commit, `execution.py:127` handles what it raises), with findings
  stored and announced; `ResultStands`, `TerminalIsQuiet` and the contract's `Retract` name the case. The
  calls of the same shape leave a RUNNING job without an executor (`mark_running`), a QUEUED one without a
  message (`create`) and an error for a cancellation that was recorded (`request_cancel`).
* A finding whose host is spelled otherwise in a later report is merged with the earlier one
  (`finding_lifecycle.py:405` casefolds) but not correlated with what has the earlier spelling
  (`correlations.py:46` compares exactly), and the merge puts the new spelling in the payload beside the old
  one in the `asset` column; `LaterRunsCorrelate`.
* In Celery mode a stream can close before the last event was sent: the log is read before the row
  (`api_v1.py:444`); `StreamIsPrefix` there, `StreamIsComplete` inline.
* The handler of a lost insert race updates a finding's payload but not its columns
  (`finding_lifecycle.py:377`); `NothingLost`.
* A caller can use its own bucket and the shared one in the same window, twice the configured limit
  (`README.md` names one limit); `WindowsBounded`.
* Overlapping scans are not correlated with each other (`execution.py:182`); `LaterRunsCorrelate`.
* A correlation carries the incoming finding's id, which a merge may have replaced (`execution.py:196`).
* A dispatch failure is answered `retryable`, and a retry with the same key gets the failed job back
  (`api_v1.py:353`).
* Concurrent revocations of a session are audited twice (`identity.py:772`); an exchange whose fresh session
  does not authenticate is refused without a failure event (`api_v1.py:170`; `docs/architecture.md:259` asks
  for one). The audit log is not modelled.
* A product CLI that is missing is a retryable error, which `docs/architecture.md:237` says is not retried.
* A poll that fails ends the job as INTERNAL_ERROR while its scan keeps running and holding its slot
  (`execution.py:157`); `VerdictIsHonest` names the case.
* A payload whose write fails is left behind (`adapters/base.py:146`); `PayloadLives` names the case.
* A link to a finding that the SQLite registry pruned is imported with its legacy id; a legacy job that was
  queued or running is imported so and never dispatched; an idempotency key or id that the new gateway has
  used makes the import fail on every run. `NothingMissing` and `SafeToRerun` are about the rest.

## 4. What is proved

Every theorem holds for all values of the constants that the module's one named assumption admits
(`ConstantsAssumption`, `StreamAssumption`, `LimiterAssumption`, `FindingsAssumption`,
`SessionsAssumption`, `AccessAssumption`, `AdapterAssumption`; two for the migration): any number of calls, workers, scans,
findings, clients, tenants or ticks. Those assumptions keep apart the constants that name different
things, give numbers their range and, for findings, say that a fingerprint determines the source.
`LegacyAssumption` and `MigrationAssumption` do the same for the migration, and say of a legacy job table that
it is finite, has one row per id and per tenant and key, and does not hold the id of a job that the new gateway
has yet to create. Every safety property, action property and refinement of section 3 is a theorem.

Three theorems have a hypothesis beside them:

* `ClosedStreamsAreComplete`: `Mode = "inline"`. In Celery mode the property is false.
* `TerminalMeansOver`: `DeliveredOnce`. Inline it asks nothing, and what is proved excepts the executor whose
  success was not acknowledged; in Celery mode it excludes the faults that give a job a second message, or a
  worker a job whose create call then fails it: redelivery and failed or unacknowledged repository calls.
* `KeepsContract`: `ContractAssumption`, which adds for Celery mode that publishing does not fail and that
  the workers have an adapter for every source the API accepts. Otherwise `transition` overwrites a
  terminal status; the cases are under "met while modelling".

### Jobs (`JobLifecycle_proofs`)

`Inductive`, `TypeCorrect`, `MutualExclusion`, `BoundedAttempts`, `Idempotency`. `SingleOwner` is not
inductive: that a second executor cannot claim a job depends on its row being past "queued", that a retry
cannot be claimed by two depends on only one of them being past its first attempt, and that the attempt
column stays bounded depends on it following the owner's local counter. `IndInv` says so:

* `TypeOK`, with the facts about frames that types alone do not give;
* `RowsPrecedeUse`: a handler's row is absent until it inserts it, and every message, frame and answer
  refers to a row that exists, an answer to one with the call's tenant and key;
* `OneJobPerKey`: both halves, rows and answers;
* `OwnershipInv`: a queued row has attempt 0; an owner's row is past "queued" and carries the owner's
  attempt, one less at the top of the loop; loop counters stay in `1..MaxAttempts`.

The proof goes by effects. Lemmas first bound what any step does to a row, to an executor's frame and to a
handler's frame (a row never returns to "queued", the attempt moves only on a claim, and so on); the
preservation of each conjunct of `IndInv` then follows from these effects and the few actions that
establish it.

`LogsExplain`, `ResultsAreAccounted` and `VerdictsStand` rest on a second invariant, `ResultsInv`, that needs
the first. `StepWrites` lists who may write a row and what: at most one row per step, by one transaction of
the repository. `RowOK` says of a row that the last event with a status carries the row's, that no more is
announced than stored, and that a succeeded or timed-out row has no owner but the one whose success was not
acknowledged (`Unacknowledged`); `WorkerOK` says of an executor
that it has stored nothing before its scan is done, and how its counter, the registry and the announced
findings relate at each point of `_store_results`. The results can be counted because of `SingleOwner`: only
the owner adds to them.

`TerminalMeansOver` uses `DeliveryInv`: a job is at most once in the queue or at an executor, inline at most
one coroutine has the turn, and so an owner's row is "running", or its owner is `Unacknowledged`. `KeepsContract` adds `ContractInv`: what an
executor that read a row before still finds in it. The refinement is proved step by step: each write of
`StepWrites` is a step of `JobContract` or leaves its statuses alone.

### Streams (`JobEventStream_proofs`)

`StreamsFollowTheLog` holds in both modes and under every fault. Its invariant `FollowInv` says that a
connection's cursor is the number of events its client holds and that the batch in hand continues them; it is
kept because logs only grow (`LogGrows`, proved of every repository operation). `ClosedStreamsAreComplete`
uses `WholeInv`: between an empty read and the poll the client holds the whole log (inline nothing runs in
between), and the job of a closed stream is `Over`. That nobody will ever write such a row again
(`OverStays`) is where `DeliveryInv` is needed: no executor may hold a terminal job, except one about to
read its row.

### Rate limiter (`ExchangeRateLimiter_proofs`)

`LimiterTypes` and `LimiterMemory` need that a bucket is created only when there is room after the sweep and
that an append happens below the limit. `RetryAfterWaits` needs `ClockInv`: buckets are ordered by time and
the last refusal was computed from the oldest live attempt of its bucket. `WindowsAreBounded` is about grants
that the table may have forgotten the owner of. `WindowInv` assigns each grant of the window its own slot
in a bucket of the table, the caller's or the shared one; the sweep drops only slots that are too old to
count, and a caller moves between buckets without moving its old slots. So a caller has at most two buckets'
grants and all callers at most `max_keys` buckets'.

### Findings (`FindingRegistry_proofs`)

* `TriageStands` (`TriageInv`): a merge rewrites every column but the status, and the last PATCH of a row is
  the one marked so.
* `StoresAreCounted` (`CountInv`): the row's counters are those of the set of stores that have committed.
  A run that found no row must not be the one the row names when it comes to insert or merge (`MissedRow`).
* `EarlierRunsAreCorrelated` (`CorrelationInv`): the registry that a run is given holds, under the id that
  was first, one of the stored sightings of each finding of the runs that ended before it (`Snapshot`), with
  that sighting's host, source and time; rows, ids, correlations and sightings only grow (`Grows`). Which
  sighting it is depends on the last merge, so the pair is certain to be correlated when every sighting
  spells the host as the later finding does and lies in its window.
* `PagesAreComplete` (`PagerInv`, `RowIdsOK`): row ids number the rows in the order of insertion, so new rows
  are above every cursor in use. What a client has passed of what was there is on exactly one page, and what
  it has not passed on none. That a page is full or has all there is below the cursor (`PageIs`) rests on
  the least number of a set and the least of a family of finite sets (`MinIs`, `SmallestSet`), which come from
  the well-foundedness of inclusion.
* `RegistryTypes` (`RegistryInv`), which the others build on.

### Identity and access (`IdentitySessions_proofs`, `RequestAccess_proofs`)

`SessionRevocation`, `SessionDecisions`, `RefusedExchanges`, `OneUser` and `SessionTypes` follow from one
invariant with a part per handler: `ExchangeOK` (an exchange has no session row before it issues one and
works only on its own), `DeadIsSeen` (what a request has yet to read still shows that its session was dead
when it began: nothing revives a session or a client, and the clock does not go back), and `ReadsHold` (what
an undisturbed request has read is still so). The proof separates what a handler does to its own frame from
what others do to the rows: `KeepFrame` shows that a step that revives nothing (`Later`) keeps the frames of all who do not take it.

`AccessMatrix`, `AccessRevocation` and `AccessIsolation` follow from `LookupOK` (a key that was over when the
request came is over in what was read), `DecisionOK` (who is served was permitted) and `BoundOK` (the context
a task runs in). `PermittedIsTheMatrix` compares the code's chain of early returns with the documented matrix
for every role, set of scopes and route.

### Adapters (`AdapterProcess_proofs`)

`AdapterTypes`, `AdapterSlots`, `AdapterPayloads`, `AdapterOrphans` and `AdapterVerdicts` share an invariant:
`QueueOK` (the semaphore's queue holds each waiting scan once), `SlotsOK` (free slots and holders add up, and
none is free while a scan waits) and, per scan, how its process, signal and file go with its place
(`ScanOK`), how it may have ended (`EndOK`) and who may have cancelled it (`ExecOK`). The slot arithmetic is in
`TakeSlot` and `GiveSlot`, used wherever a slot changes hands. `AdapterImplementsScanCall` proves the
refinement of `ScanCall`: every step is a step of it for the scan concerned, all of them together at a
shutdown, or a stutter.

### The SQLite registry and its import (`LegacyMigration_proofs`)

`RegistryAlways`, `FeedsAreInOrder` and `NewestAreKept` rest on `RegistryInv`: a table is finite, its rows have
different numbers and no tenant has more than `max_size`, and each feed follows its tenant's items (`InOrder`).
That the next number is new (`NextSeqIsNew`) needs the greatest of a finite set of numbers, which comes, like
the oldest row, from the well-foundedness of inclusion (`SmallestSubset`). `PrunedIsOldest` says what pruning
removes: rows of the tenant that are older than all it keeps. A row just inserted is the newest, and an update
leaves a table that had room (`StoreKeepsNewest`), so what was stored stays. For the feeds, `ItemDelivered` and `ItemDropped` append an item to what
a subscriber has received and waits for, or leave it out behind a full queue.

`ImportAlways` proves `ImportInv` beside it, from which `NothingIsMissing` and `RerunIsSafe` follow.
`NothingMissing` is not inductive: it speaks of what is committed, and the import relies on what it read before
the gateway's transactions between its statements. `Good(d, f)` says of a database and an open transaction:

* `KeysOK`: ids, fingerprints and idempotency keys are unique over both together, so that the commit cannot
  clash; an INSERT that would meet another writer's uncommitted key waits;
* `ProgressOK`: what the transaction has done by the statement it is at. Each legacy finding that was read has
  one row, and the import's map of ids one entry for it that leads there (`IdsOK`), which is why a link that
  goes by the map names the right row (`MappedIsRow`);
* `QuietOK`: as long as nobody else has committed, what the import looked up still holds, and if it failed then
  for a key the target has (`Refused`);
* committed correlations lead to the rows of the findings they name, under whichever id (`LinksOK`).

`Complete` adds, once an import has committed, that there is nothing left for another to write. One lemma per
statement of the import shows that it keeps `Good` and `Complete` (`BeginIsGood` to `CommitIsGood`), and one for
the gateway (`WriteIsGood`) that whatever adds rows, jobs and events or rewrites a row under its keys does too.
`TypesAlways` is the modules' type invariant.

### What the proofs changed in the models

* Two definitions had `CASE` arms that overlap, whose value the language leaves open; both now say which
  comes first, as the code does (`ReceiveScan`, `ReadMembership`).
* `NothingLost` was false for a report that holds one problem twice, a case the instance did not have: the
  columns cover the job's *last* sighting. The property says so, and `findings` has such a report.
* `EventsExplainStatus` is stated over the positions of the log, without a recursive selection.
* `JobEventStream` updates a connection field by field (`![c].pc`), since the prover misreads an `EXCEPT`
  inside another; the steps are the same.
* That equal fingerprints mean equal hosts was an assumption; without it `LaterRunsCorrelate` needed its
  hypothesis about sightings, and the merge's payload had to be tracked as one sighting among several.
* The SQLite tables were sequences that were merged, filtered and cut by recursive operators. They are now sets
  of numbered rows, as the database has them.
* In `ImportJobs` the union of the jobs' events is in parentheses: the tools disagree on whether `UNION` or `\`
  binds closer.

### Only model-checked

`JobsEnd`, `StreamsClose`, `ScansEnd` and the violation of `CancelTakesEffect` are liveness under fairness,
which the proof system does not do. No run lists the type invariants of `LegacyRegistry`, `LegacyMigration` and
`AdapterProcess`; `TypesAlways` and `AdapterTypes` prove them. `StreamIsComplete` is not claimed in Celery mode.

## 5. Plan

1. `TerminalMeansOver` from weaker hypotheses: which single fault of Celery mode breaks it, and what holds
   of a job that was delivered twice.
2. The audit log, for the two revocations that are both recorded (`identity.py:772`).
3. A report of several findings in `LegacyRegistry`.

## 6. Not modelled

The adapters' subclasses are constants of one base class: a source, a command, a queue name. The composition
(`gateway.py`, `repositories.py`, `registry.py`), tracing, schema migrations and seed scripts keep no state
of the running system; the schema is modelled where a uniqueness constraint matters. The audit log,
configuration parsing and the validation of principals are left out. SQLite job storage shared by several
processes is outside the documented deployments and outside the model. That a job ends although its worker
dies is not stated: a redelivered RUNNING job cannot be claimed, and `PHASE-2.md` lists lease and reclaim as
future work.
