--------------------------- MODULE JobLifecycle_proofs ---------------------------
(***************************************************************************)
(* Proofs about JobLifecycle, for every value of its constants: its types    *)
(* and keys, what becomes of a job's log, its findings and its status, who   *)
(* may overwrite that status, and the contract its statuses keep.            *)
(***************************************************************************)
EXTENDS JobLifecycle, FiniteSetTheorems, TLAPS

-----------------------------------------------------------------------------
(* What the repository's transactions return *)

\* Appending an event keeps a row a row and touches nothing but the log.
LEMMA AppendEventRow ==
  ASSUME NEW row \in Rows, NEW kind \in EventKinds, NEW s \in JobStatus \cup {"none"}
  PROVE  /\ AppendEvent(row, kind, s) \in Rows
         /\ AppendEvent(row, kind, s).status = row.status
         /\ AppendEvent(row, kind, s).attempt = row.attempt
         /\ AppendEvent(row, kind, s).tenant_id = row.tenant_id
         /\ AppendEvent(row, kind, s).idempotency_key = row.idempotency_key
         /\ AppendEvent(row, kind, s).result_count = row.result_count
  <1> DEFINE e == [kind |-> kind, status |-> s]
             log == Append(row.events, e)
  <1>1. row.events \in Seq(Events)
    BY DEF Rows
  <1>2. e \in Events
    BY DEF Events
  <1>3. log \in Seq(Events)
    BY <1>1, <1>2
  <1>4. AppendEvent(row, kind, s) = [row EXCEPT !.events = log]
    BY DEF AppendEvent, Rows
  <1> HIDE DEF log
  <1>5. [row EXCEPT !.events = log] \in Rows
    BY <1>3 DEF Rows
  <1> QED
    BY <1>4, <1>5 DEF Rows

\* The statuses and codes the handlers and the executor write are among the declared ones.
LEMMA Codes ==
  /\ "failed" \in JobStatus /\ "cancelled" \in JobStatus /\ "succeeded" \in JobStatus
  /\ "timed_out" \in JobStatus
  /\ "none" \in ErrorCodes /\ "UNKNOWN_SOURCE" \in ErrorCodes
  /\ "DISPATCH_FAILED" \in ErrorCodes /\ "INTERNAL_ERROR" \in ErrorCodes
  /\ ScanErrors \subseteq ErrorCodes
  BY DEF JobStatus, ErrorCodes, ScanErrors

\* transition() writes the status it is given and keeps the attempt and the identity.
LEMMA TransitionRow ==
  ASSUME NEW row \in Rows, NEW s \in JobStatus, NEW n \in Nat, NEW e \in ErrorCodes
  PROVE  /\ Transition(row, s, n, e) \in Rows
         /\ Transition(row, s, n, e).status = s
         /\ Transition(row, s, n, e).attempt = row.attempt
         /\ Transition(row, s, n, e).tenant_id = row.tenant_id
         /\ Transition(row, s, n, e).idempotency_key = row.idempotency_key
  <1> DEFINE written == [row EXCEPT !.status = s, !.result_count = n, !.error_code = e]
  <1>1. written \in Rows
    BY DEF Rows, RowStatus
  <1>2. /\ written.status = s
        /\ written.attempt = row.attempt
        /\ written.tenant_id = row.tenant_id
        /\ written.idempotency_key = row.idempotency_key
    BY DEF Rows
  <1>3. Transition(row, s, n, e) = AppendEvent(written, "status", s)
    BY DEF Transition
  <1> HIDE DEF written
  <1>4. s \in JobStatus \cup {"none"} /\ "status" \in EventKinds
    BY DEF EventKinds
  <1> QED
    BY <1>1, <1>2, <1>3, <1>4, AppendEventRow

\* mark_running counts one attempt.
LEMMA MarkRunningRow ==
  ASSUME NEW row \in Rows
  PROVE  /\ MarkRunning(row) \in Rows
         /\ MarkRunning(row).status = "running"
         /\ MarkRunning(row).attempt = row.attempt + 1
         /\ MarkRunning(row).tenant_id = row.tenant_id
         /\ MarkRunning(row).idempotency_key = row.idempotency_key
  <1> DEFINE written == [row EXCEPT !.status = "running", !.attempt = @ + 1,
                                    !.error_code = "none"]
  <1>0. row.attempt + 1 \in Nat
    BY DEF Rows
  <1>1. written \in Rows
    BY <1>0 DEF Rows, RowStatus, JobStatus, ErrorCodes
  <1>2. /\ written.status = "running"
        /\ written.attempt = row.attempt + 1
        /\ written.tenant_id = row.tenant_id
        /\ written.idempotency_key = row.idempotency_key
    BY DEF Rows
  <1>3. MarkRunning(row) = AppendEvent(written, "status", "running")
    BY DEF MarkRunning
  <1> HIDE DEF written
  <1> QED
    BY <1>1, <1>2, <1>3, AppendEventRow DEF EventKinds, JobStatus

\* request_cancel keeps the attempt and the identity, and moves only a queued row.
LEMMA RequestCancelRow ==
  ASSUME NEW row \in Rows, row.status # "absent"
  PROVE  /\ RequestCancel(row) \in Rows
         /\ RequestCancel(row).status = IF row.status = "queued" THEN "cancelled" ELSE row.status
         /\ RequestCancel(row).attempt = row.attempt
         /\ RequestCancel(row).tenant_id = row.tenant_id
         /\ RequestCancel(row).idempotency_key = row.idempotency_key
  <1> DEFINE next == IF row.status = "queued" THEN "cancelled" ELSE row.status
             written == [row EXCEPT !.status = next, !.cancel_requested = TRUE]
  <1>1. CASE Terminal(row.status)
    BY <1>1 DEF RequestCancel, Terminal
  <1>2. CASE ~Terminal(row.status)
    <2>1. next \in JobStatus
      BY DEF Rows, RowStatus, JobStatus
    <2>2. written \in Rows
      BY <2>1 DEF Rows, RowStatus
    <2>3. /\ written.status = next
          /\ written.attempt = row.attempt
          /\ written.tenant_id = row.tenant_id
          /\ written.idempotency_key = row.idempotency_key
      BY DEF Rows
    <2>4. RequestCancel(row) = AppendEvent(written, "cancel_requested", next)
      BY <1>2 DEF RequestCancel
    <2> HIDE DEF written, next
    <2>5. next \in JobStatus \cup {"none"} /\ "cancel_requested" \in EventKinds
      BY <2>1 DEF EventKinds
    <2>6. /\ AppendEvent(written, "cancel_requested", next) \in Rows
          /\ AppendEvent(written, "cancel_requested", next).status = next
          /\ AppendEvent(written, "cancel_requested", next).attempt = row.attempt
          /\ AppendEvent(written, "cancel_requested", next).tenant_id = row.tenant_id
          /\ AppendEvent(written, "cancel_requested", next).idempotency_key = row.idempotency_key
      BY <2>2, <2>3, <2>5, AppendEventRow
    <2> QED
      BY <2>4, <2>6 DEF next
  <1> QED
    BY <1>1, <1>2

\* set_dispatch_id touches one column.
LEMMA SetDispatchIdRow ==
  ASSUME NEW row \in Rows
  PROVE  /\ SetDispatchId(row) \in Rows
         /\ SetDispatchId(row).status = row.status
         /\ SetDispatchId(row).attempt = row.attempt
         /\ SetDispatchId(row).tenant_id = row.tenant_id
         /\ SetDispatchId(row).idempotency_key = row.idempotency_key
  BY DEF SetDispatchId, Rows

\* A new row is queued, unclaimed and carries the call's tenant and key.
LEMMA NewJobRow ==
  ASSUME NEW t \in Tenants \cup {None}, NEW s \in Sources \cup {None}, NEW k \in Keys \cup {NoKey}
  PROVE  /\ NewJob(t, s, k) \in Rows
         /\ NewJob(t, s, k).status = "queued"
         /\ NewJob(t, s, k).attempt = 0
         /\ NewJob(t, s, k).tenant_id = t
         /\ NewJob(t, s, k).idempotency_key = k
  BY DEF NewJob, Rows, RowStatus, JobStatus, ErrorCodes, Events, EventKinds

\* The placeholder of a missing row has a row's shape.
LEMMA NoJobRow == NoJob \in Rows /\ NoJob.status = "absent" /\ NoJob.attempt = 0
  <1>1. NewJob(None, None, NoKey) \in Rows /\ NewJob(None, None, NoKey).attempt = 0
    BY NewJobRow
  <1>2. << >> \in Seq(Events)
    OBVIOUS
  <1> DEFINE row == NewJob(None, None, NoKey)
  <1>3. NoJob = [row EXCEPT !.status = "absent", !.events = << >>]
    BY DEF NoJob
  <1> HIDE DEF row
  <1> QED
    BY <1>1, <1>2, <1>3 DEF Rows, RowStatus, row

-----------------------------------------------------------------------------
(* Type correctness *)

\* The part of TypeOK about executor frames.
ExecOK == /\ exec \in [Workers -> ExecFrames]
          /\ \A w \in Workers : exec[w].pc # "idle" => exec[w].job \in Requests

\* The part of TypeOK about create_scan frames.
ApiOK == /\ api \in [Requests -> ApiFrames]
         /\ \A r \in Requests : api[r].pc \in ApiRunning =>
              /\ api[r].tenant \in Tenants /\ api[r].source \in Sources
              /\ api[r].key \in Keys \cup {NoKey}

\* The part of TypeOK about cancel_scan frames.
CancelOK == /\ cancel \in [Cancels -> CancelFrames]
            /\ \A c \in Cancels : cancel[c].pc # "new" => cancel[c].job \in Requests

\* TypeOK by its parts.
LEMMA TypeParts ==
  TypeOK <=> /\ jobs \in [Requests -> Rows] /\ registry \in [Requests -> Nat]
             /\ queue \subseteq Requests /\ revoked \subseteq Requests
             /\ ApiOK /\ CancelOK /\ ExecOK /\ faults \in 0..MaxFaults
  BY DEF TypeOK, ApiOK, CancelOK, ExecOK

\* The same of the next state.
LEMMA TypePartsNext ==
  TypeOK' <=> /\ jobs' \in [Requests -> Rows] /\ registry' \in [Requests -> Nat]
              /\ queue' \subseteq Requests /\ revoked' \subseteq Requests
              /\ ApiOK' /\ CancelOK' /\ ExecOK' /\ faults' \in 0..MaxFaults
  BY DEF TypeOK, ApiOK, CancelOK, ExecOK

\* The idle frame is a frame.
LEMMA IdleFrame == Idle \in ExecFrames /\ Idle.pc = "idle"
  BY DEF Idle, ExecFrames, ExecPcs, ErrorCodes

\* An executor that returns leaves well-formed frames.
LEMMA ReturnType ==
  ASSUME ExecOK, NEW w \in Workers, Return(w)
  PROVE  ExecOK'
  BY IdleFrame DEF ExecOK, Return

\* An executor that moves on within execute() keeps its job.
LEMMA GotoType ==
  ASSUME ExecOK, NEW w \in Workers, NEW pc \in ExecPcs, exec[w].pc # "idle", Goto(w, pc)
  PROVE  ExecOK'
  BY DEF ExecOK, Goto, ExecFrames

\* Writing a frame of the same job keeps the frames well formed.
LEMMA FrameType ==
  ASSUME ExecOK, NEW w \in Workers, exec[w].pc # "idle",
         NEW f \in ExecFrames, f.job = exec[w].job, exec' = [exec EXCEPT ![w] = f]
  PROVE  ExecOK'
  BY DEF ExecOK

\* An executor in which an error is raised keeps its job.
LEMMA RaiseType ==
  ASSUME ExecOK, NEW w \in Workers, exec[w].pc # "idle", NEW e \in ErrorCodes,
         exec' = [exec EXCEPT ![w].pc = "raised", ![w].error = e]
  PROVE  ExecOK'
  <1> DEFINE frame == [exec[w] EXCEPT !.pc = "raised", !.error = e]
  <1>1. exec[w] \in ExecFrames
    BY DEF ExecOK
  <1>2. frame \in ExecFrames /\ frame.job = exec[w].job
    BY <1>1 DEF ExecFrames, ExecPcs
  <1>3. exec' = [exec EXCEPT ![w] = frame]
    OBVIOUS
  <1> HIDE DEF frame
  <1> QED
    BY <1>2, <1>3, FrameType

\* Writing an executor's row keeps the table well formed.
LEMMA SetJobType ==
  ASSUME jobs \in [Requests -> Rows], ExecOK, NEW w \in Workers, exec[w].pc # "idle",
         NEW row \in Rows, SetJob(w, row)
  PROVE  jobs' \in [Requests -> Rows]
  BY DEF SetJob

\* The row an executor works on is a row.
LEMMA RowType ==
  ASSUME jobs \in [Requests -> Rows], ExecOK, NEW w \in Workers, exec[w].pc # "idle"
  PROVE  Row(w) \in Rows /\ Row(w).result_count \in Nat
  BY DEF Row, ExecOK, Rows

\* A transition by an executor that then returns: the shape shared by every Finish action.
LEMMA FinishType ==
  ASSUME jobs \in [Requests -> Rows], ExecOK, NEW w \in Workers, exec[w].pc # "idle",
         NEW s \in JobStatus, NEW n \in Nat, NEW e \in ErrorCodes,
         SetJob(w, Transition(Row(w), s, n, e)), Return(w)
  PROVE  jobs' \in [Requests -> Rows] /\ ExecOK'
  BY RowType, TransitionRow, SetJobType, ReturnType

\* The first state is well formed.
LEMMA InitType == Init => TypeOK
  <1> SUFFICES ASSUME Init PROVE TypeOK
    OBVIOUS
  <1>1. jobs \in [Requests -> Rows]
    BY NoJobRow DEF Init
  <1>2. ApiOK
    BY DEF Init, ApiOK, ApiFrames, NewCall, ApiRunning
  <1>3. CancelOK
    BY DEF Init, CancelOK, CancelFrames, NewCancel
  <1>4. ExecOK
    BY IdleFrame DEF Init, ExecOK
  <1>5. registry \in [Requests -> Nat] /\ queue \subseteq Requests /\ revoked \subseteq Requests
        /\ faults \in 0..MaxFaults
    BY ConstantsAssumption DEF Init
  <1> QED
    BY <1>1, <1>2, <1>3, <1>4, <1>5, TypeParts

\* A create_scan call that is answered keeps its frame well formed.
LEMMA AnswerType ==
  ASSUME ApiOK, NEW r \in Requests, NEW j \in Requests,
         NEW code \in {"existing", "accepted", "DISPATCH_FAILED"}, Answer(r, j, code)
  PROVE  ApiOK'
  <1> DEFINE frame == [api[r] EXCEPT !.pc = "done", !.job = j, !.code = code]
  <1>1. api' = [api EXCEPT ![r] = frame]
    BY DEF Answer, ApiOK
  <1>2. frame \in ApiFrames /\ frame.pc = "done"
    BY DEF ApiOK, ApiFrames
  <1> HIDE DEF frame
  <1> QED
    BY <1>1, <1>2 DEF ApiOK, ApiRunning

\* So does one that moves on or dies.
LEMMA ApiGotoType ==
  ASSUME ApiOK, NEW r \in Requests, api[r].pc \in ApiRunning,
         NEW pc \in ApiRunning \cup {"died"}, api' = [api EXCEPT ![r].pc = pc]
  PROVE  ApiOK'
  BY DEF ApiOK, ApiFrames, ApiRunning

\* The create_scan handler keeps the types.
LEMMA CreateScanType ==
  ASSUME TypeOK, NEW r \in Requests, CreateScan(r)
  PROVE  TypeOK'
  <1>0. /\ jobs \in [Requests -> Rows] /\ registry \in [Requests -> Nat]
        /\ queue \subseteq Requests /\ revoked \subseteq Requests
        /\ ApiOK /\ CancelOK /\ ExecOK /\ faults \in 0..MaxFaults
    BY TypeParts
  <1>1. CASE FindExisting(r)
    <2>1. ApiOK'
      BY <1>0, <1>1, AnswerType, ApiGotoType DEF FindExisting, ApiRunning
    <2> QED
      BY <1>0, <1>1, <2>1, TypePartsNext DEF FindExisting, CancelOK, ExecOK
  <1>2. CASE InsertJob(r)
    <2>1. ApiOK'
      BY <1>0, <1>2, AnswerType, ApiGotoType DEF InsertJob, ApiRunning
    <2>2. NewJob(api[r].tenant, api[r].source, api[r].key) \in Rows
      BY <1>0, <1>2, NewJobRow DEF InsertJob, ApiOK, ApiRunning
    <2>3. jobs' \in [Requests -> Rows]
      BY <1>0, <1>2, <2>2 DEF InsertJob
    <2> QED
      BY <1>0, <1>2, <2>1, <2>3, TypePartsNext DEF InsertJob, CancelOK, ExecOK
  <1>3. CASE Submit(r)
    <2>1. ApiOK'
      BY <1>0, <1>3, ApiGotoType DEF Submit, ApiRunning
    <2> QED
      BY <1>0, <1>3, <2>1, TypePartsNext DEF Submit, CancelOK, ExecOK
  <1>4. CASE RecordDispatch(r)
    <2>1. ApiOK'
      BY <1>0, <1>4, AnswerType DEF RecordDispatch
    <2>2. SetDispatchId(jobs[r]) \in Rows
      BY <1>0, SetDispatchIdRow
    <2>3. jobs' \in [Requests -> Rows]
      BY <1>0, <1>4, <2>2 DEF RecordDispatch
    <2> QED
      BY <1>0, <1>4, <2>1, <2>3, TypePartsNext DEF RecordDispatch, CancelOK, ExecOK
  <1>5. CASE FailDispatch(r)
    <2>1. ApiOK'
      BY <1>0, <1>5, AnswerType DEF FailDispatch
    <2>2. jobs[r] \in Rows /\ jobs[r].result_count \in Nat
      BY <1>0 DEF Rows
    <2>3. Transition(jobs[r], "failed", jobs[r].result_count, "DISPATCH_FAILED") \in Rows
      BY <2>2, Codes, TransitionRow
    <2> DEFINE row == Transition(jobs[r], "failed", jobs[r].result_count, "DISPATCH_FAILED")
    <2>4. jobs' = [jobs EXCEPT ![r] = row]
      BY <1>5, Zenon DEF FailDispatch
    <2> HIDE DEF row
    <2>5. jobs' \in [Requests -> Rows]
      BY <1>0, <2>3, <2>4 DEF row
    <2> QED
      BY <1>0, <1>5, <2>1, <2>5, TypePartsNext DEF FailDispatch, CancelOK, ExecOK
  <1> QED
    BY <1>1, <1>2, <1>3, <1>4, <1>5 DEF CreateScan

\* A new create_scan call keeps the types.
LEMMA ReceiveScanType ==
  ASSUME TypeOK, NEW r \in Requests, NEW t \in Tenants, NEW s \in Sources,
         NEW k \in Keys \cup {NoKey, BadKey}, ReceiveScan(r, t, s, k)
  PROVE  TypeOK'
  <1>0. /\ jobs \in [Requests -> Rows] /\ registry \in [Requests -> Nat]
        /\ queue \subseteq Requests /\ revoked \subseteq Requests
        /\ ApiOK /\ CancelOK /\ ExecOK /\ faults \in 0..MaxFaults
    BY TypeParts
  <1> DEFINE pc == IF k = BadKey \/ s \notin GatewaySources THEN "done"
                     ELSE IF k = NoKey THEN "insert" ELSE "find"
             code == IF k = BadKey THEN "INVALID_IDEMPOTENCY_KEY"
                       ELSE IF s \notin GatewaySources THEN "UNKNOWN_SOURCE" ELSE "none"
             frame == [pc |-> pc, tenant |-> t, source |-> s, key |-> k, job |-> None,
                       code |-> code]
  <1>1. api' = [api EXCEPT ![r] = frame]
    BY DEF ReceiveScan
  <1>2. /\ pc \in {"done", "insert", "find"} /\ (pc # "done" => k \in Keys \cup {NoKey})
        /\ code \in {"none", "INVALID_IDEMPOTENCY_KEY", "UNKNOWN_SOURCE"}
    BY ConstantsAssumption
  <1>3. /\ frame \in ApiFrames
        /\ frame.pc = pc /\ frame.tenant = t /\ frame.source = s /\ frame.key = k
    <2> HIDE DEF pc, code
    <2> QED
      BY <1>2 DEF ApiFrames, ApiRunning
  <1> HIDE DEF frame, pc, code
  <1>4. ApiOK'
    BY <1>0, <1>1, <1>2, <1>3 DEF ApiOK, ApiRunning
  <1> QED
    BY <1>0, <1>4, TypePartsNext DEF ReceiveScan, CancelOK, ExecOK

\* The cancel_scan handler keeps the types.
LEMMA CancelType ==
  ASSUME TypeOK, RowsPrecedeUse, NEW c \in Cancels,
         CancelScan(c) \/ \E j \in Requests : CancelRead(c, j)
  PROVE  TypeOK'
  <1>0. /\ jobs \in [Requests -> Rows] /\ registry \in [Requests -> Nat]
        /\ queue \subseteq Requests /\ revoked \subseteq Requests
        /\ ApiOK /\ CancelOK /\ ExecOK /\ faults \in 0..MaxFaults
    BY TypeParts
  <1>1. ASSUME NEW j \in Requests, CancelRead(c, j)
        PROVE  TypeOK'
    <2>1. CancelOK'
      BY <1>0, <1>1 DEF CancelRead, CancelOK, CancelFrames, CancelRunning, Rows
    <2> QED
      BY <1>0, <1>1, <2>1, TypePartsNext DEF CancelRead, ApiOK, ExecOK
  <1>2. CASE CancelRequest(c)
    <2>1. cancel[c].job \in Requests /\ jobs[cancel[c].job] \in Rows
      BY <1>0, <1>2 DEF CancelRequest, CancelOK
    <2>2. jobs[cancel[c].job].status # "absent"
      BY <1>2 DEF CancelRequest, RowsPrecedeUse, Exists
    <2>3. RequestCancel(jobs[cancel[c].job]) \in Rows
      BY <2>1, <2>2, RequestCancelRow
    <2>4. jobs' \in [Requests -> Rows]
      BY <1>0, <1>2, <2>1, <2>3 DEF CancelRequest
    <2>5. CancelOK'
      BY <1>0, <1>2 DEF CancelRequest, CancelOK, CancelFrames, CancelRunning
    <2> QED
      BY <1>0, <1>2, <2>4, <2>5, TypePartsNext DEF CancelRequest, ApiOK, ExecOK
  <1>3. CASE CancelRevoke(c)
    <2>1. CancelOK'
      BY <1>0, <1>3 DEF CancelRevoke, CancelOK, CancelFrames, CancelRunning
    <2>2. revoked' \subseteq Requests
      BY <1>0, <1>3 DEF CancelRevoke, CancelOK
    <2> QED
      BY <1>0, <1>3, <2>1, <2>2, TypePartsNext DEF CancelRevoke, ApiOK, ExecOK
  <1> QED
    BY <1>1, <1>2, <1>3 DEF CancelScan

\* Taking a message, or discarding a revoked one, keeps the types.
LEMMA DeliverType ==
  ASSUME TypeOK, NEW j \in Requests,
         DiscardRevoked(j) \/ \E w \in Workers : Deliver(w, j)
  PROVE  TypeOK'
  <1>0. /\ jobs \in [Requests -> Rows] /\ registry \in [Requests -> Nat]
        /\ queue \subseteq Requests /\ revoked \subseteq Requests
        /\ ApiOK /\ CancelOK /\ ExecOK /\ faults \in 0..MaxFaults
    BY TypeParts
  <1>1. CASE DiscardRevoked(j)
    BY <1>0, <1>1, TypePartsNext DEF DiscardRevoked, ApiOK, CancelOK, ExecOK
  <1>2. ASSUME NEW w \in Workers, Deliver(w, j)
        PROVE  TypeOK'
    <2>1. [Idle EXCEPT !.pc = "load", !.job = j] \in ExecFrames
      BY DEF Idle, ExecFrames, ExecPcs, ErrorCodes
    <2>2. [Idle EXCEPT !.pc = "load", !.job = j].job = j
      BY DEF Idle
    <2>3. ExecOK'
      BY <1>0, <1>2, <2>1, <2>2 DEF Deliver, ExecOK
    <2> QED
      BY <1>0, <1>2, <2>3, TypePartsNext DEF Deliver, ApiOK, CancelOK
  <1> QED
    BY <1>1, <1>2

\* The steps of execute() up to a claim keep the types.
LEMMA ClaimPathType ==
  ASSUME TypeOK, NEW w \in Workers,
         Load(w) \/ FailUnknownSource(w) \/ Check(w) \/ FinishCancelled(w) \/ Claim(w)
  PROVE  TypeOK'
  <1>0. /\ jobs \in [Requests -> Rows] /\ registry \in [Requests -> Nat]
        /\ queue \subseteq Requests /\ revoked \subseteq Requests
        /\ ApiOK /\ CancelOK /\ ExecOK /\ faults \in 0..MaxFaults
    BY TypeParts
  <1>1. CASE Load(w)
    <2>1. CASE exec' = [exec EXCEPT ![w].pc = "check", ![w].attempt = 1]
      <3> DEFINE frame == [exec[w] EXCEPT !.pc = "check", !.attempt = 1]
      <3>1. exec[w] \in ExecFrames /\ exec[w].job \in Requests
        BY <1>0, <1>1 DEF Load, At, ExecOK
      <3>2. frame \in ExecFrames /\ frame.job = exec[w].job
        BY <3>1 DEF ExecFrames, ExecPcs
      <3>3. exec' = [exec EXCEPT ![w] = frame]
        BY <2>1
      <3> HIDE DEF frame
      <3>4. ExecOK'
        BY <1>0, <1>1, <3>2, <3>3, FrameType DEF Load, At
      <3> QED
        BY <1>0, <1>1, <3>4, TypePartsNext DEF Load, ApiOK, CancelOK
    <2>2. CASE Goto(w, "unknown") \/ Return(w)
      <3>1. ExecOK'
        BY <1>0, <1>1, <2>2, GotoType, ReturnType DEF Load, At, ExecPcs
      <3> QED
        BY <1>0, <1>1, <3>1, TypePartsNext DEF Load, ApiOK, CancelOK
    <2> QED
      BY <1>1, <2>1, <2>2 DEF Load
  <1>2. CASE FailUnknownSource(w)
    <2>1. jobs' \in [Requests -> Rows] /\ ExecOK'
      BY <1>0, <1>2, RowType, Codes, FinishType DEF FailUnknownSource, At
    <2> QED
      BY <1>0, <1>2, <2>1, TypePartsNext DEF FailUnknownSource, ApiOK, CancelOK
  <1>3. CASE Check(w)
    <2>1. ExecOK'
      BY <1>0, <1>3, GotoType, ReturnType DEF Check, At, ExecPcs
    <2> QED
      BY <1>0, <1>3, <2>1, TypePartsNext DEF Check, ApiOK, CancelOK
  <1>4. CASE FinishCancelled(w)
    <2>1. jobs' \in [Requests -> Rows] /\ ExecOK'
      BY <1>0, <1>4, RowType, Codes, FinishType DEF FinishCancelled, At
    <2> QED
      BY <1>0, <1>4, <2>1, TypePartsNext DEF FinishCancelled, ApiOK, CancelOK
  <1>5. CASE Claim(w)
    <2>1. Row(w) \in Rows /\ exec[w].pc # "idle"
      BY <1>0, <1>5, RowType DEF Claim, At
    <2>2. jobs' \in [Requests -> Rows]
      BY <1>0, <1>5, <2>1, MarkRunningRow, SetJobType DEF Claim
    <2>3. ExecOK'
      BY <1>0, <1>5, <2>1, GotoType, ReturnType DEF Claim, ExecPcs
    <2> QED
      BY <1>0, <1>5, <2>2, <2>3, TypePartsNext DEF Claim, ApiOK, CancelOK
  <1> QED
    BY <1>1, <1>2, <1>3, <1>4, <1>5

\* The steps of an attempt that has been claimed keep the types.
LEMMA AttemptType ==
  ASSUME TypeOK, NEW w \in Workers,
         \/ \E n \in 0..MaxFindings : ScanReturns(w, n)
         \/ ScanCancelled(w)
         \/ \E e \in ScanErrors : ScanRaises(w, e)
         \/ Retry(w) \/ FinishFailed(w) \/ BackoffEnds(w)
  PROVE  TypeOK'
  <1>0. /\ jobs \in [Requests -> Rows] /\ registry \in [Requests -> Nat]
        /\ queue \subseteq Requests /\ revoked \subseteq Requests
        /\ ApiOK /\ CancelOK /\ ExecOK /\ faults \in 0..MaxFaults
    BY TypeParts
  <1>1. ASSUME NEW n \in 0..MaxFindings, ScanReturns(w, n)
        PROVE  TypeOK'
    <2>1. n \in Nat /\ "store" \in ExecPcs
      BY ConstantsAssumption DEF ExecPcs
    <2>2. ExecOK'
      <3>1. exec \in [Workers -> ExecFrames] /\ exec[w].job \in Requests
        BY <1>0, <1>1 DEF ScanReturns, At, ExecOK
      <3>2. exec' = [exec EXCEPT ![w].pc = "store", ![w].found = n]
        BY <1>1 DEF ScanReturns
      <3>3. \A v \in Workers : exec'[v] \in ExecFrames /\ exec'[v].job = exec[v].job
        BY <2>1, <3>1, <3>2 DEF ExecFrames
      <3>4. exec' \in [Workers -> ExecFrames] /\ \A v \in Workers \ {w} : exec'[v] = exec[v]
        BY <3>1, <3>2, <3>3
      <3> QED
        BY <1>0, <3>1, <3>3, <3>4 DEF ExecOK
    <2> QED
      BY <1>0, <1>1, <2>2, TypePartsNext DEF ScanReturns, ApiOK, CancelOK
  <1>2. CASE ScanCancelled(w)
    <2>1. ExecOK'
      BY <1>0, <1>2, GotoType, ReturnType DEF ScanCancelled, At, ExecPcs
    <2> QED
      BY <1>0, <1>2, <2>1, TypePartsNext DEF ScanCancelled, ApiOK, CancelOK
  <1>3. ASSUME NEW e \in ScanErrors, ScanRaises(w, e)
        PROVE  TypeOK'
    <2>1. ExecOK'
      BY <1>0, <1>3, Codes, RaiseType DEF ScanRaises, At
    <2> QED
      BY <1>0, <1>3, <2>1, TypePartsNext DEF ScanRaises, ApiOK, CancelOK
  <1>4. CASE Retry(w)
    <2>1. Row(w) \in Rows /\ exec[w].pc # "idle"
      BY <1>0, <1>4, RowType DEF Retry, At
    <2>2. AppendEvent(Row(w), "retrying", "none") \in Rows
      BY <2>1, AppendEventRow DEF EventKinds
    <2>3. jobs' \in [Requests -> Rows]
      BY <1>0, <1>4, <2>1, <2>2, SetJobType DEF Retry
    <2>4. ExecOK'
      BY <1>0, <1>4, <2>1, GotoType DEF Retry, ExecPcs
    <2> QED
      BY <1>0, <1>4, <2>3, <2>4, TypePartsNext DEF Retry, ApiOK, CancelOK
  <1>5. CASE FinishFailed(w)
    <2>1. exec[w].error \in ErrorCodes /\ exec[w].pc # "idle"
      BY <1>0, <1>5 DEF FinishFailed, At, ExecOK, ExecFrames
    <2> DEFINE status == IF exec[w].error = "ADAPTER_TIMEOUT" THEN "timed_out" ELSE "failed"
    <2>2. status \in JobStatus
      BY Codes
    <2>3. SetJob(w, Transition(Row(w), status, Row(w).result_count, exec[w].error))
      BY <1>5 DEF FinishFailed
    <2> HIDE DEF status
    <2>4. jobs' \in [Requests -> Rows] /\ ExecOK'
      BY <1>0, <1>5, <2>1, <2>2, <2>3, RowType, FinishType DEF FinishFailed
    <2> QED
      BY <1>0, <1>5, <2>4, TypePartsNext DEF FinishFailed, ApiOK, CancelOK
  <1>6. CASE BackoffEnds(w)
    <2>1. ExecOK'
      BY <1>0, <1>6, Codes DEF BackoffEnds, At, ExecOK, ExecFrames, ExecPcs
    <2> QED
      BY <1>0, <1>6, <2>1, TypePartsNext DEF BackoffEnds, ApiOK, CancelOK
  <1> QED
    BY <1>1, <1>2, <1>3, <1>4, <1>5, <1>6

\* Storing results and ending the job keep the types.
LEMMA ResultsType ==
  ASSUME TypeOK, NEW w \in Workers,
         \/ StoreFinding(w) \/ PublishFinding(w) \/ Correlate(w) \/ FinishSucceeded(w)
         \/ FinishInterrupted(w)
  PROVE  TypeOK'
  <1>0. /\ jobs \in [Requests -> Rows] /\ registry \in [Requests -> Nat]
        /\ queue \subseteq Requests /\ revoked \subseteq Requests
        /\ ApiOK /\ CancelOK /\ ExecOK /\ faults \in 0..MaxFaults
    BY TypeParts
  <1>1. CASE StoreFinding(w)
    <2>1. ExecOK'
      BY <1>0, <1>1, GotoType DEF StoreFinding, At, ExecPcs
    <2>2. exec[w].job \in Requests /\ registry[exec[w].job] + 1 \in Nat
      BY <1>0, <1>1 DEF StoreFinding, At, ExecOK
    <2>3. registry' \in [Requests -> Nat]
      BY <1>0, <1>1, <2>2 DEF StoreFinding
    <2> QED
      BY <1>0, <1>1, <2>1, <2>3, TypePartsNext DEF StoreFinding, ApiOK, CancelOK
  <1>2. CASE PublishFinding(w)
    <2>1. Row(w) \in Rows /\ exec[w].pc # "idle"
      BY <1>0, <1>2, RowType DEF PublishFinding, At
    <2>2. AppendEvent(Row(w), "finding", "none") \in Rows
      BY <2>1, AppendEventRow DEF EventKinds
    <2>3. jobs' \in [Requests -> Rows]
      BY <1>0, <1>2, <2>1, <2>2, SetJobType DEF PublishFinding
    <2>4. ExecOK'
      BY <1>0, <1>2, <2>1 DEF PublishFinding, ExecOK, ExecFrames, ExecPcs
    <2> QED
      BY <1>0, <1>2, <2>3, <2>4, TypePartsNext DEF PublishFinding, ApiOK, CancelOK
  <1>3. CASE Correlate(w)
    <2>1. Row(w) \in Rows /\ exec[w].pc # "idle"
      BY <1>0, <1>3, RowType DEF Correlate, At
    <2>2. AppendEvent(Row(w), "correlation", "none") \in Rows
      BY <2>1, AppendEventRow DEF EventKinds
    <2>3. jobs' \in [Requests -> Rows]
      BY <1>0, <1>3, <2>1, <2>2, SetJobType DEF Correlate
    <2>4. ExecOK'
      BY <1>0, <1>3, <2>1, GotoType DEF Correlate, ExecPcs
    <2> QED
      BY <1>0, <1>3, <2>3, <2>4, TypePartsNext DEF Correlate, ApiOK, CancelOK
  <1>4. CASE FinishSucceeded(w)
    <2>1. exec[w].found \in Nat /\ exec[w].pc # "idle"
      BY <1>0, <1>4 DEF FinishSucceeded, At, ExecOK, ExecFrames
    <2>2. jobs' \in [Requests -> Rows] /\ ExecOK'
      BY <1>0, <1>4, <2>1, RowType, Codes, FinishType DEF FinishSucceeded
    <2> QED
      BY <1>0, <1>4, <2>2, TypePartsNext DEF FinishSucceeded, ApiOK, CancelOK
  <1>5. CASE FinishInterrupted(w)
    <2>1. exec[w].pc # "idle"
      BY <1>5 DEF FinishInterrupted, At
    <2>2. ExecOK'
      BY <1>0, <1>5, ReturnType DEF FinishInterrupted
    <2>3. jobs' \in [Requests -> Rows]
      <3>1. CASE Terminal(Row(w).status)
        BY <1>0, <1>5, <3>1 DEF FinishInterrupted
      <3>2. CASE ~Terminal(Row(w).status)
        <4>1. SetJob(w, Transition(Row(w), "cancelled", Row(w).result_count, "none"))
          BY <1>5, <3>2 DEF FinishInterrupted
        <4> QED
          BY <1>0, <1>5, <2>1, <4>1, RowType, Codes, FinishType DEF FinishInterrupted
      <3> QED
        BY <3>1, <3>2
    <2> QED
      BY <1>0, <1>5, <2>2, <2>3, TypePartsNext DEF FinishInterrupted, ApiOK, CancelOK
  <1> QED
    BY <1>1, <1>2, <1>3, <1>4, <1>5

\* A fault is counted within its bound.
LEMMA FaultType ==
  ASSUME faults \in 0..MaxFaults, NEW kind, Fault(kind)
  PROVE  faults' \in 0..MaxFaults
  BY ConstantsAssumption DEF Fault

\* The faults of the API processes keep the types.
LEMMA ApiFaultType ==
  ASSUME TypeOK, NEW r \in Requests, ApiCrash(r) \/ SubmitFails(r) \/ ApiRepositoryFails(r)
  PROVE  TypeOK'
  <1>0. /\ jobs \in [Requests -> Rows] /\ registry \in [Requests -> Nat]
        /\ queue \subseteq Requests /\ revoked \subseteq Requests
        /\ ApiOK /\ CancelOK /\ ExecOK /\ faults \in 0..MaxFaults
    BY TypeParts
  <1>1. CASE ApiCrash(r)
    <2>1. api' = [api EXCEPT ![r].pc = "died"] /\ api[r].pc \in ApiRunning
      BY <1>0, <1>1 DEF ApiCrash, Died, ApiOK
    <2>2. ApiOK'
      BY <1>0, <2>1, ApiGotoType
    <2> QED
      BY <1>0, <1>1, <2>2, FaultType, TypePartsNext DEF ApiCrash, CancelOK, ExecOK
  <1>2. CASE SubmitFails(r)
    <2>1. ApiOK'
      BY <1>0, <1>2, ApiGotoType DEF SubmitFails, ApiRunning
    <2> QED
      BY <1>0, <1>2, <2>1, FaultType, TypePartsNext DEF SubmitFails, CancelOK, ExecOK
  <1>3. CASE ApiRepositoryFails(r)
    <2>1. PICK pc \in {"failing", "died"} : api' = [api EXCEPT ![r].pc = pc]
      BY <1>0, <1>3 DEF ApiRepositoryFails
    <2>2. ApiOK'
      BY <1>0, <1>3, <2>1, ApiGotoType DEF ApiRepositoryFails, ApiRunning
    <2> QED
      BY <1>0, <1>3, <2>2, FaultType, TypePartsNext DEF ApiRepositoryFails, CancelOK, ExecOK
  <1> QED
    BY <1>1, <1>2, <1>3

\* So does a create_scan call that is not told of its commit.
LEMMA ApiAckLostType ==
  ASSUME TypeOK, NEW r \in Requests, ApiAckLost(r)
  PROVE  TypeOK'
  <1>0. /\ jobs \in [Requests -> Rows] /\ registry \in [Requests -> Nat]
        /\ queue \subseteq Requests /\ revoked \subseteq Requests
        /\ ApiOK /\ CancelOK /\ ExecOK /\ faults \in 0..MaxFaults
    BY TypeParts
  <1>1. PICK pc \in {"failing", "died"} : api' = [api EXCEPT ![r].pc = pc]
    BY DEF ApiAckLost
  <1>2. api[r].pc \in ApiRunning
    BY DEF ApiAckLost, ApiRunning
  <1>3. ApiOK'
    BY <1>0, <1>1, <1>2, ApiGotoType DEF ApiRunning
  <1>4. PICK row \in Rows : jobs' = [jobs EXCEPT ![r] = row]
    <2>1. NewJob(api[r].tenant, api[r].source, api[r].key) \in Rows
      BY <1>0, <1>2, NewJobRow DEF ApiOK
    <2>2. SetDispatchId(jobs[r]) \in Rows
      BY <1>0, SetDispatchIdRow
    <2>3. jobs[r] \in Rows /\ jobs[r].result_count \in Nat
      BY <1>0 DEF Rows
    <2>4. Transition(jobs[r], "failed", jobs[r].result_count, "DISPATCH_FAILED") \in Rows
      BY <2>3, Codes, TransitionRow
    <2>5. \/ jobs' = [jobs EXCEPT ![r] = NewJob(api[r].tenant, api[r].source, api[r].key)]
          \/ jobs' = [jobs EXCEPT ![r] = SetDispatchId(jobs[r])]
          \/ jobs' = [jobs EXCEPT ![r] =
                Transition(jobs[r], "failed", jobs[r].result_count, "DISPATCH_FAILED")]
      BY Zenon DEF ApiAckLost
    <2> QED
      BY <2>1, <2>2, <2>4, <2>5, Zenon
  <1>5. jobs' \in [Requests -> Rows]
    BY <1>0, <1>4
  <1>6. faults' \in 0..MaxFaults
    BY <1>0, FaultType DEF ApiAckLost
  <1> QED
    BY <1>0, <1>3, <1>5, <1>6, TypePartsNext DEF ApiAckLost, CancelOK, ExecOK

\* So does a cancel_scan call whose repository call raises, its request committed or not.
LEMMA CancelFaultType ==
  ASSUME TypeOK, RowsPrecedeUse, NEW c \in Cancels, CancelRepositoryFails(c) \/ CancelAckLost(c)
  PROVE  TypeOK'
  <1>0. /\ jobs \in [Requests -> Rows] /\ registry \in [Requests -> Nat]
        /\ queue \subseteq Requests /\ revoked \subseteq Requests
        /\ ApiOK /\ CancelOK /\ ExecOK /\ faults \in 0..MaxFaults
    BY TypeParts
  <1>1. cancel' = [cancel EXCEPT ![c].pc = "died"] /\ cancel[c].pc = "request"
    BY DEF CancelRepositoryFails, CancelAckLost
  <1>2. CancelOK'
    BY <1>0, <1>1 DEF CancelOK, CancelFrames
  <1>3. jobs' \in [Requests -> Rows]
    <2>1. CASE CancelRepositoryFails(c)
      BY <1>0, <2>1 DEF CancelRepositoryFails
    <2>2. CASE CancelAckLost(c)
      <3>1. cancel[c].job \in Requests /\ jobs[cancel[c].job] \in Rows
        BY <1>0, <1>1 DEF CancelOK
      <3>2. jobs[cancel[c].job].status # "absent"
        BY <1>1 DEF RowsPrecedeUse, Exists
      <3>3. RequestCancel(jobs[cancel[c].job]) \in Rows
        BY <3>1, <3>2, RequestCancelRow
      <3> QED
        BY <1>0, <2>2, <3>1, <3>3 DEF CancelAckLost
    <2> QED
      BY <2>1, <2>2
  <1>4. faults' \in 0..MaxFaults
    BY <1>0, FaultType DEF CancelRepositoryFails, CancelAckLost
  <1> QED
    BY <1>0, <1>2, <1>3, <1>4, TypePartsNext DEF CancelRepositoryFails, CancelAckLost, ApiOK, ExecOK

\* So does the death of a process inside cancel_scan.
LEMMA CancelCrashType ==
  ASSUME TypeOK, NEW c \in Cancels, CancelCrash(c)
  PROVE  TypeOK'
  <1>0. /\ jobs \in [Requests -> Rows] /\ registry \in [Requests -> Nat]
        /\ queue \subseteq Requests /\ revoked \subseteq Requests
        /\ ApiOK /\ CancelOK /\ ExecOK /\ faults \in 0..MaxFaults
    BY TypeParts
  <1>1. cancel' = [cancel EXCEPT ![c].pc = "died"] /\ cancel[c].pc # "new"
    BY <1>0 DEF CancelCrash, Died, CancelOK, CancelRunning
  <1>2. CancelOK'
    BY <1>0, <1>1 DEF CancelOK, CancelFrames
  <1> QED
    BY <1>0, <1>2, FaultType, TypePartsNext DEF CancelCrash, ApiOK, ExecOK

\* So do the faults of an executor.
LEMMA ExecFaultType ==
  ASSUME TypeOK, NEW w \in Workers,
         WorkerCrash(w) \/ Redeliver(w) \/ ExecRepositoryFails(w) \/ Interrupt(w)
  PROVE  TypeOK'
  <1>0. /\ jobs \in [Requests -> Rows] /\ registry \in [Requests -> Nat]
        /\ queue \subseteq Requests /\ revoked \subseteq Requests
        /\ ApiOK /\ CancelOK /\ ExecOK /\ faults \in 0..MaxFaults
    BY TypeParts
  <1>1. CASE WorkerCrash(w)
    <2>1. ExecOK' /\ queue' \subseteq Requests
      BY <1>0, <1>1, ReturnType DEF WorkerCrash, ExecOK
    <2> QED
      BY <1>0, <1>1, <2>1, FaultType, TypePartsNext DEF WorkerCrash, ApiOK, CancelOK
  <1>2. CASE Redeliver(w)
    <2>1. ExecOK' /\ queue' \subseteq Requests
      BY <1>0, <1>2 DEF Redeliver, ExecOK
    <2> QED
      BY <1>0, <1>2, <2>1, FaultType, TypePartsNext DEF Redeliver, ApiOK, CancelOK
  <1>3. CASE ExecRepositoryFails(w)
    <2>1. CASE Return(w)
      BY <1>0, <1>3, <2>1, ReturnType, FaultType, TypePartsNext
         DEF ExecRepositoryFails, ApiOK, CancelOK
    <2>2. CASE exec' = [exec EXCEPT ![w].pc = "raised", ![w].error = "INTERNAL_ERROR"]
      <3>1. ExecOK'
        BY <1>0, <1>3, <2>2, Codes, RaiseType DEF ExecRepositoryFails
      <3> QED
        BY <1>0, <1>3, <3>1, FaultType, TypePartsNext DEF ExecRepositoryFails, ApiOK, CancelOK
    <2> QED
      BY <1>3, <2>1, <2>2 DEF ExecRepositoryFails
  <1>4. CASE Interrupt(w)
    <2>1. ExecOK'
      BY <1>0, <1>4, ReturnType, GotoType DEF Interrupt, ExecPcs
    <2> QED
      BY <1>0, <1>4, <2>1, FaultType, TypePartsNext DEF Interrupt, ApiOK, CancelOK
  <1> QED
    BY <1>1, <1>2, <1>3, <1>4

\* So does an executor that is not told of its commit.
LEMMA ExecAckLostType ==
  ASSUME TypeOK, NEW w \in Workers, ExecAckLost(w)
  PROVE  TypeOK'
  <1>0. /\ jobs \in [Requests -> Rows] /\ registry \in [Requests -> Nat]
        /\ queue \subseteq Requests /\ revoked \subseteq Requests
        /\ ApiOK /\ CancelOK /\ ExecOK /\ faults \in 0..MaxFaults
    BY TypeParts
  <1>1. exec[w].pc # "idle"
    BY DEF ExecAckLost
  <1>2. ExecOK'
    <2>1. Return(w) \/ exec' = [exec EXCEPT ![w].pc = "raised", ![w].error = "INTERNAL_ERROR"]
      BY DEF ExecAckLost
    <2> QED
      BY <1>0, <1>1, <2>1, Codes, ReturnType, RaiseType
  <1>3. jobs' \in [Requests -> Rows]
    <2>1. Row(w) \in Rows /\ exec[w].found \in Nat
      BY <1>0, <1>1, RowType DEF ExecOK, ExecFrames
    <2>2. ASSUME NEW row \in Rows, SetJob(w, row) PROVE jobs' \in [Requests -> Rows]
      BY <1>0, <1>1, <2>2, SetJobType
    <2>3. MarkRunning(Row(w)) \in Rows
      BY <2>1, MarkRunningRow
    <2>4. Transition(Row(w), "succeeded", exec[w].found, "none") \in Rows
      BY <2>1, Codes, TransitionRow
    <2>5. /\ AppendEvent(Row(w), "retrying", "none") \in Rows
          /\ AppendEvent(Row(w), "finding", "none") \in Rows
          /\ AppendEvent(Row(w), "correlation", "none") \in Rows
      BY <2>1, AppendEventRow DEF EventKinds
    <2>6. \/ jobs' = jobs
          \/ SetJob(w, MarkRunning(Row(w)))
          \/ SetJob(w, Transition(Row(w), "succeeded", exec[w].found, "none"))
          \/ SetJob(w, AppendEvent(Row(w), "retrying", "none"))
          \/ SetJob(w, AppendEvent(Row(w), "finding", "none"))
          \/ SetJob(w, AppendEvent(Row(w), "correlation", "none"))
      BY Zenon DEF ExecAckLost
    <2> QED
      BY <1>0, <2>2, <2>3, <2>4, <2>5, <2>6
  <1>4. registry' \in [Requests -> Nat]
    BY <1>0, <1>1 DEF ExecAckLost, ExecOK
  <1>5. faults' \in 0..MaxFaults
    BY <1>0, FaultType DEF ExecAckLost
  <1> QED
    BY <1>0, <1>2, <1>3, <1>4, <1>5, TypePartsNext DEF ExecAckLost, ApiOK, CancelOK

\* So does the death of the inline process.
LEMMA ProcessCrashType ==
  ASSUME TypeOK, ProcessCrash
  PROVE  TypeOK'
  <1>0. /\ jobs \in [Requests -> Rows] /\ registry \in [Requests -> Nat]
        /\ queue \subseteq Requests /\ revoked \subseteq Requests
        /\ ApiOK /\ CancelOK /\ ExecOK /\ faults \in 0..MaxFaults
    BY TypeParts
  <1>1. ExecOK' /\ queue' \subseteq Requests
    BY IdleFrame DEF ProcessCrash, ExecOK
  <1>2. ApiOK'
    BY <1>0 DEF ProcessCrash, ApiOK, ApiFrames, ApiRunning, Died
  <1>3. CancelOK'
    BY <1>0 DEF ProcessCrash, CancelOK, CancelFrames, CancelRunning, Died
  <1> QED
    BY <1>0, <1>1, <1>2, <1>3, FaultType, TypePartsNext DEF ProcessCrash

\* Every step keeps the types.
LEMMA NextType ==
  ASSUME TypeOK, RowsPrecedeUse, [Next]_vars
  PROVE  TypeOK'
  <1>1. CASE UNCHANGED vars
    BY <1>1 DEF vars, TypeOK
  <1>2. CASE Next
    BY <1>2, CreateScanType, ReceiveScanType, CancelType, DeliverType, ClaimPathType, AttemptType,
       ResultsType, ApiFaultType, ApiAckLostType, CancelCrashType, CancelFaultType,
       ExecFaultType, ExecAckLostType, ProcessCrashType
       DEF Next, Step, Execute
  <1> QED
    BY <1>1, <1>2

-----------------------------------------------------------------------------
(* What a step does to a row, and to an executor's frame *)

\* A step that is neither the INSERT nor a claim leaves a row's identity and attempt
\* alone, and moves its status only out of "queued" or within the later ones.
Kept(j) ==
  /\ Exists(j) /\ Exists(j)'
  /\ jobs'[j].tenant_id = jobs[j].tenant_id
  /\ jobs'[j].idempotency_key = jobs[j].idempotency_key
  /\ jobs'[j].attempt = jobs[j].attempt
  /\ jobs'[j].status # jobs[j].status => jobs'[j].status \notin {"absent", "queued"}

Inserted(j) ==
  /\ api[j].pc = "insert"
  /\ jobs' = [jobs EXCEPT ![j] = NewJob(api[j].tenant, api[j].source, api[j].key)]
  /\ \E pc \in {"submit", "died"} : api' = [api EXCEPT ![j].pc = pc]
  /\ api[j].key = NoKey \/ \A i \in Requests : ~Matches(i, api[j].tenant, api[j].key)

\* A claim that was lost to the claimer leaves the row running and nobody at work.
Claimed(w) ==
  /\ exec[w].pc = "claim"
  /\ CanMarkRunning(Row(w), exec[w].attempt = 1)
  /\ jobs' = [jobs EXCEPT ![exec[w].job] = MarkRunning(Row(w))]
  /\ exec' = [exec EXCEPT ![w].pc = "scan"] \/ Return(w)

RowEffect(j) ==
  \/ jobs'[j] = jobs[j]
  \/ Kept(j)
  \/ Inserted(j)
  \/ \E w \in Workers : Claimed(w) /\ exec[w].job = j

\* An executor's transition keeps its row, unless it writes "queued", which none does.
LEMMA FinishKeeps ==
  ASSUME jobs \in [Requests -> Rows], ExecOK, RowsPrecedeUse, NEW w \in Workers,
         exec[w].pc # "idle", NEW s \in JobStatus \ {"queued"}, NEW n \in Nat,
         NEW e \in ErrorCodes, SetJob(w, Transition(Row(w), s, n, e)), NEW j \in Requests
  PROVE  RowEffect(j)
  <1>1. CASE j = exec[w].job
    <2>1. Row(w) \in Rows
      BY RowType
    <2>2. jobs'[j] = Transition(Row(w), s, n, e) /\ Row(w) = jobs[j]
      BY <1>1 DEF SetJob, Row
    <2>3. Exists(j)
      BY <1>1 DEF RowsPrecedeUse
    <2>4. s # "absent"
      BY DEF JobStatus
    <2> QED
      BY <2>1, <2>2, <2>3, <2>4, TransitionRow DEF RowEffect, Kept, Exists
  <1>2. CASE j # exec[w].job
    BY <1>2 DEF SetJob, RowEffect
  <1> QED
    BY <1>1, <1>2

\* Publishing an event keeps the row.
LEMMA AppendKeeps ==
  ASSUME jobs \in [Requests -> Rows], ExecOK, RowsPrecedeUse, NEW w \in Workers,
         exec[w].pc # "idle", NEW kind \in EventKinds,
         SetJob(w, AppendEvent(Row(w), kind, "none")), NEW j \in Requests
  PROVE  RowEffect(j)
  <1>1. CASE j = exec[w].job
    <2>1. Row(w) \in Rows
      BY RowType
    <2>2. jobs'[j] = AppendEvent(Row(w), kind, "none") /\ Row(w) = jobs[j]
      BY <1>1 DEF SetJob, Row
    <2>3. Exists(j)
      BY <1>1 DEF RowsPrecedeUse
    <2> QED
      BY <2>1, <2>2, <2>3, AppendEventRow DEF RowEffect, Kept, Exists
  <1>2. CASE j # exec[w].job
    BY <1>2 DEF SetJob, RowEffect
  <1> QED
    BY <1>1, <1>2

\* The handlers' effect on a row, whether they are told of their commit or not.
LEMMA HandlerRowEffect ==
  ASSUME TypeOK, RowsPrecedeUse, NEW j \in Requests,
         \/ \E r \in Requests : CreateScan(r) \/ ApiAckLost(r)
         \/ \E c \in Cancels : CancelScan(c) \/ CancelAckLost(c)
  PROVE  RowEffect(j)
  <1>0. jobs \in [Requests -> Rows] /\ ApiOK /\ CancelOK
    BY TypeParts
  <1>1. ASSUME NEW r \in Requests, InsertJob(r) \/ ApiAckLost(r), api[r].pc = "insert"
        PROVE  RowEffect(j)
    <2>1. jobs'[j] = jobs[j] \/ Inserted(r)
      BY <1>0, <1>1 DEF InsertJob, ApiAckLost, Inserted
    <2>2. Inserted(r) => jobs'[j] = jobs[j] \/ j = r
      BY <1>0 DEF Inserted
    <2> QED
      BY <2>1, <2>2 DEF RowEffect
  <1>2. ASSUME NEW r \in Requests, RecordDispatch(r) \/ ApiAckLost(r), api[r].pc = "record"
        PROVE  RowEffect(j)
    <2>1. Exists(r)
      BY <1>2 DEF RowsPrecedeUse, Matches
    <2>2. jobs' = [jobs EXCEPT ![r] = SetDispatchId(jobs[r])]
      BY <1>2 DEF RecordDispatch, ApiAckLost
    <2> QED
      BY <1>0, <2>1, <2>2, SetDispatchIdRow DEF RowEffect, Kept, Exists
  <1>3. ASSUME NEW r \in Requests, FailDispatch(r) \/ ApiAckLost(r), api[r].pc = "failing"
        PROVE  RowEffect(j)
    <2>1. Exists(r)
      BY <1>3 DEF RowsPrecedeUse, Matches
    <2>2. jobs[r] \in Rows /\ jobs[r].result_count \in Nat
      BY <1>0 DEF Rows
    <2> DEFINE row == Transition(jobs[r], "failed", jobs[r].result_count, "DISPATCH_FAILED")
    <2>3. jobs' = [jobs EXCEPT ![r] = row]
      <3>1. CASE FailDispatch(r)
        BY <3>1, Zenon DEF FailDispatch
      <3>2. CASE ApiAckLost(r)
        BY <1>3, <3>2 DEF ApiAckLost
      <3> QED
        BY <1>3, <3>1, <3>2
    <2>4. /\ row.status = "failed" /\ row.attempt = jobs[r].attempt
          /\ row.tenant_id = jobs[r].tenant_id /\ row.idempotency_key = jobs[r].idempotency_key
      <3>1. ASSUME NEW old \in Rows, NEW n \in Nat
            PROVE  LET new == Transition(old, "failed", n, "DISPATCH_FAILED")
                   IN  /\ new.status = "failed" /\ new.attempt = old.attempt
                       /\ new.tenant_id = old.tenant_id
                       /\ new.idempotency_key = old.idempotency_key
        BY Codes, TransitionRow
      <3> QED
        BY <2>2, <3>1
    <2> HIDE DEF row
    <2> QED
      BY <1>0, <2>1, <2>3, <2>4 DEF RowEffect, Kept, Exists
  <1>4. ASSUME NEW c \in Cancels, CancelRequest(c) \/ CancelAckLost(c)
        PROVE  RowEffect(j)
    <2> DEFINE i == cancel[c].job
               row == RequestCancel(jobs[i])
    <2>1. i \in Requests /\ jobs[i] \in Rows /\ Exists(i)
      BY <1>0, <1>4 DEF CancelRequest, CancelAckLost, CancelOK, RowsPrecedeUse
    <2>2. jobs' = [jobs EXCEPT ![i] = row]
      BY <1>4, Zenon DEF CancelRequest, CancelAckLost
    <2>3. /\ row.status = IF jobs[i].status = "queued" THEN "cancelled" ELSE jobs[i].status
          /\ row.attempt = jobs[i].attempt
          /\ row.tenant_id = jobs[i].tenant_id /\ row.idempotency_key = jobs[i].idempotency_key
      BY <2>1, RequestCancelRow DEF Exists
    <2> HIDE DEF row, i
    <2> QED
      BY <1>0, <2>1, <2>2, <2>3 DEF RowEffect, Kept, Exists
  <1>5. ASSUME NEW r \in Requests, ApiAckLost(r)
        PROVE  api[r].pc \in {"insert", "record", "failing"}
    BY <1>5 DEF ApiAckLost
  <1>6. ASSUME NEW r \in Requests
        PROVE  /\ InsertJob(r) => api[r].pc = "insert"
               /\ RecordDispatch(r) => api[r].pc = "record"
               /\ FailDispatch(r) => api[r].pc = "failing"
    BY DEF InsertJob, RecordDispatch, FailDispatch
  <1>7. ASSUME NEW r \in Requests, CreateScan(r) \/ ApiAckLost(r) PROVE RowEffect(j)
    BY <1>1, <1>2, <1>3, <1>5, <1>6, <1>7 DEF CreateScan, FindExisting, Submit, RowEffect
  <1>8. ASSUME NEW c \in Cancels, CancelScan(c) \/ CancelAckLost(c) PROVE RowEffect(j)
    BY <1>4, <1>8 DEF CancelScan, CancelRevoke, RowEffect
  <1> QED
    BY <1>7, <1>8

\* The executor's effect on a row.
LEMMA ExecRowEffect ==
  ASSUME TypeOK, RowsPrecedeUse, NEW w \in Workers, Execute(w), NEW j \in Requests
  PROVE  RowEffect(j)
  <1>0. jobs \in [Requests -> Rows] /\ ExecOK
    BY TypeParts
  <1>1. ASSUME jobs' = jobs PROVE RowEffect(j)
    BY <1>1 DEF RowEffect
  <1>2. ASSUME exec[w].pc # "idle", NEW s \in {"failed", "cancelled", "timed_out"},
               NEW e \in ErrorCodes, SetJob(w, Transition(Row(w), s, Row(w).result_count, e))
        PROVE  RowEffect(j)
    BY <1>0, <1>2, RowType, Codes, FinishKeeps
  <1>3. CASE FailUnknownSource(w) \/ FinishCancelled(w)
    BY <1>2, <1>3, Codes DEF FailUnknownSource, FinishCancelled, At
  <1>4. CASE Claim(w)
    <2>1. CASE CanMarkRunning(Row(w), exec[w].attempt = 1)
      <3>1. Claimed(w)
        BY <1>4, <2>1 DEF Claim, Claimed, At, SetJob, Goto
      <3> QED
        BY <1>0, <3>1 DEF RowEffect, Claimed
    <2>2. CASE ~CanMarkRunning(Row(w), exec[w].attempt = 1)
      BY <1>1, <1>4, <2>2 DEF Claim
    <2> QED
      BY <2>1, <2>2
  <1>5. CASE Retry(w)
    BY <1>0, <1>5, AppendKeeps DEF Retry, At, EventKinds
  <1>6. CASE FinishFailed(w)
    <2> DEFINE status == IF exec[w].error = "ADAPTER_TIMEOUT" THEN "timed_out" ELSE "failed"
    <2>1. SetJob(w, Transition(Row(w), status, Row(w).result_count, exec[w].error))
      BY <1>6 DEF FinishFailed
    <2>2. status \in {"failed", "cancelled", "timed_out"}
      OBVIOUS
    <2>3. exec[w].error \in ErrorCodes /\ exec[w].pc # "idle"
      BY <1>0, <1>6 DEF FinishFailed, At, ExecOK, ExecFrames
    <2> HIDE DEF status
    <2> QED
      BY <1>2, <2>1, <2>2, <2>3
  <1>7. CASE PublishFinding(w)
    BY <1>0, <1>7, AppendKeeps DEF PublishFinding, At, EventKinds
  <1>8. CASE Correlate(w)
    BY <1>0, <1>1, <1>8, AppendKeeps DEF Correlate, At, EventKinds
  <1>9. CASE FinishSucceeded(w)
    <2>1. exec[w].found \in Nat /\ exec[w].pc # "idle" /\ "succeeded" \in JobStatus \ {"queued"}
      BY <1>0, <1>9, Codes DEF FinishSucceeded, At, ExecOK, ExecFrames
    <2> QED
      BY <1>0, <1>9, <2>1, Codes, FinishKeeps DEF FinishSucceeded
  <1>10. CASE FinishInterrupted(w)
    <2>1. CASE Terminal(Row(w).status)
      BY <1>1, <1>10, <2>1 DEF FinishInterrupted
    <2>2. CASE ~Terminal(Row(w).status)
      <3>1. SetJob(w, Transition(Row(w), "cancelled", Row(w).result_count, "none"))
        BY <1>10, <2>2 DEF FinishInterrupted
      <3> QED
        BY <1>2, <1>10, <3>1, Codes DEF FinishInterrupted, At
    <2> QED
      BY <2>1, <2>2
  <1>11. CASE \/ Load(w) \/ Check(w) \/ ScanCancelled(w) \/ BackoffEnds(w) \/ StoreFinding(w)
              \/ \E n \in 0..MaxFindings : ScanReturns(w, n)
              \/ \E e \in ScanErrors : ScanRaises(w, e)
    BY <1>1, <1>11 DEF Load, Check, ScanCancelled, BackoffEnds, StoreFinding, ScanReturns,
                       ScanRaises
  <1> QED
    BY <1>3, <1>4, <1>5, <1>6, <1>7, <1>8, <1>9, <1>10, <1>11 DEF Execute

\* The effect of an executor that is not told of its commit.
LEMMA AckLostRowEffect ==
  ASSUME TypeOK, RowsPrecedeUse, NEW w \in Workers, ExecAckLost(w), NEW j \in Requests
  PROVE  RowEffect(j)
  <1>0. jobs \in [Requests -> Rows] /\ ExecOK /\ exec[w].pc # "idle"
    BY TypeParts DEF ExecAckLost
  <1>1. CASE jobs' = jobs
    BY <1>1 DEF RowEffect
  <1>2. CASE exec[w].pc = "claim"
    <2>1. Claimed(w)
      BY <1>2 DEF ExecAckLost, Claimed, SetJob
    <2> QED
      BY <1>0, <2>1 DEF RowEffect, Claimed
  <1>3. ASSUME NEW kind \in {"retrying", "finding", "correlation"},
               SetJob(w, AppendEvent(Row(w), kind, "none"))
        PROVE  RowEffect(j)
    <2>1. kind \in EventKinds
      BY DEF EventKinds
    <2> QED
      BY <1>0, <1>3, <2>1, AppendKeeps
  <1>4. CASE SetJob(w, Transition(Row(w), "succeeded", exec[w].found, "none"))
    <2>1. exec[w].found \in Nat /\ "succeeded" \in JobStatus \ {"queued"}
      BY <1>0, Codes DEF ExecOK, ExecFrames
    <2> QED
      BY <1>0, <1>4, <2>1, Codes, FinishKeeps
  <1> QED
    BY <1>1, <1>2, <1>3, <1>4 DEF ExecAckLost

\* Every step's effect on a row.
LEMMA StepRowEffect ==
  ASSUME TypeOK, RowsPrecedeUse, [Next]_vars, NEW j \in Requests
  PROVE  RowEffect(j)
  <1>1. ASSUME jobs' = jobs PROVE RowEffect(j)
    BY <1>1 DEF RowEffect
  <1>2. CASE UNCHANGED vars
    BY <1>1, <1>2 DEF vars
  <1>3. CASE Next
    BY <1>1, <1>3, HandlerRowEffect, ExecRowEffect, AckLostRowEffect
       DEF Next, Step, ReceiveScan, ApiCrash, SubmitFails, ApiRepositoryFails, DiscardRevoked,
           CancelRead, CancelCrash, CancelRepositoryFails, Deliver, WorkerCrash, Redeliver,
           ExecRepositoryFails, Interrupt, ProcessCrash
  <1> QED
    BY <1>2, <1>3

Moved(v, from, to) ==
  exec[v].pc \in from /\ exec'[v].pc \in to /\ exec'[v].job = exec[v].job

\* The ways a step changes an executor's frame.
FrameEffect(v) ==
  \/ exec'[v] = exec[v]
  \/ exec'[v].pc \in {"idle", "load", "unknown"}
  \/ Moved(v, {"load"}, {"check"}) /\ exec'[v].attempt = 1
  \/ Moved(v, {"check"}, {"cancelling", "claim"}) /\ exec'[v].attempt = exec[v].attempt
  \/ Claimed(v)
  \/ /\ Moved(v, InAttempt, InAttempt) /\ exec'[v].attempt = exec[v].attempt
     /\ exec'[v].pc = "backoff" => exec[v].attempt < MaxAttempts
  \/ Moved(v, {"backoff"}, {"check"}) /\ exec'[v].attempt = exec[v].attempt + 1

\* A claimed or running executor's steps.
LEMMA ExecFrameEffect ==
  ASSUME ExecOK, NEW w \in Workers, Execute(w), NEW v \in Workers
  PROVE  FrameEffect(v)
  <1>1. ASSUME v # w PROVE exec'[v] = exec[v]
    BY <1>1 DEF ExecOK, Execute, Load, FailUnknownSource, Check, FinishCancelled, Claim,
       ScanReturns, ScanCancelled, ScanRaises, Retry, FinishFailed, BackoffEnds, StoreFinding,
       PublishFinding, Correlate, FinishSucceeded, FinishInterrupted, Goto, Return
  <1>2. ASSUME Return(w) PROVE FrameEffect(w)
    BY <1>2, IdleFrame DEF ExecOK, Return, FrameEffect
  <1>3. CASE Load(w)
    <2>1. ASSUME exec' = [exec EXCEPT ![w].pc = "check", ![w].attempt = 1] PROVE FrameEffect(w)
      BY <1>3, <2>1 DEF Load, At, ExecOK, ExecFrames, FrameEffect, Moved
    <2>2. ASSUME Goto(w, "unknown") PROVE FrameEffect(w)
      BY <2>2 DEF Goto, ExecOK, ExecFrames, FrameEffect
    <2> QED
      BY <1>1, <1>2, <1>3, <2>1, <2>2 DEF Load, FrameEffect
  <1>4. CASE Check(w)
    <2>1. ASSUME NEW pc \in {"cancelling", "claim"}, Goto(w, pc) PROVE FrameEffect(w)
      BY <1>4, <2>1 DEF Check, At, Goto, ExecOK, ExecFrames, FrameEffect, Moved
    <2> QED
      BY <1>1, <1>2, <1>4, <2>1 DEF Check, FrameEffect
  <1>5. CASE Claim(w)
    <2>1. CASE CanMarkRunning(Row(w), exec[w].attempt = 1)
      BY <1>1, <1>5, <2>1 DEF Claim, Claimed, At, SetJob, Goto, FrameEffect
    <2>2. CASE ~CanMarkRunning(Row(w), exec[w].attempt = 1)
      BY <1>1, <1>2, <1>5, <2>2 DEF Claim, FrameEffect
    <2> QED
      BY <2>1, <2>2
  <1>6. CASE \/ FailUnknownSource(w) \/ FinishCancelled(w) \/ FinishFailed(w)
             \/ FinishSucceeded(w) \/ FinishInterrupted(w)
    BY <1>1, <1>2, <1>6 DEF FailUnknownSource, FinishCancelled, FinishFailed, FinishSucceeded,
                            FinishInterrupted, FrameEffect
  <1>7. CASE BackoffEnds(w)
    <2>1. FrameEffect(w)
      BY <1>7 DEF BackoffEnds, At, ExecOK, ExecFrames, FrameEffect, Moved
    <2> QED
      BY <1>1, <2>1 DEF FrameEffect
  <1>8. CASE Retry(w)
    <2>1. FrameEffect(w)
      BY <1>8 DEF Retry, WillRetry, At, Goto, ExecOK, ExecFrames, FrameEffect, Moved, InAttempt
    <2> QED
      BY <1>1, <2>1 DEF FrameEffect
  <1>9. CASE \/ ScanCancelled(w) \/ StoreFinding(w) \/ Correlate(w)
             \/ \E n \in 0..MaxFindings : ScanReturns(w, n)
             \/ \E e \in ScanErrors : ScanRaises(w, e)
             \/ PublishFinding(w)
    <2>1. /\ exec[w].pc \in {"scan", "teardown", "store", "publish", "correlate"}
          /\ exec'[w].pc \in {"store", "teardown", "raised", "publish", "correlate"}
          /\ exec'[w].job = exec[w].job /\ exec'[w].attempt = exec[w].attempt
      BY <1>9 DEF ScanCancelled, StoreFinding, Correlate, ScanReturns, ScanRaises,
                  PublishFinding, At, Goto, ExecOK, ExecFrames
    <2>2. FrameEffect(w)
      BY <2>1 DEF FrameEffect, Moved, InAttempt
    <2> QED
      BY <1>1, <2>2 DEF FrameEffect
  <1> QED
    BY <1>3, <1>4, <1>5, <1>6, <1>7, <1>8, <1>9 DEF Execute

\* Every step's effect on an executor's frame.
LEMMA StepFrameEffect ==
  ASSUME TypeOK, [Next]_vars, NEW v \in Workers
  PROVE  FrameEffect(v)
  <1>0. ExecOK
    BY TypeParts
  <1>1. ASSUME exec' = exec PROVE FrameEffect(v)
    BY <1>1 DEF FrameEffect
  <1>2. ASSUME NEW w \in Workers, Return(w) PROVE FrameEffect(v)
    BY <1>0, <1>2, IdleFrame DEF ExecOK, Return, FrameEffect
  <1>3. ASSUME NEW w \in Workers, NEW j \in Requests, Deliver(w, j) PROVE FrameEffect(v)
    BY <1>0, <1>3 DEF Deliver, Idle, ExecOK, FrameEffect
  <1>4. ASSUME NEW w \in Workers, ExecRepositoryFails(w) PROVE FrameEffect(v)
    <2>1. CASE exec' = [exec EXCEPT ![w].pc = "raised", ![w].error = "INTERNAL_ERROR"]
               /\ exec[w].pc \in {"scan", "store", "publish", "correlate"}
      BY <1>0, <2>1 DEF ExecOK, ExecFrames, FrameEffect, Moved, InAttempt
    <2> QED
      BY <1>2, <1>4, <2>1 DEF ExecRepositoryFails
  <1>5. ASSUME NEW w \in Workers, ExecAckLost(w) PROVE FrameEffect(v)
    <2>1. CASE exec' = [exec EXCEPT ![w].pc = "raised", ![w].error = "INTERNAL_ERROR"]
               /\ exec[w].pc \in {"scan", "store", "publish", "correlate"}
      BY <1>0, <2>1 DEF ExecOK, ExecFrames, FrameEffect, Moved, InAttempt
    <2> QED
      BY <1>2, <1>5, <2>1 DEF ExecAckLost
  <1>6. ASSUME NEW w \in Workers, Interrupt(w) PROVE FrameEffect(v)
    <2>1. CASE exec[w].pc = "scan" /\ Goto(w, "interrupted")
      BY <1>0, <2>1 DEF Goto, ExecOK, ExecFrames, FrameEffect, Moved, InAttempt
    <2> QED
      BY <1>2, <1>6, <2>1 DEF Interrupt
  <1>7. CASE ProcessCrash
    BY <1>7, IdleFrame DEF ProcessCrash, FrameEffect
  <1>8. CASE UNCHANGED vars
    BY <1>1, <1>8 DEF vars
  <1>9. CASE Next
    BY <1>0, <1>1, <1>2, <1>3, <1>4, <1>6, <1>7, <1>9, <1>5, ExecFrameEffect
       DEF Next, Step, ReceiveScan, CreateScan, FindExisting, InsertJob, Submit, RecordDispatch,
           FailDispatch, ApiCrash, SubmitFails, ApiRepositoryFails, ApiAckLost, DiscardRevoked,
           CancelRead, CancelScan, CancelRequest, CancelRevoke, CancelCrash,
           CancelRepositoryFails, CancelAckLost, WorkerCrash, Redeliver
  <1> QED
    BY <1>8, <1>9

-----------------------------------------------------------------------------
(* The inductive invariant *)

\* A row that exists keeps existing, under the same tenant and key.
LEMMA RowsStay ==
  ASSUME TypeOK, RowsPrecedeUse, [Next]_vars, NEW j \in Requests, Exists(j)
  PROVE  /\ Exists(j)'
         /\ jobs'[j].tenant_id = jobs[j].tenant_id
         /\ jobs'[j].idempotency_key = jobs[j].idempotency_key
  <1>0. jobs \in [Requests -> Rows]
    BY TypeParts
  <1>1. RowEffect(j)
    BY StepRowEffect
  <1>2. CASE jobs'[j] = jobs[j] \/ Kept(j)
    BY <1>2 DEF Kept, Exists
  <1>3. CASE Inserted(j)
    BY <1>3 DEF Inserted, RowsPrecedeUse
  <1>4. ASSUME NEW w \in Workers, Claimed(w), exec[w].job = j
        PROVE  /\ Exists(j)'
               /\ jobs'[j].tenant_id = jobs[j].tenant_id
               /\ jobs'[j].idempotency_key = jobs[j].idempotency_key
    <2>1. jobs'[j] = MarkRunning(jobs[j])
      BY <1>0, <1>4 DEF Claimed, Row
    <2> QED
      BY <1>0, <2>1, MarkRunningRow DEF Exists
  <1> QED
    BY <1>1, <1>2, <1>3, <1>4 DEF RowEffect

\* A row comes into being only by its own call's INSERT.
LEMMA RowsAppear ==
  ASSUME TypeOK, RowsPrecedeUse, [Next]_vars, NEW j \in Requests, ~Exists(j), Exists(j)'
  PROVE  Inserted(j)
  <1>1. RowEffect(j)
    BY StepRowEffect
  <1>2. ASSUME NEW w \in Workers, Claimed(w), exec[w].job = j PROVE FALSE
    BY <1>2 DEF Claimed, RowsPrecedeUse
  <1> QED
    BY <1>1, <1>2 DEF RowEffect, Kept, Exists

\* The ways a step changes the frame of a create_scan call.
ApiEffect(r) ==
  \/ api'[r] = api[r]
  \/ /\ api[r].pc = "new" /\ api'[r].pc \in {"done", "find", "insert"} /\ api'[r].job = None
  \/ /\ api[r].pc = "find" /\ api'[r] = [api[r] EXCEPT !.pc = "insert"]
  \/ /\ api[r].pc \in {"find", "insert"}
     /\ \E j \in Requests : /\ Matches(j, api[r].tenant, api[r].key)
                            /\ api'[r] = [api[r] EXCEPT !.pc = "done", !.job = j, !.code = "existing"]
  \/ Inserted(r)
  \/ /\ api[r].pc \in {"submit", "record"}
     /\ \E pc \in {"record", "failing"} : api'[r] = [api[r] EXCEPT !.pc = pc]
  \/ /\ api[r].pc \in {"record", "failing"}
     /\ \E code \in {"accepted", "DISPATCH_FAILED"} :
          api'[r] = [api[r] EXCEPT !.pc = "done", !.job = r, !.code = code]
  \/ api'[r] = [api[r] EXCEPT !.pc = "died"]

\* Every step's effect on a create_scan frame.
LEMMA StepApiEffect ==
  ASSUME TypeOK, [Next]_vars, NEW r \in Requests
  PROVE  ApiEffect(r)
  <1>0. api \in [Requests -> ApiFrames]
    BY TypeParts DEF ApiOK
  <1>1. ASSUME api' = api PROVE ApiEffect(r)
    BY <1>1 DEF ApiEffect
  <1>2. ASSUME NEW q \in Requests, NEW t \in Tenants, NEW s \in Sources,
               NEW k \in Keys \cup {NoKey, BadKey}, ReceiveScan(q, t, s, k)
        PROVE  ApiEffect(r)
    BY <1>0, <1>2 DEF ReceiveScan, ApiEffect
  <1>3. ASSUME NEW q \in Requests, FindExisting(q) PROVE ApiEffect(r)
    BY <1>0, <1>3 DEF FindExisting, Answer, ApiEffect
  <1>4. ASSUME NEW q \in Requests, InsertJob(q) PROVE ApiEffect(r)
    <2>1. CASE r # q
      BY <1>0, <1>4, <2>1 DEF InsertJob, Answer, ApiEffect
    <2>2. CASE r = q
      BY <1>0, <1>4, <2>2 DEF InsertJob, Inserted, Answer, ApiEffect
    <2> QED
      BY <2>1, <2>2
  <1>5. ASSUME NEW q \in Requests, Submit(q) PROVE ApiEffect(r)
    BY <1>0, <1>5 DEF Submit, ApiEffect
  <1>6. ASSUME NEW q \in Requests, RecordDispatch(q) \/ FailDispatch(q) PROVE ApiEffect(r)
    BY <1>0, <1>6 DEF RecordDispatch, FailDispatch, Answer, ApiEffect
  <1>7. ASSUME NEW q \in Requests, ApiCrash(q) PROVE ApiEffect(r)
    BY <1>0, <1>7 DEF ApiCrash, Died, ApiEffect
  <1>8. ASSUME NEW q \in Requests, SubmitFails(q) \/ ApiRepositoryFails(q) PROVE ApiEffect(r)
    BY <1>0, <1>8 DEF SubmitFails, ApiRepositoryFails, ApiEffect
  <1>9. ASSUME NEW q \in Requests, ApiAckLost(q) PROVE ApiEffect(r)
    <2>1. CASE r # q
      BY <1>0, <1>9, <2>1 DEF ApiAckLost, ApiEffect
    <2>2. CASE r = q
      BY <1>0, <1>9, <2>2 DEF ApiAckLost, ApiEffect
    <2> QED
      BY <2>1, <2>2
  <1>10. CASE ProcessCrash
    BY <1>0, <1>10 DEF ProcessCrash, Died, ApiEffect
  <1>11. ASSUME NEW w \in Workers, Execute(w) PROVE api' = api
    BY <1>11 DEF Execute, Load, FailUnknownSource, Check, FinishCancelled, Claim,
       ScanReturns, ScanCancelled, ScanRaises, Retry, FinishFailed, BackoffEnds, StoreFinding,
       PublishFinding, Correlate, FinishSucceeded, FinishInterrupted
  <1>12. CASE UNCHANGED vars
    BY <1>1, <1>12 DEF vars
  <1>13. CASE Next
    BY <1>1, <1>2, <1>3, <1>4, <1>5, <1>6, <1>7, <1>8, <1>10, <1>11, <1>13, <1>9
       DEF Next, Step, CreateScan, DiscardRevoked, CancelRead, CancelScan, CancelRequest,
           CancelRevoke, CancelCrash, CancelRepositoryFails, CancelAckLost, Deliver, WorkerCrash,
           Redeliver, ExecRepositoryFails, ExecAckLost, Interrupt
  <1> QED
    BY <1>12, <1>13

\* execute() works on the job it was started for until it returns.
LEMMA ExecuteKeepsJob ==
  ASSUME ExecOK, NEW w \in Workers, Execute(w), NEW v \in Workers, exec'[v].pc # "idle"
  PROVE  exec[v].pc # "idle" /\ exec'[v].job = exec[v].job
  <1>1. ASSUME Return(w) PROVE exec[v].pc # "idle" /\ exec'[v].job = exec[v].job
    BY <1>1, IdleFrame DEF Return, ExecOK
  <1>2. CASE Load(w) \/ Check(w) \/ Claim(w)
    BY <1>1, <1>2 DEF Load, Check, Claim, At, Goto, ExecOK, ExecFrames
  <1>3. CASE \/ FailUnknownSource(w) \/ FinishCancelled(w) \/ FinishFailed(w)
             \/ FinishSucceeded(w) \/ FinishInterrupted(w)
    BY <1>1, <1>3 DEF FailUnknownSource, FinishCancelled, FinishFailed, FinishSucceeded,
                      FinishInterrupted
  <1>4. CASE \/ ScanCancelled(w) \/ StoreFinding(w) \/ Correlate(w) \/ PublishFinding(w)
             \/ \E n \in 0..MaxFindings : ScanReturns(w, n)
             \/ \E e \in ScanErrors : ScanRaises(w, e)
             \/ Retry(w) \/ BackoffEnds(w)
    BY <1>4 DEF ScanCancelled, StoreFinding, Correlate, PublishFinding, ScanReturns, ScanRaises,
                Retry, BackoffEnds, At, Goto, ExecOK, ExecFrames
  <1> QED
    BY <1>2, <1>3, <1>4 DEF Execute

\* A frame at work keeps its job, or has just taken it from the queue.
LEMMA StepExecJob ==
  ASSUME TypeOK, [Next]_vars, NEW w \in Workers, exec'[w].pc # "idle"
  PROVE  (exec[w].pc # "idle" /\ exec'[w].job = exec[w].job) \/ exec'[w].job \in queue
  <1>0. ExecOK
    BY TypeParts
  <1>1. ASSUME NEW v \in Workers, NEW j \in Requests, Deliver(v, j)
        PROVE  (exec[w].pc # "idle" /\ exec'[w].job = exec[w].job) \/ exec'[w].job \in queue
    BY <1>0, <1>1 DEF Deliver, ExecOK, Idle
  <1>2. ASSUME NEW v \in Workers,
               WorkerCrash(v) \/ ExecRepositoryFails(v) \/ ExecAckLost(v) \/ Interrupt(v)
        PROVE  exec[w].pc # "idle" /\ exec'[w].job = exec[w].job
    BY <1>0, <1>2, IdleFrame
       DEF WorkerCrash, ExecRepositoryFails, ExecAckLost, Interrupt, Return, Goto, ExecOK, ExecFrames
  <1>3. CASE ProcessCrash
    BY <1>3, IdleFrame DEF ProcessCrash
  <1>4. CASE UNCHANGED vars
    BY <1>4 DEF vars
  <1>5. CASE Next
    BY <1>0, <1>1, <1>2, <1>3, <1>5, ExecuteKeepsJob
       DEF Next, Step, ReceiveScan, CreateScan, FindExisting, InsertJob, Submit, RecordDispatch,
           FailDispatch, ApiCrash, SubmitFails, ApiRepositoryFails, ApiAckLost, DiscardRevoked,
           CancelRead, CancelScan, CancelRequest, CancelRevoke, CancelCrash,
           CancelRepositoryFails, CancelAckLost, Redeliver
  <1> QED
    BY <1>4, <1>5

\* A message is for a job that was queued, is being submitted, or is at a worker.
LEMMA StepQueue ==
  ASSUME TypeOK, [Next]_vars, NEW j \in queue'
  PROVE  \/ j \in queue
         \/ j \in Requests /\ api[j].pc = "submit"
         \/ \E w \in Workers : exec[w].pc # "idle" /\ exec[w].job = j
  <1>1. CASE UNCHANGED vars
    BY <1>1 DEF vars
  <1>2. ASSUME NEW w \in Workers, Execute(w) PROVE queue' = queue
    BY <1>2 DEF Execute, Load, FailUnknownSource, Check, FinishCancelled, Claim,
       ScanReturns, ScanCancelled, ScanRaises, Retry, FinishFailed, BackoffEnds, StoreFinding,
       PublishFinding, Correlate, FinishSucceeded, FinishInterrupted
  <1>3. CASE Next
    BY <1>2, <1>3
       DEF Next, Step, ReceiveScan, CreateScan, FindExisting, InsertJob, Submit, RecordDispatch,
           FailDispatch, ApiCrash, SubmitFails, ApiRepositoryFails, ApiAckLost, DiscardRevoked,
           CancelRead, CancelScan, CancelRequest, CancelRevoke, CancelCrash,
           CancelRepositoryFails, CancelAckLost, Deliver, WorkerCrash, Redeliver,
           ExecRepositoryFails, ExecAckLost, Interrupt, ProcessCrash
  <1> QED
    BY <1>1, <1>3

\* A cancel_scan call keeps the job it read, and it read one that exists.
LEMMA StepCancelJob ==
  ASSUME TypeOK, [Next]_vars, NEW c \in Cancels, cancel'[c].pc # "new"
  PROVE  \/ cancel[c].pc # "new" /\ cancel'[c].job = cancel[c].job
         \/ cancel'[c].job \in Requests /\ Exists(cancel'[c].job)
  <1>0. cancel \in [Cancels -> CancelFrames]
    BY TypeParts DEF CancelOK
  <1>1. CASE UNCHANGED vars
    BY <1>1 DEF vars
  <1>2. ASSUME NEW w \in Workers, Execute(w) PROVE cancel' = cancel
    BY <1>2 DEF Execute, Load, FailUnknownSource, Check, FinishCancelled, Claim,
       ScanReturns, ScanCancelled, ScanRaises, Retry, FinishFailed, BackoffEnds, StoreFinding,
       PublishFinding, Correlate, FinishSucceeded, FinishInterrupted
  <1>3. ASSUME NEW b \in Cancels, NEW j \in Requests, CancelRead(b, j)
        PROVE  \/ cancel[c].pc # "new" /\ cancel'[c].job = cancel[c].job
               \/ cancel'[c].job \in Requests /\ Exists(cancel'[c].job)
    BY <1>0, <1>3 DEF CancelRead
  <1>4. ASSUME NEW b \in Cancels,
               \/ CancelRequest(b) \/ CancelRevoke(b) \/ CancelCrash(b)
               \/ CancelRepositoryFails(b) \/ CancelAckLost(b)
        PROVE  cancel[c].pc # "new" /\ cancel'[c].job = cancel[c].job
    <2>1. CASE CancelCrash(b)
      BY <1>0, <2>1 DEF CancelCrash, Died, CancelRunning, CancelFrames
    <2>2. CASE \/ CancelRequest(b) \/ CancelRevoke(b)
               \/ CancelRepositoryFails(b) \/ CancelAckLost(b)
      BY <1>0, <2>2
         DEF CancelRequest, CancelRevoke, CancelRepositoryFails, CancelAckLost, CancelFrames
    <2> QED
      BY <1>4, <2>1, <2>2
  <1>5. CASE ProcessCrash
    BY <1>0, <1>5 DEF ProcessCrash, Died, CancelFrames, CancelRunning
  <1>6. CASE Next
    BY <1>2, <1>3, <1>4, <1>5, <1>6
       DEF Next, Step, ReceiveScan, CreateScan, FindExisting, InsertJob, Submit, RecordDispatch,
           FailDispatch, ApiCrash, SubmitFails, ApiRepositoryFails, ApiAckLost, DiscardRevoked,
           CancelScan, Deliver, WorkerCrash, Redeliver, ExecRepositoryFails, ExecAckLost, Interrupt
  <1> QED
    BY <1>1, <1>6

\* Every step keeps RowsPrecedeUse.
LEMMA NextRowsPrecedeUse ==
  ASSUME TypeOK, RowsPrecedeUse, [Next]_vars
  PROVE  RowsPrecedeUse'
  <1>0. /\ jobs \in [Requests -> Rows] /\ api \in [Requests -> ApiFrames]
        /\ queue \subseteq Requests /\ CancelOK /\ ExecOK
    BY TypeParts DEF ApiOK
  <1>1. ASSUME NEW r \in Requests, Inserted(r)
        PROVE  /\ Exists(r)'
               /\ \E pc \in {"submit", "died"} : api'[r] = [api[r] EXCEPT !.pc = pc]
               /\ jobs'[r].tenant_id = api[r].tenant /\ jobs'[r].idempotency_key = api[r].key
    <2>1. /\ api[r].tenant \in Tenants /\ api[r].source \in Sources
          /\ api[r].key \in Keys \cup {NoKey}
      BY <1>1 DEF TypeOK, Inserted, ApiRunning
    <2>2. jobs'[r] = NewJob(api[r].tenant, api[r].source, api[r].key)
      BY <1>0, <1>1 DEF Inserted
    <2> QED
      BY <1>0, <1>1, <2>1, <2>2, NewJobRow DEF Inserted, Exists
  <1>2. ASSUME NEW r \in Requests, api'[r].pc \in {"new", "find", "insert"}
        PROVE  ~Exists(r)'
    <2>1. api[r].pc \in {"new", "find", "insert"} /\ ~Inserted(r)
      <3>1. api[r] \in ApiFrames /\ ApiEffect(r)
        BY <1>0, StepApiEffect
      <3>2. ~Inserted(r)
        BY <1>1, <1>2, <3>1 DEF ApiFrames
      <3> QED
        BY <1>2, <3>1, <3>2 DEF ApiEffect, ApiFrames
    <2> QED
      BY <2>1, RowsAppear DEF RowsPrecedeUse
  <1>3. ASSUME NEW r \in Requests, api'[r].pc \in {"submit", "record", "failing"}
        PROVE  Matches(r, api[r].tenant, api[r].key)'
    <2>1. CASE Inserted(r)
      <3>1. /\ api'[r].tenant = api[r].tenant /\ api'[r].key = api[r].key
            /\ Exists(r)'
        BY <1>0, <1>1, <2>1 DEF ApiFrames
      <3> QED
        BY <1>1, <2>1, <3>1 DEF Matches
    <2>2. CASE ~Inserted(r)
      <3>1. /\ api[r].pc \in {"submit", "record", "failing"}
            /\ api'[r].tenant = api[r].tenant /\ api'[r].key = api[r].key
        <4>1. ApiEffect(r) /\ api[r] \in ApiFrames
          BY <1>0, StepApiEffect
        <4> QED
          BY <1>3, <2>2, <4>1 DEF ApiEffect, ApiFrames
      <3>2. Matches(r, api[r].tenant, api[r].key)
        BY <3>1 DEF RowsPrecedeUse
      <3> QED
        BY <3>1, <3>2, RowsStay DEF Matches
    <2> QED
      BY <2>1, <2>2
  <1>4. ASSUME NEW j \in queue' PROVE Exists(j)'
    <2>1. j \in Requests /\ Exists(j)
      BY <1>0, <1>4, StepQueue DEF RowsPrecedeUse, Matches, ExecOK
    <2> QED
      BY <2>1, RowsStay
  <1>5. ASSUME NEW c \in Cancels, cancel'[c].pc # "new" PROVE Exists(cancel[c].job)'
    <2>1. cancel'[c].job \in Requests /\ Exists(cancel'[c].job)
      BY <1>0, <1>5, StepCancelJob DEF RowsPrecedeUse, CancelOK
    <2> QED
      BY <2>1, RowsStay DEF Exists
  <1>6. ASSUME NEW w \in Workers, exec'[w].pc # "idle" PROVE Exists(exec[w].job)'
    <2>1. exec'[w].job \in Requests /\ Exists(exec'[w].job)
      BY <1>0, <1>6, StepExecJob DEF RowsPrecedeUse, ExecOK
    <2> QED
      BY <2>1, RowsStay DEF Exists
  <1>7. ASSUME NEW r \in Requests, api'[r].job # None
        PROVE  Matches(api[r].job, api[r].tenant, api[r].key)'
    <2>1. /\ api'[r].job \in Requests /\ Matches(api'[r].job, api[r].tenant, api[r].key)
          /\ api'[r].tenant = api[r].tenant /\ api'[r].key = api[r].key
      <3>1. CASE Inserted(r)
        <4>1. api[r].job # None /\ api'[r].job = api[r].job /\ api[r].job \in Requests
              /\ api'[r].tenant = api[r].tenant /\ api'[r].key = api[r].key
          BY <1>0, <1>1, <1>7, <3>1 DEF ApiFrames
        <4> QED
          BY <4>1 DEF RowsPrecedeUse
      <3>2. CASE ~Inserted(r)
        <4>1. ApiEffect(r) /\ api[r] \in ApiFrames
          BY <1>0, StepApiEffect
        <4>2. CASE api'[r].job = api[r].job /\ api'[r].tenant = api[r].tenant
                   /\ api'[r].key = api[r].key
          BY <1>7, <4>1, <4>2 DEF RowsPrecedeUse, ApiFrames
        <4>3. ASSUME NEW j \in Requests, NEW code, Matches(j, api[r].tenant, api[r].key),
                     api'[r] = [api[r] EXCEPT !.pc = "done", !.job = j, !.code = code]
              PROVE  /\ api'[r].job \in Requests /\ Matches(api'[r].job, api[r].tenant, api[r].key)
                     /\ api'[r].tenant = api[r].tenant /\ api'[r].key = api[r].key
          BY <4>1, <4>3 DEF ApiFrames
        <4>4. api[r].pc \in {"record", "failing"} => Matches(r, api[r].tenant, api[r].key)
          BY DEF RowsPrecedeUse
        <4> QED
          BY <1>7, <3>2, <4>1, <4>2, <4>3, <4>4 DEF ApiEffect, ApiFrames
      <3> QED
        BY <3>1, <3>2
    <2> QED
      BY <2>1, RowsStay DEF Matches, Exists
  <1> QED
    BY <1>2, <1>3, <1>4, <1>5, <1>6, <1>7 DEF RowsPrecedeUse

\* Every step keeps OneJobPerKey: rows never change their key, a row is inserted only when
\* no other carries its key, and an answer names the row with the call's key.
LEMMA NextOneJobPerKey ==
  ASSUME TypeOK, RowsPrecedeUse, OneJobPerKey, [Next]_vars
  PROVE  OneJobPerKey'
  <1>0. /\ jobs \in [Requests -> Rows] /\ api \in [Requests -> ApiFrames]
        /\ api' \in [Requests -> ApiFrames]
    BY TypeParts, TypePartsNext, NextType DEF ApiOK
  <1>1. ASSUME NEW i \in Requests, NEW j \in Requests, i # j, Inserted(i), Exists(j)',
               jobs'[i].tenant_id = jobs'[j].tenant_id,
               jobs'[i].idempotency_key = jobs'[j].idempotency_key
        PROVE  jobs'[i].idempotency_key = NoKey
    <2>1. /\ api[i].tenant \in Tenants /\ api[i].source \in Sources
          /\ api[i].key \in Keys \cup {NoKey}
      BY <1>1 DEF TypeOK, Inserted, ApiRunning
    <2>2. jobs'[i] = NewJob(api[i].tenant, api[i].source, api[i].key) /\ jobs'[j] = jobs[j]
      BY <1>0, <1>1 DEF Inserted
    <2>3. jobs'[i].tenant_id = api[i].tenant /\ jobs'[i].idempotency_key = api[i].key
      BY <2>1, <2>2, NewJobRow
    <2>4. Matches(j, api[i].tenant, api[i].key)
      BY <1>1, <2>2, <2>3 DEF Matches, Exists
    <2> QED
      BY <1>1, <2>3, <2>4 DEF Inserted
  <1>2. ASSUME NEW i \in Requests, NEW j \in Requests, Exists(i)', Exists(j)', i # j,
               jobs'[i].tenant_id = jobs'[j].tenant_id
        PROVE  jobs'[i].idempotency_key # jobs'[j].idempotency_key
               \/ jobs'[i].idempotency_key = NoKey
    <2>1. CASE Exists(i) /\ Exists(j)
      <3>1. /\ jobs'[i].tenant_id = jobs[i].tenant_id
            /\ jobs'[j].tenant_id = jobs[j].tenant_id
            /\ jobs'[i].idempotency_key = jobs[i].idempotency_key
            /\ jobs'[j].idempotency_key = jobs[j].idempotency_key
        BY <2>1, RowsStay
      <3> QED
        BY <1>2, <2>1, <3>1 DEF OneJobPerKey
    <2>2. CASE ~Exists(i)
      <3>1. Inserted(i)
        BY <1>2, <2>2, RowsAppear
      <3> QED
        BY <1>1, <1>2, <3>1
    <2>3. CASE ~Exists(j)
      <3>1. Inserted(j)
        BY <1>2, <2>3, RowsAppear
      <3> QED
        BY <1>1, <1>2, <3>1
    <2> QED
      BY <2>1, <2>2, <2>3
  <1>3. ASSUME NEW q \in Requests, NEW r \in Requests, api'[q].job # None, api'[r].job # None,
               api'[q].tenant = api'[r].tenant, api'[q].key = api'[r].key, api'[q].key # NoKey
        PROVE  api'[q].job = api'[r].job
    <2>1. RowsPrecedeUse'
      BY NextRowsPrecedeUse
    <2>2. /\ Matches(api[q].job, api[q].tenant, api[q].key)'
          /\ Matches(api[r].job, api[r].tenant, api[r].key)'
          /\ api'[q].job \in Requests /\ api'[r].job \in Requests
      BY <1>0, <1>3, <2>1 DEF RowsPrecedeUse, ApiFrames
    <2> QED
      BY <1>2, <1>3, <2>2 DEF Matches, Exists
  <1> QED
    BY <1>2, <1>3 DEF OneJobPerKey, Exists

\* An owner after a step was one before it, at the same attempt, unless it has just claimed.
LEMMA OwnerBefore ==
  ASSUME TypeOK, OwnershipInv, [Next]_vars, NEW v \in Workers, NEW j \in Requests, Owns(v, j)',
         ~Claimed(v)
  PROVE  /\ Owns(v, j)
         /\ exec'[v].attempt = IF exec'[v].pc \in LoopTop
                                 THEN jobs[j].attempt + 1 ELSE jobs[j].attempt
  <1>0. ExecOK /\ jobs[j].attempt \in Nat
    BY TypeParts DEF Rows
  <1>1. FrameEffect(v) /\ exec[v] \in ExecFrames
    BY <1>0, StepFrameEffect DEF ExecOK
  <1>2. Owns(v, j) => exec[v].attempt = IF exec[v].pc \in LoopTop
                                          THEN jobs[j].attempt + 1 ELSE jobs[j].attempt
    BY DEF OwnershipInv
  <1>3. CASE exec'[v] = exec[v]
    BY <1>2, <1>3 DEF Owns
  <1>4. CASE Moved(v, {"check"}, {"cancelling", "claim"}) /\ exec'[v].attempt = exec[v].attempt
    BY <1>2, <1>4 DEF Owns, Moved, LoopTop, InAttempt
  <1>5. CASE Moved(v, InAttempt, InAttempt) /\ exec'[v].attempt = exec[v].attempt
    BY <1>2, <1>5 DEF Owns, Moved, LoopTop, InAttempt
  <1>6. CASE Moved(v, {"backoff"}, {"check"}) /\ exec'[v].attempt = exec[v].attempt + 1
    BY <1>0, <1>2, <1>6 DEF Owns, Moved, LoopTop, InAttempt
  <1>7. CASE exec'[v].pc \in {"idle", "load", "unknown"}
    BY <1>7 DEF Owns, LoopTop, InAttempt
  <1>8. CASE Moved(v, {"load"}, {"check"}) /\ exec'[v].attempt = 1
    BY <1>8 DEF Owns, Moved, LoopTop, InAttempt
  <1> QED
    BY <1>1, <1>3, <1>4, <1>5, <1>6, <1>7, <1>8 DEF FrameEffect

\* A claim is made by the only executor that can hold the job afterwards: the first one
\* finds a queued row, which nobody owns, and a later one is the owner's own retry.
LEMMA ClaimEffect ==
  ASSUME TypeOK, OwnershipInv, NEW w \in Workers, Claimed(w)
  PROVE  /\ exec[w].job \in Requests
         /\ \/ /\ exec'[w].pc = "scan" /\ exec'[w].job = exec[w].job
               /\ exec'[w].attempt = exec[w].attempt
            \/ exec'[w].pc = "idle"
         /\ \A v \in Workers : v # w => exec'[v] = exec[v] /\ ~Owns(v, exec[w].job)
         /\ \A j \in Requests : j # exec[w].job => jobs'[j] = jobs[j]
         /\ jobs'[exec[w].job].status = "running"
         /\ jobs'[exec[w].job].attempt = exec[w].attempt
         /\ exec[w].attempt \in 1..MaxAttempts
  <1> DEFINE j == exec[w].job
  <1>0. /\ jobs \in [Requests -> Rows] /\ exec \in [Workers -> ExecFrames]
        /\ exec[w].pc = "claim" /\ j \in Requests
    BY TypeParts DEF Claimed, ExecOK
  <1>1. jobs[j] \in Rows /\ jobs[j].attempt \in Nat /\ exec[w].attempt \in Nat
    BY <1>0 DEF Rows, ExecFrames
  <1>2. exec[w].attempt \in 1..MaxAttempts
    BY <1>0 DEF OwnershipInv, LoopTop
  <1>3. /\ \A v \in Workers : v # w => ~Owns(v, j)
        /\ jobs[j].attempt + 1 = exec[w].attempt
    <2>1. CASE exec[w].attempt = 1
      <3>1. jobs[j].status = "queued"
        BY <2>1 DEF Claimed, CanMarkRunning, Row
      <3> QED
        BY <1>0, <2>1, <3>1 DEF OwnershipInv
    <2>2. CASE exec[w].attempt # 1
      <3>1. Owns(w, j)
        BY <1>0, <1>1, <1>2, <2>2, ConstantsAssumption DEF Owns, LoopTop
      <3> QED
        BY <1>0, <1>1, <3>1 DEF OwnershipInv, SingleOwner, LoopTop
    <2> QED
      BY <2>1, <2>2
  <1>4. jobs' = [jobs EXCEPT ![j] = MarkRunning(jobs[j])]
    BY DEF Claimed, Row
  <1>5. jobs'[j] = MarkRunning(jobs[j])
    BY <1>0, <1>4
  <1>6. jobs'[j].status = "running" /\ jobs'[j].attempt = jobs[j].attempt + 1
    BY <1>1, <1>5, MarkRunningRow
  <1>7. exec' = [exec EXCEPT ![w].pc = "scan"] \/ Return(w)
    BY DEF Claimed
  <1>8. \A v \in Workers : v # w => exec'[v] = exec[v]
    BY <1>0, <1>7 DEF Return
  <1>9. \/ exec'[w].pc = "scan" /\ exec'[w].job = j /\ exec'[w].attempt = exec[w].attempt
        \/ exec'[w].pc = "idle"
    BY <1>0, <1>7, IdleFrame DEF Return, ExecFrames
  <1>10. \A i \in Requests : i # j => jobs'[i] = jobs[i]
    BY <1>0, <1>4
  <1> QED
    BY <1>0, <1>2, <1>3, <1>6, <1>8, <1>9, <1>10

\* What a step does to a row's status and attempt, apart from a claim.
LEMMA UnclaimedRow ==
  ASSUME TypeOK, RowsPrecedeUse, OwnershipInv, [Next]_vars, NEW j \in Requests,
         \A w \in Workers : ~(Claimed(w) /\ exec[w].job = j)
  PROVE  /\ jobs'[j].attempt = jobs[j].attempt
         /\ jobs'[j].status \in {"absent", "queued"} => jobs[j].status \in {"absent", "queued"}
  <1>1. RowEffect(j)
    BY StepRowEffect
  <1>2. CASE jobs'[j] = jobs[j]
    BY <1>2
  <1>3. CASE Kept(j)
    BY <1>3 DEF Kept
  <1>4. CASE Inserted(j)
    <2>1. /\ api[j].tenant \in Tenants /\ api[j].source \in Sources
          /\ api[j].key \in Keys \cup {NoKey} /\ jobs \in [Requests -> Rows]
          /\ api[j].pc = "insert"
      BY <1>4 DEF TypeOK, Inserted, ApiRunning
    <2>2. jobs'[j] = NewJob(api[j].tenant, api[j].source, api[j].key)
      BY <1>4, <2>1 DEF Inserted
    <2>3. jobs'[j].attempt = 0
      BY <2>1, <2>2, NewJobRow
    <2>4. jobs[j].status = "absent"
      BY <2>1 DEF RowsPrecedeUse, Exists
    <2> QED
      BY <2>3, <2>4 DEF OwnershipInv
  <1> QED
    BY <1>1, <1>2, <1>3, <1>4 DEF RowEffect

\* Every step keeps OwnershipInv.
LEMMA NextOwnership ==
  ASSUME TypeOK, RowsPrecedeUse, OwnershipInv, [Next]_vars
  PROVE  OwnershipInv'
  <1>0. jobs \in [Requests -> Rows] /\ exec \in [Workers -> ExecFrames]
    BY TypeParts DEF ExecOK
  <1>1. ASSUME NEW v \in Workers, NEW w \in Workers, NEW j \in Requests, Owns(v, j)', Owns(w, j)'
        PROVE  v = w
    <2>1. CASE ~Claimed(v) /\ ~Claimed(w)
      <3>1. Owns(v, j) /\ Owns(w, j)
        BY <1>1, <2>1, OwnerBefore
      <3> QED
        BY <3>1 DEF OwnershipInv, SingleOwner
    <2>2. ASSUME NEW a \in Workers, NEW b \in Workers, Claimed(a), Owns(a, j)', Owns(b, j)'
          PROVE  a = b
      <3>1. exec[a].job = j
        BY <2>2, ClaimEffect DEF Owns, InAttempt, LoopTop
      <3>2. b # a => Owns(b, j)
        BY <2>2, ClaimEffect DEF Owns
      <3> QED
        BY <2>2, <3>1, <3>2, ClaimEffect
    <2> QED
      BY <1>1, <2>1, <2>2
  <1>2. ASSUME NEW j \in Requests, jobs'[j].status \in {"absent", "queued"}
        PROVE  jobs'[j].attempt = 0
    BY <1>2, ClaimEffect, UnclaimedRow DEF OwnershipInv
  <1>3. ASSUME NEW j \in Requests PROVE jobs'[j].attempt <= MaxAttempts
    <2>1. CASE \E w \in Workers : Claimed(w) /\ exec[w].job = j
      BY <2>1, ClaimEffect, ConstantsAssumption
    <2>2. CASE \A w \in Workers : ~(Claimed(w) /\ exec[w].job = j)
      BY <2>2, UnclaimedRow DEF OwnershipInv
    <2> QED
      BY <2>1, <2>2
  <1>4. ASSUME NEW w \in Workers, NEW j \in Requests, Owns(w, j)'
        PROVE  /\ jobs'[j].status \notin {"absent", "queued"}
               /\ exec'[w].attempt = IF exec'[w].pc \in LoopTop
                                       THEN jobs'[j].attempt + 1 ELSE jobs'[j].attempt
    <2>1. CASE Claimed(w)
      <3>1. exec[w].job = j
        BY <1>4, <2>1, ClaimEffect DEF Owns, InAttempt, LoopTop
      <3> QED
        BY <1>4, <2>1, <3>1, ClaimEffect DEF Owns, InAttempt, LoopTop
    <2>2. CASE ~Claimed(w)
      <3>1. /\ Owns(w, j)
            /\ exec'[w].attempt = IF exec'[w].pc \in LoopTop
                                    THEN jobs[j].attempt + 1 ELSE jobs[j].attempt
        BY <1>4, <2>2, OwnerBefore
      <3>2. \A v \in Workers : ~(Claimed(v) /\ exec[v].job = j)
        BY <2>2, <3>1, ClaimEffect
      <3> QED
        BY <3>1, <3>2, UnclaimedRow DEF OwnershipInv
    <2> QED
      BY <2>1, <2>2
  <1>5. ASSUME NEW w \in Workers
        PROVE  /\ exec'[w].pc \in LoopTop => exec'[w].attempt \in 1..MaxAttempts
               /\ exec'[w].pc = "backoff" => exec'[w].attempt < MaxAttempts
    <2>1. FrameEffect(w) /\ exec[w] \in ExecFrames /\ exec[w].attempt \in Nat
      BY <1>0, StepFrameEffect DEF ExecFrames
    <2>2. /\ exec[w].pc \in LoopTop => exec[w].attempt \in 1..MaxAttempts
          /\ exec[w].pc = "backoff" => exec[w].attempt < MaxAttempts
      BY DEF OwnershipInv
    <2>3. CASE exec'[w] = exec[w]
      BY <2>2, <2>3
    <2>4. CASE Claimed(w)
      BY <2>4, ClaimEffect DEF LoopTop
    <2>5. CASE exec'[w].pc \in {"idle", "load", "unknown"}
      BY <2>5 DEF LoopTop
    <2>6. CASE Moved(w, {"load"}, {"check"}) /\ exec'[w].attempt = 1
      BY <2>6, ConstantsAssumption DEF Moved
    <2>7. CASE Moved(w, {"check"}, {"cancelling", "claim"}) /\ exec'[w].attempt = exec[w].attempt
      BY <2>2, <2>7 DEF Moved, LoopTop
    <2>8. CASE /\ Moved(w, InAttempt, InAttempt) /\ exec'[w].attempt = exec[w].attempt
               /\ exec'[w].pc = "backoff" => exec[w].attempt < MaxAttempts
      BY <2>8 DEF Moved, InAttempt, LoopTop
    <2>9. CASE Moved(w, {"backoff"}, {"check"}) /\ exec'[w].attempt = exec[w].attempt + 1
      BY <2>1, <2>2, <2>9, ConstantsAssumption DEF Moved
    <2> QED
      BY <2>1, <2>3, <2>4, <2>5, <2>6, <2>7, <2>8, <2>9 DEF FrameEffect
  <1>6. SingleOwner'
    BY <1>1 DEF SingleOwner
  <1> QED
    BY <1>2, <1>3, <1>4, <1>5, <1>6 DEF OwnershipInv

-----------------------------------------------------------------------------
(* The theorems *)

\* Nothing exists at first, so nothing is owned, queued or answered.
LEMMA InitIndInv == Init => IndInv
  <1> SUFFICES ASSUME Init PROVE IndInv
    OBVIOUS
  <1>1. \A j \in Requests : jobs[j].status = "absent" /\ jobs[j].attempt = 0
    BY NoJobRow DEF Init
  <1>2. \A r \in Requests : api[r].pc = "new" /\ api[r].job = None
    BY DEF Init, NewCall
  <1>3. \A c \in Cancels : cancel[c].pc = "new"
    BY DEF Init, NewCancel
  <1>4. \A w \in Workers : exec[w].pc = "idle"
    BY DEF Init, Idle
  <1>5. RowsPrecedeUse
    BY <1>1, <1>2, <1>3, <1>4 DEF RowsPrecedeUse, Exists, Init
  <1>6. OneJobPerKey
    BY <1>1, <1>2 DEF OneJobPerKey, Exists
  <1>7. OwnershipInv
    BY <1>1, <1>4, ConstantsAssumption
       DEF OwnershipInv, SingleOwner, Owns, InAttempt, LoopTop
  <1> QED
    BY <1>5, <1>6, <1>7, InitType DEF IndInv

\* The invariant is inductive: whatever the handlers, the executors and the faults do.
THEOREM Inductive == Spec => []IndInv
  <1>1. IndInv /\ [Next]_vars => IndInv'
    BY NextType, NextRowsPrecedeUse, NextOneJobPerKey, NextOwnership DEF IndInv
  <1> QED
    BY <1>1, InitIndInv, PTL DEF Spec

\* The types hold in every reachable state.
THEOREM TypeCorrect == Spec => []TypeOK
  <1>1. IndInv => TypeOK
    BY DEF IndInv
  <1> QED
    BY <1>1, Inductive, PTL

\* mark_running's conditional UPDATE is enough for mutual exclusion between executors: any
\* number of workers, redeliveries, crashes and retries, at most one executor owns a job.
THEOREM MutualExclusion == Spec => []SingleOwner
  <1>1. IndInv => SingleOwner
    BY DEF IndInv, OwnershipInv
  <1> QED
    BY <1>1, Inductive, PTL

\* No job is scanned more than MaxAttempts times over all its deliveries, and a scan in
\* progress is the attempt its row records.
THEOREM BoundedAttempts == Spec => []AttemptsBounded
  <1>1. IndInv => AttemptsBounded
    BY DEF IndInv, OwnershipInv, AttemptsBounded, Owns, InAttempt, LoopTop, TypeOK
  <1> QED
    BY <1>1, Inductive, PTL

\* Any number of concurrent create calls that repeat a tenant's key share one job.
THEOREM Idempotency == Spec => []OneJobPerKey
  <1>1. IndInv => OneJobPerKey
    BY DEF IndInv
  <1> QED
    BY <1>1, Inductive, PTL

-----------------------------------------------------------------------------
(* The invariant behind EventsExplainStatus, ResultsAccounted, ResultStands *)

\* The last status-bearing event of a row's log carries the row's status.
Explained(row) ==
  \E i \in 1..Len(row.events) :
     /\ row.events[i].status = row.status
     /\ \A k \in 1..Len(row.events) : k > i => row.events[k].status = "none"

Announced(row) == Cardinality({i \in 1..Len(row.events) : row.events[i].kind = "finding"})

\* An executor that has stored nothing of its scan; an error that will be retried is
\* raised by the scan, before anything is stored.
Unstored(w) ==
  \/ exec[w].pc \in {"load", "unknown", "scan", "teardown", "interrupted", "backoff"} \cup LoopTop
  \/ exec[w].pc = "raised" /\ Retryable(exec[w].error)

PastLoad == LoopTop \cup InAttempt

WorkerOK(w) ==
  LET j == exec[w].job
  IN  /\ exec[w].pc = "unknown" => jobs[j].source \notin WorkerSources
      /\ exec[w].pc \in PastLoad => jobs[j].source \in WorkerSources
      /\ exec[w].pc = "cancelling" => jobs[j].cancel_requested
      /\ Unstored(w) => exec[w].done = 0
      /\ Unstored(w) /\ Owns(w, j) => registry[j] = 0
      /\ exec[w].pc \in {"store", "correlate"} =>
           registry[j] = exec[w].done /\ Announced(jobs[j]) = exec[w].done
      /\ exec[w].pc = "publish" =>
           registry[j] = exec[w].done + 1 /\ Announced(jobs[j]) = exec[w].done

\* A row that ended as succeeded or timed out is nobody's, unless its success was not
\* acknowledged; a row with a cancellation request is not queued; only a source with an
\* adapter in the workers was ever scanned.
RowOK(j) ==
  /\ Exists(j) => Explained(jobs[j])
  /\ Announced(jobs[j]) <= registry[j]
  /\ jobs[j].status \in {"absent", "queued"} => registry[j] = 0 /\ ~jobs[j].cancel_requested
  /\ jobs[j].status = "succeeded" =>
       Announced(jobs[j]) = jobs[j].result_count /\ registry[j] = jobs[j].result_count
  /\ jobs[j].status \in {"running", "succeeded", "timed_out"} => jobs[j].source \in WorkerSources
  /\ jobs[j].status \in {"succeeded", "timed_out"} =>
       \A w \in Workers : Owns(w, j) => Unacknowledged(w)

ResultsInv == /\ \A w \in Workers : WorkerOK(w)
              /\ \A j \in Requests : RowOK(j)

-----------------------------------------------------------------------------
(* The invariant behind TerminalIsQuiet and RefinesContract *)

Alone(w) == \A v \in Workers : exec[v].pc # "idle" /\ exec[v].job = exec[w].job => v = w

Unworked(j) == \A w \in Workers : exec[w].pc # "idle" => exec[w].job # j

\* Without redelivery a job is at most once in the queue or at a worker, and a create call
\* that failed to dispatch it left it at none: an owned job is running, or its owner has still
\* to take back a success that was not acknowledged.
DeliveryInv ==
  /\ \A w \in Workers : exec[w].pc # "idle" => Alone(w) /\ exec[w].job \notin queue
  /\ \A j \in Requests : api[j].pc \in {"new", "find", "insert", "submit"} => j \notin queue
  /\ \A j \in Requests : api[j].pc \in {"new", "find", "insert", "submit", "failing"} => Unworked(j)
  /\ \A j \in Requests : Mode = "inline" /\ api[j].pc = "record" => Unworked(j)
  /\ \A j \in Requests : Mode = "celery" /\ api[j].pc = "failing" => j \notin queue
  /\ Mode = "inline" => \A p, q \in Running : p = q
  /\ \A w \in Workers, j \in Requests : Owns(w, j) =>
       jobs[j].status = "running" \/ Unacknowledged(w)

ContractInv ==
  /\ \A w \in Workers : exec[w].pc = "cancelling" => jobs[exec[w].job].status = "running"
  /\ \A w \in Workers : exec[w].pc = "check" => jobs[exec[w].job].status \in {"queued", "running", "cancelled"}
  /\ \A w \in Workers : exec[w].pc = "unknown" => jobs[exec[w].job].status \in {"queued", "running"}
  /\ \A r \in Requests : api[r].pc = "failing" => Mode = "inline"
  /\ \A r \in Requests : Mode = "inline" /\ api[r].pc \in {"submit", "record", "failing"} => jobs[r].status = "queued"
  /\ \A r \in Requests : api[r].pc \in ApiRunning => api[r].source \in GatewaySources
  /\ \A r \in Requests : Exists(r) => jobs[r].source \in GatewaySources

-----------------------------------------------------------------------------
(* What the repository's transactions do to the log *)

\* The announced findings of a row are a natural number of events.
LEMMA AnnouncedNat == ASSUME NEW row \in Rows PROVE Announced(row) \in Nat
  <1> DEFINE n == Len(row.events)
             part == {i \in 1..n : row.events[i].kind = "finding"}
  <1>1. n \in Nat
    BY DEF Rows
  <1>2. IsFiniteSet(1..n)
    BY <1>1, FS_Interval
  <1>3. IsFiniteSet(part)
    BY <1>2, FS_Subset
  <1> QED
    BY <1>3, FS_CardinalityType DEF Announced

\* Appending an event announces a finding if it is one, keeps the explanation if it bears no
\* status, and is the explanation if it bears the row's.
LEMMA AppendEventLog ==
  ASSUME NEW row \in Rows, NEW kind \in EventKinds, NEW s \in JobStatus \cup {"none"}
  PROVE  /\ AppendEvent(row, kind, s).source = row.source
         /\ AppendEvent(row, kind, s).cancel_requested = row.cancel_requested
         /\ kind = "finding" => Announced(AppendEvent(row, kind, s)) = Announced(row) + 1
         /\ kind # "finding" => Announced(AppendEvent(row, kind, s)) = Announced(row)
         /\ s = "none" /\ Explained(row) => Explained(AppendEvent(row, kind, s))
         /\ s = row.status => Explained(AppendEvent(row, kind, s))
  <1> DEFINE e == [kind |-> kind, status |-> s]
             log == row.events
             n == Len(log)
             new == AppendEvent(row, kind, s)
             part == {i \in 1..n : log[i].kind = "finding"}
             part2 == {i \in 1..Len(new.events) : new.events[i].kind = "finding"}
  <1>1. log \in Seq(Events) /\ n \in Nat
    BY DEF Rows
  <1>2. e \in Events /\ e.kind = kind /\ e.status = s
    BY DEF Events
  <1>3. /\ new.events = Append(log, e) /\ new.source = row.source /\ new.status = row.status
        /\ new.cancel_requested = row.cancel_requested
    BY DEF AppendEvent, Rows
  <1> HIDE DEF e, new, log
  <1>4. /\ Len(new.events) = n + 1 /\ new.events[n + 1] = e
        /\ \A i \in 1..n : new.events[i] = log[i]
    BY <1>1, <1>2, <1>3
  <1>5. IsFiniteSet(part) /\ n + 1 \notin part
    <2>1. IsFiniteSet(1..n)
      BY <1>1, FS_Interval
    <2> QED
      BY <1>1, <2>1, FS_Subset
  <1>5a. s = "none" /\ Explained(row) => Explained(new)
    BY <1>1, <1>2, <1>3, <1>4 DEF Explained, log
  <1>5b. s = row.status => Explained(new)
    BY <1>1, <1>2, <1>3, <1>4 DEF Explained
  <1>6. CASE kind = "finding"
    <2>0. /\ 1..Len(new.events) = (1..n) \cup {n + 1} /\ new.events[n + 1].kind = "finding"
          /\ \A i \in 1..n : new.events[i].kind = log[i].kind
      BY <1>1, <1>2, <1>4, <1>6
    <2>1. part2 = part \cup {n + 1}
      BY <2>0
    <2>2. Cardinality(part \cup {n + 1}) = Cardinality(part) + 1
      BY <1>5, FS_AddElement
    <2>3. Announced(new) = Announced(row) + 1
      BY <2>1, <2>2 DEF Announced, log
    <2> QED
      BY <1>3, <1>5a, <1>5b, <1>6, <2>3 DEF new
  <1>7. CASE kind # "finding"
    <2>1. part2 = part
      BY <1>1, <1>2, <1>4, <1>7
    <2>2. Announced(new) = Announced(row)
      BY <2>1 DEF Announced, log
    <2> QED
      BY <1>3, <1>5a, <1>5b, <1>7, <2>2 DEF new
  <1> QED
    BY <1>6, <1>7

\* A column written outside the log changes none of the log's findings.
LEMMA SameLog ==
  ASSUME NEW row, NEW new, new.events = row.events
  PROVE  /\ Announced(new) = Announced(row)
         /\ new.status = row.status /\ Explained(row) => Explained(new)
  BY DEF Announced, Explained

\* transition() logs the status it writes.
LEMMA TransitionLog ==
  ASSUME NEW row \in Rows, NEW s \in JobStatus, NEW n \in Nat, NEW e \in ErrorCodes
  PROVE  /\ Transition(row, s, n, e).source = row.source
         /\ Transition(row, s, n, e).cancel_requested = row.cancel_requested
         /\ Transition(row, s, n, e).result_count = n
         /\ Announced(Transition(row, s, n, e)) = Announced(row)
         /\ Explained(Transition(row, s, n, e))
  <1> DEFINE written == [row EXCEPT !.status = s, !.result_count = n, !.error_code = e]
  <1>1. written \in Rows
    BY DEF Rows, RowStatus
  <1>2. /\ written.status = s /\ written.result_count = n /\ written.source = row.source
        /\ written.cancel_requested = row.cancel_requested /\ written.events = row.events
    BY DEF Rows
  <1>3. Transition(row, s, n, e) = AppendEvent(written, "status", s)
    BY DEF Transition
  <1> HIDE DEF written
  <1>4. Announced(written) = Announced(row)
    BY <1>2, SameLog
  <1>5. s \in JobStatus \cup {"none"} /\ "status" \in EventKinds /\ "status" # "finding"
    BY DEF EventKinds
  <1> QED
    BY <1>1, <1>2, <1>3, <1>4, <1>5, AppendEventRow, AppendEventLog

\* So does mark_running, and only a row without a cancellation request is claimed.
LEMMA MarkRunningLog ==
  ASSUME NEW row \in Rows
  PROVE  /\ MarkRunning(row).source = row.source
         /\ MarkRunning(row).cancel_requested = row.cancel_requested
         /\ Announced(MarkRunning(row)) = Announced(row)
         /\ Explained(MarkRunning(row))
  <1> DEFINE written == [row EXCEPT !.status = "running", !.attempt = @ + 1,
                                    !.error_code = "none"]
  <1>0. row.attempt + 1 \in Nat
    BY DEF Rows
  <1>1. written \in Rows
    BY <1>0 DEF Rows, RowStatus, JobStatus, ErrorCodes
  <1>2. /\ written.status = "running" /\ written.source = row.source
        /\ written.cancel_requested = row.cancel_requested /\ written.events = row.events
    BY DEF Rows
  <1>3. MarkRunning(row) = AppendEvent(written, "status", "running")
    BY DEF MarkRunning
  <1> HIDE DEF written
  <1>4. Announced(written) = Announced(row)
    BY <1>2, SameLog
  <1>5. "running" \in JobStatus \cup {"none"} /\ "status" \in EventKinds /\ "status" # "finding"
    BY DEF EventKinds, JobStatus
  <1> QED
    BY <1>1, <1>2, <1>3, <1>4, <1>5, AppendEventLog

\* So does request_cancel; a terminal row it leaves alone.
LEMMA RequestCancelLog ==
  ASSUME NEW row \in Rows, row.status # "absent", Explained(row)
  PROVE  /\ RequestCancel(row).source = row.source
         /\ row.cancel_requested => RequestCancel(row).cancel_requested
         /\ RequestCancel(row).result_count = row.result_count
         /\ Announced(RequestCancel(row)) = Announced(row)
         /\ Explained(RequestCancel(row))
  <1> DEFINE next == IF row.status = "queued" THEN "cancelled" ELSE row.status
             written == [row EXCEPT !.status = next, !.cancel_requested = TRUE]
  <1>1. CASE Terminal(row.status)
    BY <1>1 DEF RequestCancel
  <1>2. CASE ~Terminal(row.status)
    <2>1. next \in JobStatus
      BY DEF Rows, RowStatus, JobStatus
    <2>2. written \in Rows
      BY <2>1 DEF Rows, RowStatus
    <2>3. /\ written.status = next /\ written.source = row.source
          /\ written.cancel_requested /\ written.events = row.events
          /\ written.result_count = row.result_count
      BY DEF Rows
    <2>4. RequestCancel(row) = AppendEvent(written, "cancel_requested", next)
      BY <1>2 DEF RequestCancel
    <2> HIDE DEF written, next
    <2>5. next \in JobStatus \cup {"none"} /\ "cancel_requested" \in EventKinds
          /\ "cancel_requested" # "finding"
      BY <2>1 DEF EventKinds
    <2>6. Announced(written) = Announced(row)
      BY <2>3, SameLog
    <2> QED
      BY <2>2, <2>3, <2>4, <2>5, <2>6, AppendEventRow, AppendEventLog
  <1> QED
    BY <1>1, <1>2

\* set_dispatch_id logs nothing.
LEMMA SetDispatchIdLog ==
  ASSUME NEW row \in Rows
  PROVE  /\ SetDispatchId(row).source = row.source
         /\ SetDispatchId(row).cancel_requested = row.cancel_requested
         /\ SetDispatchId(row).result_count = row.result_count
         /\ Announced(SetDispatchId(row)) = Announced(row)
         /\ Explained(row) => Explained(SetDispatchId(row))
  <1>1. /\ SetDispatchId(row).source = row.source
        /\ SetDispatchId(row).cancel_requested = row.cancel_requested
        /\ SetDispatchId(row).result_count = row.result_count
        /\ SetDispatchId(row).events = row.events /\ SetDispatchId(row).status = row.status
    BY DEF SetDispatchId, Rows
  <1> QED
    BY <1>1, SameLog

\* A new row's log says that it is queued, and nothing else.
LEMMA NewJobLog ==
  ASSUME NEW t \in Tenants \cup {None}, NEW s \in Sources \cup {None}, NEW k \in Keys \cup {NoKey}
  PROVE  /\ NewJob(t, s, k).source = s
         /\ ~NewJob(t, s, k).cancel_requested
         /\ Announced(NewJob(t, s, k)) = 0
         /\ Explained(NewJob(t, s, k))
  <1> DEFINE row == NewJob(t, s, k)
             e == [kind |-> "status", status |-> "queued"]
  <1>1. /\ row.source = s /\ ~row.cancel_requested /\ row.status = "queued"
        /\ row.events = << e >>
    BY DEF NewJob
  <1>2. Len(<< e >>) = 1 /\ << e >>[1] = e /\ e.kind = "status" /\ e.status = "queued"
    OBVIOUS
  <1> HIDE DEF row, e
  <1>3. {i \in 1..Len(row.events) : row.events[i].kind = "finding"} = {}
    BY <1>1, <1>2
  <1>4. Announced(row) = 0
    BY <1>3, FS_EmptySet DEF Announced
  <1>5. Explained(row)
    BY <1>1, <1>2 DEF Explained
  <1> QED
    BY <1>1, <1>4, <1>5 DEF row

\* The placeholder of a missing row has an empty log.
LEMMA NoJobLog ==
  ~NoJob.cancel_requested /\ Announced(NoJob) = 0
  <1>1. ~NoJob.cancel_requested /\ NoJob.events = << >>
    BY DEF NoJob, NewJob
  <1>2. {i \in 1..Len(NoJob.events) : NoJob.events[i].kind = "finding"} = {}
    BY <1>1
  <1> QED
    BY <1>1, <1>2, FS_EmptySet DEF Announced

-----------------------------------------------------------------------------
(* Who writes a row, and what *)

\* The executor's last transition: what it may write, by where execute() is.
EndsAs(w, s) ==
  \/ exec[w].pc = "unknown" /\ s = "failed"
  \/ exec[w].pc \in {"cancelling", "teardown", "interrupted"} /\ s = "cancelled"
  \/ exec[w].pc = "raised" /\ exec[w].error # "ADAPTER_TIMEOUT" /\ s = "failed"
  \/ exec[w].pc = "raised" /\ exec[w].error = "ADAPTER_TIMEOUT" /\ s = "timed_out"

Returned(w) == exec[w].pc # "idle" /\ exec'[w].pc = "idle"

\* The error of a lost acknowledgement is caught, and what it will write is settled.
Caught(w) ==
  /\ "lost_ack" \in Faults
  /\ exec'[w].pc = "raised" /\ exec'[w].error = "INTERNAL_ERROR" /\ exec'[w].job = exec[w].job

\* The report of a success, acknowledged or not, and the writes of _store_results.
Succeeding(w) == /\ exec[w].pc = "store" /\ exec[w].done = exec[w].found
                 /\ Returned(w) \/ Caught(w)

Storing(w) == exec[w].pc = "store" /\ (StoreFinding(w) \/ ExecAckLost(w))

Publishing(w) == exec[w].pc = "publish" /\ (PublishFinding(w) \/ ExecAckLost(w))

RowWrite(j, row) ==
  \/ Inserted(j) /\ row = NewJob(api[j].tenant, api[j].source, api[j].key)
  \/ api[j].pc = "record" /\ row = SetDispatchId(jobs[j])
  \/ /\ api[j].pc = "failing" /\ api'[j].pc \in {"done", "died"}
     /\ row = Transition(jobs[j], "failed", jobs[j].result_count, "DISPATCH_FAILED")
  \/ \E c \in Cancels :
       cancel[c].pc = "request" /\ cancel[c].job = j /\ Turn(c) /\ row = RequestCancel(jobs[j])
  \/ \E w \in Workers :
       /\ exec[w].job = j
       /\ \/ Claimed(w) /\ row = MarkRunning(jobs[j])
          \/ /\ Returned(w)
             /\ \E s \in JobStatus, e \in ErrorCodes :
                  EndsAs(w, s) /\ row = Transition(jobs[j], s, jobs[j].result_count, e)
          \/ Succeeding(w) /\ row = Transition(jobs[j], "succeeded", exec[w].found, "none")
          \/ /\ exec[w].pc \in {"raised", "correlate"}
             /\ \E kind \in {"retrying", "correlation"} : row = AppendEvent(jobs[j], kind, "none")
          \/ Publishing(w) /\ row = AppendEvent(jobs[j], "finding", "none")

StepWrite ==
  \/ jobs' = jobs
  \/ \E j \in Requests : /\ RowWrite(j, jobs'[j])
                         /\ \A i \in Requests : i # j => jobs'[i] = jobs[i]

\* A transaction writes one row.
LEMMA OneRow ==
  ASSUME jobs \in [Requests -> Rows], NEW j \in Requests, NEW row,
         jobs' = [jobs EXCEPT ![j] = row], RowWrite(j, row)
  PROVE  StepWrite
  <1>1. jobs'[j] = row /\ \A i \in Requests : i # j => jobs'[i] = jobs[i]
    OBVIOUS
  <1>2. RowWrite(j, jobs'[j])
    BY <1>1
  <1> QED
    BY <1>1, <1>2 DEF StepWrite

\* What a create_scan or cancel_scan handler writes, told of its commit or not.
LEMMA HandlerWrite ==
  ASSUME TypeOK, \/ \E r \in Requests : CreateScan(r) \/ ApiAckLost(r)
                 \/ \E c \in Cancels : CancelScan(c) \/ CancelAckLost(c)
  PROVE  StepWrite
  <1>0. jobs \in [Requests -> Rows] /\ ApiOK /\ CancelOK
    BY TypeParts
  <1>1. ASSUME NEW r \in Requests, InsertJob(r) \/ ApiAckLost(r), api[r].pc = "insert",
               jobs' # jobs
        PROVE  StepWrite
    <2>1. Inserted(r)
      BY <1>1 DEF InsertJob, ApiAckLost, Inserted
    <2>2. jobs' = [jobs EXCEPT ![r] = NewJob(api[r].tenant, api[r].source, api[r].key)]
      BY <2>1 DEF Inserted
    <2>3. RowWrite(r, NewJob(api[r].tenant, api[r].source, api[r].key))
      BY <2>1 DEF RowWrite
    <2> QED
      BY <1>0, <2>2, <2>3, OneRow
  <1>2. ASSUME NEW r \in Requests, RecordDispatch(r) \/ ApiAckLost(r), api[r].pc = "record"
        PROVE  StepWrite
    <2>1. jobs' = [jobs EXCEPT ![r] = SetDispatchId(jobs[r])]
      BY <1>2 DEF RecordDispatch, ApiAckLost
    <2>2. RowWrite(r, SetDispatchId(jobs[r]))
      BY <1>2 DEF RowWrite
    <2> QED
      BY <1>0, <2>1, <2>2, OneRow
  <1>3. ASSUME NEW r \in Requests, FailDispatch(r) \/ ApiAckLost(r), api[r].pc = "failing"
        PROVE  StepWrite
    <2> DEFINE row == Transition(jobs[r], "failed", jobs[r].result_count, "DISPATCH_FAILED")
    <2>1. jobs' = [jobs EXCEPT ![r] = row]
      <3>1. CASE FailDispatch(r)
        BY <3>1, Zenon DEF FailDispatch
      <3>2. CASE ApiAckLost(r)
        BY <1>3, <3>2 DEF ApiAckLost
      <3> QED
        BY <1>3, <3>1, <3>2
    <2>2. api'[r].pc \in {"done", "died"}
      BY <1>0, <1>3 DEF FailDispatch, ApiAckLost, Answer, ApiOK, ApiFrames
    <2>3. RowWrite(r, row)
      BY <1>3, <2>2 DEF RowWrite
    <2> HIDE DEF row
    <2> QED
      BY <1>0, <2>1, <2>3, OneRow
  <1>4. ASSUME NEW c \in Cancels, CancelRequest(c) \/ CancelAckLost(c)
        PROVE  StepWrite
    <2> DEFINE j == cancel[c].job
               row == RequestCancel(jobs[j])
    <2>1. jobs' = [jobs EXCEPT ![j] = row]
      BY <1>4, Zenon DEF CancelRequest, CancelAckLost
    <2>2. cancel[c].pc = "request" /\ Turn(c) /\ j \in Requests
      BY <1>0, <1>4 DEF CancelRequest, CancelAckLost, CancelOK
    <2>3. RowWrite(j, row)
      BY <2>2 DEF RowWrite
    <2> HIDE DEF row, j
    <2> QED
      BY <1>0, <2>1, <2>2, <2>3, OneRow
  <1>5. ASSUME NEW r \in Requests
        PROVE  /\ ApiAckLost(r) => api[r].pc \in {"insert", "record", "failing"}
               /\ InsertJob(r) => api[r].pc = "insert"
               /\ RecordDispatch(r) => api[r].pc = "record"
               /\ FailDispatch(r) => api[r].pc = "failing"
    BY DEF ApiAckLost, InsertJob, RecordDispatch, FailDispatch
  <1>6. ASSUME NEW r \in Requests, CreateScan(r) \/ ApiAckLost(r) PROVE StepWrite
    BY <1>1, <1>2, <1>3, <1>5, <1>6 DEF CreateScan, FindExisting, Submit, StepWrite
  <1>7. ASSUME NEW c \in Cancels, CancelScan(c) \/ CancelAckLost(c) PROVE StepWrite
    BY <1>4, <1>7 DEF CancelScan, CancelRevoke, StepWrite
  <1> QED
    BY <1>6, <1>7

\* What an executor writes.
LEMMA ExecWrite ==
  ASSUME TypeOK, NEW w \in Workers, Execute(w)
  PROVE  StepWrite
  <1> DEFINE j == exec[w].job
  <1>0. jobs \in [Requests -> Rows] /\ ExecOK
    BY TypeParts
  <1>1. ASSUME exec[w].pc # "idle", Return(w), NEW s \in JobStatus, NEW e \in ErrorCodes,
               EndsAs(w, s), SetJob(w, Transition(Row(w), s, Row(w).result_count, e))
        PROVE  StepWrite
    <2> DEFINE row == Transition(jobs[j], s, jobs[j].result_count, e)
    <2>1. jobs' = [jobs EXCEPT ![j] = row]
      BY <1>1 DEF SetJob, Row
    <2>2. Returned(w) /\ j \in Requests
      BY <1>0, <1>1, IdleFrame DEF Return, Returned, ExecOK
    <2>3. RowWrite(j, row)
      BY <1>1, <2>2 DEF RowWrite
    <2> HIDE DEF row, j
    <2> QED
      BY <1>0, <2>1, <2>2, <2>3, OneRow
  <1>2. CASE FailUnknownSource(w)
    BY <1>1, <1>2, Codes DEF FailUnknownSource, At, EndsAs
  <1>3. CASE FinishCancelled(w)
    BY <1>1, <1>3, Codes DEF FinishCancelled, At, EndsAs
  <1>4. CASE Claim(w) /\ jobs' # jobs
    <2>1. Claimed(w)
      BY <1>4 DEF Claim, Claimed, At, SetJob, Goto
    <2>2. jobs' = [jobs EXCEPT ![j] = MarkRunning(jobs[j])]
      BY <2>1 DEF Claimed, Row
    <2>3. j \in Requests
      BY <1>0, <1>4 DEF Claim, At, ExecOK
    <2>4. RowWrite(j, MarkRunning(jobs[j]))
      BY <2>1 DEF RowWrite
    <2> HIDE DEF j
    <2> QED
      BY <1>0, <2>2, <2>3, <2>4, OneRow
  <1>5. ASSUME exec[w].pc \in {"raised", "correlate"}, NEW kind \in {"retrying", "correlation"},
               SetJob(w, AppendEvent(Row(w), kind, "none"))
        PROVE  StepWrite
    <2>1. jobs' = [jobs EXCEPT ![j] = AppendEvent(jobs[j], kind, "none")]
      BY <1>5 DEF SetJob, Row
    <2>2. j \in Requests
      BY <1>0, <1>5 DEF ExecOK
    <2>3. RowWrite(j, AppendEvent(jobs[j], kind, "none"))
      BY <1>5 DEF RowWrite
    <2> HIDE DEF j
    <2> QED
      BY <1>0, <2>1, <2>2, <2>3, OneRow
  <1>6. CASE Retry(w)
    BY <1>5, <1>6 DEF Retry, At
  <1>7. CASE Correlate(w) /\ jobs' # jobs
    BY <1>5, <1>7 DEF Correlate, At
  <1>8. CASE FinishFailed(w)
    <2> DEFINE s == IF exec[w].error = "ADAPTER_TIMEOUT" THEN "timed_out" ELSE "failed"
    <2>1. SetJob(w, Transition(Row(w), s, Row(w).result_count, exec[w].error))
      BY <1>8 DEF FinishFailed
    <2>2. s \in {"failed", "timed_out"} /\ s \in JobStatus
      BY Codes
    <2>3. /\ exec[w].error \in ErrorCodes /\ exec[w].pc = "raised" /\ exec[w].pc # "idle"
          /\ Return(w)
      BY <1>0, <1>8 DEF FinishFailed, At, ExecOK, ExecFrames
    <2>4. EndsAs(w, s)
      BY <2>3 DEF EndsAs
    <2> HIDE DEF s
    <2> QED
      BY <1>1, <2>1, <2>2, <2>3, <2>4
  <1>9. CASE PublishFinding(w)
    <2>1. jobs' = [jobs EXCEPT ![j] = AppendEvent(jobs[j], "finding", "none")]
      BY <1>9 DEF PublishFinding, SetJob, Row
    <2>2. j \in Requests
      BY <1>0, <1>9 DEF PublishFinding, At, ExecOK
    <2>3. RowWrite(j, AppendEvent(jobs[j], "finding", "none"))
      BY <1>9 DEF RowWrite, Publishing, PublishFinding, At
    <2> HIDE DEF j
    <2> QED
      BY <1>0, <2>1, <2>2, <2>3, OneRow
  <1>10. CASE FinishSucceeded(w)
    <2>1. jobs' = [jobs EXCEPT ![j] = Transition(jobs[j], "succeeded", exec[w].found, "none")]
      BY <1>10 DEF FinishSucceeded, SetJob, Row
    <2>2. j \in Requests /\ Returned(w)
      BY <1>0, <1>10, IdleFrame DEF FinishSucceeded, At, ExecOK, Return, Returned
    <2>3. RowWrite(j, Transition(jobs[j], "succeeded", exec[w].found, "none"))
      BY <1>10, <2>2 DEF RowWrite, Succeeding, FinishSucceeded, At
    <2> HIDE DEF j
    <2> QED
      BY <1>0, <2>1, <2>2, <2>3, OneRow
  <1>11. CASE FinishInterrupted(w) /\ jobs' # jobs
    <2>1. SetJob(w, Transition(Row(w), "cancelled", Row(w).result_count, "none"))
      BY <1>11 DEF FinishInterrupted
    <2> QED
      BY <1>1, <1>11, <2>1, Codes DEF FinishInterrupted, At, EndsAs
  <1>12. CASE \/ Load(w) \/ Check(w) \/ ScanCancelled(w) \/ BackoffEnds(w) \/ StoreFinding(w)
              \/ \E n \in 0..MaxFindings : ScanReturns(w, n)
              \/ \E e \in ScanErrors : ScanRaises(w, e)
    BY <1>12 DEF Load, Check, ScanCancelled, BackoffEnds, StoreFinding, ScanReturns, ScanRaises,
                 StepWrite
  <1>13. CASE jobs' = jobs
    BY <1>13 DEF StepWrite
  <1> QED
    BY <1>2, <1>3, <1>4, <1>6, <1>7, <1>8, <1>9, <1>10, <1>11, <1>12, <1>13 DEF Execute

\* What an executor writes that is not told of its commit.
LEMMA AckLostWrite ==
  ASSUME TypeOK, NEW w \in Workers, ExecAckLost(w)
  PROVE  StepWrite
  <1> DEFINE j == exec[w].job
  <1>0. jobs \in [Requests -> Rows] /\ ExecOK /\ j \in Requests
    BY TypeParts DEF ExecAckLost, ExecOK
  <1>1. ASSUME NEW row, SetJob(w, row), RowWrite(j, row)
        PROVE  StepWrite
    <2>1. jobs' = [jobs EXCEPT ![j] = row]
      BY <1>1 DEF SetJob
    <2> HIDE DEF j
    <2> QED
      BY <1>0, <1>1, <2>1, OneRow
  <1>2. CASE exec[w].pc = "claim"
    <2>1. Claimed(w) /\ SetJob(w, MarkRunning(jobs[j]))
      BY <1>2 DEF ExecAckLost, Claimed, SetJob, Row
    <2>2. RowWrite(j, MarkRunning(jobs[j]))
      BY <2>1 DEF RowWrite
    <2> QED
      BY <1>1, <2>1, <2>2
  <1>3. ASSUME exec[w].pc \in {"raised", "correlate"}, NEW kind \in {"retrying", "correlation"},
               SetJob(w, AppendEvent(Row(w), kind, "none"))
        PROVE  StepWrite
    <2>1. RowWrite(j, AppendEvent(jobs[j], kind, "none"))
      BY <1>3 DEF RowWrite
    <2> QED
      BY <1>1, <1>3, <2>1 DEF Row
  <1>4. CASE exec[w].pc = "publish"
    <2>1. SetJob(w, AppendEvent(jobs[j], "finding", "none"))
      BY <1>4 DEF ExecAckLost, Row
    <2>2. RowWrite(j, AppendEvent(jobs[j], "finding", "none"))
      BY <1>4 DEF RowWrite, Publishing
    <2> QED
      BY <1>1, <2>1, <2>2
  <1>5. CASE exec[w].pc = "store" /\ jobs' # jobs
    <2>1. /\ exec[w].done = exec[w].found
          /\ SetJob(w, Transition(jobs[j], "succeeded", exec[w].found, "none"))
          /\ exec' = [exec EXCEPT ![w].pc = "raised", ![w].error = "INTERNAL_ERROR"]
          /\ "lost_ack" \in Faults
      BY <1>5 DEF ExecAckLost, Row, Fault
    <2>2. Caught(w)
      BY <1>0, <2>1 DEF Caught, ExecOK, ExecFrames
    <2>3. RowWrite(j, Transition(jobs[j], "succeeded", exec[w].found, "none"))
      BY <1>5, <2>1, <2>2 DEF RowWrite, Succeeding
    <2> QED
      BY <1>1, <2>1, <2>3
  <1>6. CASE jobs' = jobs
    BY <1>6 DEF StepWrite
  <1>7. CASE exec[w].pc = "raised"
    BY <1>3, <1>7 DEF ExecAckLost
  <1>8. CASE exec[w].pc = "correlate"
    BY <1>3, <1>8 DEF ExecAckLost
  <1>9. exec[w].pc \in {"claim", "raised", "store", "publish", "correlate"}
    BY DEF ExecAckLost
  <1> QED
    BY <1>2, <1>4, <1>5, <1>6, <1>7, <1>8, <1>9

\* Every step writes at most one row, in one of these ways.
LEMMA StepWrites ==
  ASSUME TypeOK, [Next]_vars
  PROVE  StepWrite
  <1>1. CASE UNCHANGED vars
    BY <1>1 DEF vars, StepWrite
  <1>2. CASE Next
    BY <1>2, HandlerWrite, ExecWrite, AckLostWrite
       DEF Next, Step, ReceiveScan, ApiCrash, SubmitFails, ApiRepositoryFails, DiscardRevoked,
           CancelRead, CancelCrash, CancelRepositoryFails, Deliver, WorkerCrash, Redeliver,
           ExecRepositoryFails, Interrupt, ProcessCrash, StepWrite
  <1> QED
    BY <1>1, <1>2

\* Findings are stored one at a time, by the executor at work on the job.
LEMMA StepRegistry ==
  ASSUME TypeOK, [Next]_vars, NEW j \in Requests
  PROVE  \/ registry'[j] = registry[j]
         \/ \E w \in Workers : /\ Storing(w) /\ exec[w].job = j /\ jobs' = jobs
                               /\ registry'[j] = registry[j] + 1
  <1>0. registry \in [Requests -> Nat]
    BY TypeParts
  <1>1. CASE UNCHANGED vars
    BY <1>1 DEF vars
  <1>2. ASSUME NEW w \in Workers, StoreFinding(w) \/ ExecAckLost(w)
        PROVE  \/ registry'[j] = registry[j]
               \/ Storing(w) /\ exec[w].job = j /\ jobs' = jobs
                  /\ registry'[j] = registry[j] + 1
    BY <1>0, <1>2 DEF StoreFinding, ExecAckLost, Storing, At
  <1>3. ASSUME NEW w \in Workers, Execute(w), ~StoreFinding(w) PROVE registry' = registry
    BY <1>3 DEF Execute, Load, FailUnknownSource, Check, FinishCancelled, Claim,
       ScanReturns, ScanCancelled, ScanRaises, Retry, FinishFailed, BackoffEnds,
       PublishFinding, Correlate, FinishSucceeded, FinishInterrupted
  <1>4. CASE Next
    BY <1>2, <1>3, <1>4
       DEF Next, Step, ReceiveScan, CreateScan, FindExisting, InsertJob, Submit, RecordDispatch,
           FailDispatch, ApiCrash, SubmitFails, ApiRepositoryFails, ApiAckLost, DiscardRevoked,
           CancelRead, CancelScan, CancelRequest, CancelRevoke, CancelCrash,
           CancelRepositoryFails, CancelAckLost, Deliver, WorkerCrash, Redeliver,
           ExecRepositoryFails, Interrupt, ProcessCrash
  <1> QED
    BY <1>1, <1>4

-----------------------------------------------------------------------------
(* ResultsInv is inductive: the rows *)

\* After a step an executor owns a job it owned before, or has just claimed it.
LEMMA OwnsBack ==
  ASSUME IndInv, [Next]_vars, NEW w \in Workers, NEW j \in Requests, Owns(w, j)'
  PROVE  Owns(w, j) \/ jobs'[j].status = "running"
  <1>1. CASE Claimed(w)
    BY <1>1, ClaimEffect DEF Owns, InAttempt, LoopTop, IndInv
  <1>2. CASE ~Claimed(w)
    BY <1>2, OwnerBefore DEF IndInv
  <1> QED
    BY <1>1, <1>2

\* An executor that ends a scan, or is storing its results, owns the job.
LEMMA AtWorkOwns ==
  ASSUME NEW w \in Workers, exec[w].pc \in InAttempt
  PROVE  Owns(w, exec[w].job)
  BY DEF Owns

\* An executor whose success was not acknowledged has one step left: to write FAILED, or to
\* die or fail at it.
LEMMA UnacknowledgedStays ==
  ASSUME IndInv, [Next]_vars, NEW w \in Workers, Unacknowledged(w)
  PROVE  exec'[w].pc = "idle" \/ Caught(w)
  <1>0. exec \in [Workers -> ExecFrames] /\ exec[w] \in ExecFrames
    BY DEF IndInv, TypeOK
  <1>1. exec[w].pc = "raised" /\ ~Retryable(exec[w].error) /\ ~WillRetry(w)
    BY DEF Unacknowledged, Retryable, WillRetry
  <1>2. ASSUME exec'[w] = exec[w] PROVE Caught(w)
    BY <1>2 DEF Unacknowledged, Caught
  <1>3. ASSUME NEW v \in Workers, Return(v) PROVE exec'[w] = exec[w] \/ exec'[w].pc = "idle"
    BY <1>0, <1>3, IdleFrame DEF Return
  <1>4. ASSUME NEW v \in Workers, v # w,
               \/ Execute(v) \/ ExecRepositoryFails(v) \/ ExecAckLost(v) \/ Interrupt(v)
               \/ \E j \in Requests : Deliver(v, j)
        PROVE  exec'[w] = exec[w]
    BY <1>0, <1>4 DEF Execute, Load, FailUnknownSource, Check, FinishCancelled, Claim,
       ScanReturns, ScanCancelled, ScanRaises, Retry, FinishFailed, BackoffEnds, StoreFinding,
       PublishFinding, Correlate, FinishSucceeded, FinishInterrupted, Goto, Return,
       ExecRepositoryFails, ExecAckLost, Interrupt, Deliver
  <1>5. CASE \/ Execute(w) \/ ExecRepositoryFails(w) \/ ExecAckLost(w) \/ Interrupt(w)
             \/ \E j \in Requests : Deliver(w, j)
    <2>1. Return(w)
      BY <1>1, <1>5 DEF Execute, Load, FailUnknownSource, Check, FinishCancelled, Claim,
         ScanReturns, ScanCancelled, ScanRaises, Retry, FinishFailed, BackoffEnds, StoreFinding,
         PublishFinding, Correlate, FinishSucceeded, FinishInterrupted, At,
         ExecRepositoryFails, ExecAckLost, Interrupt, Deliver
    <2> QED
      BY <1>2, <1>3, <2>1
  <1>6. CASE ProcessCrash
    BY <1>6, IdleFrame DEF ProcessCrash
  <1>7. CASE UNCHANGED vars
    BY <1>2, <1>7 DEF vars
  <1>8. CASE Next
    BY <1>2, <1>3, <1>4, <1>5, <1>6, <1>8
       DEF Next, Step, ReceiveScan, CreateScan, FindExisting, InsertJob, Submit, RecordDispatch,
           FailDispatch, ApiCrash, SubmitFails, ApiRepositoryFails, ApiAckLost, DiscardRevoked,
           CancelRead, CancelScan, CancelRequest, CancelRevoke, CancelCrash,
           CancelRepositoryFails, CancelAckLost, WorkerCrash, Redeliver
  <1> QED
    BY <1>7, <1>8

\* A status that keeps its value keeps its owner's excuse.
LEMMA StillUnacknowledged ==
  ASSUME IndInv, [Next]_vars, NEW j \in Requests, RowOK(j),
         jobs'[j].status = jobs[j].status, jobs[j].status \in {"succeeded", "timed_out"}
  PROVE  \A w \in Workers : Owns(w, j)' => Unacknowledged(w)'
  <1> SUFFICES ASSUME NEW w \in Workers, Owns(w, j)' PROVE Unacknowledged(w)'
    OBVIOUS
  <1>1. Owns(w, j)
    BY OwnsBack
  <1>2. Unacknowledged(w)
    BY <1>1 DEF RowOK
  <1>3. exec'[w].pc # "idle" /\ exec[w].job = j /\ exec'[w].job = j
    BY <1>1 DEF Owns, InAttempt, LoopTop
  <1>4. Caught(w) /\ Row(w).status = "succeeded"
    BY <1>2, <1>3, UnacknowledgedStays DEF Unacknowledged
  <1> QED
    BY <1>3, <1>4 DEF Caught, Unacknowledged, Row

\* A row that is not written keeps RowOK: only the findings stored for it can grow, and only
\* while an executor owns it.
LEMMA UnwrittenRow ==
  ASSUME IndInv, ResultsInv, [Next]_vars, NEW j \in Requests, jobs'[j] = jobs[j]
  PROVE  RowOK(j)'
  <1>0. RowOK(j) /\ jobs[j] \in Rows /\ registry[j] \in Nat /\ Announced(jobs[j]) \in Nat
    BY AnnouncedNat DEF ResultsInv, IndInv, TypeOK
  <1>1. jobs[j].status \in {"succeeded", "timed_out"} =>
          \A w \in Workers : Owns(w, j)' => Unacknowledged(w)'
    BY <1>0, StillUnacknowledged
  <1>2. CASE registry'[j] = registry[j]
    BY <1>0, <1>1, <1>2 DEF RowOK, Exists
  <1>3. ASSUME NEW w \in Workers, Storing(w), exec[w].job = j,
               registry'[j] = registry[j] + 1
        PROVE  RowOK(j)'
    <2>1. Owns(w, j)
      BY <1>3, AtWorkOwns DEF Storing, InAttempt
    <2>2. jobs[j].status \notin {"absent", "queued", "succeeded"}
      BY <1>0, <1>3, <2>1 DEF RowOK, IndInv, OwnershipInv, Unacknowledged, Storing
    <2>3. Announced(jobs[j]) <= registry[j] + 1
      BY <1>0 DEF RowOK
    <2> QED
      BY <1>0, <1>1, <1>3, <2>2, <2>3 DEF RowOK, Exists
  <1> QED
    BY <1>2, <1>3, StepRegistry DEF IndInv

\* The inserted row is explained and has no findings.
LEMMA InsertedRow ==
  ASSUME IndInv, ResultsInv, [Next]_vars, NEW j \in Requests, Inserted(j),
         registry'[j] = registry[j]
  PROVE  RowOK(j)'
  <1> DEFINE row == NewJob(api[j].tenant, api[j].source, api[j].key)
  <1>1. /\ api[j].tenant \in Tenants /\ api[j].source \in Sources
        /\ api[j].key \in Keys \cup {NoKey} /\ jobs \in [Requests -> Rows]
    BY DEF IndInv, TypeOK, Inserted, ApiRunning
  <1>2. jobs'[j] = row
    BY <1>1 DEF Inserted
  <1>3. row.status = "queued" /\ Announced(row) = 0 /\ Explained(row) /\ ~row.cancel_requested
    <2>1. ASSUME NEW t \in Tenants, NEW s \in Sources, NEW k \in Keys \cup {NoKey}
          PROVE  LET new == NewJob(t, s, k)
                 IN  /\ new.status = "queued" /\ Announced(new) = 0 /\ Explained(new)
                     /\ ~new.cancel_requested
      BY NewJobRow, NewJobLog
    <2> QED
      BY <1>1, <2>1
  <1>4. jobs[j].status = "absent"
    BY DEF IndInv, RowsPrecedeUse, Exists, Inserted
  <1>5. registry'[j] = 0
    BY <1>4 DEF ResultsInv, RowOK
  <1> HIDE DEF row
  <1> QED
    BY <1>2, <1>3, <1>5 DEF RowOK, Exists

\* Whoever writes a row that exists, by whichever transaction, keeps RowOK.
LEMMA WrittenRow ==
  ASSUME IndInv, ResultsInv, [Next]_vars, NEW j \in Requests, registry'[j] = registry[j],
         NEW row \in Rows, jobs'[j] = row, Explained(row), Announced(row) <= registry[j],
         row.status \notin {"absent", "queued"},
         row.status = "succeeded" => Announced(row) = row.result_count
                                     /\ registry[j] = row.result_count,
         row.status \in {"running", "succeeded", "timed_out"} => row.source \in WorkerSources,
         row.status \in {"succeeded", "timed_out"} =>
           \A w \in Workers : Owns(w, j) => \/ exec'[w].pc = "idle"
                                            \/ row.status = "succeeded" /\ Caught(w)
  PROVE  RowOK(j)'
  <1>1. \A w \in Workers : Owns(w, j)' => Owns(w, j) \/ row.status = "running"
    BY OwnsBack
  <1>2. \A w \in Workers : Owns(w, j)' => exec'[w].pc # "idle" /\ exec'[w].job = j
    BY DEF Owns, InAttempt, LoopTop
  <1>3. row.status \in {"succeeded", "timed_out"} =>
          \A w \in Workers : Owns(w, j)' => Unacknowledged(w)'
    BY <1>1, <1>2 DEF Caught, Unacknowledged, Row
  <1> QED
    BY <1>3 DEF RowOK

\* A write that keeps status, source, count and announcements keeps RowOK.
LEMMA RewrittenRow ==
  ASSUME IndInv, ResultsInv, [Next]_vars, NEW j \in Requests, registry'[j] = registry[j],
         NEW row \in Rows, jobs'[j] = row, row.status = jobs[j].status,
         row.source = jobs[j].source, row.result_count = jobs[j].result_count,
         row.cancel_requested = jobs[j].cancel_requested,
         Announced(row) = Announced(jobs[j]), Explained(jobs[j]) => Explained(row)
  PROVE  RowOK(j)'
  <1>1. RowOK(j)
    BY DEF ResultsInv
  <1>2. row.status \in {"succeeded", "timed_out"} =>
          \A w \in Workers : Owns(w, j)' => Unacknowledged(w)'
    BY <1>1, StillUnacknowledged
  <1> QED
    BY <1>1, <1>2 DEF RowOK, Exists

\* A row written by a handler.
LEMMA HandlerRow ==
  ASSUME IndInv, ResultsInv, [Next]_vars, NEW j \in Requests, registry'[j] = registry[j],
         \/ api[j].pc = "record" /\ jobs'[j] = SetDispatchId(jobs[j])
         \/ /\ api[j].pc = "failing"
            /\ jobs'[j] = Transition(jobs[j], "failed", jobs[j].result_count, "DISPATCH_FAILED")
         \/ \E c \in Cancels : /\ cancel[c].pc = "request" /\ cancel[c].job = j
                               /\ jobs'[j] = RequestCancel(jobs[j])
  PROVE  RowOK(j)'
  <1>0. /\ RowOK(j) /\ jobs[j] \in Rows /\ registry[j] \in Nat /\ Announced(jobs[j]) \in Nat
        /\ jobs[j].result_count \in Nat
    BY AnnouncedNat DEF ResultsInv, IndInv, TypeOK, Rows
  <1>1. CASE jobs'[j] = SetDispatchId(jobs[j])
    BY <1>0, <1>1, SetDispatchIdRow, SetDispatchIdLog, RewrittenRow
  <1>2. CASE jobs'[j] = Transition(jobs[j], "failed", jobs[j].result_count, "DISPATCH_FAILED")
    <2> DEFINE row == Transition(jobs[j], "failed", jobs[j].result_count, "DISPATCH_FAILED")
    <2>1. ASSUME NEW old \in Rows, NEW n \in Nat
          PROVE  LET new == Transition(old, "failed", n, "DISPATCH_FAILED")
                 IN  /\ new \in Rows /\ new.status = "failed"
                     /\ Announced(new) = Announced(old) /\ Explained(new)
      <3>1. ASSUME NEW s \in JobStatus, NEW e \in ErrorCodes,
                   s \in {"failed", "cancelled", "timed_out", "succeeded"}
            PROVE  LET new == Transition(old, s, n, e)
                   IN  /\ new \in Rows /\ new.status = s
                       /\ Announced(new) = Announced(old) /\ Explained(new)
        BY <3>1, TransitionRow, TransitionLog
      <3> QED
        BY <3>1, Codes
    <2>2. /\ row \in Rows /\ row.status = "failed"
          /\ Announced(row) = Announced(jobs[j]) /\ Explained(row)
      BY <1>0, <2>1
    <2>3. jobs'[j] = row
      BY <1>2
    <2> HIDE DEF row
    <2> QED
      BY <1>0, <2>2, <2>3, WrittenRow DEF RowOK
  <1>3. ASSUME NEW c \in Cancels, cancel[c].pc = "request", cancel[c].job = j,
               jobs'[j] = RequestCancel(jobs[j])
        PROVE  RowOK(j)'
    <2>1. Exists(j)
      BY <1>3 DEF IndInv, RowsPrecedeUse
    <2> DEFINE row == RequestCancel(jobs[j])
    <2>2. /\ row \in Rows /\ Explained(row) /\ Announced(row) = Announced(jobs[j])
          /\ row.status = IF jobs[j].status = "queued" THEN "cancelled" ELSE jobs[j].status
          /\ row.source = jobs[j].source /\ row.result_count = jobs[j].result_count
      BY <1>0, <2>1, RequestCancelRow, RequestCancelLog DEF RowOK, Exists
    <2>3. row.status \notin {"absent", "queued"}
      BY <2>1, <2>2 DEF Exists
    <2>4. jobs'[j] = row
      BY <1>3
    <2> HIDE DEF row
    <2>5. row.status \in {"succeeded", "timed_out"} =>
            \A w \in Workers : Owns(w, j) => \/ exec'[w].pc = "idle"
                                             \/ row.status = "succeeded" /\ Caught(w)
      <3>1. ASSUME NEW w \in Workers, Owns(w, j), row.status \in {"succeeded", "timed_out"}
            PROVE  exec'[w].pc = "idle" \/ (row.status = "succeeded" /\ Caught(w))
        <4>1. Unacknowledged(w) /\ row.status = jobs[j].status
          BY <1>0, <2>2, <3>1 DEF RowOK
        <4>2. exec[w].job = j
          BY <3>1 DEF Owns
        <4>3. jobs[j].status = "succeeded"
          BY <4>1, <4>2 DEF Unacknowledged, Row
        <4>4. exec'[w].pc = "idle" \/ Caught(w)
          BY <4>1, UnacknowledgedStays
        <4> QED
          BY <4>1, <4>3, <4>4
      <3> QED
        BY <3>1
    <2> QED
      BY <1>0, <2>2, <2>3, <2>4, <2>5, WrittenRow DEF RowOK
  <1> QED
    BY <1>1, <1>2, <1>3

\* A row claimed, or ended, by an executor.
LEMMA ExecutorEndsRow ==
  ASSUME IndInv, ResultsInv, [Next]_vars, NEW w \in Workers, NEW j \in Requests,
         exec[w].job = j, registry'[j] = registry[j],
         \/ Claimed(w) /\ jobs'[j] = MarkRunning(jobs[j])
         \/ /\ Returned(w)
            /\ \E s \in JobStatus, e \in ErrorCodes :
                 EndsAs(w, s) /\ jobs'[j] = Transition(jobs[j], s, jobs[j].result_count, e)
         \/ Succeeding(w) /\ jobs'[j] = Transition(jobs[j], "succeeded", exec[w].found, "none")
  PROVE  RowOK(j)'
  <1>0. /\ RowOK(j) /\ jobs[j] \in Rows /\ registry[j] \in Nat /\ Announced(jobs[j]) \in Nat
        /\ jobs[j].result_count \in Nat /\ exec[w].found \in Nat
        /\ WorkerOK(w)
    BY AnnouncedNat DEF ResultsInv, IndInv, TypeOK, Rows, ExecFrames
  <1>1. exec[w].pc \in InAttempt => \A v \in Workers : Owns(v, j) => v = w
    BY AtWorkOwns DEF IndInv, OwnershipInv, SingleOwner
  <1>2. CASE Claimed(w) /\ jobs'[j] = MarkRunning(jobs[j])
    <2>1. jobs[j].source \in WorkerSources
      BY <1>0, <1>2 DEF WorkerOK, Claimed, PastLoad, LoopTop
    <2> QED
      BY <1>0, <1>2, <2>1, MarkRunningRow, MarkRunningLog, WrittenRow DEF RowOK
  <1>3. ASSUME Returned(w), NEW s \in JobStatus, NEW e \in ErrorCodes, EndsAs(w, s),
               jobs'[j] = Transition(jobs[j], s, jobs[j].result_count, e)
        PROVE  RowOK(j)'
    <2>1. s \in {"failed", "cancelled", "timed_out"}
      BY <1>3 DEF EndsAs
    <2>2. s = "timed_out" => exec[w].pc \in InAttempt
      BY <1>3 DEF EndsAs, InAttempt
    <2>3. s = "timed_out" => jobs[j].source \in WorkerSources
      BY <1>0, <2>2 DEF WorkerOK, PastLoad
    <2> DEFINE row == Transition(jobs[j], s, jobs[j].result_count, e)
    <2>4. /\ row \in Rows /\ row.status = s /\ row.source = jobs[j].source
          /\ Announced(row) = Announced(jobs[j]) /\ Explained(row)
      <3>1. ASSUME NEW old \in Rows, NEW n \in Nat
            PROVE  LET new == Transition(old, s, n, e)
                   IN  /\ new \in Rows /\ new.status = s /\ new.source = old.source
                       /\ Announced(new) = Announced(old) /\ Explained(new)
        BY TransitionRow, TransitionLog
      <3> QED
        BY <1>0, <3>1
    <2>5. jobs'[j] = row
      BY <1>3
    <2> HIDE DEF row
    <2>6. \A v \in Workers : s = "timed_out" /\ Owns(v, j) => exec'[v].pc = "idle"
      BY <1>1, <1>3, <2>2 DEF Returned
    <2>7. /\ Announced(row) <= registry[j]
          /\ row.status \notin {"absent", "queued", "running", "succeeded"}
          /\ row.status = "timed_out" => row.source \in WorkerSources
      BY <1>0, <2>1, <2>3, <2>4 DEF RowOK
    <2>8. row.status \in {"succeeded", "timed_out"} =>
            \A v \in Workers : Owns(v, j) => \/ exec'[v].pc = "idle"
                                             \/ row.status = "succeeded" /\ Caught(v)
      BY <2>4, <2>6, <2>7
    <2> QED
      BY <2>4, <2>5, <2>7, <2>8, WrittenRow
  <1>4. ASSUME Succeeding(w),
               jobs'[j] = Transition(jobs[j], "succeeded", exec[w].found, "none")
        PROVE  RowOK(j)'
    <2>1. /\ exec[w].pc = "store" /\ exec[w].done = exec[w].found
          /\ exec[w].pc \in InAttempt
      BY <1>4 DEF Succeeding, InAttempt
    <2>2. registry[j] = exec[w].found /\ Announced(jobs[j]) = exec[w].found
          /\ jobs[j].source \in WorkerSources
      BY <1>0, <2>1 DEF WorkerOK, PastLoad
    <2> DEFINE row == Transition(jobs[j], "succeeded", exec[w].found, "none")
    <2>3. /\ row \in Rows /\ row.status = "succeeded" /\ row.source = jobs[j].source
          /\ row.result_count = exec[w].found
          /\ Announced(row) = Announced(jobs[j]) /\ Explained(row)
      <3>1. ASSUME NEW old \in Rows, NEW n \in Nat
            PROVE  LET new == Transition(old, "succeeded", n, "none")
                   IN  /\ new \in Rows /\ new.status = "succeeded"
                       /\ new.source = old.source /\ new.result_count = n
                       /\ Announced(new) = Announced(old) /\ Explained(new)
        BY Codes, TransitionRow, TransitionLog
      <3> QED
        BY <1>0, <3>1
    <2>4. jobs'[j] = row
      BY <1>4
    <2> HIDE DEF row
    <2>5. \A v \in Workers : Owns(v, j) => exec'[v].pc = "idle" \/ Caught(v)
      BY <1>1, <1>4, <2>1 DEF Succeeding, Returned
    <2>6. Announced(row) <= registry[j] /\ row.result_count = registry[j]
          /\ Announced(row) = registry[j] /\ row.source \in WorkerSources
      BY <1>0, <2>2, <2>3
    <2>7. row.status \in {"succeeded", "timed_out"} =>
            \A v \in Workers : Owns(v, j) => \/ exec'[v].pc = "idle"
                                             \/ row.status = "succeeded" /\ Caught(v)
      BY <2>3, <2>5
    <2> QED
      BY <2>3, <2>4, <2>6, <2>7, WrittenRow
  <1> QED
    BY <1>2, <1>3, <1>4

\* A row to which an executor publishes an event.
LEMMA ExecutorLogsRow ==
  ASSUME IndInv, ResultsInv, [Next]_vars, NEW w \in Workers, NEW j \in Requests,
         exec[w].job = j, registry'[j] = registry[j],
         \/ \E kind \in {"retrying", "correlation"} : jobs'[j] = AppendEvent(jobs[j], kind, "none")
         \/ Publishing(w) /\ jobs'[j] = AppendEvent(jobs[j], "finding", "none")
  PROVE  RowOK(j)'
  <1>0. /\ RowOK(j) /\ jobs[j] \in Rows /\ registry[j] \in Nat /\ Announced(jobs[j]) \in Nat
        /\ WorkerOK(w) /\ exec[w].done \in Nat
    BY AnnouncedNat DEF ResultsInv, IndInv, TypeOK, ExecFrames
  <1>1. ASSUME NEW kind \in {"retrying", "correlation"},
               jobs'[j] = AppendEvent(jobs[j], kind, "none")
        PROVE  RowOK(j)'
    <2>1. kind \in EventKinds /\ kind # "finding"
      BY DEF EventKinds
    <2> QED
      BY <1>0, <1>1, <2>1, AppendEventRow, AppendEventLog, RewrittenRow
  <1>2. ASSUME Publishing(w), jobs'[j] = AppendEvent(jobs[j], "finding", "none")
        PROVE  RowOK(j)'
    <2>1. exec[w].pc = "publish"
      BY <1>2 DEF Publishing
    <2>2. Owns(w, j)
      BY <2>1, AtWorkOwns DEF InAttempt
    <2>3. jobs[j].status \notin {"absent", "queued", "succeeded", "timed_out"}
      BY <1>0, <2>1, <2>2 DEF RowOK, IndInv, OwnershipInv, Unacknowledged
    <2>4. registry[j] = Announced(jobs[j]) + 1
      BY <1>0, <2>1 DEF WorkerOK
    <2> DEFINE row == AppendEvent(jobs[j], "finding", "none")
    <2>5. Explained(jobs[j])
      BY <1>0, <2>3 DEF RowOK, Exists
    <2>6. /\ row \in Rows /\ row.status = jobs[j].status /\ row.source = jobs[j].source
          /\ Announced(row) = Announced(jobs[j]) + 1 /\ Explained(row)
      BY <1>0, <2>5, AppendEventRow, AppendEventLog DEF EventKinds
    <2>7. jobs'[j] = row /\ Announced(row) <= registry[j]
      BY <1>0, <1>2, <2>4, <2>6
    <2> HIDE DEF row
    <2> QED
      BY <1>0, <2>3, <2>6, <2>7, WrittenRow DEF RowOK
  <1> QED
    BY <1>1, <1>2

\* Every step keeps RowOK.
LEMMA NextRowOK ==
  ASSUME IndInv, ResultsInv, [Next]_vars, NEW j \in Requests
  PROVE  RowOK(j)'
  <1>1. CASE jobs'[j] = jobs[j]
    BY <1>1, UnwrittenRow
  <1>2. CASE jobs'[j] # jobs[j]
    <2>1. registry'[j] = registry[j]
      BY <1>2, StepRegistry DEF IndInv
    <2>2. RowWrite(j, jobs'[j])
      BY <1>2, StepWrites DEF StepWrite, IndInv
    <2> QED
      BY <2>1, <2>2, InsertedRow, HandlerRow, ExecutorEndsRow, ExecutorLogsRow DEF RowWrite
  <1> QED
    BY <1>1, <1>2

-----------------------------------------------------------------------------
(* ResultsInv is inductive: the executors *)

\* A row keeps its source, a cancellation request stays, and only its executor's next event
\* announces a finding.
LEMMA RowKeeps ==
  ASSUME IndInv, ResultsInv, [Next]_vars, NEW j \in Requests, Exists(j)
  PROVE  /\ jobs'[j].source = jobs[j].source
         /\ jobs[j].cancel_requested => jobs'[j].cancel_requested
         /\ \/ Announced(jobs'[j]) = Announced(jobs[j])
            \/ \E w \in Workers : /\ Publishing(w) /\ exec[w].job = j
                                  /\ Announced(jobs'[j]) = Announced(jobs[j]) + 1
  <1>0. jobs[j] \in Rows /\ jobs[j].result_count \in Nat /\ Explained(jobs[j])
    BY DEF IndInv, TypeOK, Rows, ResultsInv, RowOK
  <1> DEFINE Keeps(row) == /\ row.source = jobs[j].source
                           /\ jobs[j].cancel_requested => row.cancel_requested
             Same(row) == Keeps(row) /\ Announced(row) = Announced(jobs[j])
  <1>1. ~Inserted(j)
    BY DEF IndInv, RowsPrecedeUse, Inserted
  <1>2. Same(SetDispatchId(jobs[j]))
    BY <1>0, SetDispatchIdLog
  <1>3. ASSUME NEW s \in JobStatus, NEW n \in Nat, NEW e \in ErrorCodes
        PROVE  Same(Transition(jobs[j], s, n, e))
    <2>1. ASSUME NEW row \in Rows
          PROVE  /\ Transition(row, s, n, e).source = row.source
                 /\ row.cancel_requested => Transition(row, s, n, e).cancel_requested
                 /\ Announced(Transition(row, s, n, e)) = Announced(row)
      BY TransitionLog
    <2> QED
      BY <1>0, <2>1
  <1>4. Same(RequestCancel(jobs[j]))
    BY <1>0, RequestCancelLog DEF Exists
  <1>5. Same(MarkRunning(jobs[j]))
    BY <1>0, MarkRunningLog
  <1>6. ASSUME NEW kind \in {"retrying", "correlation"}
        PROVE  Same(AppendEvent(jobs[j], kind, "none"))
    BY <1>0, AppendEventLog DEF EventKinds
  <1>7. /\ Keeps(AppendEvent(jobs[j], "finding", "none"))
        /\ Announced(AppendEvent(jobs[j], "finding", "none")) = Announced(jobs[j]) + 1
    BY <1>0, AppendEventLog DEF EventKinds
  <1>8. \A w \in Workers : exec[w].found \in Nat
    BY DEF IndInv, TypeOK, ExecFrames
  <1>9. CASE jobs'[j] = jobs[j]
    BY <1>9
  <1>10. CASE jobs'[j] # jobs[j]
    <2>1. RowWrite(j, jobs'[j])
      BY <1>10, StepWrites DEF StepWrite, IndInv
    <2>2. Same(Transition(jobs[j], "failed", jobs[j].result_count, "DISPATCH_FAILED"))
      BY <1>0, <1>3, Codes
    <2>3. \A w \in Workers : Same(Transition(jobs[j], "succeeded", exec[w].found, "none"))
      BY <1>3, <1>8, Codes
    <2>4. \A s \in JobStatus, e \in ErrorCodes : Same(Transition(jobs[j], s, jobs[j].result_count, e))
      BY <1>0, <1>3
    <2> HIDE DEF Same, Keeps
    <2>5. \/ Same(jobs'[j])
          \/ /\ Keeps(jobs'[j])
             /\ \E w \in Workers : /\ Publishing(w) /\ exec[w].job = j
                                   /\ Announced(jobs'[j]) = Announced(jobs[j]) + 1
      BY <1>1, <1>2, <1>4, <1>5, <1>6, <1>7, <2>1, <2>2, <2>3, <2>4 DEF RowWrite
    <2> QED
      BY <2>5 DEF Same, Keeps
  <1> QED
    BY <1>9, <1>10

\* While an executor owns a job, only that executor's steps change what is stored and
\* announced for it.
LEMMA OwnerCounts ==
  ASSUME IndInv, ResultsInv, [Next]_vars, NEW w \in Workers, NEW j \in Requests, Owns(w, j)
  PROVE  /\ ~Storing(w) => registry'[j] = registry[j]
         /\ ~Publishing(w) => Announced(jobs'[j]) = Announced(jobs[j])
         /\ Publishing(w) => Announced(jobs'[j]) \in {Announced(jobs[j]), Announced(jobs[j]) + 1}
  <1>1. \A v \in Workers : Storing(v) /\ exec[v].job = j => v = w
    BY AtWorkOwns DEF Storing, InAttempt, IndInv, OwnershipInv, SingleOwner
  <1>2. \A v \in Workers : Publishing(v) /\ exec[v].job = j => v = w
    BY AtWorkOwns DEF Publishing, InAttempt, IndInv, OwnershipInv, SingleOwner
  <1>3. Exists(j)
    BY DEF Owns, InAttempt, LoopTop, IndInv, RowsPrecedeUse
  <1> QED
    BY <1>1, <1>2, <1>3, RowKeeps, StepRegistry DEF IndInv

\* An executor that returns, or whose process dies, has nothing to show.
LEMMA IdleWorker ==
  ASSUME NEW w \in Workers, exec'[w].pc = "idle"
  PROVE  WorkerOK(w)'
  BY DEF WorkerOK, Unstored, PastLoad, LoopTop, InAttempt

\* What the other processes do leaves an executor as it was.
LEMMA BystandingWorker ==
  ASSUME IndInv, ResultsInv, [Next]_vars, NEW v \in Workers, exec'[v] = exec[v]
  PROVE  WorkerOK(v)'
  <1>1. CASE exec[v].pc = "idle"
    BY <1>1, IdleWorker
  <1>2. CASE exec[v].pc # "idle"
    <2> DEFINE j == exec[v].job
    <2>1. j \in Requests /\ Exists(j) /\ WorkerOK(v)
      BY <1>2 DEF IndInv, TypeOK, RowsPrecedeUse, ResultsInv
    <2>2. ~Storing(v) /\ ~Publishing(v)
      BY IdleFrame DEF Storing, Publishing, StoreFinding, PublishFinding, ExecAckLost, At, Goto,
         Return, IndInv, TypeOK, ExecFrames
    <2>3. Owns(v, j) => /\ registry'[j] = registry[j]
                        /\ Announced(jobs'[j]) = Announced(jobs[j])
      BY <2>1, <2>2, OwnerCounts
    <2>4. exec[v].pc \in {"store", "correlate", "publish"} => Owns(v, j)
      BY DEF Owns, InAttempt
    <2>5. /\ jobs'[j].source = jobs[j].source
          /\ jobs[j].cancel_requested => jobs'[j].cancel_requested
      BY <2>1, RowKeeps
    <2> HIDE DEF j
    <2> QED
      BY <2>1, <2>3, <2>4, <2>5 DEF WorkerOK, Unstored, Owns, j
  <1> QED
    BY <1>1, <1>2

\* An executor that moves on shows what its new frame asks for, of a row whose source stays.
LEMMA MovedWorker ==
  ASSUME IndInv, ResultsInv, [Next]_vars, NEW w \in Workers, exec[w].pc # "idle",
         NEW j, j = exec[w].job, exec'[w].job = j,
         exec'[w].pc = "unknown" => jobs[j].source \notin WorkerSources,
         exec'[w].pc \in PastLoad => jobs[j].source \in WorkerSources,
         exec'[w].pc = "cancelling" => jobs[j].cancel_requested,
         Unstored(w)' => exec'[w].done = 0 /\ (Owns(w, j)' => registry'[j] = 0),
         exec'[w].pc \in {"store", "correlate"} =>
           registry'[j] = exec'[w].done /\ Announced(jobs'[j]) = exec'[w].done,
         exec'[w].pc = "publish" =>
           registry'[j] = exec'[w].done + 1 /\ Announced(jobs'[j]) = exec'[w].done
  PROVE  WorkerOK(w)'
  <1>1. j \in Requests /\ Exists(j)
    BY DEF IndInv, TypeOK, RowsPrecedeUse
  <1>2. /\ jobs'[j].source = jobs[j].source
        /\ jobs[j].cancel_requested => jobs'[j].cancel_requested
    BY <1>1, RowKeeps
  <1> QED
    BY <1>2 DEF WorkerOK

\* The steps of execute() before a scan.
LEMMA ClaimingWorker ==
  ASSUME IndInv, ResultsInv, [Next]_vars, NEW w \in Workers, Load(w) \/ Check(w) \/ Claim(w)
  PROVE  WorkerOK(w)'
  <1> DEFINE j == exec[w].job
  <1>0. /\ exec \in [Workers -> ExecFrames] /\ exec[w].pc \in {"load", "check", "claim"}
        /\ WorkerOK(w) /\ j \in Requests /\ registry' = registry
        /\ exec[w].done = 0
    <2>1. exec \in [Workers -> ExecFrames] /\ WorkerOK(w)
      BY DEF IndInv, TypeOK, ResultsInv
    <2>2. exec[w].pc \in {"load", "check", "claim"} /\ registry' = registry
      BY DEF Load, Check, Claim, At
    <2>3. exec[w].done = 0
      BY <2>1, <2>2 DEF WorkerOK, Unstored, LoopTop
    <2> QED
      BY <2>1, <2>2, <2>3 DEF IndInv, TypeOK
  <1>1. ASSUME Return(w) PROVE WorkerOK(w)'
    BY <1>0, <1>1, IdleFrame, IdleWorker DEF Return
  <1>2. CASE Load(w) /\ ~Return(w)
    <2>1. CASE Goto(w, "unknown")
      <3>1. exec'[w].pc = "unknown" /\ exec'[w].job = j /\ exec'[w].done = 0
        BY <1>0, <2>1 DEF Goto, ExecFrames
      <3>2. jobs[j].source \notin WorkerSources
        BY <1>0, <1>2, <2>1, <3>1 DEF Load, Row, ExecFrames
      <3> QED
        BY <1>0, <3>1, <3>2, MovedWorker DEF PastLoad, LoopTop, InAttempt, Unstored, Owns
    <2>2. CASE exec' = [exec EXCEPT ![w].pc = "check", ![w].attempt = 1]
      <3>1. /\ exec'[w].pc = "check" /\ exec'[w].job = j /\ exec'[w].done = 0
            /\ exec'[w].attempt = 1
        BY <1>0, <2>2 DEF ExecFrames
      <3>2. jobs[j].source \in WorkerSources
        BY <1>0, <1>2, <2>2, <3>1 DEF Load, Row, Goto, ExecFrames
      <3>3. ~Owns(w, j)'
        BY <3>1 DEF Owns, InAttempt, LoopTop
      <3> QED
        BY <1>0, <3>1, <3>2, <3>3, MovedWorker
    <2> QED
      BY <1>2, <2>1, <2>2 DEF Load
  <1>3. ASSUME exec[w].pc \in LoopTop, NEW pc \in {"cancelling", "claim", "scan"}, Goto(w, pc),
               pc = "cancelling" => jobs[j].cancel_requested, registry[j] = 0 \/ pc # "scan"
        PROVE  WorkerOK(w)'
    <2>1. /\ exec'[w].pc = pc /\ exec'[w].job = j /\ exec'[w].done = 0
          /\ exec'[w].attempt = exec[w].attempt
      BY <1>0, <1>3 DEF Goto, ExecFrames
    <2>2. jobs[j].source \in WorkerSources
      BY <1>0, <1>3 DEF WorkerOK, PastLoad
    <2>3. Owns(w, j)' => registry'[j] = 0
      <3>1. CASE pc = "scan"
        BY <1>0, <1>3, <3>1
      <3>2. CASE pc # "scan"
        <4>1. Owns(w, j)' => Owns(w, j)
          BY <1>3, <2>1, <3>2 DEF Owns, LoopTop, InAttempt
        <4>2. Owns(w, j) => registry[j] = 0
          BY <1>0, <1>3 DEF WorkerOK, Unstored
        <4> QED
          BY <1>0, <4>1, <4>2
      <3> QED
        BY <3>1, <3>2
    <2> QED
      BY <1>0, <1>3, <2>1, <2>2, <2>3, MovedWorker DEF LoopTop
  <1>4. CASE Check(w)
    BY <1>1, <1>3, <1>4 DEF Check, At, Row, LoopTop
  <1>5. CASE Claim(w) /\ ~Return(w)
    <2>1. exec[w].pc = "claim" /\ Goto(w, "scan") /\ CanMarkRunning(jobs[j], exec[w].attempt = 1)
      BY <1>5 DEF Claim, At, Row
    <2>2. registry[j] = 0
      <3>1. CASE exec[w].attempt = 1
        BY <1>0, <2>1, <3>1 DEF CanMarkRunning, ResultsInv, RowOK
      <3>2. CASE exec[w].attempt # 1
        <4>1. exec[w].attempt > 1
          BY <1>0, <2>1, <3>2, ConstantsAssumption DEF IndInv, OwnershipInv, LoopTop
        <4>2. Owns(w, j)
          BY <2>1, <4>1 DEF Owns, LoopTop
        <4> QED
          BY <1>0, <2>1, <4>2 DEF WorkerOK, Unstored, LoopTop
      <3> QED
        BY <3>1, <3>2
    <2> QED
      BY <1>3, <2>1, <2>2 DEF LoopTop
  <1> QED
    BY <1>1, <1>2, <1>4, <1>5

\* The steps of an attempt that has stored nothing, or is storing.
LEMMA AttemptingWorker ==
  ASSUME IndInv, ResultsInv, [Next]_vars, NEW w \in Workers, exec[w].pc \in InAttempt,
         \/ \E n \in 0..MaxFindings : ScanReturns(w, n)
         \/ ScanCancelled(w)
         \/ \E e \in ScanErrors : ScanRaises(w, e)
         \/ Retry(w) \/ BackoffEnds(w)
         \/ StoreFinding(w) \/ PublishFinding(w) \/ Correlate(w)
         \/ ExecRepositoryFails(w) \/ ExecAckLost(w) \/ Interrupt(w)
  PROVE  WorkerOK(w)'
  <1> DEFINE j == exec[w].job
  <1>0. /\ exec \in [Workers -> ExecFrames] /\ exec[w] \in ExecFrames /\ WorkerOK(w)
        /\ j \in Requests /\ exec[w].pc # "idle" /\ Owns(w, j)
        /\ registry[j] \in Nat /\ Announced(jobs[j]) \in Nat
        /\ Announced(jobs[j]) <= registry[j] /\ exec[w].done \in Nat
    BY AnnouncedNat DEF IndInv, TypeOK, ResultsInv, RowOK, Owns, InAttempt, ExecFrames
  <1>1. jobs[j].source \in WorkerSources
    BY <1>0 DEF WorkerOK, PastLoad
  <1>2. /\ ~Storing(w) => registry'[j] = registry[j]
        /\ ~Publishing(w) => Announced(jobs'[j]) = Announced(jobs[j])
    BY <1>0, OwnerCounts
  <1>3. ASSUME Return(w) PROVE WorkerOK(w)'
    BY <1>0, <1>3, IdleFrame, IdleWorker DEF Return
  <1>4. ASSUME Unstored(w), ~Storing(w), ~Publishing(w), exec'[w].job = j,
               exec'[w].pc \in {"store", "teardown", "raised", "backoff", "check", "interrupted"},
               exec'[w].done = exec[w].done
        PROVE  WorkerOK(w)'
    <2>1. exec[w].done = 0 /\ registry'[j] = 0 /\ Announced(jobs'[j]) = 0
      BY <1>0, <1>2, <1>4 DEF WorkerOK
    <2> QED
      BY <1>0, <1>1, <1>4, <2>1, MovedWorker
  <1>5. ASSUME NEW n \in 0..MaxFindings, ScanReturns(w, n) PROVE WorkerOK(w)'
    BY <1>0, <1>4, <1>5 DEF ScanReturns, At, ExecFrames, Unstored, Storing, Publishing
  <1>6. CASE ScanCancelled(w)
    BY <1>0, <1>4, <1>6 DEF ScanCancelled, At, Goto, ExecFrames, Unstored, Storing, Publishing
  <1>7. ASSUME NEW e \in ScanErrors, ScanRaises(w, e) PROVE WorkerOK(w)'
    BY <1>0, <1>4, <1>7 DEF ScanRaises, At, ExecFrames, Unstored, Storing, Publishing
  <1>8. CASE Retry(w)
    BY <1>0, <1>4, <1>8 DEF Retry, WillRetry, At, Goto, ExecFrames, Unstored, Storing, Publishing
  <1>9. CASE BackoffEnds(w)
    BY <1>0, <1>4, <1>9 DEF BackoffEnds, At, ExecFrames, Unstored, Storing, Publishing
  <1>10. CASE Interrupt(w)
    BY <1>0, <1>3, <1>4, <1>10 DEF Interrupt, Goto, ExecFrames, Unstored, Storing, Publishing
  <1>11. CASE ExecRepositoryFails(w) \/ ExecAckLost(w)
    <2>1. CASE exec' = [exec EXCEPT ![w].pc = "raised", ![w].error = "INTERNAL_ERROR"]
      <3>1. /\ exec'[w].pc = "raised" /\ exec'[w].error = "INTERNAL_ERROR" /\ exec'[w].job = j
        BY <1>0, <2>1 DEF ExecFrames
      <3>2. ~Unstored(w)'
        BY <3>1 DEF Unstored, Retryable, LoopTop
      <3> QED
        BY <1>0, <1>1, <3>1, <3>2, MovedWorker
    <2> QED
      BY <1>3, <1>11, <2>1 DEF ExecRepositoryFails, ExecAckLost
  <1>12. CASE StoreFinding(w)
    <2>1. /\ exec[w].pc = "store" /\ exec'[w].pc = "publish" /\ exec'[w].job = j
          /\ exec'[w].done = exec[w].done
      BY <1>0, <1>12 DEF StoreFinding, At, Goto, ExecFrames
    <2>2. registry[j] = exec[w].done /\ Announced(jobs[j]) = exec[w].done
      BY <1>0, <2>1 DEF WorkerOK
    <2>3. registry'[j] = registry[j] + 1 /\ jobs' = jobs
      BY <1>0, <1>12 DEF StoreFinding, IndInv, TypeOK
    <2> QED
      BY <1>0, <1>1, <2>1, <2>2, <2>3, MovedWorker DEF Unstored, LoopTop
  <1>13. CASE PublishFinding(w)
    <2>1. /\ exec[w].pc = "publish" /\ exec'[w].pc = "correlate" /\ exec'[w].job = j
          /\ exec'[w].done = exec[w].done + 1
      BY <1>0, <1>13 DEF PublishFinding, At, ExecFrames
    <2>2. registry[j] = exec[w].done + 1 /\ Announced(jobs[j]) = exec[w].done
      BY <1>0, <2>1 DEF WorkerOK
    <2>3. registry' = registry /\ Announced(jobs'[j]) = Announced(jobs[j]) + 1
      <3>1. jobs'[j] = AppendEvent(jobs[j], "finding", "none") /\ jobs[j] \in Rows
        BY <1>0, <1>13 DEF PublishFinding, SetJob, Row, IndInv, TypeOK
      <3> QED
        BY <1>13, <3>1, AppendEventLog DEF EventKinds, PublishFinding
    <2> QED
      BY <1>0, <1>1, <2>1, <2>2, <2>3, MovedWorker DEF Unstored, LoopTop
  <1>14. CASE Correlate(w)
    <2>1. /\ exec[w].pc = "correlate" /\ exec'[w].pc = "store" /\ exec'[w].job = j
          /\ exec'[w].done = exec[w].done
      BY <1>0, <1>14 DEF Correlate, At, Goto, ExecFrames
    <2>2. registry[j] = exec[w].done /\ Announced(jobs[j]) = exec[w].done
      BY <1>0, <2>1 DEF WorkerOK
    <2>3. ~Storing(w) /\ ~Publishing(w)
      BY <2>1 DEF Storing, Publishing
    <2> QED
      BY <1>0, <1>1, <1>2, <2>1, <2>2, <2>3, MovedWorker DEF Unstored, LoopTop
  <1> QED
    BY <1>5, <1>6, <1>7, <1>8, <1>9, <1>10, <1>11, <1>12, <1>13, <1>14

\* Every step keeps WorkerOK.
LEMMA NextWorkerOK ==
  ASSUME IndInv, ResultsInv, [Next]_vars, NEW v \in Workers
  PROVE  WorkerOK(v)'
  <1>0. exec \in [Workers -> ExecFrames]
    BY DEF IndInv, TypeOK
  <1>1. CASE exec'[v] = exec[v]
    BY <1>1, BystandingWorker
  <1>2. CASE exec'[v].pc = "idle"
    BY <1>2, IdleWorker
  <1>3. ASSUME NEW w \in Workers, Execute(w), exec'[v] # exec[v], exec'[v].pc # "idle"
        PROVE  WorkerOK(v)'
    <2>1. v = w
      BY <1>0, <1>3 DEF Execute, Load, FailUnknownSource, Check, FinishCancelled, Claim,
         ScanReturns, ScanCancelled, ScanRaises, Retry, FinishFailed, BackoffEnds, StoreFinding,
         PublishFinding, Correlate, FinishSucceeded, FinishInterrupted, Goto, Return
    <2>2. ~Return(w)
      BY <1>0, <1>3, <2>1, IdleFrame DEF Return
    <2>3. ~(FailUnknownSource(w) \/ FinishCancelled(w) \/ FinishFailed(w) \/ FinishSucceeded(w)
            \/ FinishInterrupted(w))
      BY <2>2 DEF FailUnknownSource, FinishCancelled, FinishFailed, FinishSucceeded,
                  FinishInterrupted
    <2>4. CASE Load(w) \/ Check(w) \/ Claim(w)
      BY <2>1, <2>4, ClaimingWorker
    <2>5. CASE \/ \E n \in 0..MaxFindings : ScanReturns(w, n)
               \/ ScanCancelled(w)
               \/ \E e \in ScanErrors : ScanRaises(w, e)
               \/ Retry(w) \/ BackoffEnds(w)
               \/ StoreFinding(w) \/ PublishFinding(w) \/ Correlate(w)
      <3>1. exec[w].pc \in InAttempt
        BY <2>5 DEF ScanReturns, ScanCancelled, ScanRaises, Retry, BackoffEnds, StoreFinding,
                    PublishFinding, Correlate, At, InAttempt
      <3> QED
        BY <2>1, <2>5, <3>1, AttemptingWorker
    <2> QED
      BY <1>3, <2>3, <2>4, <2>5 DEF Execute
  <1>4. ASSUME NEW w \in Workers, NEW j \in Requests, Deliver(w, j), exec'[v] # exec[v]
        PROVE  WorkerOK(v)'
    <2>1. exec'[v].pc = "load" /\ exec'[v].done = 0
      BY <1>0, <1>4 DEF Deliver, Idle
    <2> QED
      BY <2>1 DEF WorkerOK, Unstored, PastLoad, LoopTop, InAttempt, Owns
  <1>5. ASSUME NEW w \in Workers, ExecRepositoryFails(w) \/ ExecAckLost(w) \/ Interrupt(w),
               exec'[v] # exec[v], exec'[v].pc # "idle"
        PROVE  WorkerOK(v)'
    <2>1. v = w
      BY <1>0, <1>5 DEF ExecRepositoryFails, ExecAckLost, Interrupt, Goto, Return
    <2>2. ~Return(w)
      BY <1>0, <1>5, <2>1, IdleFrame DEF Return
    <2>3. exec[w].pc \in InAttempt
      BY <1>5, <2>2 DEF ExecRepositoryFails, ExecAckLost, Interrupt, InAttempt
    <2> QED
      BY <1>5, <2>1, <2>3, AttemptingWorker
  <1>6. CASE ProcessCrash \/ \E w \in Workers : WorkerCrash(w)
    BY <1>0, <1>1, <1>2, <1>6, IdleFrame DEF ProcessCrash, WorkerCrash, Return
  <1>7. CASE exec' = exec
    BY <1>1, <1>7
  <1>8. CASE UNCHANGED vars
    BY <1>7, <1>8 DEF vars
  <1>9. CASE Next
    BY <1>1, <1>2, <1>3, <1>4, <1>5, <1>6, <1>7, <1>9
       DEF Next, Step, ReceiveScan, CreateScan, FindExisting, InsertJob, Submit, RecordDispatch,
           FailDispatch, ApiCrash, SubmitFails, ApiRepositoryFails, ApiAckLost, DiscardRevoked,
           CancelRead, CancelScan, CancelRequest, CancelRevoke, CancelCrash,
           CancelRepositoryFails, CancelAckLost, Redeliver
  <1> QED
    BY <1>8, <1>9

-----------------------------------------------------------------------------
(* Logs, results and standing verdicts *)

LEMMA InitResults == Init => ResultsInv
  <1> SUFFICES ASSUME Init PROVE ResultsInv
    OBVIOUS
  <1>1. ASSUME NEW w \in Workers PROVE WorkerOK(w)
    BY DEF Init, Idle, WorkerOK, Unstored, PastLoad, LoopTop, InAttempt
  <1>2. ASSUME NEW j \in Requests PROVE RowOK(j)
    <2>1. jobs[j] = NoJob /\ registry[j] = 0
      BY DEF Init
    <2>2. jobs[j].status = "absent" /\ ~jobs[j].cancel_requested /\ Announced(jobs[j]) = 0
      BY <2>1, NoJobRow, NoJobLog
    <2> QED
      BY <2>1, <2>2 DEF RowOK, Exists
  <1> QED
    BY <1>1, <1>2 DEF ResultsInv

LEMMA AlwaysResults == Spec => [](IndInv /\ ResultsInv)
  <1>1. IndInv /\ ResultsInv /\ [Next]_vars => ResultsInv'
    BY NextRowOK, NextWorkerOK DEF ResultsInv
  <1> QED
    BY <1>1, InitResults, Inductive, PTL DEF Spec

\* The log of every row ends, status for status, where the row is: whichever handler or
\* executor wrote the row, and whatever failed between.
THEOREM LogsExplain == Spec => []EventsExplainStatus
  <1>1. IndInv /\ ResultsInv => EventsExplainStatus
    <2> SUFFICES ASSUME IndInv, ResultsInv, NEW j \in Requests, Exists(j)
                 PROVE  LET log == jobs[j].events
                        IN  \E i \in DOMAIN log :
                              /\ log[i].status = jobs[j].status
                              /\ \A k \in DOMAIN log : k > i => log[k].status = "none"
      BY DEF EventsExplainStatus
    <2>1. Explained(jobs[j])
      BY DEF ResultsInv, RowOK
    <2>2. DOMAIN jobs[j].events = 1..Len(jobs[j].events)
      BY DEF IndInv, TypeOK, Rows
    <2> QED
      BY <2>1, <2>2 DEF Explained
  <1> QED
    BY <1>1, AlwaysResults, PTL

\* No finding is announced that is not stored, and a job that succeeded stored, announced and
\* counted the same findings: under redelivery, crashes and failing transactions.
THEOREM ResultsAreAccounted == Spec => []ResultsAccounted
  <1>1. IndInv /\ ResultsInv => ResultsAccounted
    <2> SUFFICES ASSUME IndInv, ResultsInv, NEW j \in Requests
                 PROVE  /\ FindingEvents(j) <= registry[j]
                        /\ jobs[j].status = "succeeded" =>
                             /\ FindingEvents(j) = jobs[j].result_count
                             /\ registry[j] = jobs[j].result_count
      BY DEF ResultsAccounted
    <2>1. DOMAIN jobs[j].events = 1..Len(jobs[j].events)
      BY DEF IndInv, TypeOK, Rows
    <2>2. FindingEvents(j) = Announced(jobs[j])
      BY <2>1 DEF FindingEvents, Announced
    <2> QED
      BY <2>2 DEF ResultsInv, RowOK
  <1> QED
    BY <1>1, AlwaysResults, PTL

\* A scan reported as succeeded or timed out keeps that verdict, except against a create call
\* that is still failing to record its dispatch, an executor that had read a cancellation
\* request before, or, where acknowledgements can be lost, the executor that reported the
\* success and was not told that it was written.
THEOREM VerdictsStand == Spec => ResultStands
  <1> DEFINE Stands ==
        \A j \in Requests :
          jobs[j].status \in {"succeeded", "timed_out"} /\ jobs'[j].status # jobs[j].status =>
            \/ jobs'[j].status = "failed" /\ api[j].pc = "failing"
            \/ /\ jobs'[j].status = "cancelled" /\ jobs[j].cancel_requested
               /\ \E w \in Workers : exec[w].job = j /\ exec[w].pc = "cancelling"
            \/ /\ jobs'[j].status = "failed"
               /\ \E w \in Workers : exec[w].job = j /\ Unacknowledged(w)
  <1>1. IndInv /\ ResultsInv /\ [Next]_vars => [Stands]_vars
    <2> SUFFICES ASSUME IndInv, ResultsInv, [Next]_vars, NEW j \in Requests,
                        jobs[j].status \in {"succeeded", "timed_out"},
                        jobs'[j].status # jobs[j].status
                 PROVE  \/ jobs'[j].status = "failed" /\ api[j].pc = "failing"
                        \/ /\ jobs'[j].status = "cancelled" /\ jobs[j].cancel_requested
                           /\ \E w \in Workers : exec[w].job = j /\ exec[w].pc = "cancelling"
                        \/ /\ jobs'[j].status = "failed"
                           /\ \E w \in Workers : exec[w].job = j /\ Unacknowledged(w)
      OBVIOUS
    <2>0. /\ jobs[j] \in Rows /\ jobs[j].result_count \in Nat /\ RowOK(j) /\ Exists(j)
          /\ \A w \in Workers : Owns(w, j) => Unacknowledged(w)
      BY DEF IndInv, TypeOK, Rows, ResultsInv, RowOK, Exists
    <2>1. RowWrite(j, jobs'[j])
      BY StepWrites DEF StepWrite, IndInv
    <2>2. ~Inserted(j)
      BY <2>0 DEF IndInv, RowsPrecedeUse, Inserted
    <2>3. SetDispatchId(jobs[j]).status = jobs[j].status
      BY <2>0, SetDispatchIdRow
    <2>4. RequestCancel(jobs[j]).status = jobs[j].status
      BY <2>0, RequestCancelRow DEF Exists
    <2>5. \A kind \in {"retrying", "correlation", "finding"} :
            AppendEvent(jobs[j], kind, "none").status = jobs[j].status
      BY <2>0, AppendEventRow DEF EventKinds
    <2>6. ASSUME api[j].pc = "failing",
                 jobs'[j] = Transition(jobs[j], "failed", jobs[j].result_count, "DISPATCH_FAILED")
          PROVE  jobs'[j].status = "failed"
      <3>1. ASSUME NEW row \in Rows, NEW n \in Nat, NEW s \in JobStatus, NEW e \in ErrorCodes
            PROVE  Transition(row, s, n, e).status = s
        BY TransitionRow
      <3> QED
        BY <2>0, <2>6, <3>1, Codes
    <2>7. ASSUME NEW w \in Workers, exec[w].job = j
          PROVE  /\ exec[w].pc \in InAttempt => Unacknowledged(w)
                 /\ ~Claimed(w) /\ ~Succeeding(w)
      <3>1. exec[w].pc \in InAttempt => Unacknowledged(w)
        BY <2>0, <2>7, AtWorkOwns
      <3>2. ~Claimed(w)
        <4>1. ASSUME Claimed(w) PROVE FALSE
          <5>1. exec[w].pc = "claim" /\ CanMarkRunning(jobs[j], exec[w].attempt = 1)
            BY <2>7, <4>1 DEF Claimed, Row
          <5>2. exec[w].attempt # 1
            BY <5>1 DEF CanMarkRunning
          <5>3. exec[w].attempt > 1
            BY <5>1, <5>2, ConstantsAssumption DEF IndInv, OwnershipInv, LoopTop
          <5> QED
            BY <2>0, <2>7, <5>1, <5>3 DEF Owns, LoopTop, Unacknowledged
        <4> QED
          BY <4>1
      <3> QED
        BY <3>1, <3>2 DEF Succeeding, Unacknowledged, InAttempt
    <2>8. ASSUME NEW w \in Workers, exec[w].job = j, NEW s \in JobStatus, NEW e \in ErrorCodes,
                 EndsAs(w, s), jobs'[j] = Transition(jobs[j], s, jobs[j].result_count, e)
          PROVE  \/ /\ jobs'[j].status = "cancelled" /\ jobs[j].cancel_requested
                    /\ exec[w].pc = "cancelling"
                 \/ jobs'[j].status = "failed" /\ Unacknowledged(w)
      <3>1. exec[w].pc \in {"unknown", "cancelling"} \/ Unacknowledged(w)
        BY <2>7, <2>8 DEF EndsAs, InAttempt
      <3>2. WorkerOK(w)
        BY DEF ResultsInv
      <3>3. exec[w].pc # "unknown"
        BY <2>0, <2>8, <3>2 DEF WorkerOK, RowOK
      <3>4. \/ exec[w].pc = "cancelling" /\ s = "cancelled"
            \/ Unacknowledged(w) /\ s = "failed"
        BY <2>8, <3>1, <3>3 DEF EndsAs, Unacknowledged
      <3>5. \A row \in Rows, n \in Nat : Transition(row, s, n, e).status = s
        BY TransitionRow
      <3>6. jobs'[j].status = s
        BY <2>0, <2>8, <3>5
      <3> QED
        BY <2>8, <3>2, <3>4, <3>6 DEF WorkerOK
    <2> QED
      BY <2>1, <2>2, <2>3, <2>4, <2>5, <2>6, <2>7, <2>8 DEF RowWrite
  <1>2. (Spec => [][Stands]_vars) => (Spec => ResultStands)
    BY DEF ResultStands
  <1> QED
    BY <1>1, <1>2, AlwaysResults, PTL DEF Spec

-----------------------------------------------------------------------------
(* Deliveries: no job is at two executors unless the broker delivers it again *)

\* No fault gives a job a second message: the broker does not deliver twice, and no create
\* call fails to record a dispatch, or is told so, that a worker of another process may have
\* taken.  Inline there is no broker and the handler keeps its turn, so nothing is assumed.
DeliveredOnce == Mode = "celery" => Faults \cap {"redeliver", "repository", "lost_ack"} = {}

\* A frame at work keeps its job.
FramesKeep == \A w \in Workers : exec'[w].pc # "idle" =>
                exec[w].pc # "idle" /\ exec'[w].job = exec[w].job

\* How a step moves a job between the queue and the executors.
Moves ==
  \/ FramesKeep /\ queue' \subseteq queue
  \/ \E r \in Requests : /\ api[r].pc = "submit" /\ api'[r].pc = "record"
                         /\ exec' = exec /\ queue' = queue \cup {r}
  \/ \E w \in Workers, j \in queue :
       /\ Turn(w) /\ exec[w].pc = "idle" /\ exec'[w].job = j /\ queue' = queue \ {j}
       /\ \A v \in Workers : v # w => exec'[v] = exec[v]
  \/ \E w \in Workers :
       /\ exec[w].pc # "idle" /\ exec'[w].pc = "idle" /\ queue' = queue \cup {exec[w].job}
       /\ \A v \in Workers : v # w => exec'[v] = exec[v]

LEMMA StepMoves ==
  ASSUME DeliveredOnce, TypeOK, [Next]_vars
  PROVE  Moves
  <1>0. ExecOK /\ ApiOK
    BY TypeParts
  <1>1. ASSUME exec' = exec, queue' \subseteq queue PROVE Moves
    BY <1>1 DEF Moves, FramesKeep
  <1>2. ASSUME NEW r \in Requests, Submit(r) PROVE Moves
    BY <1>0, <1>2 DEF Submit, Moves, ApiOK, ApiFrames
  <1>3. ASSUME NEW w \in Workers, NEW j \in Requests, Deliver(w, j) PROVE Moves
    <2>1. /\ Turn(w) /\ exec[w].pc = "idle" /\ j \in queue /\ queue' = queue \ {j}
          /\ exec'[w].job = j /\ \A v \in Workers : v # w => exec'[v] = exec[v]
      BY <1>0, <1>3 DEF Deliver, At, Idle, ExecOK
    <2> QED
      BY <2>1 DEF Moves
  <1>4. ASSUME NEW w \in Workers, WorkerCrash(w) PROVE Moves
    <2>1. /\ exec[w].pc # "idle" /\ exec'[w].pc = "idle" /\ queue' = queue \cup {exec[w].job}
          /\ \A v \in Workers : v # w => exec'[v] = exec[v]
      BY <1>0, <1>4, IdleFrame DEF WorkerCrash, Return, ExecOK
    <2> QED
      BY <2>1 DEF Moves
  <1>5. ASSUME NEW w \in Workers, Execute(w) PROVE Moves
    <2>1. queue' = queue
      BY <1>5 DEF Execute, Load, FailUnknownSource, Check, FinishCancelled, Claim,
         ScanReturns, ScanCancelled, ScanRaises, Retry, FinishFailed, BackoffEnds, StoreFinding,
         PublishFinding, Correlate, FinishSucceeded, FinishInterrupted
    <2>2. FramesKeep
      BY <1>0, <1>5, ExecuteKeepsJob DEF FramesKeep
    <2> QED
      BY <2>1, <2>2 DEF Moves
  <1>6. ASSUME NEW w \in Workers, ExecRepositoryFails(w) \/ ExecAckLost(w) \/ Interrupt(w)
        PROVE  Moves
    <2>1. FramesKeep
      <3>1. \A v \in Workers : v # w => exec'[v] = exec[v]
        BY <1>0, <1>6 DEF ExecRepositoryFails, ExecAckLost, Interrupt, Return, Goto, ExecOK
      <3>2. exec[w].pc # "idle"
        BY <1>6 DEF ExecRepositoryFails, ExecAckLost, Interrupt
      <3>3. CASE Return(w)
        BY <1>0, <3>1, <3>3, IdleFrame DEF Return, ExecOK, FramesKeep
      <3>4. CASE ~Return(w)
        BY <1>0, <1>6, <3>1, <3>2, <3>4
           DEF ExecRepositoryFails, ExecAckLost, Interrupt, Goto, ExecOK, ExecFrames, FramesKeep
      <3> QED
        BY <3>3, <3>4
    <2> QED
      BY <1>6, <2>1 DEF Moves, ExecRepositoryFails, ExecAckLost, Interrupt
  <1>7. CASE ProcessCrash
    BY <1>7, IdleFrame DEF ProcessCrash, Moves, FramesKeep
  <1>8. CASE UNCHANGED vars
    BY <1>1, <1>8 DEF vars
  <1>9. ASSUME NEW w \in Workers PROVE ~Redeliver(w)
    BY DEF Redeliver, Fault, DeliveredOnce
  <1>10. ASSUME NEW r \in Requests,
                \/ \E t \in Tenants, s \in Sources, k \in Keys \cup {NoKey, BadKey} : ReceiveScan(r, t, s, k)
                \/ CreateScan(r) \/ ApiCrash(r) \/ SubmitFails(r) \/ ApiRepositoryFails(r)
                \/ ApiAckLost(r) \/ DiscardRevoked(r)
         PROVE  Moves
    BY <1>1, <1>2, <1>10
       DEF ReceiveScan, CreateScan, FindExisting, InsertJob, RecordDispatch, FailDispatch,
           ApiCrash, SubmitFails, ApiRepositoryFails, ApiAckLost, DiscardRevoked
  <1>11. ASSUME NEW c \in Cancels,
                \/ \E j \in Requests : CancelRead(c, j)
                \/ CancelScan(c) \/ CancelCrash(c) \/ CancelRepositoryFails(c) \/ CancelAckLost(c)
         PROVE  Moves
    BY <1>1, <1>11
       DEF CancelRead, CancelScan, CancelRequest, CancelRevoke, CancelCrash,
           CancelRepositoryFails, CancelAckLost
  <1>12. CASE Next
    BY <1>3, <1>4, <1>5, <1>6, <1>7, <1>9, <1>10, <1>11, <1>12 DEF Next, Step
  <1> QED
    BY <1>8, <1>12

\* What leads a create call to record its dispatch, or to report that it failed.
Dispatched(r) ==
  /\ api'[r].pc = "failing" =>
       \/ api[r].pc = "failing"
       \/ api[r].pc = "submit" /\ exec' = exec /\ queue' = queue /\ "publish" \in Faults
       \/ /\ api[r].pc = "record" /\ exec' = exec /\ queue' = queue
          /\ Faults \cap {"repository", "lost_ack"} # {}
  /\ api'[r].pc = "record" => api[r].pc = "record" \/ (api[r].pc = "submit" /\ exec' = exec)

\* Only a failed publish, or a repository that fails to record the dispatch or is heard to,
\* leads to the failing branch; only a submit leads to recording it.
LEMMA StepDispatch ==
  ASSUME TypeOK, [Next]_vars, NEW r \in Requests
  PROVE  Dispatched(r)
  <1>0. api \in [Requests -> ApiFrames]
    BY TypeParts DEF ApiOK
  <1>1. ASSUME api' = api PROVE Dispatched(r)
    BY <1>1 DEF Dispatched
  <1>2. ASSUME NEW q \in Requests, NEW t \in Tenants, NEW s \in Sources,
               NEW k \in Keys \cup {NoKey, BadKey}, ReceiveScan(q, t, s, k)
        PROVE  Dispatched(r)
    BY <1>0, <1>2 DEF ReceiveScan, Dispatched
  <1>3. ASSUME NEW q \in Requests, CreateScan(q) PROVE Dispatched(r)
    <2>1. ASSUME NEW j, NEW code, Answer(q, j, code) PROVE Dispatched(r)
      BY <1>0, <2>1 DEF Answer, ApiFrames, Dispatched
    <2>2. ASSUME NEW pc \in {"insert", "submit"}, api' = [api EXCEPT ![q].pc = pc]
          PROVE  Dispatched(r)
      BY <1>0, <2>2 DEF ApiFrames, Dispatched
    <2>3. CASE FindExisting(q)
      BY <2>1, <2>2, <2>3 DEF FindExisting
    <2>4. CASE InsertJob(q)
      BY <2>1, <2>2, <2>4 DEF InsertJob
    <2>5. CASE Submit(q)
      BY <1>0, <2>5 DEF Submit, ApiFrames, Dispatched
    <2>6. CASE RecordDispatch(q) \/ FailDispatch(q)
      BY <2>1, <2>6 DEF RecordDispatch, FailDispatch
    <2> QED
      BY <1>3, <2>3, <2>4, <2>5, <2>6 DEF CreateScan
  <1>4. ASSUME NEW q \in Requests, ApiCrash(q) PROVE Dispatched(r)
    BY <1>0, <1>4 DEF ApiCrash, Died, ApiFrames, Dispatched
  <1>5. ASSUME NEW q \in Requests, SubmitFails(q) PROVE Dispatched(r)
    BY <1>0, <1>5 DEF SubmitFails, Fault, ApiFrames, Dispatched
  <1>6. ASSUME NEW q \in Requests, ApiRepositoryFails(q) PROVE Dispatched(r)
    BY <1>0, <1>6 DEF ApiRepositoryFails, Fault, ApiFrames, Dispatched
  <1>7. ASSUME NEW q \in Requests, ApiAckLost(q) PROVE Dispatched(r)
    BY <1>0, <1>7 DEF ApiAckLost, Fault, ApiFrames, Dispatched
  <1>8. CASE ProcessCrash
    BY <1>0, <1>8 DEF ProcessCrash, Died, ApiFrames, Dispatched
  <1>9. ASSUME NEW w \in Workers, Execute(w) PROVE api' = api
    BY <1>9 DEF Execute, Load, FailUnknownSource, Check, FinishCancelled, Claim,
       ScanReturns, ScanCancelled, ScanRaises, Retry, FinishFailed, BackoffEnds, StoreFinding,
       PublishFinding, Correlate, FinishSucceeded, FinishInterrupted
  <1>10. CASE UNCHANGED vars
    BY <1>1, <1>10 DEF vars
  <1>11. CASE Next
    <2>1. \/ api' = api
          \/ \E q \in Requests :
               \/ \E t \in Tenants, s \in Sources, k \in Keys \cup {NoKey, BadKey} : ReceiveScan(q, t, s, k)
               \/ CreateScan(q) \/ ApiCrash(q) \/ SubmitFails(q) \/ ApiRepositoryFails(q)
               \/ ApiAckLost(q)
          \/ ProcessCrash
      BY <1>9, <1>11
         DEF Next, Step, DiscardRevoked, CancelRead, CancelScan, CancelRequest, CancelRevoke,
             CancelCrash, CancelRepositoryFails, CancelAckLost, Deliver, WorkerCrash, Redeliver,
             ExecRepositoryFails, ExecAckLost, Interrupt
    <2>2. CASE \E q \in Requests : \E t \in Tenants, s \in Sources, k \in Keys \cup {NoKey, BadKey} :
                 ReceiveScan(q, t, s, k)
      BY <1>2, <2>2
    <2>3. CASE \E q \in Requests : \/ CreateScan(q) \/ ApiCrash(q) \/ SubmitFails(q)
                                   \/ ApiRepositoryFails(q) \/ ApiAckLost(q)
      BY <1>3, <1>4, <1>5, <1>6, <1>7, <2>3
    <2> QED
      BY <1>1, <1>8, <2>1, <2>2, <2>3
  <1> QED
    BY <1>10, <1>11

\* On one event loop, a process that takes a step leaves nobody else in the middle of one.
LEMMA OneTurn ==
  ASSUME TypeOK, Mode = "inline", NEW p, Turn(p),
         \A r \in Requests : r # p => api'[r] = api[r],
         \A c \in Cancels : c # p => cancel'[c] = cancel[c],
         \A w \in Workers : w # p => exec'[w] = exec[w]
  PROVE  \A q, r \in Running' : q = r
  <1>1. Running' \subseteq Running \cup {p}
    BY DEF Running
  <1> QED
    BY <1>1 DEF Turn

LEMMA StepTurn ==
  ASSUME TypeOK, [Next]_vars, Mode = "inline", \A p, q \in Running : p = q
  PROVE  \A p, q \in Running' : p = q
  <1>0. ApiOK /\ CancelOK /\ ExecOK
    BY TypeParts
  <1>1. ASSUME api' = api, cancel' = cancel, exec' = exec PROVE Running' = Running
    BY <1>1 DEF Running
  <1>2. CASE UNCHANGED vars
    BY <1>1, <1>2 DEF vars
  <1>3. ASSUME NEW r \in Requests,
               \/ \E t \in Tenants, s \in Sources, k \in Keys \cup {NoKey, BadKey} : ReceiveScan(r, t, s, k)
               \/ CreateScan(r) \/ SubmitFails(r) \/ ApiRepositoryFails(r) \/ ApiAckLost(r)
        PROVE  \A p, q \in Running' : p = q
    <2>1. /\ Turn(r) /\ cancel' = cancel /\ exec' = exec
          /\ \A q \in Requests : q # r => api'[q] = api[q]
      BY <1>0, <1>3 DEF ReceiveScan, CreateScan, FindExisting, InsertJob, Submit, RecordDispatch,
         FailDispatch, SubmitFails, ApiRepositoryFails, ApiAckLost, Answer, ApiOK
    <2> QED
      BY <2>1, OneTurn
  <1>4. ASSUME NEW c \in Cancels,
               \/ CancelScan(c) \/ CancelRepositoryFails(c) \/ CancelAckLost(c)
               \/ \E j \in Requests : CancelRead(c, j)
        PROVE  \A p, q \in Running' : p = q
    <2>1. /\ Turn(c) /\ api' = api /\ exec' = exec
          /\ \A q \in Cancels : q # c => cancel'[q] = cancel[q]
      BY <1>0, <1>4 DEF CancelScan, CancelRead, CancelRequest, CancelRevoke,
         CancelRepositoryFails, CancelAckLost, CancelOK
    <2> QED
      BY <2>1, OneTurn
  <1>5. ASSUME NEW w \in Workers,
               \/ Execute(w) \/ ExecRepositoryFails(w) \/ ExecAckLost(w) \/ Interrupt(w)
               \/ \E j \in Requests : Deliver(w, j)
        PROVE  \A p, q \in Running' : p = q
    <2>1. /\ Turn(w) /\ api' = api /\ cancel' = cancel
          /\ \A q \in Workers : q # w => exec'[q] = exec[q]
      BY <1>0, <1>5 DEF Execute, Load, FailUnknownSource, Check, FinishCancelled, Claim,
         ScanReturns, ScanCancelled, ScanRaises, Retry, FinishFailed, BackoffEnds, StoreFinding,
         PublishFinding, Correlate, FinishSucceeded, FinishInterrupted, ExecRepositoryFails,
         ExecAckLost, Interrupt, Deliver, At, Goto, Return, ExecOK
    <2> QED
      BY <2>1, OneTurn
  <1>6. CASE ProcessCrash
    <2>1. Running' = {}
      BY <1>6, IdleFrame DEF ProcessCrash, Died, Running, ApiRunning, CancelRunning, ExecSuspended
    <2> QED
      BY <2>1
  <1>7. CASE Next
    <2>1. \/ \E r \in Requests : DiscardRevoked(r)
          \/ \E r \in Requests :
               \/ \E t \in Tenants, s \in Sources, k \in Keys \cup {NoKey, BadKey} : ReceiveScan(r, t, s, k)
               \/ CreateScan(r) \/ SubmitFails(r) \/ ApiRepositoryFails(r) \/ ApiAckLost(r)
          \/ \E c \in Cancels : \/ CancelScan(c) \/ CancelRepositoryFails(c) \/ CancelAckLost(c)
                                \/ \E j \in Requests : CancelRead(c, j)
          \/ \E w \in Workers : \/ Execute(w) \/ ExecRepositoryFails(w) \/ ExecAckLost(w)
                                \/ Interrupt(w) \/ \E j \in Requests : Deliver(w, j)
          \/ ProcessCrash
      BY <1>7 DEF Next, Step, ApiCrash, CancelCrash, WorkerCrash, Redeliver
    <2> QED
      BY <1>1, <1>3, <1>4, <1>5, <1>6, <2>1 DEF DiscardRevoked
  <1> QED
    BY <1>2, <1>7

\* A process takes no step while another, of the same event loop, is in the middle of one.
LEMMA NotInBetween ==
  ASSUME Mode = "inline", NEW p, Turn(p), NEW r \in Requests, p \in Workers \cup Cancels
  PROVE  api[r].pc \notin ApiRunning
  BY ConstantsAssumption DEF Turn, Running

\* A create call has given its job no message before it submits it.
LEMMA BeforeSubmit ==
  ASSUME IndInv, [Next]_vars, NEW r \in Requests,
         api'[r].pc \in {"new", "find", "insert", "submit"}
  PROVE  api[r].pc \in {"new", "find", "insert", "submit"}
  <1>1. ApiEffect(r) /\ api \in [Requests -> ApiFrames]
    BY StepApiEffect DEF IndInv, TypeOK
  <1>2. Inserted(r) => api[r].pc = "insert"
    BY DEF Inserted, InsertJob
  <1> QED
    BY <1>1, <1>2 DEF ApiEffect, ApiFrames

\* No step gives a job to a second executor.
LEMMA NextAlone ==
  ASSUME DeliveredOnce, IndInv, DeliveryInv, [Next]_vars, NEW w \in Workers,
         exec'[w].pc # "idle"
  PROVE  Alone(w)' /\ exec'[w].job \notin queue'
  <1>1. Moves /\ exec \in [Workers -> ExecFrames]
    BY StepMoves DEF IndInv, TypeOK
  <1>2. \A v \in Workers : exec[v].pc # "idle" => Alone(v) /\ exec[v].job \notin queue
    BY DEF DeliveryInv
  <1>3. CASE FramesKeep /\ queue' \subseteq queue
    BY <1>2, <1>3 DEF FramesKeep, Alone
  <1>4. ASSUME NEW r \in Requests, api[r].pc = "submit", exec' = exec, queue' = queue \cup {r}
        PROVE  Alone(w)' /\ exec'[w].job \notin queue'
    BY <1>2, <1>4 DEF DeliveryInv, Unworked, Alone
  <1>5. ASSUME NEW v \in Workers, NEW j \in queue, exec[v].pc = "idle",
               exec'[v].job = j, queue' = queue \ {j},
               \A u \in Workers : u # v => exec'[u] = exec[u]
        PROVE  Alone(w)' /\ exec'[w].job \notin queue'
    BY <1>2, <1>5 DEF Alone
  <1>6. ASSUME NEW v \in Workers, exec[v].pc # "idle", exec'[v].pc = "idle",
               queue' = queue \cup {exec[v].job}, \A u \in Workers : u # v => exec'[u] = exec[u]
        PROVE  Alone(w)' /\ exec'[w].job \notin queue'
    BY <1>2, <1>6 DEF Alone
  <1> QED
    BY <1>1, <1>3, <1>4, <1>5, <1>6 DEF Moves

\* A job that is not delivered stays at nobody.
LEMMA StaysUnworked ==
  ASSUME DeliveredOnce, IndInv, DeliveryInv, [Next]_vars, NEW r \in Requests, Unworked(r),
         \A w \in Workers : Turn(w) => r \notin queue
  PROVE  Unworked(r)'
  <1>1. Moves
    BY StepMoves DEF IndInv
  <1> QED
    BY <1>1 DEF Moves, FramesKeep, Unworked

\* Before its submit a job is neither queued nor at an executor.
LEMMA NextUnsubmitted ==
  ASSUME DeliveredOnce, IndInv, DeliveryInv, [Next]_vars, NEW r \in Requests,
         api'[r].pc \in {"new", "find", "insert", "submit"}
  PROVE  r \notin queue' /\ Unworked(r)'
  <1>1. api[r].pc \in {"new", "find", "insert", "submit"}
    BY BeforeSubmit
  <1>2. r \notin queue /\ Unworked(r)
    BY <1>1 DEF DeliveryInv
  <1>3. Moves
    BY StepMoves DEF IndInv
  <1>4. r \notin queue'
    BY <1>2, <1>3, ConstantsAssumption DEF Moves, Unworked
  <1> QED
    BY <1>2, <1>4, StaysUnworked

\* A create call that fails to dispatch, or inline one that records its dispatch, is ahead of
\* every executor.
LEMMA NextUndispatched ==
  ASSUME DeliveredOnce, IndInv, DeliveryInv, [Next]_vars, NEW r \in Requests,
         api'[r].pc = "failing" \/ (Mode = "inline" /\ api'[r].pc = "record")
  PROVE  Unworked(r)' /\ (Mode = "celery" => r \notin queue')
  <1>1. Moves /\ Dispatched(r)
    BY StepMoves, StepDispatch DEF IndInv
  <1>2. Mode = "celery" /\ api'[r].pc = "failing" =>
          /\ api[r].pc \in {"submit", "failing"}
          /\ api[r].pc = "submit" => exec' = exec /\ queue' = queue
    BY <1>1 DEF Dispatched, DeliveredOnce
  <1>3. CASE Mode = "celery"
    <2>1. r \notin queue /\ Unworked(r)
      BY <1>2, <1>3 DEF DeliveryInv
    <2>2. Unworked(r)'
      BY <2>1, StaysUnworked
    <2>3. r \notin queue'
      BY <1>1, <1>2, <1>3, <2>1 DEF Moves, Unworked
    <2> QED
      BY <2>2, <2>3
  <1>4. CASE Mode = "inline"
    <2>1. api[r].pc \in {"submit", "record", "failing"}
      BY <1>1 DEF Dispatched
    <2>2. Unworked(r)
      BY <1>4, <2>1 DEF DeliveryInv
    <2>3. \A w \in Workers : ~Turn(w)
      BY <1>4, <2>1, NotInBetween DEF ApiRunning
    <2> QED
      BY <1>4, <2>2, <2>3, StaysUnworked
  <1> QED
    BY <1>3, <1>4, ConstantsAssumption

\* An owned job stays "running" until its only executor returns, or is not told that the
\* success it reported was written.
LEMMA NextOwned ==
  ASSUME IndInv, ResultsInv, DeliveryInv, [Next]_vars, NEW w \in Workers, NEW j \in Requests,
         Owns(w, j)'
  PROVE  jobs'[j].status = "running" \/ Unacknowledged(w)'
  <1>0. Owns(w, j)' => exec'[w].job = j /\ exec'[w].pc # "idle"
    BY DEF Owns, InAttempt, LoopTop
  <1>1. CASE ~Owns(w, j)
    BY <1>1, OwnsBack
  <1>2. CASE Owns(w, j) /\ jobs'[j].status = jobs[j].status
    <2>1. CASE jobs[j].status = "running"
      BY <1>2, <2>1
    <2>2. CASE Unacknowledged(w)
      <3>1. Caught(w)
        BY <1>0, <2>2, UnacknowledgedStays
      <3>2. jobs[j].status = "succeeded"
        BY <1>2, <2>2 DEF Unacknowledged, Row, Owns
      <3> QED
        BY <1>0, <1>2, <3>1, <3>2 DEF Caught, Unacknowledged, Row
    <2> QED
      BY <1>2, <2>1, <2>2 DEF DeliveryInv
  <1>3. CASE Owns(w, j) /\ jobs'[j].status # jobs[j].status
    <2>1. /\ exec[w].job = j /\ exec[w].pc # "idle" /\ exec'[w].pc # "idle"
          /\ jobs[j] \in Rows /\ jobs[j].status \notin {"absent", "queued"}
      BY <1>0, <1>3 DEF Owns, InAttempt, LoopTop, IndInv, TypeOK, OwnershipInv
    <2>2. RowWrite(j, jobs'[j])
      BY <1>3, StepWrites DEF StepWrite, IndInv
    <2>3. ~Inserted(j)
      BY <2>1 DEF IndInv, RowsPrecedeUse, Inserted, Exists
    <2>4. api[j].pc # "failing"
      BY <2>1 DEF DeliveryInv, Unworked
    <2>5. \A v \in Workers : exec[v].job = j /\ exec[v].pc # "idle" => v = w
      BY <2>1 DEF DeliveryInv, Alone
    <2>6. \A v \in Workers : exec[v].job = j => ~Returned(v)
      BY <2>1, <2>5 DEF Returned
    <2>7. /\ SetDispatchId(jobs[j]).status = jobs[j].status
          /\ RequestCancel(jobs[j]).status = jobs[j].status
          /\ MarkRunning(jobs[j]).status = "running"
      BY <2>1, SetDispatchIdRow, RequestCancelRow, MarkRunningRow
    <2>8. \A kind \in {"retrying", "correlation", "finding"} :
            AppendEvent(jobs[j], kind, "none").status = jobs[j].status
      BY <2>1, AppendEventRow DEF EventKinds
    <2>9. ASSUME NEW v \in Workers, exec[v].job = j, Succeeding(v),
                 jobs'[j] = Transition(jobs[j], "succeeded", exec[v].found, "none")
          PROVE  Unacknowledged(w)'
      <3>1. v = w /\ Caught(w)
        BY <2>5, <2>6, <2>9 DEF Succeeding
      <3>2. jobs'[j].status = "succeeded"
        <4>1. ASSUME NEW row \in Rows, NEW n \in Nat, NEW s \in JobStatus, NEW e \in ErrorCodes
              PROVE  Transition(row, s, n, e).status = s
          BY TransitionRow
        <4>2. exec[v].found \in Nat
          BY DEF IndInv, TypeOK, ExecFrames
        <4> QED
          BY <2>1, <2>9, <4>1, <4>2, Codes
      <3> QED
        BY <1>0, <3>1, <3>2 DEF Caught, Unacknowledged, Row
    <2> QED
      BY <1>3, <2>2, <2>3, <2>4, <2>6, <2>7, <2>8, <2>9 DEF RowWrite
  <1> QED
    BY <1>1, <1>2, <1>3

LEMMA NextDelivery ==
  ASSUME DeliveredOnce, IndInv, ResultsInv, DeliveryInv, [Next]_vars
  PROVE  DeliveryInv'
  <1>1. Mode = "inline" => \A p, q \in Running' : p = q
    BY StepTurn DEF DeliveryInv, IndInv
  <1>2. \A w \in Workers : exec'[w].pc # "idle" => Alone(w)' /\ exec'[w].job \notin queue'
    BY NextAlone
  <1>3. \A r \in Requests : api'[r].pc \in {"new", "find", "insert", "submit"} =>
          r \notin queue' /\ Unworked(r)'
    BY NextUnsubmitted
  <1>4. \A r \in Requests : api'[r].pc = "failing" \/ (Mode = "inline" /\ api'[r].pc = "record") =>
          Unworked(r)' /\ (Mode = "celery" => r \notin queue')
    BY NextUndispatched
  <1>5. \A w \in Workers, j \in Requests : Owns(w, j)' =>
          jobs'[j].status = "running" \/ Unacknowledged(w)'
    BY NextOwned
  <1> QED
    BY <1>1, <1>2, <1>3, <1>4, <1>5 DEF DeliveryInv

LEMMA InitDelivery == Init => DeliveryInv
  <1> SUFFICES ASSUME Init PROVE DeliveryInv
    OBVIOUS
  <1>1. /\ queue = {} /\ \A w \in Workers : exec[w].pc = "idle"
        /\ \A r \in Requests : api[r].pc = "new"
        /\ \A c \in Cancels : cancel[c].pc = "new"
    BY DEF Init, Idle, NewCall, NewCancel
  <1>2. Running = {}
    BY <1>1 DEF Running, ApiRunning, CancelRunning, ExecSuspended
  <1> QED
    BY <1>1, <1>2 DEF DeliveryInv, Unworked, Owns, InAttempt, LoopTop

LEMMA AlwaysDelivery ==
  ASSUME DeliveredOnce
  PROVE  Spec => [](IndInv /\ ResultsInv /\ DeliveryInv)
  <1>1. IndInv /\ ResultsInv /\ DeliveryInv /\ [Next]_vars => DeliveryInv'
    BY NextDelivery
  <1> QED
    BY <1>1, InitDelivery, AlwaysResults, PTL DEF Spec

\* When the broker delivers a job once, a terminal job is really over: whatever crashes,
\* cancellations and failed publishes there are, no executor still scans, stores or retries
\* for it.  Inline that also takes in failing and unacknowledged repository calls: the
\* executor that was not told of its own success is the only one left.
THEOREM TerminalMeansOver ==
  ASSUME DeliveredOnce
  PROVE  Spec => []TerminalIsQuiet
  <1>1. DeliveryInv => TerminalIsQuiet
    BY DEF DeliveryInv, TerminalIsQuiet, Terminal
  <1> QED
    BY <1>1, AlwaysDelivery, PTL

-----------------------------------------------------------------------------
(* The contract *)

\* In separate processes, the contract also takes a dispatch that does not fail and workers
\* that have an adapter for every source the API accepts: a job cancelled while its dispatch
\* fails, or while its worker is about to refuse its source, is reported twice.
ContractAssumption ==
  /\ DeliveredOnce
  /\ Mode = "celery" => "publish" \notin Faults /\ GatewaySources \subseteq WorkerSources

\* Where an executor comes from that checks the row, refuses its source or honours a
\* cancellation.
LEMMA StepEnters ==
  ASSUME IndInv, [Next]_vars, NEW w \in Workers,
         exec'[w].pc \in {"check", "cancelling", "unknown"}, exec'[w].pc # exec[w].pc
  PROVE  Load(w) \/ Check(w) \/ BackoffEnds(w)
  <1>0. exec \in [Workers -> ExecFrames]
    BY DEF IndInv, TypeOK
  <1>1. ASSUME NEW v \in Workers, Return(v) PROVE FALSE
    BY <1>0, <1>1, IdleFrame DEF Return
  <1>2. ASSUME NEW v \in Workers, Execute(v) PROVE Load(w) \/ Check(w) \/ BackoffEnds(w)
    <2>1. v = w
      BY <1>0, <1>2 DEF Execute, Load, FailUnknownSource, Check, FinishCancelled, Claim,
         ScanReturns, ScanCancelled, ScanRaises, Retry, FinishFailed, BackoffEnds, StoreFinding,
         PublishFinding, Correlate, FinishSucceeded, FinishInterrupted, Goto, Return
    <2>2. ~(FailUnknownSource(w) \/ FinishCancelled(w) \/ FinishFailed(w) \/ FinishSucceeded(w)
            \/ FinishInterrupted(w))
      BY <1>1 DEF FailUnknownSource, FinishCancelled, FinishFailed, FinishSucceeded,
                  FinishInterrupted
    <2>3. ~Claim(w)
      BY <1>0, <1>1 DEF Claim, Goto, ExecFrames
    <2>4. ~(ScanCancelled(w) \/ Retry(w) \/ StoreFinding(w) \/ Correlate(w))
      BY <1>0 DEF ScanCancelled, Retry, StoreFinding, Correlate, Goto, ExecFrames
    <2>5. ~PublishFinding(w)
      BY <1>0 DEF PublishFinding, ExecFrames
    <2>6. \A n : ~ScanReturns(w, n)
      BY <1>0 DEF ScanReturns, ExecFrames
    <2>7. \A e : ~ScanRaises(w, e)
      BY <1>0 DEF ScanRaises, ExecFrames
    <2> QED
      BY <1>2, <2>1, <2>2, <2>3, <2>4, <2>5, <2>6, <2>7 DEF Execute
  <1>3. ASSUME NEW v \in Workers, NEW j \in Requests, Deliver(v, j) PROVE FALSE
    BY <1>0, <1>3 DEF Deliver, Idle
  <1>4. ASSUME NEW v \in Workers,
               WorkerCrash(v) \/ ExecRepositoryFails(v) \/ ExecAckLost(v) \/ Interrupt(v)
        PROVE  FALSE
    <2>1. ~WorkerCrash(v)
      BY <1>1 DEF WorkerCrash
    <2>2. ~ExecRepositoryFails(v)
      BY <1>0, <1>1 DEF ExecRepositoryFails, ExecFrames
    <2>3. ~ExecAckLost(v)
      BY <1>0, <1>1 DEF ExecAckLost, ExecFrames
    <2>4. ~Interrupt(v)
      BY <1>0, <1>1 DEF Interrupt, Goto, ExecFrames
    <2> QED
      BY <1>4, <2>1, <2>2, <2>3, <2>4
  <1>5. ~ProcessCrash
    BY IdleFrame DEF ProcessCrash
  <1>6. exec' # exec
    OBVIOUS
  <1> QED
    BY <1>2, <1>3, <1>4, <1>5, <1>6
       DEF Next, Step, vars, ReceiveScan, CreateScan, FindExisting, InsertJob, Submit, RecordDispatch,
           FailDispatch, ApiCrash, SubmitFails, ApiRepositoryFails, ApiAckLost, DiscardRevoked,
           CancelRead, CancelScan, CancelRequest, CancelRevoke, CancelCrash,
           CancelRepositoryFails, CancelAckLost, Redeliver

\* A create call at work has a source with an adapter in the API process, and keeps it.
Sourced(r) ==
  api'[r].pc \in ApiRunning =>
    \/ api[r].pc \in ApiRunning /\ api'[r].source = api[r].source
    \/ api'[r].source \in GatewaySources

LEMMA StepSource ==
  ASSUME IndInv, [Next]_vars, NEW r \in Requests
  PROVE  Sourced(r)
  <1>0. api \in [Requests -> ApiFrames]
    BY DEF IndInv, TypeOK
  <1>1. CASE api'[r] = api[r]
    BY <1>1 DEF Sourced
  <1>2. ASSUME NEW q \in Requests, NEW t \in Tenants, NEW s \in Sources,
               NEW k \in Keys \cup {NoKey, BadKey}, ReceiveScan(q, t, s, k), api'[r] # api[r]
        PROVE  Sourced(r)
    <2>1. /\ q = r /\ api'[r].source = s
          /\ api'[r].pc \in ApiRunning => s \in GatewaySources
      <3>1. q = r
        BY <1>0, <1>2 DEF ReceiveScan
      <3>2. api'[r].source = s
        BY <1>0, <1>2, <3>1 DEF ReceiveScan
      <3>3. s \notin GatewaySources => api'[r].pc = "done"
        BY <1>0, <1>2, <3>1 DEF ReceiveScan
      <3> QED
        BY <3>1, <3>2, <3>3 DEF ApiRunning
    <2> QED
      BY <2>1 DEF Sourced
  <1>3. ASSUME NEW q \in Requests,
               CreateScan(q) \/ SubmitFails(q) \/ ApiRepositoryFails(q) \/ ApiAckLost(q),
               api'[r] # api[r]
        PROVE  Sourced(r)
    <2>1. CASE FindExisting(q) \/ InsertJob(q)
      <3>1. api[q].pc \in ApiRunning
        BY <2>1 DEF FindExisting, InsertJob, ApiRunning
      <3>2. \/ \E j \in Requests : Answer(q, j, "existing")
            \/ api' = [api EXCEPT ![q].pc = "insert"]
            \/ api' = [api EXCEPT ![q].pc = "submit"]
        BY <2>1 DEF FindExisting, InsertJob
      <3>3. q = r
        BY <1>0, <1>3, <3>2 DEF Answer
      <3>4. ASSUME NEW j \in Requests, Answer(q, j, "existing") PROVE api'[q].source = api[q].source
        BY <1>0, <3>4 DEF Answer, ApiFrames
      <3>5. ASSUME NEW pc, api' = [api EXCEPT ![q].pc = pc] PROVE api'[q].source = api[q].source
        BY <1>0, <3>5 DEF ApiFrames
      <3> QED
        BY <3>1, <3>2, <3>3, <3>4, <3>5 DEF Sourced
    <2>2. CASE Submit(q) \/ RecordDispatch(q) \/ FailDispatch(q)
      <3>1. q = r /\ api[r].pc \in ApiRunning /\ api'[r].source = api[r].source
        BY <1>0, <1>3, <2>2 DEF Submit, RecordDispatch, FailDispatch, Answer, ApiRunning, ApiFrames
      <3> QED
        BY <3>1 DEF Sourced
    <2>3. CASE SubmitFails(q) \/ ApiRepositoryFails(q) \/ ApiAckLost(q)
      <3>1. q = r /\ api[r].pc \in ApiRunning /\ api'[r].source = api[r].source
        BY <1>0, <1>3, <2>3 DEF SubmitFails, ApiRepositoryFails, ApiAckLost, ApiRunning, ApiFrames
      <3> QED
        BY <3>1 DEF Sourced
    <2> QED
      BY <1>3, <2>1, <2>2, <2>3 DEF CreateScan
  <1>4. ASSUME NEW q \in Requests, ApiCrash(q) PROVE Sourced(r)
    BY <1>0, <1>4 DEF ApiCrash, Died, Sourced, ApiRunning, ApiFrames
  <1>5. CASE ProcessCrash
    BY <1>0, <1>5 DEF ProcessCrash, Died, Sourced, ApiRunning, ApiFrames
  <1>6. ASSUME NEW w \in Workers, Execute(w) PROVE api' = api
    BY <1>6 DEF Execute, Load, FailUnknownSource, Check, FinishCancelled, Claim,
       ScanReturns, ScanCancelled, ScanRaises, Retry, FinishFailed, BackoffEnds, StoreFinding,
       PublishFinding, Correlate, FinishSucceeded, FinishInterrupted
  <1>7. CASE UNCHANGED vars
    BY <1>1, <1>7 DEF vars
  <1>8. CASE Next
    <2>1. \/ api' = api
          \/ \E q \in Requests :
               \/ \E t \in Tenants, s \in Sources, k \in Keys \cup {NoKey, BadKey} : ReceiveScan(q, t, s, k)
               \/ CreateScan(q) \/ ApiCrash(q) \/ SubmitFails(q) \/ ApiRepositoryFails(q)
               \/ ApiAckLost(q)
          \/ ProcessCrash
      BY <1>6, <1>8
         DEF Next, Step, DiscardRevoked, CancelRead, CancelScan, CancelRequest, CancelRevoke,
             CancelCrash, CancelRepositoryFails, CancelAckLost, Deliver, WorkerCrash, Redeliver,
             ExecRepositoryFails, ExecAckLost, Interrupt
    <2> QED
      BY <1>1, <1>2, <1>3, <1>4, <1>5, <2>1
  <1> QED
    BY <1>7, <1>8

\* Every row has a source with an adapter in the API process.
LEMMA NextSources ==
  ASSUME IndInv, ResultsInv, ContractInv, [Next]_vars, NEW r \in Requests
  PROVE  /\ api'[r].pc \in ApiRunning => api'[r].source \in GatewaySources
         /\ Exists(r)' => jobs'[r].source \in GatewaySources
  <1>1. api'[r].pc \in ApiRunning => api'[r].source \in GatewaySources
    BY StepSource DEF Sourced, ContractInv
  <1>2. CASE Exists(r)
    BY <1>1, <1>2, RowKeeps DEF ContractInv
  <1>3. CASE ~Exists(r) /\ Exists(r)'
    <2>1. Inserted(r) /\ jobs \in [Requests -> Rows]
      BY <1>3, RowsAppear DEF IndInv, TypeOK
    <2>2. /\ api[r].tenant \in Tenants /\ api[r].source \in Sources /\ api[r].pc \in ApiRunning
          /\ api[r].key \in Keys \cup {NoKey}
      BY <2>1 DEF Inserted, InsertJob, ApiRunning, IndInv, TypeOK
    <2>3. jobs'[r] = NewJob(api[r].tenant, api[r].source, api[r].key)
      BY <2>1 DEF Inserted
    <2>4. ASSUME NEW t \in Tenants, NEW s \in Sources, NEW k \in Keys \cup {NoKey}
          PROVE  NewJob(t, s, k).source = s
      BY NewJobLog
    <2>5. jobs'[r].source = api[r].source
      BY <2>2, <2>3, <2>4
    <2> QED
      BY <1>1, <2>2, <2>5 DEF ContractInv
  <1> QED
    BY <1>1, <1>2, <1>3

\* While an executor that owns nothing works on a job, the row's status changes only by a
\* cancellation of a queued job, or by the executor's own step.
LEMMA StatusMoves ==
  ASSUME IndInv, DeliveryInv, [Next]_vars, NEW w \in Workers, NEW j \in Requests,
         exec[w].pc # "idle", exec'[w].pc \notin {"idle", "scan", "raised"}, exec[w].job = j
  PROVE  \/ jobs'[j].status = jobs[j].status
         \/ /\ jobs[j].status = "queued" /\ jobs'[j].status = "cancelled"
            /\ \E c \in Cancels : Turn(c)
  <1>0. jobs[j] \in Rows /\ jobs[j].status # "absent" /\ ~Unworked(j) /\ Alone(w)
        /\ exec \in [Workers -> ExecFrames]
    BY DEF IndInv, TypeOK, RowsPrecedeUse, Exists, Unworked, DeliveryInv
  <1>1. CASE jobs'[j] = jobs[j]
    BY <1>1
  <1>2. CASE jobs'[j] # jobs[j]
    <2>1. RowWrite(j, jobs'[j])
      BY <1>2, StepWrites DEF StepWrite, IndInv
    <2>2. ~Inserted(j) /\ api[j].pc # "failing"
      BY <1>0 DEF IndInv, RowsPrecedeUse, Inserted, Exists, DeliveryInv
    <2>3. \A v \in Workers : exec[v].job = j => ~Returned(v) /\ ~Claimed(v) /\ ~Succeeding(v)
      <3>1. \A v \in Workers : exec[v].job = j /\ exec[v].pc # "idle" => v = w
        BY <1>0 DEF Alone
      <3>2. ~Returned(w) /\ ~Succeeding(w)
        BY DEF Returned, Succeeding, Caught
      <3>3. ~Claimed(w)
        <4>1. exec' = [exec EXCEPT ![w].pc = "scan"] => exec'[w].pc = "scan"
          BY <1>0 DEF ExecFrames
        <4>2. Return(w) => exec'[w].pc = "idle"
          BY <1>0, IdleFrame DEF Return
        <4> QED
          BY <4>1, <4>2 DEF Claimed
      <3>4. \A v \in Workers : Returned(v) \/ Claimed(v) \/ Succeeding(v) => exec[v].pc # "idle"
        BY DEF Returned, Claimed, Succeeding
      <3> QED
        BY <3>1, <3>2, <3>3, <3>4
    <2>4. SetDispatchId(jobs[j]).status = jobs[j].status
      BY <1>0, SetDispatchIdRow
    <2>5. RequestCancel(jobs[j]).status
            = IF jobs[j].status = "queued" THEN "cancelled" ELSE jobs[j].status
      BY <1>0, RequestCancelRow
    <2>6. \A kind \in {"retrying", "correlation", "finding"} :
            AppendEvent(jobs[j], kind, "none").status = jobs[j].status
      BY <1>0, AppendEventRow DEF EventKinds
    <2> QED
      BY <2>1, <2>2, <2>3, <2>4, <2>5, <2>6 DEF RowWrite
  <1> QED
    BY <1>1, <1>2

\* What an executor that owns nothing has read of the row still holds when it acts on it.
LEMMA NextReads ==
  ASSUME ContractAssumption, IndInv, ResultsInv, DeliveryInv, ContractInv, [Next]_vars,
         NEW w \in Workers
  PROVE  /\ exec'[w].pc = "cancelling" => jobs'[exec'[w].job].status = "running"
         /\ exec'[w].pc = "check" =>
              jobs'[exec'[w].job].status \in {"queued", "running", "cancelled"}
         /\ exec'[w].pc = "unknown" => jobs'[exec'[w].job].status \in {"queued", "running"}
  <1> DEFINE j == exec[w].job
  <1>0. exec \in [Workers -> ExecFrames]
    BY DEF IndInv, TypeOK
  <1>1. CASE exec'[w].pc \in {"check", "cancelling", "unknown"} /\ exec'[w].pc = exec[w].pc
    <2>1. exec[w].pc # "idle" /\ exec'[w].job = j /\ j \in Requests
      <3>1. FrameEffect(w)
        BY StepFrameEffect DEF IndInv
      <3>2. exec'[w] = exec[w] \/ exec'[w].job = j \/ exec'[w].pc = "unknown"
        BY <1>1, <3>1 DEF FrameEffect, Moved, Claimed, Claim, At
      <3>3. Moves
        BY StepMoves DEF IndInv, ContractAssumption
      <3>4. exec'[w].job = j
        BY <1>1, <3>3 DEF Moves, FramesKeep
      <3> QED
        BY <1>1, <3>4 DEF IndInv, TypeOK
    <2>2. \/ jobs'[j].status = jobs[j].status
          \/ /\ jobs[j].status = "queued" /\ jobs'[j].status = "cancelled"
             /\ \E c \in Cancels : Turn(c)
      BY <1>1, <2>1, StatusMoves
    <2>3. exec[w].pc = "unknown" => ~\E c \in Cancels : Turn(c)
      <3>1. exec[w].pc = "unknown" => jobs[j].source \in GatewaySources \ WorkerSources
        BY <2>1 DEF IndInv, RowsPrecedeUse, ResultsInv, WorkerOK, ContractInv
      <3>2. exec[w].pc = "unknown" => Mode = "inline"
        BY <3>1, ConstantsAssumption DEF ContractAssumption
      <3> QED
        BY <3>2, ConstantsAssumption DEF Turn, Running, ExecSuspended
    <2> QED
      BY <1>1, <2>1, <2>2, <2>3 DEF ContractInv
  <1>2. CASE exec'[w].pc \in {"check", "cancelling", "unknown"} /\ exec'[w].pc # exec[w].pc
    <2>1. Load(w) \/ Check(w) \/ BackoffEnds(w)
      BY <1>2, StepEnters
    <2>2. exec[w].pc \in {"load", "check", "backoff"} /\ jobs' = jobs /\ j \in Requests
      BY <2>1 DEF Load, Check, BackoffEnds, At, IndInv, TypeOK
    <2>3. exec'[w].job = j
      BY <1>0, <1>2, <2>1, IdleFrame DEF Load, Check, BackoffEnds, Goto, Return, ExecFrames
    <2>4. jobs[j].status \in RowStatus \ {"absent"}
      BY <2>2 DEF IndInv, TypeOK, Rows, RowsPrecedeUse, Exists
    <2>5. CASE Load(w)
      <3>1. ~Terminal(jobs[j].status) /\ exec'[w].pc # "cancelling"
        <4>1. ~Return(w)
          BY <1>0, <1>2, IdleFrame DEF Return
        <4>2. ~Terminal(Row(w).status)
          BY <2>5, <4>1 DEF Load
        <4>3. exec'[w].pc # "cancelling"
          BY <1>0, <2>5, <4>1 DEF Load, Goto, ExecFrames
        <4> QED
          BY <4>2, <4>3 DEF Row
      <3> QED
        BY <2>2, <2>3, <2>4, <3>1 DEF RowStatus, JobStatus, Terminal
    <2>6. CASE Check(w)
      <3>1. /\ exec[w].pc = "check" /\ jobs[j].status # "cancelled" /\ jobs[j].cancel_requested
            /\ exec'[w].pc = "cancelling"
        <4>1. ~Return(w)
          BY <1>0, <1>2, IdleFrame DEF Return
        <4>2. ~Goto(w, "claim")
          BY <1>0, <1>2 DEF Goto, ExecFrames
        <4>3. /\ exec[w].pc = "check" /\ Row(w).status # "cancelled" /\ Row(w).cancel_requested
              /\ Goto(w, "cancelling")
          BY <2>6, <4>1, <4>2 DEF Check, At
        <4>4. exec'[w].pc = "cancelling"
          BY <1>0, <4>3 DEF Goto, ExecFrames
        <4> QED
          BY <4>3, <4>4 DEF Row
      <3>2. jobs[j].status # "queued"
        BY <2>2, <3>1 DEF ResultsInv, RowOK
      <3>3. jobs[j].status \in {"queued", "running", "cancelled"}
        BY <3>1 DEF ContractInv
      <3> QED
        BY <2>2, <2>3, <3>1, <3>2, <3>3
    <2>7. CASE BackoffEnds(w)
      <3>1. exec[w].pc = "backoff" /\ exec'[w].pc = "check"
        BY <1>0, <2>7 DEF BackoffEnds, At
      <3>2. jobs[j].status = "running"
        BY <2>2, <3>1, AtWorkOwns DEF InAttempt, DeliveryInv, Unacknowledged
      <3> QED
        BY <2>2, <2>3, <3>1, <3>2
    <2> QED
      BY <2>1, <2>5, <2>6, <2>7
  <1> QED
    BY <1>1, <1>2

\* Inline, a job is still queued when its create call ends, however the dispatch went.
LEMMA NextInlineQueued ==
  ASSUME ContractAssumption, IndInv, ResultsInv, DeliveryInv, ContractInv, [Next]_vars,
         NEW r \in Requests, Mode = "inline", api'[r].pc \in {"submit", "record", "failing"}
  PROVE  jobs'[r].status = "queued"
  <1>0. api \in [Requests -> ApiFrames] /\ jobs \in [Requests -> Rows] /\ ApiEffect(r)
    BY StepApiEffect DEF IndInv, TypeOK
  <1>1. CASE Inserted(r)
    <2>1. /\ api[r].tenant \in Tenants /\ api[r].source \in Sources
          /\ api[r].key \in Keys \cup {NoKey}
      BY <1>1 DEF Inserted, InsertJob, ApiRunning, IndInv, TypeOK
    <2>2. jobs'[r] = NewJob(api[r].tenant, api[r].source, api[r].key)
      BY <1>0, <1>1 DEF Inserted
    <2> QED
      BY <2>1, <2>2, NewJobRow
  <1>2. CASE ~Inserted(r)
    <2>1. api[r].pc \in {"submit", "record", "failing"}
      BY <1>0, <1>2 DEF ApiEffect, ApiFrames
    <2>2. jobs[r].status = "queued" /\ Unworked(r) /\ jobs[r] \in Rows
      BY <1>0, <2>1 DEF ContractInv, DeliveryInv
    <2>3. \A c \in Cancels : ~Turn(c)
      BY <2>1, NotInBetween DEF ApiRunning
    <2>4. \A w \in Workers : exec[w].job = r =>
            /\ ~Returned(w) /\ ~Claimed(w) /\ ~Succeeding(w) /\ ~Publishing(w)
            /\ exec[w].pc \notin {"raised", "correlate"}
      BY <2>2 DEF Unworked, Returned, Claimed, Succeeding, Publishing
    <2>5. SetDispatchId(jobs[r]).status = "queued"
      BY <2>2, SetDispatchIdRow
    <2>6. CASE jobs'[r] = jobs[r]
      BY <2>2, <2>6
    <2>7. CASE jobs'[r] # jobs[r]
      <3>1. RowWrite(r, jobs'[r])
        BY <2>7, StepWrites DEF StepWrite, IndInv
      <3> QED
        BY <1>2, <2>3, <2>4, <2>5, <3>1 DEF RowWrite
    <2> QED
      BY <2>6, <2>7
  <1> QED
    BY <1>1, <1>2

LEMMA NextContract ==
  ASSUME ContractAssumption, IndInv, ResultsInv, DeliveryInv, ContractInv, [Next]_vars
  PROVE  ContractInv'
  <1>1. \A w \in Workers :
          /\ exec'[w].pc = "cancelling" => jobs'[exec'[w].job].status = "running"
          /\ exec'[w].pc = "check" =>
               jobs'[exec'[w].job].status \in {"queued", "running", "cancelled"}
          /\ exec'[w].pc = "unknown" => jobs'[exec'[w].job].status \in {"queued", "running"}
    BY NextReads
  <1>2. \A r \in Requests : Mode = "inline" /\ api'[r].pc \in {"submit", "record", "failing"} =>
          jobs'[r].status = "queued"
    BY NextInlineQueued
  <1>3. \A r \in Requests : /\ api'[r].pc \in ApiRunning => api'[r].source \in GatewaySources
                            /\ Exists(r)' => jobs'[r].source \in GatewaySources
    BY NextSources
  <1>4. ASSUME NEW r \in Requests, api'[r].pc = "failing" PROVE Mode = "inline"
    BY <1>4, StepDispatch, ConstantsAssumption
       DEF Dispatched, IndInv, ContractInv, ContractAssumption, DeliveredOnce
  <1> QED
    BY <1>1, <1>2, <1>3, <1>4 DEF ContractInv, Exists

LEMMA InitContract == Init => ContractInv
  <1> SUFFICES ASSUME Init PROVE ContractInv
    OBVIOUS
  <1>1. /\ \A w \in Workers : exec[w].pc = "idle"
        /\ \A r \in Requests : api[r].pc = "new"
        /\ \A r \in Requests : jobs[r].status = "absent"
    BY NoJobRow DEF Init, Idle, NewCall
  <1> QED
    BY <1>1 DEF ContractInv, ApiRunning, Exists

LEMMA AlwaysContract ==
  ASSUME ContractAssumption
  PROVE  Spec => [](IndInv /\ ResultsInv /\ DeliveryInv /\ ContractInv)
  <1>1. DeliveredOnce
    BY DEF ContractAssumption
  <1>2. IndInv /\ ResultsInv /\ DeliveryInv /\ ContractInv /\ [Next]_vars => ContractInv'
    BY NextContract
  <1> QED
    BY <1>1, <1>2, InitContract, AlwaysDelivery, PTL DEF Spec

\* The moves of the contract, as a relation between a row's status and its next one.
Allowed(from, to) ==
  \/ from = to
  \/ from = "absent" /\ to = "queued"
  \/ from = "queued" /\ to \in {"running", "failed", "cancelled"}
  \/ from = "running" /\ to \in {"succeeded", "failed", "cancelled", "timed_out"}
  \/ from = "succeeded" /\ to = "failed" /\ "lost_ack" \in Faults

\* A create call that reports a failed dispatch finds its job still queued.
LEMMA HandlerMoves ==
  ASSUME IndInv, ContractInv, NEW j \in Requests, NEW row \in Rows,
         \/ Inserted(j) /\ row = NewJob(api[j].tenant, api[j].source, api[j].key)
         \/ api[j].pc = "record" /\ row = SetDispatchId(jobs[j])
         \/ /\ api[j].pc = "failing"
            /\ row = Transition(jobs[j], "failed", jobs[j].result_count, "DISPATCH_FAILED")
         \/ Exists(j) /\ row = RequestCancel(jobs[j])
  PROVE  Allowed(jobs[j].status, row.status)
  <1>0. jobs[j] \in Rows /\ jobs[j].result_count \in Nat
    BY DEF IndInv, TypeOK, Rows
  <1>1. CASE Inserted(j) /\ row = NewJob(api[j].tenant, api[j].source, api[j].key)
    <2>1. /\ api[j].tenant \in Tenants /\ api[j].source \in Sources
          /\ api[j].key \in Keys \cup {NoKey} /\ jobs[j].status = "absent"
      BY <1>1 DEF Inserted, InsertJob, ApiRunning, IndInv, TypeOK, RowsPrecedeUse, Exists
    <2>2. row.status = "queued"
      BY <1>1, <2>1, NewJobRow
    <2> QED
      BY <2>1, <2>2 DEF Allowed
  <1>2. CASE api[j].pc = "record" /\ row = SetDispatchId(jobs[j])
    BY <1>0, <1>2, SetDispatchIdRow DEF Allowed
  <1>3. CASE /\ api[j].pc = "failing"
             /\ row = Transition(jobs[j], "failed", jobs[j].result_count, "DISPATCH_FAILED")
    <2>1. jobs[j].status = "queued"
      BY <1>3 DEF ContractInv
    <2>2. row.status = "failed"
      <3>1. ASSUME NEW old \in Rows, NEW n \in Nat, NEW s \in JobStatus, NEW e \in ErrorCodes
            PROVE  Transition(old, s, n, e).status = s
        BY TransitionRow
      <3> QED
        BY <1>0, <1>3, <3>1, Codes
    <2> QED
      BY <2>1, <2>2 DEF Allowed
  <1>4. CASE Exists(j) /\ row = RequestCancel(jobs[j])
    BY <1>0, <1>4, RequestCancelRow DEF Allowed, Exists
  <1> QED
    BY <1>1, <1>2, <1>3, <1>4

\* An executor claims a queued job, or again a running one it owns; it ends a job it owns, or
\* one it has just read as it must be; it takes back the success it was not told of.
LEMMA ExecutorMoves ==
  ASSUME IndInv, DeliveryInv, ContractInv, NEW w \in Workers, NEW row \in Rows, NEW j \in Requests,
         exec[w].job = j,
         \/ Claimed(w) /\ row = MarkRunning(jobs[j])
         \/ \E s \in JobStatus, e \in ErrorCodes :
              EndsAs(w, s) /\ row = Transition(jobs[j], s, jobs[j].result_count, e)
         \/ Succeeding(w) /\ row = Transition(jobs[j], "succeeded", exec[w].found, "none")
         \/ \E kind \in {"retrying", "correlation", "finding"} : row = AppendEvent(jobs[j], kind, "none")
  PROVE  Allowed(jobs[j].status, row.status)
  <1>0. jobs[j] \in Rows /\ jobs[j].result_count \in Nat /\ exec[w].found \in Nat
    BY DEF IndInv, TypeOK, Rows, ExecFrames
  <1>1. CASE Claimed(w) /\ row = MarkRunning(jobs[j])
    <2>1. jobs[j].status \in {"queued", "running"}
      BY <1>1 DEF Claimed, CanMarkRunning, Row
    <2>2. row.status = "running"
      BY <1>0, <1>1, MarkRunningRow
    <2> QED
      BY <2>1, <2>2 DEF Allowed
  <1>2. ASSUME NEW s \in JobStatus, NEW e \in ErrorCodes, EndsAs(w, s),
               row = Transition(jobs[j], s, jobs[j].result_count, e)
        PROVE  Allowed(jobs[j].status, row.status)
    <2>1. row.status = s
      BY <1>0, <1>2, TransitionRow
    <2>2. CASE exec[w].pc = "unknown" /\ s = "failed"
      BY <2>1, <2>2 DEF ContractInv, Allowed
    <2>3. CASE exec[w].pc = "cancelling" /\ s = "cancelled"
      BY <2>1, <2>3 DEF ContractInv, Allowed
    <2>4. CASE exec[w].pc \in {"teardown", "interrupted", "raised"}
      <3>1. Owns(w, j)
        BY <2>4 DEF Owns, InAttempt
      <3>2. s \in {"failed", "cancelled", "timed_out"}
        BY <1>2 DEF EndsAs
      <3>3. CASE jobs[j].status = "running"
        BY <2>1, <3>2, <3>3 DEF Allowed
      <3>4. CASE Unacknowledged(w)
        <4>1. jobs[j].status = "succeeded" /\ s = "failed" /\ "lost_ack" \in Faults
          BY <1>2, <3>4 DEF Unacknowledged, Row, EndsAs
        <4> QED
          BY <2>1, <4>1 DEF Allowed
      <3> QED
        BY <3>1, <3>3, <3>4 DEF DeliveryInv
    <2> QED
      BY <1>2, <2>2, <2>3, <2>4 DEF EndsAs
  <1>3. CASE Succeeding(w) /\ row = Transition(jobs[j], "succeeded", exec[w].found, "none")
    <2>1. Owns(w, j)
      BY <1>3 DEF Succeeding, Owns, InAttempt
    <2>2. jobs[j].status = "running"
      BY <1>3, <2>1 DEF DeliveryInv, Succeeding, Unacknowledged
    <2>3. row.status = "succeeded"
      <3>1. ASSUME NEW old \in Rows, NEW n \in Nat, NEW s \in JobStatus, NEW e \in ErrorCodes
            PROVE  Transition(old, s, n, e).status = s
        BY TransitionRow
      <3> QED
        BY <1>0, <1>3, <3>1, Codes
    <2> QED
      BY <2>2, <2>3 DEF Allowed
  <1>4. ASSUME NEW kind \in {"retrying", "correlation", "finding"},
               row = AppendEvent(jobs[j], kind, "none")
        PROVE  Allowed(jobs[j].status, row.status)
    <2>1. kind \in EventKinds
      BY DEF EventKinds
    <2> QED
      BY <1>0, <1>4, <2>1, AppendEventRow DEF Allowed
  <1> QED
    BY <1>1, <1>2, <1>3, <1>4

LEMMA StepAllowed ==
  ASSUME IndInv, IndInv', DeliveryInv, ContractInv, NEW j \in Requests, RowWrite(j, jobs'[j])
  PROVE  Allowed(jobs[j].status, jobs'[j].status)
  <1>0. PICK row \in Rows : row = jobs'[j]
    BY DEF IndInv, TypeOK
  <1>1. RowWrite(j, row)
    BY <1>0
  <1>2. CASE \E c \in Cancels : /\ cancel[c].pc = "request" /\ cancel[c].job = j
                                /\ row = RequestCancel(jobs[j])
    <2>1. Exists(j)
      BY <1>2 DEF IndInv, RowsPrecedeUse
    <2> QED
      BY <1>0, <1>2, <2>1, HandlerMoves
  <1>3. CASE \/ Inserted(j) /\ row = NewJob(api[j].tenant, api[j].source, api[j].key)
             \/ api[j].pc = "record" /\ row = SetDispatchId(jobs[j])
             \/ /\ api[j].pc = "failing"
                /\ row = Transition(jobs[j], "failed", jobs[j].result_count, "DISPATCH_FAILED")
    BY <1>0, <1>3, HandlerMoves
  <1>4. ASSUME NEW w \in Workers, exec[w].job = j,
               \/ Claimed(w) /\ row = MarkRunning(jobs[j])
               \/ \E s \in JobStatus, e \in ErrorCodes :
                    EndsAs(w, s) /\ row = Transition(jobs[j], s, jobs[j].result_count, e)
               \/ Succeeding(w) /\ row = Transition(jobs[j], "succeeded", exec[w].found, "none")
               \/ \E kind \in {"retrying", "correlation", "finding"} :
                    row = AppendEvent(jobs[j], kind, "none")
        PROVE  Allowed(jobs[j].status, row.status)
    BY <1>4, ExecutorMoves
  <1>5. ASSUME NEW w \in Workers, exec[w].job = j,
               \/ Claimed(w) /\ row = MarkRunning(jobs[j])
               \/ \E s \in JobStatus, e \in ErrorCodes :
                    EndsAs(w, s) /\ row = Transition(jobs[j], s, jobs[j].result_count, e)
               \/ Succeeding(w) /\ row = Transition(jobs[j], "succeeded", exec[w].found, "none")
               \/ \E kind \in {"retrying", "correlation"} : row = AppendEvent(jobs[j], kind, "none")
               \/ row = AppendEvent(jobs[j], "finding", "none")
        PROVE  Allowed(jobs[j].status, row.status)
    <2>1. CASE \E kind \in {"retrying", "correlation"} : row = AppendEvent(jobs[j], kind, "none")
      <3>1. \E kind \in {"retrying", "correlation", "finding"} : row = AppendEvent(jobs[j], kind, "none")
        BY <2>1
      <3> QED
        BY <1>4, <1>5, <3>1
    <2>2. CASE row = AppendEvent(jobs[j], "finding", "none")
      <3>1. \E kind \in {"retrying", "correlation", "finding"} : row = AppendEvent(jobs[j], kind, "none")
        BY <2>2
      <3> QED
        BY <1>4, <1>5, <3>1
    <2>3. CASE \/ Claimed(w) /\ row = MarkRunning(jobs[j])
               \/ \E s \in JobStatus, e \in ErrorCodes :
                    EndsAs(w, s) /\ row = Transition(jobs[j], s, jobs[j].result_count, e)
               \/ Succeeding(w) /\ row = Transition(jobs[j], "succeeded", exec[w].found, "none")
      BY <1>4, <1>5, <2>3
    <2> QED
      BY <1>5, <2>1, <2>2, <2>3
  <1>6. Allowed(jobs[j].status, row.status)
    <2>1. \/ Inserted(j) /\ row = NewJob(api[j].tenant, api[j].source, api[j].key)
          \/ api[j].pc = "record" /\ row = SetDispatchId(jobs[j])
          \/ /\ api[j].pc = "failing"
             /\ row = Transition(jobs[j], "failed", jobs[j].result_count, "DISPATCH_FAILED")
          \/ \E c \in Cancels : /\ cancel[c].pc = "request" /\ cancel[c].job = j
                                /\ row = RequestCancel(jobs[j])
          \/ \E w \in Workers :
               /\ exec[w].job = j
               /\ \/ Claimed(w) /\ row = MarkRunning(jobs[j])
                  \/ \E s \in JobStatus, e \in ErrorCodes :
                       EndsAs(w, s) /\ row = Transition(jobs[j], s, jobs[j].result_count, e)
                  \/ Succeeding(w) /\ row = Transition(jobs[j], "succeeded", exec[w].found, "none")
                  \/ \E kind \in {"retrying", "correlation"} :
                       row = AppendEvent(jobs[j], kind, "none")
                  \/ row = AppendEvent(jobs[j], "finding", "none")
      BY <1>1, Zenon DEF RowWrite
    <2>2. CASE \E w \in Workers :
               /\ exec[w].job = j
               /\ \/ Claimed(w) /\ row = MarkRunning(jobs[j])
                  \/ \E s \in JobStatus, e \in ErrorCodes :
                       EndsAs(w, s) /\ row = Transition(jobs[j], s, jobs[j].result_count, e)
                  \/ Succeeding(w) /\ row = Transition(jobs[j], "succeeded", exec[w].found, "none")
                  \/ \E kind \in {"retrying", "correlation"} :
                       row = AppendEvent(jobs[j], kind, "none")
                  \/ row = AppendEvent(jobs[j], "finding", "none")
      BY <1>5, <2>2, Zenon
    <2> QED
      BY <1>0, <1>2, <1>3, <2>1, <2>2, Zenon
  <1> QED
    BY <1>0, <1>6

\* A step that rewrites one row is a move of the contract or leaves every status.
LEMMA StepContract ==
  ASSUME IndInv, IndInv', DeliveryInv, ContractInv, [Next]_vars
  PROVE  [Contract!ContractNext]_[j \in Requests |-> jobs[j].status]
  <1> DEFINE status == [j \in Requests |-> jobs[j].status]
             next == [j \in Requests |-> jobs'[j].status]
  <1>1. CASE jobs' = jobs
    BY <1>1
  <1>2. ASSUME NEW j \in Requests, RowWrite(j, jobs'[j]), \A i \in Requests : i # j => jobs'[i] = jobs[i]
        PROVE  Contract!ContractNext \/ next = status
    <2>1. Allowed(jobs[j].status, jobs'[j].status)
      BY <1>2, StepAllowed
    <2>2. next = [status EXCEPT ![j] = jobs'[j].status]
      BY <1>2
    <2>3. status[j] = jobs[j].status
      OBVIOUS
    <2>4. jobs'[j].status = jobs[j].status => next = status
      BY <1>2
    <2> DEFINE to == jobs'[j].status
               from == jobs[j].status
    <2> HIDE DEF status, next, to, from
    <2>5. Allowed(from, to) /\ next = [status EXCEPT ![j] = to] /\ status[j] = from
      BY <2>1, <2>2, <2>3 DEF to, from
    <2>6. CASE from = to
      BY <2>4, <2>6 DEF to, from
    <2>7. CASE from = "absent" /\ to = "queued"
      <3>1. Contract!Accept(j)
        BY <2>5, <2>7 DEF Contract!Accept, Contract!Move, status, next
      <3> QED
        BY <3>1 DEF Contract!ContractNext
    <2>8. CASE from = "queued" /\ to \in {"running", "failed", "cancelled"}
      <3>1. Contract!Start(j) \/ Contract!Drop(j)
        BY <2>5, <2>8 DEF Contract!Start, Contract!Drop, Contract!Move, status, next
      <3> QED
        BY <3>1 DEF Contract!ContractNext
    <2>9. CASE from = "running" /\ to \in {"succeeded", "failed", "cancelled", "timed_out"}
      <3>1. Contract!Finish(j)
        BY <2>5, <2>9 DEF Contract!Finish, Contract!Ended, Contract!Move, status, next
      <3> QED
        BY <3>1 DEF Contract!ContractNext
    <2>10. CASE from = "succeeded" /\ to = "failed" /\ "lost_ack" \in Faults
      <3>1. Contract!Retract(j)
        BY <2>5, <2>10 DEF Contract!Retract, Contract!Move, status, next
      <3> QED
        BY <3>1 DEF Contract!ContractNext
    <2> QED
      BY <2>5, <2>6, <2>7, <2>8, <2>9, <2>10 DEF Allowed
  <1> QED
    BY <1>1, <1>2, StepWrites DEF StepWrite, IndInv

\* The statuses a client reads move as the contract says: whatever crashes, cancellations and
\* retries there are, a job is accepted once, runs at most one stretch and ends at most once,
\* only a success whose commit was not acknowledged being taken back.
THEOREM KeepsContract ==
  ASSUME ContractAssumption
  PROVE  Spec => RefinesContract
  <1>1. Init => Contract!ContractInit
    BY NoJobRow DEF Init, Contract!ContractInit
  <1>2. /\ IndInv /\ ResultsInv /\ DeliveryInv /\ ContractInv /\ [Next]_vars
        /\ (IndInv /\ ResultsInv /\ DeliveryInv /\ ContractInv)'
        => [Contract!ContractNext]_[j \in Requests |-> jobs[j].status]
    BY StepContract
  <1> QED
    BY <1>1, <1>2, AlwaysContract, PTL DEF Spec, RefinesContract, Contract!ContractSpec

=============================================================================
