----------------------------- MODULE LegacyMigration ------------------------------
(***************************************************************************)
(* The import of a stopped inline gateway's SQLite file into the relational *)
(* database, while the new gateway may already serve from it.               *)
(*                                                                         *)
(* LegacySQLiteMigrator.run(apply=True) is one READ COMMITTED transaction:   *)
(* each of its statements sees what is committed by then and what it wrote  *)
(* itself, a unique key that someone else committed meanwhile fails it, and  *)
(* whoever wants a key it has written waits for it to end.  The operator     *)
(* runs it again after a failure, a crash, or a success.                    *)
(***************************************************************************)
EXTENDS LegacyRegistry

CONSTANTS JobIds,
          Keys,
          LegacyJobs,  \* possible job tables
          NewJob,      \* the id of a job that the new gateway creates
          MaxImports,  \* bound: times the import is run
          MaxWrites,   \* bound: transactions of the new gateway
          Moved        \* bound: tenants that report to the new gateway

Jobs == [id : JobIds, tenant : Tenants, key : Keys \cup {None},
         status : {"queued", "running", "succeeded", "failed", "cancelled", "timed_out"},
         events : Nat]

SameKey(j, k) == j.key # None /\ j.tenant = k.tenant /\ j.key = k.key

\* A job table has one row per id and key; the new gateway draws an id that is not in use.
ASSUME MigrationAssumption ==
  /\ \A table \in LegacyJobs :
       /\ table \subseteq Jobs /\ IsFiniteSet(table)
       /\ \A j, k \in table : j.id = k.id \/ SameKey(j, k) => j = k
       /\ \A j \in table : j.id # NewJob
  /\ NewJob \in JobIds
  /\ MaxImports \in Nat /\ MaxWrites \in Nat /\ Moved \subseteq Tenants

VARIABLES jobs,     \* the legacy job table, once the gateway has stopped
          stopped,  \* the legacy gateway has stopped; its file is read-only
          target,   \* the relational database
          imp,      \* the running import's transaction
          imports, writes,
          done      \* an import has committed

vars == <<legacyVars, jobs, stopped, target, imp, imports, writes, done>>

Nothing == [tenants |-> {}, jobs |-> {}, events |-> {}, rows |-> {}, correlations |-> {},
            audits |-> {}]

\* left: the legacy findings it has yet to read; new: what it has written; ids: what it knows
\* of legacy finding ids; quiet: nothing else was committed since it began.
NoImport == [pc |-> "none", left |-> {}, new |-> Nothing, ids |-> {}, quiet |-> TRUE]

Init ==
  /\ LegacyInit
  /\ jobs = {} /\ stopped = FALSE
  /\ target = Nothing /\ imp = NoImport
  /\ imports = 0 /\ writes = 0 /\ done = FALSE

\* The legacy gateway stops; the tenants' feeds, and the counts of its run, end with it.
Stop ==
  /\ ~stopped /\ stopped' = TRUE
  /\ jobs' \in LegacyJobs
  /\ sub' = [u \in Subscribers |-> NoFeed] /\ published' = [t \in Tenants |-> 0]
  /\ reports' = 0
  /\ UNCHANGED <<findings, correlations, target, imp, imports, writes, done>>

Serve == ~stopped /\ LegacyNext /\ UNCHANGED <<jobs, stopped, target, imp, imports, writes, done>>

-----------------------------------------------------------------------------
(* LegacySQLiteMigrator.run *)

SourceTenants == {row.tenant : row \in findings \cup correlations \cup jobs}

Active == imp.pc \in {"tenants", "jobs", "findings", "insert", "commit"}

Import(frame) == imp' = frame /\ UNCHANGED <<legacyVars, jobs, stopped, target, imports, writes, done>>

Fail == Import([NoImport EXCEPT !.pc = "failed", !.quiet = imp.quiet])

\* session.get of each tenant; the missing ones are added to the session.
Begin ==
  /\ stopped /\ ~Active /\ imports < MaxImports /\ imports' = imports + 1
  /\ imp' = [NoImport EXCEPT !.pc = "tenants", !.left = findings,
                            !.new.tenants = SourceTenants \ target.tenants]
  /\ UNCHANGED <<legacyVars, jobs, stopped, target, writes, done>>

\* session.flush inserts them; one that the gateway has committed meanwhile refuses it.
FlushTenants ==
  /\ imp.pc = "tenants"
  /\ IF imp.new.tenants \cap target.tenants # {} THEN Fail
     ELSE Import([imp EXCEPT !.pc = "jobs"])

EventsOf(job) == {<<job.id, s>> : s \in 1..job.events}

KeyTaken(new) == \E j \in new, k \in target.jobs : SameKey(j, k)

\* Mutant: a job that was imported before is inserted again.
ImportJobsAgain ==
  /\ imp.pc = "jobs"
  /\ IF KeyTaken(jobs) THEN Fail
     ELSE Import([imp EXCEPT !.pc = "findings", !.new.jobs = jobs,
                             !.new.events = (UNION {EventsOf(j) : j \in jobs}) \ target.events])

\* _import_jobs and _import_job_events: known ids and known sequence numbers are skipped;
\* the unique index of (tenant_id, idempotency_key) refuses a job whose key is taken.
ImportJobs ==
  LET new == {j \in jobs : \A k \in target.jobs : k.id # j.id}
  IN  /\ imp.pc = "jobs"
      /\ IF KeyTaken(new) THEN Fail
         ELSE Import([imp EXCEPT !.pc = "findings", !.new.jobs = new,
                                 !.new.events = (UNION {EventsOf(j) : j \in jobs}) \ target.events])

SameFingerprint(row, r) == r.tenant = row.tenant /\ r.fingerprint = row.finding.fingerprint

SameId(row, r) == r.tenant = row.tenant /\ r.finding_id = row.finding.id

Known(row, finding_id) == {<<row.tenant, row.finding.id, finding_id>>}

\* ORDER BY seq
Oldest(rows) == CHOOSE row \in rows : \A r \in rows : row.seq <= r.seq

\* _import_findings: a fingerprint that is there already, imported or not, is skipped and
\* its id remembered; a known id under another fingerprint is an error.
LookupFinding ==
  LET row == Oldest(imp.left)
      visible == target.rows \cup imp.new.rows
  IN  /\ imp.pc = "findings" /\ imp.left # {}
      /\ \/ \E r \in visible : /\ SameFingerprint(row, r)
                               /\ Import([imp EXCEPT !.left = @ \ {row},
                                                      !.ids = @ \cup Known(row, r.finding_id)])
         \/ /\ \A r \in visible : ~SameFingerprint(row, r)
            /\ IF \E r \in visible : SameId(row, r) THEN Fail
               ELSE Import([imp EXCEPT !.pc = "insert"])

Imported(row) ==
  [tenant |-> row.tenant, fingerprint |-> row.finding.fingerprint, finding_id |-> row.finding.id,
   occurrences |-> 1, status |-> "open"]

\* The INSERT is flushed by the next query, and refused if either key was taken meanwhile.
InsertFinding ==
  LET row == Oldest(imp.left)
  IN  /\ imp.pc = "insert"
      /\ IF \E r \in target.rows : SameFingerprint(row, r) \/ SameId(row, r) THEN Fail
         ELSE Import([imp EXCEPT !.pc = "findings", !.left = @ \ {row},
                                 !.ids = @ \cup Known(row, row.finding.id),
                                 !.new.rows = @ \cup {Imported(row)}])

\* Mutant: the ids of the payload are linked as they are.
MappedUnchanged(tenant, finding_id) == finding_id

\* finding_ids.get((tenant_id, finding_id), finding_id)
Mapped(tenant, finding_id) ==
  IF \E k \in imp.ids : k[1] = tenant /\ k[2] = finding_id
    THEN (CHOOSE k \in imp.ids : k[1] = tenant /\ k[2] = finding_id)[3]
    ELSE finding_id

\* The correlation's id is a hash of its tenant, seq and payload.  dict.fromkeys: a finding
\* is linked once however many ids of the payload it has.
ImportedCorrelation(c) ==
  [id |-> c, links |-> {Mapped(c.tenant, finding_id) : finding_id \in c.findings}]

ImportCorrelations ==
  LET new == {c \in correlations : \A d \in target.correlations : d.id # c}
  IN  /\ imp.pc = "findings" /\ imp.left = {}
      /\ Import([imp EXCEPT !.pc = "commit",
                   !.new.correlations = {ImportedCorrelation(c) : c \in new},
                   !.new.audits = SourceTenants \ target.audits])

Commit ==
  /\ imp.pc = "commit"
  /\ target' = [k \in DOMAIN Nothing |-> target[k] \cup imp.new[k]]
  /\ imp' = [NoImport EXCEPT !.pc = "done"] /\ done' = TRUE
  /\ UNCHANGED <<legacyVars, jobs, stopped, imports, writes>>

\* The admin process or its connection is lost: the transaction is rolled back.
Crash == Active /\ Import([NoImport EXCEPT !.pc = "crashed"])

Migrate ==
  \/ FlushTenants \/ ImportJobs \/ LookupFinding \/ InsertFinding \/ ImportCorrelations
  \/ Commit \/ Crash

-----------------------------------------------------------------------------
(* The new gateway, each call that changes the target as one transaction *)

Write(tenant, new) ==
  /\ writes < MaxWrites /\ writes' = writes + 1
  /\ target' = new /\ imp' = [imp EXCEPT !.quiet = FALSE]
  /\ UNCHANGED <<legacyVars, jobs, stopped, imports, done>>

\* Rows of the import's transaction that an INSERT of the gateway would have to wait for; its
\* tenants are not inserted before the flush.
Locked(tenant, keys) == (imp.pc # "tenants" /\ tenant \in imp.new.tenants) \/ keys # {}

\* _store_finding: merged by fingerprint, or inserted with its tenant, or refused for its id.
TargetStore(tenant, finding) ==
  LET row == [tenant |-> tenant, finding |-> finding]
      same == {r \in target.rows : SameFingerprint(row, r)}
  IN  /\ ~Locked(tenant, {r \in imp.new.rows : SameFingerprint(row, r) \/ SameId(row, r)})
      /\ \/ \E r \in same :
              Write(tenant, [target EXCEPT !.rows = (@ \ {r}) \cup {[r EXCEPT !.occurrences = @ + 1]}])
         \/ /\ same = {} /\ \A r \in target.rows : ~SameId(row, r)
            /\ Write(tenant, [target EXCEPT !.tenants = @ \cup {tenant},
                                            !.rows = @ \cup {Imported(row)}])

\* update_lifecycle
TargetTriage(r) ==
  /\ r \in target.rows /\ r.status = "open"
  /\ Write(r.tenant, [target EXCEPT !.rows = (@ \ {r}) \cup {[r EXCEPT !.status = "resolved"]}])

\* create_scan, with an Idempotency-Key or without
TargetCreate(tenant, key) ==
  LET job == [id |-> NewJob, tenant |-> tenant, key |-> key, status |-> "queued", events |-> 1]
  IN  /\ \A k \in target.jobs : k.id # NewJob /\ ~SameKey(job, k)
      /\ ~Locked(tenant, {k \in imp.new.jobs : SameKey(job, k)})
      /\ Write(tenant, [target EXCEPT !.tenants = @ \cup {tenant}, !.jobs = @ \cup {job},
                                      !.events = @ \cup EventsOf(job)])

\* request_cancel of a job that no worker runs, such as an imported one.
TargetCancel(job) ==
  /\ job \in target.jobs /\ job.status = "queued"
  /\ Write(job.tenant, [target EXCEPT
       !.jobs = (@ \ {job}) \cup {[job EXCEPT !.status = "cancelled"]},
       !.events = @ \cup {<<job.id, 1 + Cardinality({e \in @ : e[1] = job.id})>>}])

Gateway ==
  \/ \E t \in Moved, f \in Findings : TargetStore(t, f)
  \/ \E r \in target.rows : TargetTriage(r)
  \/ \E j \in UNION LegacyJobs : TargetCreate(j.tenant, j.key)
  \/ \E j \in target.jobs : TargetCancel(j)

Next == Serve \/ Stop \/ Begin \/ Migrate \/ (stopped /\ Gateway)

Spec == Init /\ [][Next]_vars

-----------------------------------------------------------------------------

\* The legacy tables keep their shape, and the target's unique keys hold, for what is
\* committed and what the import is about to commit together.
TypeOK ==
  /\ LegacyTypeOK
  /\ imp.pc \in {"none", "tenants", "jobs", "findings", "insert", "commit", "done", "failed",
                 "crashed"}
  /\ LET rows == target.rows \cup imp.new.rows
         js == target.jobs \cup imp.new.jobs
     IN  /\ \A r, s \in rows : r # s /\ r.tenant = s.tenant =>
              r.fingerprint # s.fingerprint /\ r.finding_id # s.finding_id
         /\ \A j, k \in js : j # k => j.id # k.id /\ ~SameKey(j, k)

TargetId(row) == (CHOOSE r \in target.rows : SameFingerprint(row, r)).finding_id

\* What a completed import stands for, whatever the gateway did before, during and after
\* it: every legacy finding has a row with its fingerprint, every job its row and events,
\* and every correlation its links: for each finding it names that the legacy table still
\* has, the row that finding became, under whichever id.
NothingMissing ==
  done =>
    /\ \A row \in findings : \E r \in target.rows : SameFingerprint(row, r)
    /\ \A j \in jobs : (\E k \in target.jobs : k.id = j.id) /\ EventsOf(j) \subseteq target.events
    /\ \A c \in correlations : \E d \in target.correlations :
         /\ d.id = c
         /\ \A row \in findings :
              row.tenant = c.tenant /\ row.finding.id \in c.findings => TargetId(row) \in d.links

\* DEPLOYMENT.md's "safe to rerun".  Once an import has committed, running it again neither
\* fails nor writes, though findings were merged and jobs cancelled in the target meanwhile.
\* And an import that met no other writer fails only because the target holds a legacy job's
\* key or a legacy finding's id under another fingerprint: one that lost a race succeeds
\* when it is run again.
SafeToRerun ==
  /\ done => imp.pc # "failed" /\ imp.new = Nothing
  /\ imp.pc = "failed" /\ imp.quiet =>
       \/ \E j \in jobs, k \in target.jobs : j.id # k.id /\ SameKey(j, k)
       \/ \E row \in findings, r \in target.rows : SameId(row, r) /\ ~SameFingerprint(row, r)

=============================================================================
