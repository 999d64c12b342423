----------------------------- MODULE FindingRegistry ------------------------------
(***************************************************************************)
(* The findings of one tenant: executors storing and correlating the        *)
(* results of their scans, analysts updating findings and clients paging     *)
(* through them, all on the relational registry.                            *)
(*                                                                         *)
(* One call of _store_finding is up to three steps, because its SELECT ...   *)
(* FOR UPDATE locks nothing when there is no row: the first transaction      *)
(* merges into the row it locks, or finds none and inserts, which another    *)
(* process may prevent; the IntegrityError is answered by a second           *)
(* transaction.  severity stands for the columns severity, confidence and    *)
(* description, which are written together.                                  *)
(***************************************************************************)
EXTENDS Naturals, Sequences, FiniteSets, FiniteSetsExt

CONSTANTS Runs,      \* executions of _store_results; a run's name is its job's id
          Reports,   \* the lists of findings a scan may return
          Patches,   \* PATCH /v1/findings/{finding_id} calls
          Pagers,    \* clients reading GET /v1/findings to its end
          limit,     \* their page size
          Window,    \* the correlation rule's window
          None

AllFindings == UNION {{report[i] : i \in 1..Len(report)} : report \in Reports}

Fingerprints == {f.fingerprint : f \in AllFindings}

Ids == {f.id : f \in AllFindings}

\* What a finding and a row's payload hold; a host that is None or empty is None.
Payloads == [id : Ids, fingerprint : Fingerprints, host : {f.host : f \in AllFindings},
             source : {f.source : f \in AllFindings}, severity : Nat, ts : Nat]

\* finding_fingerprint hashes the source as it is, so findings that share a fingerprint share
\* it; it strips and casefolds the host, so they may spell that differently.  A report may
\* name one problem twice.
ASSUME FindingsAssumption ==
  /\ \A report \in Reports : report \in Seq(AllFindings)
  /\ AllFindings \subseteq Payloads
  /\ None \notin Payloads /\ None \notin Fingerprints /\ None \notin Runs
  /\ \A f, g \in AllFindings : f.fingerprint = g.fingerprint => f.source = g.source
  /\ limit \in Nat \ {0} /\ Window \in Nat

VARIABLES tenant,       \* the tenant's row is there
          rows,         \* the finding of each fingerprint
          correlations, \* the finding ids of each stored correlation
          run,          \* frame of each execution
          patch,        \* what each PATCH call wrote and to which row, and if it was the last
          pager         \* frame of each paging client

vars == <<tenant, rows, correlations, run, patch, pager>>

NoRow == [row_id |-> 0, finding_id |-> None, severity |-> 0, first_seen |-> 0, last_seen |-> 0,
          occurrences |-> 0, job_id |-> None, status |-> "none", payload |-> None]

NewPatch == [fingerprint |-> None, status |-> "none", last |-> FALSE]

NewPager == [done |-> FALSE, cursor |-> 0, start |-> {}, pages |-> << >>]

NewRun == [pc |-> "start", report |-> << >>, n |-> 1, existing |-> {}, earlier |-> {}]

Stored == {p \in Fingerprints : rows[p].payload # None}

Init ==
  /\ tenant \in BOOLEAN
  /\ rows = [p \in Fingerprints |-> NoRow]
  /\ correlations = {}
  /\ run = [r \in Runs |-> NewRun]
  /\ patch = [u \in Patches |-> NewPatch]
  /\ pager = [g \in Pagers |-> NewPager]

-----------------------------------------------------------------------------
(* _store_results *)

\* Mutant: the rule is given the run's own findings only.
BeginWithoutExisting(r, report) ==
  /\ run[r].pc = "start"
  /\ run' = [run EXCEPT ![r] =
       [NewRun EXCEPT !.pc = IF report = << >> THEN "done" ELSE "lookup", !.report = report,
                      !.earlier = {q \in Runs : run[q].pc = "done"}]]
  /\ UNCHANGED <<tenant, rows, correlations, patch, pager>>

Begin(r, report) ==
  /\ run[r].pc = "start"
  /\ run' = [run EXCEPT ![r] =
       [pc |-> IF report = << >> THEN "done" ELSE "lookup", report |-> report, n |-> 1,
        existing |-> {rows[p].payload : p \in Stored},
        earlier |-> {q \in Runs : run[q].pc = "done"}]]
  /\ UNCHANGED <<tenant, rows, correlations, patch, pager>>

Current(r) == run[r].report[run[r].n]

Higher(a, b) == IF a >= b THEN a ELSE b

Lower(a, b) == IF a <= b THEN a ELSE b

\* The incoming finding, its spelling of the host included, under the id of the first one
\* and with the higher severity.
Merge(existing, incoming) ==
  [incoming EXCEPT !.id = existing.id, !.severity = Higher(existing.severity, @)]

\* Mutant: a finding that is seen again is opened again.
MergeIntoReopens(row, r) ==
  [row EXCEPT !.payload = Merge(@, Current(r)), !.occurrences = @ + 1, !.status = "open"]

MergeInto(row, r) ==
  LET merged == Merge(row.payload, Current(r))
  IN  [row EXCEPT !.severity = merged.severity, !.payload = merged,
                  !.last_seen = Higher(@, Current(r).ts),
                  !.first_seen = Lower(@, Current(r).ts),
                  !.occurrences = @ + 1, !.job_id = r]

\* Mutant: the occurrence that lost the race is not counted.
MergeAfterConflictUncounted(row, r) ==
  [row EXCEPT !.payload = Merge(@, Current(r)), !.last_seen = Higher(@, Current(r).ts)]

\* The second transaction updates fewer columns.
MergeAfterConflict(row, r) ==
  [row EXCEPT !.payload = Merge(@, Current(r)), !.last_seen = Higher(@, Current(r).ts),
              !.occurrences = @ + 1]

NewRow(r) ==
  LET f == Current(r)
  IN  [row_id |-> 1 + Cardinality(Stored), finding_id |-> f.id, severity |-> f.severity,
       first_seen |-> f.ts, last_seen |-> f.ts, occurrences |-> 1, job_id |-> r,
       status |-> "open", payload |-> f]

Goto(r, pc) == run' = [run EXCEPT ![r].pc = pc]

SetRow(r, row) == rows' = [rows EXCEPT ![Current(r).fingerprint] = row]

\* The first transaction finds the row and merges into it, or finds none and goes on to
\* INSERT, the tenant's row first if it did not see one.
Lookup(r) ==
  /\ run[r].pc = "lookup"
  /\ \/ /\ Current(r).fingerprint \in Stored
        /\ SetRow(r, MergeInto(rows[Current(r).fingerprint], r))
        /\ Goto(r, "correlate")
     \/ /\ Current(r).fingerprint \notin Stored
        /\ Goto(r, IF tenant THEN "insert" ELSE "insert_tenant")
        /\ UNCHANGED rows
  /\ UNCHANGED <<tenant, correlations, patch, pager>>

\* A unique constraint that refuses the INSERT: the fingerprint, the finding's id, or the
\* tenant's own key.
Conflict(r) ==
  \/ Current(r).fingerprint \in Stored
  \/ \E p \in Stored : rows[p].finding_id = Current(r).id
  \/ run[r].pc = "insert_tenant" /\ tenant

Insert(r) ==
  /\ run[r].pc \in {"insert", "insert_tenant"}
  /\ \/ /\ ~Conflict(r)
        /\ SetRow(r, NewRow(r)) /\ tenant' = TRUE
        /\ Goto(r, "correlate")
     \/ /\ Conflict(r)
        /\ Goto(r, "conflict")
        /\ UNCHANGED <<tenant, rows>>
  /\ UNCHANGED <<correlations, patch, pager>>

\* except IntegrityError: merge into the row that won, or raise again if there is none.
AfterConflict(r) ==
  /\ run[r].pc = "conflict"
  /\ \/ /\ Current(r).fingerprint \in Stored
        /\ SetRow(r, MergeAfterConflict(rows[Current(r).fingerprint], r))
        /\ Goto(r, "correlate")
     \/ /\ Current(r).fingerprint \notin Stored
        /\ Goto(r, "failed")
        /\ UNCHANGED rows
  /\ UNCHANGED <<tenant, correlations, patch, pager>>

-----------------------------------------------------------------------------
(* SameHostMultiSourceRule *)

WithinWindow(a, b) == a.ts <= b.ts + Window /\ b.ts <= a.ts + Window

Related(new_finding, finding) ==
  /\ finding.id # new_finding.id
  /\ finding.host = new_finding.host /\ finding.source # new_finding.source
  /\ WithinWindow(new_finding, finding)

\* Mutant: one step past the last finding.
HasNextOrLast(r) == run[r].n <= Len(run[r].report)

HasNext(r) == run[r].n < Len(run[r].report)

\* The rule is given the registry as it was when the run began and the run's own findings.
Correlate(r) ==
  LET f == Current(r)
      related == IF f.host = None THEN {} ELSE {e \in run[r].existing : Related(f, e)}
  IN  /\ run[r].pc = "correlate"
      /\ correlations' = IF related = {} THEN correlations
                         ELSE correlations \cup {{f.id} \cup {e.id : e \in related}}
      /\ run' = [run EXCEPT ![r].pc = IF HasNext(r) THEN "lookup" ELSE "done",
                            ![r].n = IF HasNext(r) THEN @ + 1 ELSE @,
                            ![r].existing = @ \cup {f}]
      /\ UNCHANGED <<tenant, rows, patch, pager>>

-----------------------------------------------------------------------------
(* The findings API *)

\* update_lifecycle: one transaction under the row's lock.
UpdateLifecycle(u, p, status) ==
  /\ patch[u].fingerprint = None /\ p \in Stored
  /\ rows' = [rows EXCEPT ![p].status = status]
  /\ patch' = [q \in Patches |-> IF q = u THEN [fingerprint |-> p, status |-> status, last |-> TRUE]
                                 ELSE [patch[q] EXCEPT !.last = @ /\ patch[q].fingerprint # p]]
  /\ UNCHANGED <<tenant, correlations, run, pager>>

\* Mutant: the cursor is the extra row's id.
NextCursorOfExtraRow(fetched, page) == Min({rows[p].row_id : p \in fetched})

\* The id of the last row on the page.
NextCursor(fetched, page) == Min({rows[p].row_id : p \in page})

\* list_page without a filter: the rows below the cursor, newest first, one more than asked
\* for to know whether there is another page.
ListPage(g) ==
  LET below == {p \in Stored : pager[g].cursor = 0 \/ rows[p].row_id < pager[g].cursor}
      newer(p) == {q \in below : rows[q].row_id >= rows[p].row_id}
      fetched == {p \in below : Cardinality(newer(p)) <= limit + 1}
      page == {p \in fetched : Cardinality(newer(p)) <= limit}
  IN  /\ ~pager[g].done
      /\ pager' = [pager EXCEPT ![g] =
           [done |-> Cardinality(fetched) <= limit,
            cursor |-> IF Cardinality(fetched) <= limit THEN 0
                       ELSE NextCursor(fetched, page),
            start |-> IF pager[g].pages = << >> THEN Stored ELSE @.start,
            pages |-> Append(@.pages, page)]]
      /\ UNCHANGED <<tenant, rows, correlations, run, patch>>

-----------------------------------------------------------------------------

Store(r) == Lookup(r) \/ Insert(r) \/ AfterConflict(r) \/ Correlate(r)

Next ==
  \/ \E r \in Runs : (\E report \in Reports : Begin(r, report)) \/ Store(r)
  \/ \E u \in Patches, p \in Fingerprints, s \in {"open", "resolved"} : UpdateLifecycle(u, p, s)
  \/ \E g \in Pagers : ListPage(g)

Spec == Init /\ [][Next]_vars
-----------------------------------------------------------------------------
(* Properties *)

\* The findings with fingerprint p that have been stored, by run and place in its report.
StoresOf(p) ==
  UNION {{<<r, i>> : i \in {k \in 1..Len(run[r].report) :
                              /\ run[r].report[k].fingerprint = p
                              /\ k < run[r].n \/ (k = run[r].n /\ run[r].pc \in {"correlate", "done"})}} : r \in Runs}

StoredFindings(p) == {run[s[1]].report[s[2]] : s \in StoresOf(p)}

Rows == [row_id : Nat, finding_id : Ids \cup {None}, severity : Nat, first_seen : Nat,
         last_seen : Nat, occurrences : Nat, job_id : Runs \cup {None},
         status : {"none", "open", "resolved"}, payload : Payloads \cup {None}]

Frames == [pc : {"start", "lookup", "insert", "insert_tenant", "conflict", "correlate", "done",
                 "failed"},
           report : Seq(AllFindings), n : Nat, existing : SUBSET Payloads,
           earlier : SUBSET Runs]

\* Rows, frames and pages keep their shape, and a run at work is at a finding of its report.
TypeOK ==
  /\ tenant \in BOOLEAN
  /\ rows \in [Fingerprints -> Rows]
  /\ correlations \subseteq SUBSET Ids
  /\ run \in [Runs -> Frames]
  /\ \A r \in Runs : run[r].pc \notin {"start", "done"} => run[r].n \in 1..Len(run[r].report)
  /\ patch \in [Patches -> [fingerprint : Fingerprints \cup {None}, last : BOOLEAN,
                            status : {"none", "open", "resolved"}]]
  /\ pager \in [Pagers -> [done : BOOLEAN, cursor : Nat, start : SUBSET Fingerprints,
                           pages : Seq(SUBSET Fingerprints)]]

\* Executors that find the same problem at the same time lose nothing, whichever of the
\* three transactions each one ends in: every occurrence is counted once, and the highest
\* severity and the last sighting are kept under the id that was first.  The columns the
\* list filters on may lag behind the payload after a lost race, never run ahead of it, and
\* cover at least the last sighting of the job the row names.
NothingLost ==
  \A p \in Fingerprints :
    /\ rows[p].occurrences = Cardinality(StoresOf(p))
    /\ p \in Stored =>
         /\ rows[p].payload.id = rows[p].finding_id
         /\ rows[p].payload.severity = Max({f.severity : f \in StoredFindings(p)})
         /\ rows[p].last_seen = Max({f.ts : f \in StoredFindings(p)})
         /\ rows[p].severity <= rows[p].payload.severity
         /\ \A s \in StoresOf(p) :
              /\ s[1] = rows[p].job_id
              /\ \A t \in StoresOf(p) : t[1] = s[1] => t[2] <= s[2]
              => LET f == run[s[1]].report[s[2]]
                 IN  f.severity <= rows[p].severity /\ rows[p].first_seen <= f.ts

\* The analyst's decision survives: a finding has the status of the last PATCH, or is open,
\* however often executors store it again.
TriageSurvives ==
  \A p \in Stored :
    LET decisions == {u \in Patches : patch[u].fingerprint = p /\ patch[u].last}
    IN  IF decisions = {} THEN rows[p].status = "open"
        ELSE \A u \in decisions : rows[p].status = patch[u].status

\* A client that follows next_cursor to the end gets every finding that was there when it
\* began on exactly one page, while executors insert and merge findings.
PagingIsComplete ==
  \A g \in Pagers : pager[g].done =>
    \A p \in pager[g].start :
      Cardinality({i \in 1..Len(pager[g].pages) : p \in pager[g].pages[i]}) = 1

CorrelatedPair(f, g) ==
  \E c \in correlations : rows[f.fingerprint].finding_id \in c /\ g.id \in c

\* Related whichever sighting of f the registry holds: a merge replaces its time and its
\* spelling of the host, and the rule compares hosts as they are spelled.
AlwaysRelated(f, g) ==
  /\ g.host # None /\ f.source # g.source
  /\ rows[f.fingerprint].finding_id # g.id
  /\ \A e \in StoredFindings(f.fingerprint) : e.host = g.host /\ WithinWindow(e, g)

\* A run's findings are correlated with those of every run that ended before it began, as long
\* as everything stored under the earlier finding's fingerprint spells the host as they do.
LaterRunsCorrelate ==
  \A r \in Runs : run[r].pc = "done" =>
    \A q \in run[r].earlier, i \in 1..Len(run[r].report) : \A k \in 1..Len(run[q].report) :
      LET f == run[q].report[k]
          g == run[r].report[i]
      IN  AlwaysRelated(f, g) => CorrelatedPair(f, g)

=============================================================================
