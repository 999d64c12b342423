------------------------ MODULE FindingRegistry_proofs -------------------------
(***************************************************************************)
(* Proofs about FindingRegistry, for any number of executors, reports,        *)
(* analysts and clients: the registry keeps its shape, an analyst's decision  *)
(* survives, concurrent stores lose nothing, later runs correlate with        *)
(* earlier ones, and a client that pages to the end gets everything once.     *)
(***************************************************************************)
EXTENDS FindingRegistry, TLAPS, FiniteSetTheorems, WellFoundedInduction

-----------------------------------------------------------------------------
(* The inductive invariant of the rows and the frames *)

\* What a row holds when it is there: the payload of its own fingerprint under the id that
\* was first.
RowOK(p) ==
  /\ p \notin Stored => rows[p] = NoRow
  /\ p \in Stored =>
       /\ rows[p].payload \in Payloads /\ rows[p].payload.fingerprint = p
       /\ rows[p].finding_id = rows[p].payload.id

\* A run has nothing before it begins, is at a finding while it works, and ends at its last.
FrameOK(r) ==
  /\ run[r].pc = "start" => run[r] = NewRun
  /\ run[r].pc \notin {"start", "done"} => run[r].n \in 1..Len(run[r].report)
  /\ run[r].pc = "done" => run[r].report = << >> \/ run[r].n = Len(run[r].report)

PatchFrames == [fingerprint : Fingerprints \cup {None}, last : BOOLEAN,
                status : {"none", "open", "resolved"}]

RegistryInv ==
  /\ tenant \in BOOLEAN
  /\ rows \in [Fingerprints -> Rows]
  /\ correlations \subseteq SUBSET Ids
  /\ run \in [Runs -> Frames]
  /\ patch \in [Patches -> PatchFrames]
  /\ IsFiniteSet(Stored)
  /\ \A p \in Fingerprints : RowOK(p)
  /\ \A r \in Runs : FrameOK(r)

-----------------------------------------------------------------------------
(* What the helpers return *)

Working == {"lookup", "insert", "insert_tenant", "conflict", "correlate", "failed"}

LEMMA FindingIs ==
  ASSUME NEW f \in AllFindings
  PROVE  /\ f \in Payloads /\ f.fingerprint \in Fingerprints /\ f.id \in Ids
         /\ f.severity \in Nat /\ f.ts \in Nat
<1>1. f \in Payloads
  BY FindingsAssumption
<1> QED
  BY <1>1 DEF Payloads, Fingerprints, Ids

\* A run at work is at a finding of its report.
LEMMA CurrentIs ==
  ASSUME RegistryInv, NEW r \in Runs, run[r].pc \in Working
  PROVE  Current(r) \in AllFindings /\ run[r].n \in 1..Len(run[r].report)
<1>1. run[r].report \in Seq(AllFindings) /\ run[r].n \in 1..Len(run[r].report)
  BY DEF RegistryInv, Frames, FrameOK, Working
<1> QED
  BY <1>1 DEF Current

LEMMA MergeIs ==
  ASSUME NEW old \in Payloads, NEW f \in AllFindings
  PROVE  /\ Merge(old, f) \in Payloads
         /\ Merge(old, f).id = old.id
         /\ Merge(old, f).fingerprint = f.fingerprint
         /\ Merge(old, f).host = f.host /\ Merge(old, f).source = f.source
         /\ Merge(old, f).ts = f.ts
         /\ Merge(old, f).severity = Higher(old.severity, f.severity)
<1>1. f \in Payloads
  BY FindingIs
<1> QED
  BY <1>1 DEF Merge, Payloads, Higher

\* What the three ways to store a finding leave alone and what they write.
LEMMA MergeIntoIs ==
  ASSUME NEW row \in Rows, row.payload \in Payloads, NEW r \in Runs, Current(r) \in AllFindings
  PROVE  /\ MergeInto(row, r) \in Rows
         /\ MergeInto(row, r).row_id = row.row_id
         /\ MergeInto(row, r).finding_id = row.finding_id
         /\ MergeInto(row, r).status = row.status
         /\ MergeInto(row, r).payload = Merge(row.payload, Current(r))
         /\ MergeInto(row, r).severity = Higher(row.payload.severity, Current(r).severity)
         /\ MergeInto(row, r).last_seen = Higher(row.last_seen, Current(r).ts)
         /\ MergeInto(row, r).first_seen = Lower(row.first_seen, Current(r).ts)
         /\ MergeInto(row, r).occurrences = row.occurrences + 1
         /\ MergeInto(row, r).job_id = r
<1>1. PICK f : f = Current(r)
  OBVIOUS
<1>2. f \in AllFindings /\ f.ts \in Nat
  BY <1>1, FindingIs
<1>3. PICK merged : merged = Merge(row.payload, f)
  OBVIOUS
<1>4. merged \in Payloads /\ merged.severity = Higher(row.payload.severity, f.severity)
  BY <1>2, <1>3, MergeIs
<1>5. merged.severity \in Nat
  BY <1>4 DEF Payloads
<1>6. MergeInto(row, r) = [row EXCEPT !.severity = merged.severity, !.payload = merged,
                             !.last_seen = Higher(row.last_seen, f.ts),
                             !.first_seen = Lower(row.first_seen, f.ts),
                             !.occurrences = row.occurrences + 1, !.job_id = r]
  BY <1>1, <1>3 DEF MergeInto, Rows
<1>7. Higher(row.last_seen, f.ts) \in Nat /\ Lower(row.first_seen, f.ts) \in Nat
  BY <1>2 DEF Higher, Lower, Rows
<1>8. MergeInto(row, r) \in Rows
  <2>1. PICK last, first : last = Higher(row.last_seen, f.ts) /\ first = Lower(row.first_seen, f.ts)
    OBVIOUS
  <2>2. MergeInto(row, r) = [row_id |-> row.row_id, finding_id |-> row.finding_id,
          severity |-> merged.severity, first_seen |-> first, last_seen |-> last,
          occurrences |-> row.occurrences + 1, job_id |-> r, status |-> row.status,
          payload |-> merged]
    BY <1>6, <2>1 DEF Rows
  <2> QED
    BY <1>4, <1>5, <1>7, <2>1, <2>2 DEF Rows
<1> QED
  BY <1>1, <1>3, <1>4, <1>6, <1>8 DEF Rows

LEMMA MergeAfterConflictIs ==
  ASSUME NEW row \in Rows, row.payload \in Payloads, NEW r \in Runs, Current(r) \in AllFindings
  PROVE  /\ MergeAfterConflict(row, r) \in Rows
         /\ MergeAfterConflict(row, r).row_id = row.row_id
         /\ MergeAfterConflict(row, r).finding_id = row.finding_id
         /\ MergeAfterConflict(row, r).status = row.status
         /\ MergeAfterConflict(row, r).payload = Merge(row.payload, Current(r))
         /\ MergeAfterConflict(row, r).severity = row.severity
         /\ MergeAfterConflict(row, r).last_seen = Higher(row.last_seen, Current(r).ts)
         /\ MergeAfterConflict(row, r).first_seen = row.first_seen
         /\ MergeAfterConflict(row, r).occurrences = row.occurrences + 1
         /\ MergeAfterConflict(row, r).job_id = row.job_id
<1>1. PICK f : f = Current(r)
  OBVIOUS
<1>2. f \in AllFindings /\ f.ts \in Nat
  BY <1>1, FindingIs
<1>3. PICK merged : merged = Merge(row.payload, f)
  OBVIOUS
<1>4. merged \in Payloads
  BY <1>2, <1>3, MergeIs
<1>6. MergeAfterConflict(row, r) = [row EXCEPT !.payload = merged,
                             !.last_seen = Higher(row.last_seen, f.ts),
                             !.occurrences = row.occurrences + 1]
  <2>1. MergeAfterConflict(row, r) =
          [row EXCEPT !.payload = Merge(@, f), !.last_seen = Higher(@, f.ts), !.occurrences = @ + 1]
    BY <1>1, Zenon DEF MergeAfterConflict
  <2> QED
    BY <2>1, <1>3 DEF Rows
<1>7. Higher(row.last_seen, f.ts) \in Nat
  BY <1>2 DEF Higher, Rows
<1>8. MergeAfterConflict(row, r) \in Rows
  <2>1. PICK last : last = Higher(row.last_seen, f.ts)
    OBVIOUS
  <2>2. MergeAfterConflict(row, r) = [row_id |-> row.row_id, finding_id |-> row.finding_id,
          severity |-> row.severity, first_seen |-> row.first_seen, last_seen |-> last,
          occurrences |-> row.occurrences + 1, job_id |-> row.job_id, status |-> row.status,
          payload |-> merged]
    BY <1>6, <2>1 DEF Rows
  <2> QED
    BY <1>4, <1>7, <2>1, <2>2 DEF Rows
<1> QED
  BY <1>1, <1>3, <1>6, <1>8 DEF Rows

LEMMA NewRowIs ==
  ASSUME NEW r \in Runs, Current(r) \in AllFindings, IsFiniteSet(Stored)
  PROVE  /\ NewRow(r) \in Rows
         /\ NewRow(r).row_id = 1 + Cardinality(Stored)
         /\ NewRow(r).finding_id = Current(r).id
         /\ NewRow(r).status = "open"
         /\ NewRow(r).payload = Current(r)
         /\ NewRow(r).severity = Current(r).severity
         /\ NewRow(r).last_seen = Current(r).ts
         /\ NewRow(r).first_seen = Current(r).ts
         /\ NewRow(r).occurrences = 1
         /\ NewRow(r).job_id = r
<1>1. Cardinality(Stored) \in Nat
  BY FS_CardinalityType
<1>2. PICK id : id = 1 + Cardinality(Stored)
  OBVIOUS
<1>3. id \in Nat
  BY <1>1, <1>2
<1>4. NewRow(r) = [row_id |-> id, finding_id |-> Current(r).id, severity |-> Current(r).severity,
       first_seen |-> Current(r).ts, last_seen |-> Current(r).ts, occurrences |-> 1, job_id |-> r,
       status |-> "open", payload |-> Current(r)]
  BY <1>2 DEF NewRow
<1> QED
  BY <1>2, <1>3, <1>4, FindingIs DEF Rows

-----------------------------------------------------------------------------
(* What a step of an execution does to the registry *)

BeforeStore == {"lookup", "insert", "insert_tenant", "conflict"}

\* The row new comes from the current finding: merged into the row that is there, by the
\* first transaction or by the second, or inserted.
NewFrom(r, new) ==
  LET p == Current(r).fingerprint IN
  \/ run[r].pc = "lookup" /\ p \in Stored /\ new = MergeInto(rows[p], r)
  \/ run[r].pc = "conflict" /\ p \in Stored /\ new = MergeAfterConflict(rows[p], r)
  \/ run[r].pc \in {"insert", "insert_tenant"} /\ p \notin Stored /\ new = NewRow(r)

StoreStep(r, new) ==
  /\ run[r].pc \in BeforeStore
  /\ NewFrom(r, new)
  /\ rows' = [rows EXCEPT ![Current(r).fingerprint] = new]
  /\ run' = [run EXCEPT ![r].pc = "correlate"]
  /\ tenant' \in BOOLEAN
  /\ UNCHANGED <<correlations, patch, pager>>

\* A transaction that stores nothing.
MissStep(r, pc) ==
  /\ run[r].pc \in BeforeStore
  /\ pc \in {"insert", "insert_tenant", "conflict", "failed"}
  /\ run[r].pc = "lookup" => Current(r).fingerprint \notin Stored
  /\ run[r].pc \in {"lookup", "insert", "insert_tenant"} \/ pc = "failed"
  /\ run' = [run EXCEPT ![r].pc = pc]
  /\ UNCHANGED <<tenant, rows, correlations, patch, pager>>

LEMMA StoreCases ==
  ASSUME RegistryInv, NEW r \in Runs, Store(r)
  PROVE  \/ \E new : StoreStep(r, new)
         \/ \E pc : MissStep(r, pc)
         \/ Correlate(r)
<1>0. tenant \in BOOLEAN
  BY DEF RegistryInv
<1> DEFINE p == Current(r).fingerprint
<1>1. CASE Lookup(r)
  <2>1. CASE p \in Stored /\ SetRow(r, MergeInto(rows[p], r)) /\ Goto(r, "correlate")
    <3>1. PICK new : new = MergeInto(rows[p], r)
      OBVIOUS
    <3>2. StoreStep(r, new)
      BY <1>0, <1>1, <2>1, <3>1 DEF Lookup, SetRow, Goto, StoreStep, NewFrom, BeforeStore
    <3> QED
      BY <3>2
  <2>2. CASE p \notin Stored /\ UNCHANGED rows
             /\ Goto(r, IF tenant THEN "insert" ELSE "insert_tenant")
    <3>1. PICK pc : pc = IF tenant THEN "insert" ELSE "insert_tenant"
      OBVIOUS
    <3>2. pc \in {"insert", "insert_tenant"}
      BY <3>1
    <3>3. run' = [run EXCEPT ![r].pc = pc]
      BY <2>2, <3>1, Zenon DEF Goto
    <3>4. MissStep(r, pc)
      BY <1>1, <2>2, <3>2, <3>3 DEF Lookup, MissStep, BeforeStore
    <3> QED
      BY <3>4
  <2> QED
    BY <1>1, <2>1, <2>2, Zenon DEF Lookup
<1>2. CASE Insert(r)
  <2>1. CASE ~Conflict(r) /\ SetRow(r, NewRow(r)) /\ tenant' = TRUE /\ Goto(r, "correlate")
    <3>1. PICK new : new = NewRow(r)
      OBVIOUS
    <3>2. p \notin Stored
      BY <2>1 DEF Conflict
    <3>3. StoreStep(r, new)
      BY <1>2, <2>1, <3>1, <3>2 DEF Insert, SetRow, Goto, StoreStep, NewFrom, BeforeStore
    <3> QED
      BY <3>3
  <2>2. CASE Conflict(r) /\ Goto(r, "conflict") /\ UNCHANGED <<tenant, rows>>
    <3>1. MissStep(r, "conflict")
      BY <1>2, <2>2 DEF Insert, Goto, MissStep, BeforeStore
    <3> QED
      BY <3>1
  <2> QED
    BY <1>2, <2>1, <2>2, Zenon DEF Insert
<1>3. CASE AfterConflict(r)
  <2>1. CASE p \in Stored /\ SetRow(r, MergeAfterConflict(rows[p], r)) /\ Goto(r, "correlate")
    <3>1. PICK new : new = MergeAfterConflict(rows[p], r)
      OBVIOUS
    <3>2. StoreStep(r, new)
      BY <1>0, <1>3, <2>1, <3>1 DEF AfterConflict, SetRow, Goto, StoreStep, NewFrom, BeforeStore
    <3> QED
      BY <3>2
  <2>2. CASE p \notin Stored /\ Goto(r, "failed") /\ UNCHANGED rows
    <3>1. MissStep(r, "failed")
      BY <1>3, <2>2 DEF AfterConflict, Goto, MissStep, BeforeStore
    <3> QED
      BY <3>1
  <2> QED
    BY <1>3, <2>1, <2>2, Zenon DEF AfterConflict
<1> QED
  BY <1>1, <1>2, <1>3, Zenon DEF Store

\* A stored row is a good row of its fingerprint; a merge keeps its identity and its status.
LEMMA StoredRow ==
  ASSUME RegistryInv, NEW r \in Runs, NEW new, StoreStep(r, new),
         NEW p, p = Current(r).fingerprint
  PROVE  /\ p \in Fingerprints /\ Current(r) \in AllFindings
         /\ new \in Rows /\ new.payload \in Payloads
         /\ new.payload.fingerprint = p /\ new.finding_id = new.payload.id
         /\ new.payload.host = Current(r).host /\ new.payload.source = Current(r).source
         /\ new.payload.ts = Current(r).ts
         /\ p \in Stored => /\ new.row_id = rows[p].row_id
                            /\ new.finding_id = rows[p].finding_id
                            /\ new.status = rows[p].status
         /\ p \notin Stored => new.status = "open" /\ new.row_id = 1 + Cardinality(Stored)
<1>1. run[r].pc \in Working /\ NewFrom(r, new)
  BY DEF StoreStep, BeforeStore, Working
<1>2. Current(r) \in AllFindings
  BY <1>1, CurrentIs
<1>3. PICK f : f = Current(r)
  OBVIOUS
<1>4. p \in Fingerprints /\ f \in Payloads
  BY <1>2, <1>3, FindingIs
<1>5. CASE p \in Stored /\ new = MergeInto(rows[p], r)
  <2>1. rows[p] \in Rows /\ rows[p].payload \in Payloads /\ rows[p].finding_id = rows[p].payload.id
    BY <1>4, <1>5 DEF RegistryInv, RowOK
  <2>2. PICK row : row = rows[p]
    OBVIOUS
  <2>3. new = MergeInto(row, r) /\ row \in Rows /\ row.payload \in Payloads
    BY <1>5, <2>1, <2>2
  <2>4. /\ new \in Rows /\ new.row_id = row.row_id /\ new.finding_id = row.finding_id
        /\ new.status = row.status /\ new.payload = Merge(row.payload, f)
    BY <1>2, <1>3, <2>3, MergeIntoIs
  <2> QED
    BY <1>2, <1>3, <1>4, <1>5, <2>1, <2>2, <2>3, <2>4, MergeIs
<1>6. CASE p \in Stored /\ new = MergeAfterConflict(rows[p], r)
  <2>1. rows[p] \in Rows /\ rows[p].payload \in Payloads /\ rows[p].finding_id = rows[p].payload.id
    BY <1>4, <1>6 DEF RegistryInv, RowOK
  <2>2. PICK row : row = rows[p]
    OBVIOUS
  <2>3. new = MergeAfterConflict(row, r) /\ row \in Rows /\ row.payload \in Payloads
    BY <1>6, <2>1, <2>2
  <2>4. /\ new \in Rows /\ new.row_id = row.row_id /\ new.finding_id = row.finding_id
        /\ new.status = row.status /\ new.payload = Merge(row.payload, f)
    BY <1>2, <1>3, <2>3, MergeAfterConflictIs
  <2> QED
    BY <1>2, <1>3, <1>4, <1>6, <2>1, <2>2, <2>3, <2>4, MergeIs
<1>7. CASE p \notin Stored /\ new = NewRow(r)
  <2>1. IsFiniteSet(Stored)
    BY DEF RegistryInv
  <2> QED
    BY <1>2, <1>3, <1>4, <1>7, <2>1, NewRowIs
<1> QED
  BY <1>1, <1>5, <1>6, <1>7 DEF NewFrom

\* Storing a finding stores its fingerprint and touches no other row.
LEMMA StoreGrows ==
  ASSUME RegistryInv, NEW r \in Runs, NEW new, StoreStep(r, new),
         NEW p, p = Current(r).fingerprint
  PROVE  /\ Stored' = Stored \cup {p}
         /\ rows'[p] = new
         /\ \A q \in Fingerprints : q # p => rows'[q] = rows[q]
<1>1. p \in Fingerprints /\ new.payload \in Payloads
  BY StoredRow
<1>2. rows \in [Fingerprints -> Rows] /\ rows' = [rows EXCEPT ![p] = new]
  BY DEF RegistryInv, StoreStep
<1>3. new.payload # None
  BY <1>1, FindingsAssumption
<1>4. rows'[p] = new /\ \A q \in Fingerprints : q # p => rows'[q] = rows[q]
  BY <1>1, <1>2
<1> QED
  BY <1>1, <1>3, <1>4 DEF Stored

\* Only the pc of r changes.
LEMMA GotoFrames ==
  ASSUME RegistryInv, NEW r \in Runs, NEW pc, pc \in Working, run[r].pc \in Working,
         run' = [run EXCEPT ![r].pc = pc]
  PROVE  /\ run' \in [Runs -> Frames]
         /\ \A q \in Runs : FrameOK(q)'
         /\ run'[r].pc = pc /\ run'[r].report = run[r].report /\ run'[r].n = run[r].n
         /\ run'[r].existing = run[r].existing /\ run'[r].earlier = run[r].earlier
         /\ \A q \in Runs : q # r => run'[q] = run[q]
<1>1. run \in [Runs -> Frames] /\ \A q \in Runs : FrameOK(q)
  BY DEF RegistryInv
<1>2. run[r].n \in 1..Len(run[r].report)
  BY CurrentIs
<1>3. run[r] \in Frames
  BY <1>1
<1>4. [run[r] EXCEPT !.pc = pc] \in Frames
  BY <1>3 DEF Frames, Working
<1>5. run' = [run EXCEPT ![r] = [run[r] EXCEPT !.pc = pc]]
  BY <1>1
<1>6. run' \in [Runs -> Frames]
  BY <1>1, <1>4, <1>5
<1>7. /\ run'[r] = [run[r] EXCEPT !.pc = pc]
      /\ \A q \in Runs : q # r => run'[q] = run[q]
  BY <1>1, <1>5
<1>8. /\ run'[r].pc = pc /\ run'[r].report = run[r].report /\ run'[r].n = run[r].n
      /\ run'[r].existing = run[r].existing /\ run'[r].earlier = run[r].earlier
  BY <1>3, <1>7 DEF Frames
<1>9. FrameOK(r)'
  BY <1>2, <1>8 DEF FrameOK, Working
<1>10. ASSUME NEW q \in Runs, q # r PROVE FrameOK(q)'
  BY <1>1, <1>7, <1>10 DEF FrameOK
<1> QED
  BY <1>6, <1>7, <1>8, <1>9, <1>10

-----------------------------------------------------------------------------
(* The registry keeps its shape *)

LEMMA InitRegistry ==
  ASSUME Init
  PROVE  RegistryInv
<1>1. None \notin Payloads
  BY FindingsAssumption
<1>2. NoRow \in Rows /\ NoRow.payload = None
  BY DEF NoRow, Rows
<1>3. Stored = {}
  BY <1>2 DEF Init, Stored
<1>4. NewRun \in Frames /\ NewRun.pc = "start"
  BY DEF NewRun, Frames
<1>5. NewPatch \in PatchFrames
  BY DEF NewPatch, PatchFrames
<1>6. IsFiniteSet(Stored)
  BY <1>3, FS_EmptySet
<1>7. \A p \in Fingerprints : RowOK(p)
  BY <1>3 DEF Init, RowOK
<1>8. \A r \in Runs : FrameOK(r)
  BY <1>4 DEF Init, FrameOK
<1> QED
  BY <1>2, <1>4, <1>5, <1>6, <1>7, <1>8 DEF Init, RegistryInv

LEMMA StoreKeepsShape ==
  ASSUME RegistryInv, NEW r \in Runs, NEW new, StoreStep(r, new)
  PROVE  RegistryInv'
<1>1. PICK p : p = Current(r).fingerprint
  OBVIOUS
<1>2. /\ p \in Fingerprints /\ Current(r) \in AllFindings
      /\ new \in Rows /\ new.payload \in Payloads
      /\ new.payload.fingerprint = p /\ new.finding_id = new.payload.id
  BY <1>1, StoredRow
<1>3. Stored' = Stored \cup {p} /\ rows'[p] = new /\ \A q \in Fingerprints : q # p => rows'[q] = rows[q]
  BY <1>1, StoreGrows
<1>4. rows' \in [Fingerprints -> Rows]
  BY <1>1, <1>2 DEF StoreStep, RegistryInv
<1>5. IsFiniteSet(Stored')
  BY <1>3, FS_AddElement DEF RegistryInv
<1>6. RowOK(p)'
  BY <1>2, <1>3 DEF RowOK
<1>7. ASSUME NEW q \in Fingerprints, q # p PROVE RowOK(q)'
  <2>1. RowOK(q) /\ rows'[q] = rows[q] /\ (q \in Stored' <=> q \in Stored)
    BY <1>3, <1>7 DEF RegistryInv
  <2> QED
    BY <2>1 DEF RowOK
<1>8. run' \in [Runs -> Frames] /\ \A q \in Runs : FrameOK(q)'
  BY GotoFrames DEF StoreStep, BeforeStore, Working
<1> QED
  BY <1>4, <1>5, <1>6, <1>7, <1>8 DEF StoreStep, RegistryInv

\* When the rows stay, so do the facts about them.
LEMMA SameRows ==
  ASSUME RegistryInv, UNCHANGED rows
  PROVE  /\ rows' \in [Fingerprints -> Rows] /\ Stored' = Stored /\ IsFiniteSet(Stored')
         /\ \A p \in Fingerprints : RowOK(p)'
<1>1. Stored' = Stored
  BY DEF Stored
<1> QED
  BY <1>1 DEF RegistryInv, RowOK

LEMMA MissKeepsShape ==
  ASSUME RegistryInv, NEW r \in Runs, NEW pc, MissStep(r, pc)
  PROVE  RegistryInv'
<1>1. run' \in [Runs -> Frames] /\ \A q \in Runs : FrameOK(q)'
  <2>1. pc \in Working /\ run[r].pc \in Working /\ run' = [run EXCEPT ![r].pc = pc]
    BY DEF MissStep, BeforeStore, Working
  <2> QED
    BY <2>1, GotoFrames
<1>2. UNCHANGED rows
  BY DEF MissStep
<1> QED
  BY <1>1, <1>2, SameRows DEF MissStep, RegistryInv

\* The frame of a run that begins.
Begun(r, report) ==
  /\ run[r].pc = "start"
  /\ run'[r] = [pc |-> IF report = << >> THEN "done" ELSE "lookup", report |-> report, n |-> 1,
                existing |-> {rows[p].payload : p \in Stored},
                earlier |-> {q \in Runs : run[q].pc = "done"}]
  /\ \A q \in Runs : q # r => run'[q] = run[q]
  /\ UNCHANGED <<tenant, rows, correlations, patch, pager>>

LEMMA BeginKeepsShape ==
  ASSUME RegistryInv, NEW r \in Runs, NEW report \in Reports, Begin(r, report)
  PROVE  RegistryInv' /\ Begun(r, report)
<1>1. PICK existing, earlier : /\ existing = {rows[p].payload : p \in Stored}
                               /\ earlier = {q \in Runs : run[q].pc = "done"}
  OBVIOUS
<1>2. PICK frame : frame = [pc |-> IF report = << >> THEN "done" ELSE "lookup", report |-> report,
                            n |-> 1, existing |-> existing, earlier |-> earlier]
  OBVIOUS
<1>3. run \in [Runs -> Frames] /\ run[r].pc = "start"
  BY DEF Begin, RegistryInv
<1>4. run' = [run EXCEPT ![r] = frame]
  BY <1>1, <1>2, Zenon DEF Begin
<1>5. existing \subseteq Payloads /\ earlier \subseteq Runs
  BY <1>1 DEF RegistryInv, RowOK, Stored
<1>6. report \in Seq(AllFindings)
  BY FindingsAssumption
<1>7. frame \in Frames
  BY <1>2, <1>5, <1>6 DEF Frames
<1>8. run' \in [Runs -> Frames] /\ run'[r] = frame /\ \A q \in Runs : q # r => run'[q] = run[q]
  BY <1>3, <1>4, <1>7
<1>9. FrameOK(r)'
  <2>1. report # << >> => 1 \in 1..Len(report)
    BY <1>6
  <2> QED
    BY <1>2, <1>8, <2>1 DEF FrameOK
<1>10. ASSUME NEW q \in Runs, q # r PROVE FrameOK(q)'
  BY <1>8, <1>10 DEF FrameOK, RegistryInv
<1>11. UNCHANGED <<tenant, rows, correlations, patch, pager>>
  BY DEF Begin
<1>12. RegistryInv'
  BY <1>8, <1>9, <1>10, <1>11, SameRows DEF RegistryInv
<1>13. Begun(r, report)
  BY <1>1, <1>2, <1>3, <1>8, <1>11, Zenon DEF Begun
<1> QED
  BY <1>12, <1>13

\* What a correlation does: related is what the rule finds among the findings it is given.
CorrelateStep(r, related) ==
  /\ run[r].pc = "correlate"
  /\ related = IF Current(r).host = None THEN {}
               ELSE {e \in run[r].existing : Related(Current(r), e)}
  /\ correlations' = IF related = {} THEN correlations
                     ELSE correlations \cup {{Current(r).id} \cup {e.id : e \in related}}
  /\ run' \in [Runs -> Frames]
  /\ run'[r].report = run[r].report /\ run'[r].earlier = run[r].earlier
  /\ run'[r].existing = run[r].existing \cup {Current(r)}
  /\ \/ run'[r].pc = "lookup" /\ run'[r].n = run[r].n + 1 /\ run[r].n < Len(run[r].report)
     \/ run'[r].pc = "done" /\ run'[r].n = run[r].n /\ run[r].n = Len(run[r].report)
  /\ \A q \in Runs : q # r => run'[q] = run[q]
  /\ UNCHANGED <<tenant, rows, patch, pager>>

LEMMA CorrelateKeepsShape ==
  ASSUME RegistryInv, NEW r \in Runs, Correlate(r)
  PROVE  RegistryInv' /\ \E related : CorrelateStep(r, related)
<1>1. run[r].pc = "correlate" /\ run \in [Runs -> Frames] /\ run[r] \in Frames
  BY DEF Correlate, RegistryInv
<1>2. PICK f : f = Current(r)
  OBVIOUS
<1>3. f \in AllFindings /\ f \in Payloads /\ run[r].n \in 1..Len(run[r].report) /\ f.id \in Ids
  BY <1>1, <1>2, CurrentIs, FindingIs DEF Working
<1>4. PICK related : related = IF f.host = None THEN {} ELSE {e \in run[r].existing : Related(f, e)}
  OBVIOUS
<1>5. related \subseteq Payloads
  BY <1>1, <1>4 DEF Frames
<1>6. correlations' = IF related = {} THEN correlations
                      ELSE correlations \cup {{f.id} \cup {e.id : e \in related}}
  BY <1>2, <1>4, Zenon DEF Correlate
<1>7. correlations' \subseteq SUBSET Ids
  <2>1. {f.id} \cup {e.id : e \in related} \in SUBSET Ids
    BY <1>3, <1>5 DEF Payloads
  <2> QED
    BY <1>6, <2>1 DEF RegistryInv
<1>8. PICK pc, n : /\ pc = IF HasNext(r) THEN "lookup" ELSE "done"
                   /\ n = IF HasNext(r) THEN run[r].n + 1 ELSE run[r].n
  OBVIOUS
<1>9. run' = [run EXCEPT ![r] = [run[r] EXCEPT !.pc = pc, !.n = n, !.existing = @ \cup {f}]]
  <2>1. run' = [run EXCEPT ![r].pc = pc, ![r].n = IF HasNext(r) THEN @ + 1 ELSE @,
                           ![r].existing = @ \cup {f}]
    BY <1>2, <1>8, Zenon DEF Correlate
  <2> QED
    BY <1>1, <1>8, <2>1 DEF Frames
<1>10. PICK frame : frame = [run[r] EXCEPT !.pc = pc, !.n = n, !.existing = @ \cup {f}]
  OBVIOUS
<1>11. /\ frame.pc = pc /\ frame.n = n /\ frame.existing = run[r].existing \cup {f}
       /\ frame.report = run[r].report /\ frame.earlier = run[r].earlier
  BY <1>1, <1>10 DEF Frames
<1>12. /\ run[r].report \in Seq(AllFindings) /\ run[r].n \in 1..Len(run[r].report)
       /\ run[r].existing \in SUBSET Payloads /\ run[r].earlier \in SUBSET Runs
  BY <1>1, <1>3 DEF Frames
<1>13. \/ pc = "lookup" /\ n = run[r].n + 1 /\ run[r].n < Len(run[r].report)
       \/ pc = "done" /\ n = run[r].n /\ run[r].n = Len(run[r].report)
  BY <1>8, <1>12 DEF HasNext
<1>14. frame \in Frames
  <2>1. frame = [pc |-> pc, report |-> run[r].report, n |-> n, existing |-> run[r].existing \cup {f},
                 earlier |-> run[r].earlier]
    BY <1>1, <1>10 DEF Frames
  <2>2. pc \in {"lookup", "done"} /\ n \in Nat
    BY <1>12, <1>13
  <2> QED
    BY <1>3, <1>12, <2>1, <2>2 DEF Frames
<1>15. run' \in [Runs -> Frames] /\ run'[r] = frame /\ \A q \in Runs : q # r => run'[q] = run[q]
  BY <1>1, <1>9, <1>10, <1>14
<1>16. FrameOK(r)'
  BY <1>11, <1>12, <1>13, <1>15 DEF FrameOK
<1>17. ASSUME NEW q \in Runs, q # r PROVE FrameOK(q)'
  BY <1>15, <1>17 DEF FrameOK, RegistryInv
<1>18. UNCHANGED <<tenant, rows, patch, pager>>
  BY DEF Correlate
<1>19. RegistryInv'
  BY <1>7, <1>15, <1>16, <1>17, <1>18, SameRows DEF RegistryInv
<1>20. CorrelateStep(r, related)
  <2>1. /\ run'[r].report = run[r].report /\ run'[r].earlier = run[r].earlier
        /\ run'[r].existing = run[r].existing \cup {f}
        /\ \/ run'[r].pc = "lookup" /\ run'[r].n = run[r].n + 1 /\ run[r].n < Len(run[r].report)
           \/ run'[r].pc = "done" /\ run'[r].n = run[r].n /\ run[r].n = Len(run[r].report)
    BY <1>11, <1>13, <1>15
  <2> QED
    BY <1>1, <1>2, <1>4, <1>6, <1>15, <1>18, <2>1, Zenon DEF CorrelateStep
<1> QED
  BY <1>19, <1>20

LEMMA UpdateKeepsShape ==
  ASSUME RegistryInv, NEW u \in Patches, NEW p \in Fingerprints, NEW s \in {"open", "resolved"},
         UpdateLifecycle(u, p, s)
  PROVE  /\ RegistryInv' /\ Stored' = Stored
         /\ rows'[p].status = s
         /\ \A q \in Fingerprints : q # p => rows'[q] = rows[q]
         /\ \A q \in Fingerprints : /\ rows'[q].payload = rows[q].payload
                                    /\ rows'[q].finding_id = rows[q].finding_id
                                    /\ rows'[q].row_id = rows[q].row_id
                                    /\ rows'[q].severity = rows[q].severity
                                    /\ rows'[q].first_seen = rows[q].first_seen
                                    /\ rows'[q].last_seen = rows[q].last_seen
                                    /\ rows'[q].occurrences = rows[q].occurrences
                                    /\ rows'[q].job_id = rows[q].job_id
<1>1. p \in Stored /\ rows \in [Fingerprints -> Rows] /\ rows[p] \in Rows
  BY DEF UpdateLifecycle, RegistryInv
<1>2. PICK row : row = [rows[p] EXCEPT !.status = s]
  OBVIOUS
<1>3. row \in Rows /\ row.status = s
  BY <1>1, <1>2 DEF Rows
<1>4. /\ row.payload = rows[p].payload /\ row.finding_id = rows[p].finding_id
      /\ row.row_id = rows[p].row_id /\ row.severity = rows[p].severity
      /\ row.first_seen = rows[p].first_seen /\ row.last_seen = rows[p].last_seen
      /\ row.occurrences = rows[p].occurrences /\ row.job_id = rows[p].job_id
  BY <1>1, <1>2 DEF Rows
<1>5. rows' = [rows EXCEPT ![p] = row]
  BY <1>1, <1>2 DEF UpdateLifecycle
<1>6. rows' \in [Fingerprints -> Rows] /\ rows'[p] = row /\ \A q \in Fingerprints : q # p => rows'[q] = rows[q]
  BY <1>1, <1>3, <1>5
<1>7. Stored' = Stored
  BY <1>4, <1>6 DEF Stored
<1>8. IsFiniteSet(Stored')
  BY <1>7 DEF RegistryInv
<1>9. ASSUME NEW q \in Fingerprints PROVE RowOK(q)'
  <2>1. RowOK(q) /\ (q = p => q \in Stored)
    BY <1>1 DEF RegistryInv
  <2> QED
    BY <1>4, <1>6, <1>7, <2>1 DEF RowOK
<1>10. patch' \in [Patches -> PatchFrames]
  <2>1. patch \in [Patches -> PatchFrames]
    BY DEF RegistryInv
  <2>2. ASSUME NEW q \in Patches
        PROVE  (IF q = u THEN [fingerprint |-> p, status |-> s, last |-> TRUE]
                ELSE [patch[q] EXCEPT !.last = @ /\ patch[q].fingerprint # p]) \in PatchFrames
    <3>1. [fingerprint |-> p, status |-> s, last |-> TRUE] \in PatchFrames
      BY DEF PatchFrames
    <3>2. PICK last \in BOOLEAN : last = (patch[q].last /\ patch[q].fingerprint # p)
      OBVIOUS
    <3>3. [patch[q] EXCEPT !.last = last] \in PatchFrames
      BY <2>1, <2>2 DEF PatchFrames
    <3>4. [patch[q] EXCEPT !.last = @ /\ patch[q].fingerprint # p] = [patch[q] EXCEPT !.last = last]
      BY <3>2, Zenon
    <3> QED
      BY <3>1, <3>3, <3>4, Zenon
  <2> QED
    BY <2>2, Zenon DEF UpdateLifecycle
<1>11. run' = run /\ \A r \in Runs : FrameOK(r)'
  BY DEF UpdateLifecycle, RegistryInv, FrameOK
<1>12. RegistryInv'
  BY <1>6, <1>8, <1>9, <1>10, <1>11 DEF UpdateLifecycle, RegistryInv
<1> QED
  BY <1>3, <1>4, <1>6, <1>7, <1>12

LEMMA OtherKeepsShape ==
  ASSUME RegistryInv, UNCHANGED <<tenant, rows, correlations, run, patch>>
  PROVE  RegistryInv'
<1>1. run' \in [Runs -> Frames] /\ \A r \in Runs : FrameOK(r)'
  BY DEF RegistryInv, FrameOK
<1> QED
  BY <1>1, SameRows DEF RegistryInv

LEMMA RegistryStep ==
  ASSUME RegistryInv, [Next]_vars
  PROVE  RegistryInv'
<1>1. ASSUME NEW r \in Runs, NEW report \in Reports, Begin(r, report) PROVE RegistryInv'
  BY <1>1, BeginKeepsShape
<1>2. ASSUME NEW r \in Runs, Store(r) PROVE RegistryInv'
  BY <1>2, StoreCases, StoreKeepsShape, MissKeepsShape, CorrelateKeepsShape
<1>3. ASSUME NEW u \in Patches, NEW p \in Fingerprints, NEW s \in {"open", "resolved"},
             UpdateLifecycle(u, p, s)
      PROVE  RegistryInv'
  BY <1>3, UpdateKeepsShape
<1>4. ASSUME NEW g \in Pagers, ListPage(g) PROVE RegistryInv'
  BY <1>4, OtherKeepsShape DEF ListPage
<1>5. CASE UNCHANGED vars
  BY <1>5, OtherKeepsShape DEF vars
<1> QED
  BY <1>1, <1>2, <1>3, <1>4, <1>5 DEF Next

LEMMA RegistryAlways == Spec => []RegistryInv
<1>1. Init => RegistryInv
  BY InitRegistry
<1>2. RegistryInv /\ [Next]_vars => RegistryInv'
  BY RegistryStep
<1> QED
  BY <1>1, <1>2, PTL DEF Spec

-----------------------------------------------------------------------------
(* The analyst's decision survives *)

\* A decision was made about a row that is there, and the row shows the last one.
TriageInv ==
  /\ \A u \in Patches : patch[u].fingerprint # None => patch[u].fingerprint \in Stored
  /\ \A p \in Stored :
       /\ \A u \in Patches : patch[u].fingerprint = p /\ patch[u].last =>
            rows[p].status = patch[u].status
       /\ (\A u \in Patches : ~(patch[u].fingerprint = p /\ patch[u].last)) =>
            rows[p].status = "open"

\* Steps that leave decisions alone and change no status keep the decisions.
LEMMA SameStatus ==
  ASSUME RegistryInv, TriageInv, patch' = patch, Stored \subseteq Stored',
         \A p \in Stored : rows'[p].status = rows[p].status,
         \A p \in Stored' \ Stored : rows'[p].status = "open"
  PROVE  TriageInv'
<1>1. ASSUME NEW u \in Patches, NEW p \in Stored' \ Stored PROVE patch[u].fingerprint # p
  <2>1. p \in Fingerprints /\ p # None
    BY FindingsAssumption DEF Stored
  <2> QED
    BY <2>1 DEF TriageInv
<1> QED
  BY <1>1 DEF TriageInv

LEMMA TriageStep ==
  ASSUME RegistryInv, TriageInv, [Next]_vars
  PROVE  TriageInv'
<1>1. ASSUME NEW r \in Runs, NEW new, StoreStep(r, new) PROVE TriageInv'
  <2>1. PICK p : p = Current(r).fingerprint
    OBVIOUS
  <2>2. /\ p \in Stored => new.status = rows[p].status
        /\ p \notin Stored => new.status = "open"
    BY <1>1, <2>1, StoredRow
  <2>3. /\ Stored' = Stored \cup {p} /\ rows'[p] = new
        /\ \A q \in Fingerprints : q # p => rows'[q] = rows[q]
    BY <1>1, <2>1, StoreGrows
  <2>4. \A q \in Stored : rows'[q].status = rows[q].status
    BY <2>2, <2>3 DEF Stored
  <2> QED
    BY <1>1, <2>2, <2>3, <2>4, SameStatus DEF StoreStep
<1>2. ASSUME rows' = rows, patch' = patch PROVE TriageInv'
  BY <1>2, SameRows, SameStatus
<1>3. ASSUME NEW u \in Patches, NEW p \in Fingerprints, NEW s \in {"open", "resolved"},
             UpdateLifecycle(u, p, s)
      PROVE  TriageInv'
  <2>1. /\ Stored' = Stored /\ rows'[p].status = s
        /\ \A q \in Fingerprints : q # p => rows'[q] = rows[q]
    BY <1>3, UpdateKeepsShape
  <2>2. p \in Stored /\ patch[u].fingerprint = None /\ p # None
    BY <1>3, FindingsAssumption DEF UpdateLifecycle
  <2>3. patch'[u].fingerprint = p /\ patch'[u].status = s /\ patch'[u].last
    BY <1>3 DEF UpdateLifecycle
  <2>4. ASSUME NEW v \in Patches, v # u
        PROVE  /\ patch'[v].fingerprint = patch[v].fingerprint
               /\ patch'[v].status = patch[v].status
               /\ patch'[v].last <=> patch[v].last /\ patch[v].fingerprint # p
    <3>1. patch'[v] = [patch[v] EXCEPT !.last = @ /\ patch[v].fingerprint # p]
      BY <1>3, <2>4 DEF UpdateLifecycle
    <3>2. PICK last \in BOOLEAN : last = (patch[v].last /\ patch[v].fingerprint # p)
      OBVIOUS
    <3>3. patch'[v] = [patch[v] EXCEPT !.last = last]
      BY <3>1, <3>2, Zenon
    <3>4. patch[v] \in PatchFrames
      BY DEF RegistryInv
    <3>5. /\ patch'[v].fingerprint = patch[v].fingerprint /\ patch'[v].status = patch[v].status
          /\ patch'[v].last = last
      BY <3>3, <3>4 DEF PatchFrames
    <3> QED
      BY <3>2, <3>5, Zenon
  <2>5. \A v \in Patches : patch'[v].fingerprint # None => patch'[v].fingerprint \in Stored
    BY <2>2, <2>3, <2>4 DEF TriageInv
  <2>6. ASSUME NEW v \in Patches, patch'[v].fingerprint = p, patch'[v].last
        PROVE  patch'[v].status = s
    BY <2>3, <2>4, <2>6
  <2>7. ASSUME NEW q \in Stored, q # p
        PROVE  /\ \A v \in Patches : patch'[v].fingerprint = q /\ patch'[v].last =>
                    rows'[q].status = patch'[v].status
               /\ (\A v \in Patches : ~(patch'[v].fingerprint = q /\ patch'[v].last)) =>
                    rows'[q].status = "open"
    <3>1. rows'[q] = rows[q] /\ q # None
      BY <2>1, <2>7, FindingsAssumption DEF Stored
    <3>2. \A v \in Patches : (patch'[v].fingerprint = q /\ patch'[v].last)
                               <=> (patch[v].fingerprint = q /\ patch[v].last)
      BY <2>2, <2>3, <2>4, <2>7, <3>1
    <3>3. \A v \in Patches : patch'[v].fingerprint = q => patch'[v].status = patch[v].status
      BY <2>3, <2>4, <2>7
    <3> QED
      BY <2>7, <3>1, <3>2, <3>3 DEF TriageInv
  <2> QED
    BY <2>1, <2>3, <2>5, <2>6, <2>7 DEF TriageInv
<1>4. ASSUME NEW r \in Runs, Store(r) PROVE TriageInv'
  <2>1. \/ \E new : StoreStep(r, new)
        \/ rows' = rows /\ patch' = patch
    BY <1>4, StoreCases DEF MissStep, Correlate
  <2> QED
    BY <1>1, <1>2, <2>1
<1> QED
  BY <1>2, <1>3, <1>4 DEF Next, Begin, ListPage, vars

\* An analyst's decision outlives every store: a row has the status of the last PATCH on it,
\* or is open, however the executors' two transactions interleave with update_lifecycle.
THEOREM TriageStands == Spec => []TriageSurvives
<1>1. Init => TriageInv
  <2> SUFFICES ASSUME Init PROVE TriageInv
    OBVIOUS
  <2>1. Stored = {}
    BY DEF Init, Stored, NoRow
  <2> QED
    BY <2>1 DEF Init, TriageInv, NewPatch
<1>2. RegistryInv /\ TriageInv /\ [Next]_vars => TriageInv'
  BY TriageStep
<1>3. TriageInv => TriageSurvives
  BY DEF TriageInv, TriageSurvives
<1> QED
  BY <1>1, <1>2, <1>3, RegistryAlways, PTL DEF Spec

-----------------------------------------------------------------------------
(* Concurrent stores lose nothing *)

\* The i-th finding of run r has fingerprint p and has been stored.
StoredAt(r, i, p) ==
  /\ r \in Runs /\ i \in 1..Len(run[r].report)
  /\ run[r].report[i].fingerprint = p
  /\ i < run[r].n \/ (i = run[r].n /\ run[r].pc \in {"correlate", "done"})

Sighting(s) == run[s[1]].report[s[2]]

\* s is the last of what its run has stored under p.
LastOfRun(s, p) == \A t \in StoresOf(p) : t[1] = s[1] => t[2] <= s[2]

\* A merge takes the place, the tool and the time of the finding that comes in.
SameSighting(h, e) == h.host = e.host /\ h.source = e.source /\ h.ts = e.ts

CountOK(p) ==
  /\ IsFiniteSet(StoresOf(p)) /\ rows[p].occurrences = Cardinality(StoresOf(p))
  /\ p \notin Stored => StoresOf(p) = {}
  /\ p \in Stored =>
       /\ \A s \in StoresOf(p) : /\ Sighting(s).severity <= rows[p].payload.severity
                                 /\ Sighting(s).ts <= rows[p].last_seen
       /\ \E s \in StoresOf(p) : Sighting(s).severity = rows[p].payload.severity
       /\ \E s \in StoresOf(p) : Sighting(s).ts = rows[p].last_seen
       /\ \E s \in StoresOf(p) : SameSighting(Sighting(s), rows[p].payload)
       /\ rows[p].severity <= rows[p].payload.severity
       /\ \A s \in StoresOf(p) :
            s[1] = rows[p].job_id /\ LastOfRun(s, p) =>
              Sighting(s).severity <= rows[p].severity /\ rows[p].first_seen <= Sighting(s).ts

\* A run that found no row is not the one the row names by the time it inserts or merges.
MissedRow(r) ==
  run[r].pc \in {"insert", "insert_tenant", "conflict"} =>
    rows[Current(r).fingerprint].job_id # r

CountInv ==
  /\ \A p \in Fingerprints : CountOK(p)
  /\ \A r \in Runs : MissedRow(r)

LEMMA StoresMembers ==
  ASSUME NEW p
  PROVE  /\ \A r, i : <<r, i>> \in StoresOf(p) <=> StoredAt(r, i, p)
         /\ \A s \in StoresOf(p) : s = <<s[1], s[2]>> /\ StoredAt(s[1], s[2], p)
<1>1. ASSUME NEW s \in StoresOf(p) PROVE \E r, i : s = <<r, i>> /\ StoredAt(r, i, p)
  BY DEF StoresOf, StoredAt
<1>2. ASSUME NEW r, NEW i, StoredAt(r, i, p) PROVE <<r, i>> \in StoresOf(p)
  BY <1>2 DEF StoresOf, StoredAt
<1> QED
  BY <1>1, <1>2

LEMMA StoresMembersNext ==
  ASSUME NEW p
  PROVE  /\ \A r, i : <<r, i>> \in StoresOf(p)' <=> StoredAt(r, i, p)'
         /\ \A s \in StoresOf(p)' : \E r, i : s = <<r, i>> /\ StoredAt(r, i, p)'
<1>1. ASSUME NEW s \in StoresOf(p)' PROVE \E r, i : s = <<r, i>> /\ StoredAt(r, i, p)'
  BY DEF StoresOf, StoredAt
<1>2. ASSUME NEW r, NEW i, StoredAt(r, i, p)' PROVE <<r, i>> \in StoresOf(p)'
  BY <1>2 DEF StoresOf, StoredAt
<1> QED
  BY <1>1, <1>2

\* A step that stores nothing under p and leaves what the row of p counts keeps the count.
LEMMA SameStores ==
  ASSUME NEW p, CountOK(p),
         \A r, i : StoredAt(r, i, p)' <=> StoredAt(r, i, p),
         \A r, i : StoredAt(r, i, p) => run'[r].report = run[r].report,
         p \in Stored' <=> p \in Stored,
         rows'[p].payload = rows[p].payload, rows'[p].severity = rows[p].severity,
         rows'[p].first_seen = rows[p].first_seen, rows'[p].last_seen = rows[p].last_seen,
         rows'[p].occurrences = rows[p].occurrences, rows'[p].job_id = rows[p].job_id
  PROVE  CountOK(p)'
<1>1. PICK stores : stores = StoresOf(p)
  OBVIOUS
<1>2. stores = StoresOf(p)'
  BY <1>1, StoresMembers, StoresMembersNext
<1>3. ASSUME NEW s \in stores PROVE Sighting(s)' = Sighting(s)
  BY <1>1, <1>3, StoresMembers DEF Sighting
<1>4. \A s \in stores : LastOfRun(s, p)' <=> LastOfRun(s, p)
  BY <1>1, <1>2 DEF LastOfRun
<1> QED
  BY <1>1, <1>2, <1>3, <1>4 DEF CountOK, SameSighting

\* What each step does to the stored findings of the other runs.
LEMMA OtherStores ==
  ASSUME RegistryInv, NEW r \in Runs, \A q \in Runs : q # r => run'[q] = run[q],
         NEW p, \A i : StoredAt(r, i, p)' <=> StoredAt(r, i, p),
         run'[r].report = run[r].report \/ \A i : ~StoredAt(r, i, p)
  PROVE  /\ \A q, i : StoredAt(q, i, p)' <=> StoredAt(q, i, p)
         /\ \A q, i : StoredAt(q, i, p) => run'[q].report = run[q].report
<1>1. ASSUME NEW q, NEW i, q # r PROVE StoredAt(q, i, p)' <=> StoredAt(q, i, p)
  BY <1>1 DEF StoredAt
<1> QED
  BY <1>1 DEF StoredAt

\* A store counts the current finding once more, under its own fingerprint only.
LEMMA StoreAdds ==
  ASSUME RegistryInv, NEW r \in Runs, NEW new, StoreStep(r, new),
         NEW p, p = Current(r).fingerprint, NEW f, f = Current(r)
  PROVE  /\ StoresOf(p)' = StoresOf(p) \cup {<<r, run[r].n>>} /\ <<r, run[r].n>> \notin StoresOf(p)
         /\ \A s \in StoresOf(p) : Sighting(s)' = Sighting(s) /\ (s[1] = r => s[2] < run[r].n)
         /\ \A s \in StoresOf(p)' : s = <<r, run[r].n>> => Sighting(s)' = f
         /\ \A q : q # p => \A t, i : StoredAt(t, i, q)' <=> StoredAt(t, i, q)
         /\ \A t \in Runs : run'[t].report = run[t].report
<1>1. /\ run'[r].pc = "correlate" /\ run'[r].report = run[r].report /\ run'[r].n = run[r].n
      /\ \A q \in Runs : q # r => run'[q] = run[q]
  BY GotoFrames DEF StoreStep, BeforeStore, Working
<1>2. /\ run[r].pc \in {"lookup", "insert", "insert_tenant", "conflict"}
      /\ run[r].n \in 1..Len(run[r].report) /\ f = run[r].report[run[r].n]
  BY CurrentIs DEF StoreStep, BeforeStore, Working, Current
<1>3. PICK n, report : n = run[r].n /\ report = run[r].report
  OBVIOUS
<1>4. \A i : StoredAt(r, i, p)' <=> StoredAt(r, i, p) \/ i = n
  BY <1>1, <1>2, <1>3 DEF StoredAt
<1>5. \A t, i : t # r => \A q : StoredAt(t, i, q)' <=> StoredAt(t, i, q)
  BY <1>1 DEF StoredAt
<1>6. StoresOf(p)' = StoresOf(p) \cup {<<r, n>>}
  BY <1>4, <1>5, StoresMembers, StoresMembersNext
<1>7. ~StoredAt(r, n, p)
  BY <1>2, <1>3 DEF StoredAt
<1>8. \A t \in Runs : run'[t].report = run[t].report
  BY <1>1
<1>9. ASSUME NEW s \in StoresOf(p)
      PROVE  Sighting(s)' = Sighting(s) /\ (s[1] = r => s[2] < n)
  <2>1. StoredAt(s[1], s[2], p)
    BY StoresMembers
  <2> QED
    BY <1>2, <1>3, <1>8, <2>1 DEF StoredAt, Sighting
<1>10. ASSUME NEW s, s = <<r, n>> PROVE Sighting(s)' = f
  BY <1>1, <1>2, <1>3, <1>10 DEF Sighting
<1>11. ASSUME NEW q, q # p PROVE \A i : StoredAt(r, i, q)' <=> StoredAt(r, i, q)
  BY <1>1, <1>2, <1>11 DEF StoredAt
<1> QED
  BY <1>3, <1>5, <1>6, <1>7, <1>8, <1>9, <1>10, <1>11, StoresMembers

\* The fields of the row that is stored, by the transaction that stores it.
LEMMA StoreWrites ==
  ASSUME RegistryInv, NEW r \in Runs, NEW new, StoreStep(r, new),
         NEW p, p = Current(r).fingerprint, NEW f, f = Current(r), NEW row, row = rows[p]
  PROVE  /\ f.severity \in Nat /\ f.ts \in Nat /\ row \in Rows
         /\ \/ /\ run[r].pc = "lookup" /\ p \in Stored /\ row.payload.severity \in Nat
               /\ new.payload.severity = Higher(row.payload.severity, f.severity)
               /\ new.severity = Higher(row.payload.severity, f.severity)
               /\ new.last_seen = Higher(row.last_seen, f.ts)
               /\ new.first_seen = Lower(row.first_seen, f.ts)
               /\ new.occurrences = row.occurrences + 1 /\ new.job_id = r
            \/ /\ run[r].pc = "conflict" /\ p \in Stored /\ row.payload.severity \in Nat
               /\ new.payload.severity = Higher(row.payload.severity, f.severity)
               /\ new.severity = row.severity
               /\ new.last_seen = Higher(row.last_seen, f.ts)
               /\ new.first_seen = row.first_seen
               /\ new.occurrences = row.occurrences + 1 /\ new.job_id = row.job_id
            \/ /\ p \notin Stored
               /\ new.payload.severity = f.severity /\ new.severity = f.severity
               /\ new.last_seen = f.ts /\ new.first_seen = f.ts
               /\ new.occurrences = 1 /\ new.job_id = r
<1>1. f \in AllFindings /\ p \in Fingerprints
  BY StoredRow
<1>2. f.severity \in Nat /\ f.ts \in Nat /\ row \in Rows /\ NewFrom(r, new) /\ IsFiniteSet(Stored)
  BY <1>1, FindingIs DEF RegistryInv, StoreStep
<1>3. p \in Stored => row.payload \in Payloads /\ row.payload.severity \in Nat
  BY <1>1 DEF RegistryInv, RowOK, Payloads
<1>4. CASE run[r].pc = "lookup" /\ p \in Stored /\ new = MergeInto(row, r)
  BY <1>1, <1>2, <1>3, <1>4, MergeIntoIs, MergeIs
<1>5. CASE run[r].pc = "conflict" /\ p \in Stored /\ new = MergeAfterConflict(row, r)
  BY <1>1, <1>2, <1>3, <1>5, MergeAfterConflictIs, MergeIs
<1>6. CASE p \notin Stored /\ new = NewRow(r)
  BY <1>1, <1>2, <1>6, NewRowIs
<1> QED
  BY <1>2, <1>4, <1>5, <1>6 DEF NewFrom

LEMMA StoreCountsOnce ==
  ASSUME RegistryInv, CountInv, NEW r \in Runs, NEW new, StoreStep(r, new),
         NEW p, p = Current(r).fingerprint
  PROVE  CountOK(p)'
<1>1. PICK f, row, n, stores, store :
        /\ f = Current(r) /\ row = rows[p] /\ n = run[r].n /\ stores = StoresOf(p)
        /\ store = <<r, n>>
  OBVIOUS
<1>2. /\ StoresOf(p)' = stores \cup {store} /\ store \notin stores
      /\ \A s \in stores : Sighting(s)' = Sighting(s) /\ (s[1] = r => s[2] < n)
      /\ Sighting(store)' = f
  BY <1>1, StoreAdds
<1>3. /\ p \in Fingerprints /\ p \in Stored' /\ rows'[p] = new
      /\ SameSighting(f, new.payload)
  BY <1>1, StoredRow, StoreGrows DEF SameSighting
<1>4. CountOK(p) /\ MissedRow(r)
  BY <1>3 DEF CountInv
<1>5. IsFiniteSet(stores) /\ row.occurrences = Cardinality(stores)
  BY <1>1, <1>4 DEF CountOK
<1>6. /\ IsFiniteSet(StoresOf(p)')
      /\ Cardinality(StoresOf(p)') = Cardinality(stores) + 1
  BY <1>2, <1>5, FS_AddElement
<1>7. n \in Nat /\ \A s \in stores : s[2] \in Nat /\ s[1] \in Runs /\ Sighting(s) \in AllFindings
  <2>1. n \in 1..Len(run[r].report) /\ Len(run[r].report) \in Nat
    BY <1>1, CurrentIs DEF StoreStep, BeforeStore, Working, RegistryInv, Frames
  <2>2. ASSUME NEW s \in stores PROVE s[2] \in Nat /\ s[1] \in Runs /\ Sighting(s) \in AllFindings
    <3>1. StoredAt(s[1], s[2], p)
      BY <1>1, StoresMembers
    <3>2. s[1] \in Runs /\ s[2] \in 1..Len(run[s[1]].report)
      BY <3>1 DEF StoredAt
    <3>3. run[s[1]].report \in Seq(AllFindings)
      BY <3>2 DEF RegistryInv, Frames
    <3> QED
      BY <3>2, <3>3 DEF Sighting
  <2> QED
    BY <2>1, <2>2
<1>8. \A s \in stores : Sighting(s).severity \in Nat /\ Sighting(s).ts \in Nat
  BY <1>7, FindingIs
<1>9. store[1] = r /\ store[2] = n
  BY <1>1
<1>10. p \in Stored =>
         /\ \A s \in stores : /\ Sighting(s).severity <= row.payload.severity
                              /\ Sighting(s).ts <= row.last_seen
         /\ \E s \in stores : Sighting(s).severity = row.payload.severity
         /\ \E s \in stores : Sighting(s).ts = row.last_seen
         /\ row.severity <= row.payload.severity
         /\ \A s \in stores : s[1] = row.job_id /\ LastOfRun(s, p) =>
              Sighting(s).severity <= row.severity /\ row.first_seen <= Sighting(s).ts
  BY <1>1, <1>4 DEF CountOK
<1>11. p \notin Stored => stores = {}
  BY <1>1, <1>4 DEF CountOK
<1>12. ASSUME NEW s \in stores, LastOfRun(s, p)'
       PROVE  LastOfRun(s, p) /\ s[1] # r
  <2>1. LastOfRun(s, p)
    BY <1>1, <1>2, <1>12 DEF LastOfRun
  <2>2. s[1] # r
    <3>1. s[1] = r => n <= s[2]
      BY <1>2, <1>9, <1>12 DEF LastOfRun
    <3> QED
      BY <1>2, <1>7, <3>1
  <2> QED
    BY <2>1, <2>2
<1>13. row \in Rows /\ row.last_seen \in Nat /\ row.first_seen \in Nat /\ row.severity \in Nat
       /\ row.occurrences \in Nat
  BY <1>1, StoreWrites DEF Rows
<1> DEFINE Kept ==
       /\ new.occurrences = Cardinality(stores) + 1
       /\ \A s \in stores : /\ Sighting(s).severity <= new.payload.severity
                            /\ Sighting(s).ts <= new.last_seen
       /\ f.severity <= new.payload.severity /\ f.ts <= new.last_seen
       /\ \/ f.severity = new.payload.severity
          \/ \E s \in stores : Sighting(s).severity = new.payload.severity
       /\ \/ f.ts = new.last_seen
          \/ \E s \in stores : Sighting(s).ts = new.last_seen
       /\ new.severity <= new.payload.severity
       /\ new.job_id = r => f.severity <= new.severity /\ new.first_seen <= f.ts
       /\ new.job_id # r => /\ new.job_id = row.job_id /\ new.severity = row.severity
                            /\ new.first_seen = row.first_seen /\ p \in Stored
<1>14. Kept
  <2>1. CASE /\ run[r].pc = "lookup" /\ p \in Stored /\ row.payload.severity \in Nat
             /\ new.payload.severity = Higher(row.payload.severity, f.severity)
             /\ new.severity = Higher(row.payload.severity, f.severity)
             /\ new.last_seen = Higher(row.last_seen, f.ts)
             /\ new.first_seen = Lower(row.first_seen, f.ts)
             /\ new.occurrences = row.occurrences + 1 /\ new.job_id = r
    <3>1. f.severity \in Nat /\ f.ts \in Nat
      BY <1>1, StoreWrites
    <3>2. /\ row.payload.severity <= new.payload.severity /\ f.severity <= new.payload.severity
          /\ new.payload.severity \in {row.payload.severity, f.severity}
          /\ row.last_seen <= new.last_seen /\ f.ts <= new.last_seen
          /\ new.last_seen \in {row.last_seen, f.ts}
          /\ new.first_seen <= f.ts /\ new.severity = new.payload.severity
      BY <1>13, <2>1, <3>1 DEF Higher, Lower
    <3>3. new.payload.severity \in Nat /\ new.last_seen \in Nat
      BY <1>13, <2>1, <3>1, <3>2
    <3>4. \A s \in stores : /\ Sighting(s).severity <= new.payload.severity
                            /\ Sighting(s).ts <= new.last_seen
      BY <1>8, <1>10, <1>13, <2>1, <3>2, <3>3
    <3>5. /\ \/ f.severity = new.payload.severity
             \/ \E s \in stores : Sighting(s).severity = new.payload.severity
          /\ f.ts = new.last_seen \/ \E s \in stores : Sighting(s).ts = new.last_seen
      BY <1>10, <2>1, <3>2
    <3> QED
      BY <1>5, <2>1, <3>2, <3>3, <3>4, <3>5
  <2>2. CASE /\ run[r].pc = "conflict" /\ p \in Stored /\ row.payload.severity \in Nat
             /\ new.payload.severity = Higher(row.payload.severity, f.severity)
             /\ new.severity = row.severity
             /\ new.last_seen = Higher(row.last_seen, f.ts)
             /\ new.first_seen = row.first_seen
             /\ new.occurrences = row.occurrences + 1 /\ new.job_id = row.job_id
    <3>1. new.job_id # r
      BY <1>1, <1>4, <2>2 DEF MissedRow
    <3>2. f.severity \in Nat /\ f.ts \in Nat
      BY <1>1, StoreWrites
    <3>3. /\ row.payload.severity <= new.payload.severity /\ f.severity <= new.payload.severity
          /\ new.payload.severity \in {row.payload.severity, f.severity}
          /\ row.last_seen <= new.last_seen /\ f.ts <= new.last_seen
          /\ new.last_seen \in {row.last_seen, f.ts}
      BY <1>13, <2>2, <3>2 DEF Higher
    <3>4. /\ new.payload.severity \in Nat /\ new.last_seen \in Nat
          /\ new.severity <= new.payload.severity
      BY <1>10, <1>13, <2>2, <3>2, <3>3
    <3>5. \A s \in stores : /\ Sighting(s).severity <= new.payload.severity
                            /\ Sighting(s).ts <= new.last_seen
      BY <1>8, <1>10, <1>13, <2>2, <3>3, <3>4
    <3>6. /\ \/ f.severity = new.payload.severity
             \/ \E s \in stores : Sighting(s).severity = new.payload.severity
          /\ f.ts = new.last_seen \/ \E s \in stores : Sighting(s).ts = new.last_seen
      BY <1>10, <2>2, <3>3
    <3> QED
      BY <1>5, <2>2, <3>1, <3>3, <3>4, <3>5, <3>6
  <2>3. CASE /\ p \notin Stored
             /\ new.payload.severity = f.severity /\ new.severity = f.severity
             /\ new.last_seen = f.ts /\ new.first_seen = f.ts
             /\ new.occurrences = 1 /\ new.job_id = r
    <3>1. f.severity \in Nat /\ f.ts \in Nat
      BY <1>1, StoreWrites
    <3>2. Cardinality(stores) = 0
      BY <1>11, <2>3, FS_EmptySet
    <3> QED
      BY <1>11, <2>3, <3>1, <3>2
  <2> QED
    BY <1>1, <2>1, <2>2, <2>3, StoreWrites
<1>15. ASSUME NEW s \in stores \cup {store}, s[1] = new.job_id, LastOfRun(s, p)'
       PROVE  Sighting(s)'.severity <= new.severity /\ new.first_seen <= Sighting(s)'.ts
  <2>1. CASE s \in stores
    BY <1>2, <1>10, <1>12, <1>14, <1>15, <2>1
  <2>2. CASE s = store
    BY <1>2, <1>9, <1>14, <1>15, <2>2
  <2> QED
    BY <2>1, <2>2
<1>16. \A s \in stores \cup {store} : /\ Sighting(s)'.severity <= new.payload.severity
                                      /\ Sighting(s)'.ts <= new.last_seen
  BY <1>2, <1>14
<1>17. /\ \E s \in stores \cup {store} : Sighting(s)'.severity = new.payload.severity
       /\ \E s \in stores \cup {store} : Sighting(s)'.ts = new.last_seen
       /\ \E s \in stores \cup {store} : SameSighting(Sighting(s)', new.payload)
  BY <1>2, <1>3, <1>14
<1>18. new.occurrences = Cardinality(StoresOf(p)') /\ new.severity <= new.payload.severity
  BY <1>6, <1>14
<1> HIDE DEF Kept
<1> QED
  BY <1>2, <1>3, <1>6, <1>15, <1>16, <1>17, <1>18 DEF CountOK, SameSighting

\* A step that only moves run r on, without a store, keeps every count.
LEMMA MoveKeepsCounts ==
  ASSUME RegistryInv, CountInv, NEW r \in Runs, \A q \in Runs : q # r => run'[q] = run[q],
         rows' = rows,
         \A p, i : StoredAt(r, i, p)' <=> StoredAt(r, i, p),
         run'[r].report = run[r].report \/ \A p, i : ~StoredAt(r, i, p),
         MissedRow(r)'
  PROVE  CountInv'
<1>1. ASSUME NEW p \in Fingerprints PROVE CountOK(p)'
  <2>1. /\ \A q, i : StoredAt(q, i, p)' <=> StoredAt(q, i, p)
        /\ \A q, i : StoredAt(q, i, p) => run'[q].report = run[q].report
    BY OtherStores
  <2>2. CountOK(p) /\ Stored' = Stored
    BY SameRows DEF CountInv
  <2> QED
    BY <2>1, <2>2, SameStores
<1>2. ASSUME NEW q \in Runs, q # r PROVE MissedRow(q)'
  BY <1>2 DEF MissedRow, Current, CountInv
<1> QED
  BY <1>1, <1>2 DEF CountInv

LEMMA CountStep ==
  ASSUME RegistryInv, CountInv, [Next]_vars
  PROVE  CountInv'
<1>1. ASSUME NEW r \in Runs, NEW new, StoreStep(r, new) PROVE CountInv'
  <2>1. PICK p, f, row : p = Current(r).fingerprint /\ f = Current(r) /\ row = rows[p]
    OBVIOUS
  <2>2. CountOK(p)'
    BY <1>1, <2>1, StoreCountsOnce
  <2>3. /\ Stored' = Stored \cup {p} /\ rows'[p] = new
        /\ \A q \in Fingerprints : q # p => rows'[q] = rows[q]
    BY <1>1, <2>1, StoreGrows
  <2>4. ASSUME NEW q \in Fingerprints, q # p PROVE CountOK(q)'
    <3>1. \A t, i : StoredAt(t, i, q)' <=> StoredAt(t, i, q)
      BY <1>1, <2>1, <2>4, StoreAdds
    <3>2. \A t \in Runs : run'[t].report = run[t].report
      BY <1>1, <2>1, StoreAdds
    <3>3. \A t, i : StoredAt(t, i, q) => run'[t].report = run[t].report
      BY <3>2 DEF StoredAt
    <3>4. CountOK(q)
      BY DEF CountInv
    <3>5. (q \in Stored' <=> q \in Stored) /\ rows'[q] = rows[q]
      BY <2>3, <2>4
    <3> QED
      BY <3>1, <3>3, <3>4, <3>5, SameStores
  <2>5. /\ run'[r].pc = "correlate"
        /\ \A q \in Runs : q # r => run'[q] = run[q]
    BY <1>1, GotoFrames DEF StoreStep, BeforeStore, Working
  <2>6. MissedRow(r)'
    BY <2>5 DEF MissedRow
  <2>7. ASSUME NEW q \in Runs, q # r PROVE MissedRow(q)'
    <3>1. run'[q] = run[q] /\ MissedRow(q)
      BY <2>5, <2>7 DEF CountInv
    <3>2. Current(q)' = Current(q)
      BY <3>1 DEF Current
    <3>3. SUFFICES ASSUME run[q].pc \in {"insert", "insert_tenant", "conflict"}
                   PROVE  rows'[Current(q).fingerprint].job_id # q
      BY <3>1, <3>2 DEF MissedRow
    <3>4. Current(q).fingerprint \in Fingerprints
      BY <3>3, CurrentIs, FindingIs DEF Working
    <3>5. new.job_id = r \/ new.job_id = row.job_id
      BY <1>1, <2>1, StoreWrites
    <3> QED
      BY <2>1, <2>3, <2>7, <3>1, <3>3, <3>4, <3>5 DEF MissedRow
  <2> QED
    BY <2>2, <2>4, <2>6, <2>7 DEF CountInv
<1>2. ASSUME NEW r \in Runs, NEW pc, MissStep(r, pc) PROVE CountInv'
  <2>1. /\ run[r].pc \in {"lookup", "insert", "insert_tenant", "conflict"}
        /\ pc \in {"insert", "insert_tenant", "conflict", "failed"}
        /\ rows' = rows
    BY <1>2 DEF MissStep, BeforeStore
  <2>2. /\ run'[r].pc = pc /\ run'[r].report = run[r].report /\ run'[r].n = run[r].n
        /\ \A q \in Runs : q # r => run'[q] = run[q]
    BY <1>2, <2>1, GotoFrames DEF MissStep, Working
  <2>3. \A p, i : StoredAt(r, i, p)' <=> StoredAt(r, i, p)
    BY <2>1, <2>2 DEF StoredAt
  <2>4. MissedRow(r)'
    <3>1. Current(r)' = Current(r)
      BY <2>2 DEF Current
    <3>2. SUFFICES ASSUME pc # "failed" PROVE rows[Current(r).fingerprint].job_id # r
      BY <2>1, <2>2, <3>1 DEF MissedRow
    <3>3. CASE run[r].pc = "lookup"
      <4>1. Current(r).fingerprint \in Fingerprints /\ Current(r).fingerprint \notin Stored
        BY <1>2, <3>3, CurrentIs, FindingIs DEF Working, MissStep
      <4>2. rows[Current(r).fingerprint] = NoRow
        BY <4>1 DEF RegistryInv, RowOK
      <4> QED
        BY <4>2, FindingsAssumption DEF NoRow
    <3>4. CASE run[r].pc # "lookup"
      BY <2>1, <3>4 DEF CountInv, MissedRow
    <3> QED
      BY <3>3, <3>4
  <2> QED
    BY <2>1, <2>2, <2>3, <2>4, MoveKeepsCounts
<1>3. ASSUME NEW r \in Runs, NEW related, CorrelateStep(r, related) PROVE CountInv'
  <2>1. /\ run[r].pc = "correlate" /\ run'[r].report = run[r].report /\ rows' = rows
        /\ \/ run'[r].pc = "lookup" /\ run'[r].n = run[r].n + 1
           \/ run'[r].pc = "done" /\ run'[r].n = run[r].n
        /\ \A q \in Runs : q # r => run'[q] = run[q]
    BY <1>3 DEF CorrelateStep
  <2>2. run[r].n \in Nat /\ Len(run[r].report) \in Nat
    BY DEF RegistryInv, Frames
  <2>3. \A p, i : StoredAt(r, i, p)' <=> StoredAt(r, i, p)
    BY <2>1, <2>2 DEF StoredAt
  <2>4. MissedRow(r)'
    BY <2>1 DEF MissedRow
  <2> QED
    BY <2>1, <2>3, <2>4, MoveKeepsCounts
<1>4. ASSUME NEW r \in Runs, NEW report \in Reports, Begin(r, report) PROVE CountInv'
  <2>1. Begun(r, report)
    BY <1>4, BeginKeepsShape
  <2>2. /\ run'[r].pc = IF report = << >> THEN "done" ELSE "lookup"
        /\ run'[r].report = report /\ run'[r].n = 1 /\ rows' = rows
        /\ run[r].pc = "start" /\ \A q \in Runs : q # r => run'[q] = run[q]
    BY <2>1 DEF Begun
  <2>3. run[r].report = << >> /\ report \in Seq(AllFindings)
    BY <2>2, FindingsAssumption DEF RegistryInv, FrameOK, NewRun
  <2>4. \A p, i : ~StoredAt(r, i, p)
    BY <2>3 DEF StoredAt
  <2>5. \A p, i : ~StoredAt(r, i, p)'
    BY <2>2, <2>3 DEF StoredAt
  <2>6. MissedRow(r)'
    BY <2>2 DEF MissedRow
  <2> QED
    BY <2>2, <2>4, <2>5, <2>6, MoveKeepsCounts
<1>5. ASSUME NEW u \in Patches, NEW p \in Fingerprints, NEW s \in {"open", "resolved"},
             UpdateLifecycle(u, p, s)
      PROVE  CountInv'
  <2>1. run' = run
    BY <1>5 DEF UpdateLifecycle
  <2>2. \A q, t, i : StoredAt(t, i, q)' <=> StoredAt(t, i, q)
    BY <2>1 DEF StoredAt
  <2>3. ASSUME NEW q \in Fingerprints PROVE CountOK(q)'
    BY <1>5, <2>1, <2>2, UpdateKeepsShape, SameStores DEF CountInv
  <2>4. ASSUME NEW r \in Runs PROVE MissedRow(r)'
    <3>1. Current(r)' = Current(r) /\ run' = run
      BY <2>1 DEF Current
    <3>2. run[r].pc \in {"insert", "insert_tenant", "conflict"} =>
            Current(r).fingerprint \in Fingerprints
      BY CurrentIs, FindingIs DEF Working
    <3> QED
      BY <1>5, <3>1, <3>2, UpdateKeepsShape DEF CountInv, MissedRow
  <2> QED
    BY <2>3, <2>4 DEF CountInv
<1>6. ASSUME rows' = rows, run' = run PROVE CountInv'
  <2>1. \A q, t, i : StoredAt(t, i, q)' <=> StoredAt(t, i, q)
    BY <1>6 DEF StoredAt
  <2>2. ASSUME NEW q \in Fingerprints PROVE CountOK(q)'
    BY <1>6, <2>1, SameRows, SameStores DEF CountInv
  <2>3. ASSUME NEW r \in Runs PROVE MissedRow(r)'
    BY <1>6 DEF CountInv, MissedRow, Current
  <2> QED
    BY <2>2, <2>3 DEF CountInv
<1>7. ASSUME NEW r \in Runs, Store(r) PROVE CountInv'
  BY <1>1, <1>2, <1>3, <1>7, StoreCases, CorrelateKeepsShape
<1> QED
  BY <1>4, <1>5, <1>6, <1>7 DEF Next, ListPage, vars

LEMMA MaxIs ==
  ASSUME NEW S \in SUBSET Nat, NEW v \in S, \A y \in S : y <= v
  PROVE  Max(S) = v
<1>1. \A y \in S : v >= y
  OBVIOUS
<1>2. \A x \in S : (\A y \in S : x >= y) => x = v
  BY <1>1
<1> QED
  BY <1>1, <1>2 DEF Max

LEMMA CountInvImplies ==
  ASSUME RegistryInv, CountInv
  PROVE  NothingLost
<1>1. ASSUME NEW p \in Fingerprints
      PROVE  /\ rows[p].occurrences = Cardinality(StoresOf(p))
             /\ p \in Stored =>
                  /\ rows[p].payload.id = rows[p].finding_id
                  /\ rows[p].payload.severity = Max({f.severity : f \in StoredFindings(p)})
                  /\ rows[p].last_seen = Max({f.ts : f \in StoredFindings(p)})
                  /\ rows[p].severity <= rows[p].payload.severity
                  /\ \A s \in StoresOf(p) :
                       /\ s[1] = rows[p].job_id
                       /\ \A t \in StoresOf(p) : t[1] = s[1] => t[2] <= s[2]
                       => LET f == run[s[1]].report[s[2]]
                          IN  f.severity <= rows[p].severity /\ rows[p].first_seen <= f.ts
  <2>1. CountOK(p) /\ RowOK(p)
    BY DEF CountInv, RegistryInv
  <2>2. ASSUME p \in Stored
        PROVE  /\ rows[p].payload.severity = Max({f.severity : f \in StoredFindings(p)})
               /\ rows[p].last_seen = Max({f.ts : f \in StoredFindings(p)})
    <3>1. PICK severities, times : /\ severities = {f.severity : f \in StoredFindings(p)}
                                   /\ times = {f.ts : f \in StoredFindings(p)}
      OBVIOUS
    <3>2. \A x : x \in severities <=> \E s \in StoresOf(p) : x = Sighting(s).severity
      BY <3>1 DEF StoredFindings, Sighting
    <3>3. \A x : x \in times <=> \E s \in StoresOf(p) : x = Sighting(s).ts
      BY <3>1 DEF StoredFindings, Sighting
    <3>4. \A s \in StoresOf(p) : Sighting(s).severity \in Nat /\ Sighting(s).ts \in Nat
      <4>1. ASSUME NEW s \in StoresOf(p) PROVE Sighting(s) \in AllFindings
        <5>1. StoredAt(s[1], s[2], p)
          BY StoresMembers
        <5>2. s[1] \in Runs /\ s[2] \in 1..Len(run[s[1]].report)
          BY <5>1 DEF StoredAt
        <5>3. run[s[1]].report \in Seq(AllFindings)
          BY <5>2 DEF RegistryInv, Frames
        <5> QED
          BY <5>2, <5>3 DEF Sighting
      <4> QED
        BY <4>1, FindingIs
    <3>5. severities \in SUBSET Nat /\ times \in SUBSET Nat
      BY <3>2, <3>3, <3>4
    <3>6. /\ rows[p].payload.severity \in severities
          /\ \A y \in severities : y <= rows[p].payload.severity
      BY <2>1, <2>2, <3>2 DEF CountOK
    <3>7. /\ rows[p].last_seen \in times
          /\ \A y \in times : y <= rows[p].last_seen
      BY <2>1, <2>2, <3>3 DEF CountOK
    <3>8. Max(severities) = rows[p].payload.severity /\ Max(times) = rows[p].last_seen
      BY <3>5, <3>6, <3>7, MaxIs
    <3> QED
      BY <3>1, <3>8
  <2>3. ASSUME p \in Stored, NEW s \in StoresOf(p), s[1] = rows[p].job_id,
               \A t \in StoresOf(p) : t[1] = s[1] => t[2] <= s[2]
        PROVE  LET f == run[s[1]].report[s[2]]
               IN  f.severity <= rows[p].severity /\ rows[p].first_seen <= f.ts
    BY <2>1, <2>3 DEF CountOK, LastOfRun, Sighting
  <2> QED
    BY <2>1, <2>2, <2>3 DEF CountOK, RowOK
<1> QED
  BY <1>1, Zenon DEF NothingLost

LEMMA CountAlways == Spec => []CountInv
<1>1. Init => CountInv
  <2> SUFFICES ASSUME Init PROVE CountInv
    OBVIOUS
  <2>1. Stored = {} /\ \A r \in Runs : run[r] = NewRun
    BY DEF Init, Stored, NoRow
  <2>2. \A p, r, i : ~StoredAt(r, i, p)
    BY <2>1 DEF StoredAt, NewRun
  <2>3. ASSUME NEW p \in Fingerprints PROVE CountOK(p)
    <3>1. StoresOf(p) = {}
      BY <2>2, StoresMembers
    <3>2. rows[p].occurrences = 0
      BY DEF Init, NoRow
    <3> QED
      BY <2>1, <3>1, <3>2, FS_EmptySet DEF CountOK
  <2>4. \A r \in Runs : MissedRow(r)
    BY <2>1 DEF MissedRow, NewRun
  <2> QED
    BY <2>3, <2>4 DEF CountInv
<1>2. RegistryInv /\ CountInv /\ [Next]_vars => CountInv'
  BY CountStep
<1> QED
  BY <1>1, <1>2, RegistryAlways, PTL DEF Spec

\* Executors that store the same problem at the same time lose nothing: each of the ways
\* _store_finding ends counts its occurrence once and keeps the highest severity, the last
\* sighting and the first id, and the row's own columns cover the job it names.
THEOREM StoresAreCounted == Spec => []NothingLost
<1>1. RegistryInv /\ CountInv => NothingLost
  BY CountInvImplies
<1> QED
  BY <1>1, RegistryAlways, CountAlways, PTL

-----------------------------------------------------------------------------
(* Later runs correlate with earlier ones *)

\* What has been stored under each fingerprint.
Sightings == [p \in Fingerprints |-> StoredFindings(p)]

\* e is what the registry held of fingerprint p: its first id and one of its sightings.
Snapshot(e, p) ==
  /\ e.id = rows[p].finding_id
  /\ \E h \in Sightings[p] : SameSighting(h, e)

\* Fingerprint p is stored and in the registry that r was given.
Given(r, p) == p \in Stored /\ \E e \in run[r].existing : Snapshot(e, p)

\* The runs that had ended are in the registry that r was given.
EarlierSeen(r) ==
  \A q \in run[r].earlier :
    /\ q \in Runs /\ run[q].pc = "done"
    /\ \A k \in 1..Len(run[q].report) : Given(r, run[q].report[k].fingerprint)

\* Every sighting of f is related to g.
Matches(f, g) ==
  /\ g.host # None /\ f.source # g.source
  /\ rows[f.fingerprint].finding_id # g.id
  /\ \A h \in Sightings[f.fingerprint] : h.host = g.host /\ WithinWindow(h, g)

\* If the rule could always see f beside g, it has.
Pair(f, g) == Matches(f, g) => CorrelatedPair(f, g)

\* The i-th finding of r has been correlated.
Past(r, i) == i < run[r].n \/ (i = run[r].n /\ run[r].pc = "done")

\* The i-th finding of r is correlated with what the earlier runs reported.
Pairs(r, i) ==
  \A q \in run[r].earlier : \A k \in 1..Len(run[q].report) :
    Pair(run[q].report[k], run[r].report[i])

CorrelationInv ==
  \A r \in Runs : EarlierSeen(r) /\ \A i \in 1..Len(run[r].report) : Past(r, i) => Pairs(r, i)

\* What every step respects: the ids of a row stay, runs that ended stay ended, and
\* correlations and what was sighted stay.
Grows ==
  /\ Stored \subseteq Stored'
  /\ \A p \in Stored : /\ rows'[p].finding_id = rows[p].finding_id
                       /\ rows'[p].row_id = rows[p].row_id
  /\ correlations \subseteq correlations'
  /\ \A q \in Runs : run[q].pc = "done" => run'[q] = run[q]
  /\ \A p \in Fingerprints : Sightings[p] \subseteq Sightings'[p]

LEMMA SightingsMembers ==
  ASSUME NEW p \in Fingerprints
  PROVE  /\ \A h \in Sightings[p] : \E r, i : StoredAt(r, i, p) /\ h = run[r].report[i]
         /\ \A r, i : StoredAt(r, i, p) => run[r].report[i] \in Sightings[p]
<1>1. Sightings[p] = {run[s[1]].report[s[2]] : s \in StoresOf(p)}
  BY DEF Sightings, StoredFindings
<1>2. ASSUME NEW h \in Sightings[p] PROVE \E r, i : StoredAt(r, i, p) /\ h = run[r].report[i]
  BY <1>1, <1>2, StoresMembers
<1>3. ASSUME NEW r, NEW i, StoredAt(r, i, p) PROVE run[r].report[i] \in Sightings[p]
  <2>1. PICK s : s = <<r, i>>
    OBVIOUS
  <2>2. s \in StoresOf(p) /\ s[1] = r /\ s[2] = i
    BY <1>3, <2>1, StoresMembers
  <2> QED
    BY <1>1, <2>2
<1> QED
  BY <1>2, <1>3

\* What was stored and is still in its report is sighted after the step.
LEMMA SightingsStay ==
  ASSUME NEW p \in Fingerprints,
         \A r, i : StoredAt(r, i, p) => StoredAt(r, i, p)' /\ run'[r].report = run[r].report
  PROVE  Sightings[p] \subseteq Sightings'[p]
<1>1. Sightings'[p] = {run'[s[1]].report[s[2]] : s \in StoresOf(p)'}
  BY DEF Sightings, StoredFindings
<1>2. ASSUME NEW h \in Sightings[p] PROVE h \in Sightings'[p]
  <2>1. PICK r, i : StoredAt(r, i, p) /\ h = run[r].report[i]
    BY <1>2, SightingsMembers
  <2>2. PICK s : s = <<r, i>>
    OBVIOUS
  <2>3. s \in StoresOf(p)' /\ h = run'[s[1]].report[s[2]]
    BY <2>1, <2>2, StoresMembersNext
  <2> QED
    BY <1>1, <2>3
<1> QED
  BY <1>2

LEMMA StepGrows ==
  ASSUME RegistryInv, [Next]_vars
  PROVE  Grows
<1>1. ASSUME NEW r \in Runs, NEW new, StoreStep(r, new) PROVE Grows
  <2>1. PICK p, f : p = Current(r).fingerprint /\ f = Current(r)
    OBVIOUS
  <2>2. /\ Stored' = Stored \cup {p} /\ rows'[p] = new
        /\ \A q \in Fingerprints : q # p => rows'[q] = rows[q]
    BY <1>1, <2>1, StoreGrows
  <2>3. p \in Stored => new.finding_id = rows[p].finding_id /\ new.row_id = rows[p].row_id
    BY <1>1, <2>1, StoredRow
  <2>4. run[r].pc # "done" /\ \A q \in Runs : q # r => run'[q] = run[q]
    BY <1>1, GotoFrames DEF StoreStep, BeforeStore, Working
  <2>5. /\ StoresOf(p) \subseteq StoresOf(p)'
        /\ \A q : q # p => \A t, i : StoredAt(t, i, q)' <=> StoredAt(t, i, q)
        /\ \A t \in Runs : run'[t].report = run[t].report
    BY <1>1, <2>1, StoreAdds
  <2>6. \A t, i : StoredAt(t, i, p) => StoredAt(t, i, p)'
    BY <2>5, StoresMembers, StoresMembersNext
  <2>7. ASSUME NEW q \in Fingerprints PROVE Sightings[q] \subseteq Sightings'[q]
    <3>1. \A t, i : StoredAt(t, i, q) => StoredAt(t, i, q)'
      BY <2>5, <2>6
    <3>2. \A t, i : StoredAt(t, i, q) => run'[t].report = run[t].report
      BY <2>5 DEF StoredAt
    <3> QED
      BY <3>1, <3>2, SightingsStay
  <2> QED
    BY <1>1, <2>2, <2>3, <2>4, <2>7 DEF Grows, Stored, StoreStep
<1>2. ASSUME NEW r \in Runs, run[r].pc # "done", \A q \in Runs : q # r => run'[q] = run[q],
             rows' = rows, correlations \subseteq correlations',
             \A p, i : StoredAt(r, i, p) =>
                         StoredAt(r, i, p)' /\ run'[r].report = run[r].report
      PROVE  Grows
  <2>1. ASSUME NEW p \in Fingerprints PROVE Sightings[p] \subseteq Sightings'[p]
    <3>1. ASSUME NEW q, NEW i, StoredAt(q, i, p)
          PROVE  StoredAt(q, i, p)' /\ run'[q].report = run[q].report
      <4>1. CASE q = r
        BY <1>2, <3>1, <4>1
      <4>2. CASE q # r
        BY <1>2, <3>1, <4>2 DEF StoredAt
      <4> QED
        BY <4>1, <4>2
    <3> QED
      BY <3>1, SightingsStay
  <2> QED
    BY <1>2, <2>1, SameRows DEF Grows
<1>3. ASSUME NEW r \in Runs, NEW pc, MissStep(r, pc) PROVE Grows
  <2>1. /\ run'[r].report = run[r].report /\ run'[r].n = run[r].n
        /\ run[r].pc \in BeforeStore /\ \A q \in Runs : q # r => run'[q] = run[q]
    BY <1>3, GotoFrames DEF MissStep, BeforeStore, Working
  <2>2. \A p, i : StoredAt(r, i, p) => StoredAt(r, i, p)'
    BY <2>1 DEF StoredAt, BeforeStore
  <2> QED
    BY <1>2, <1>3, <2>1, <2>2 DEF MissStep, BeforeStore
<1>4. ASSUME NEW r \in Runs, NEW related, CorrelateStep(r, related) PROVE Grows
  <2>1. /\ run[r].pc = "correlate" /\ run'[r].report = run[r].report
        /\ \/ run'[r].pc = "lookup" /\ run'[r].n = run[r].n + 1
           \/ run'[r].pc = "done" /\ run'[r].n = run[r].n
    BY <1>4 DEF CorrelateStep
  <2>2. run[r].n \in Nat /\ Len(run[r].report) \in Nat
    BY DEF RegistryInv, Frames
  <2>3. \A p, i : StoredAt(r, i, p) => StoredAt(r, i, p)'
    BY <2>1, <2>2 DEF StoredAt
  <2> QED
    BY <1>2, <1>4, <2>1, <2>3 DEF CorrelateStep
<1>5. ASSUME NEW r \in Runs, NEW report \in Reports, Begin(r, report) PROVE Grows
  <2>1. Begun(r, report)
    BY <1>5, BeginKeepsShape
  <2>2. run[r].pc = "start" /\ run[r].report = << >>
    BY <2>1 DEF Begun, RegistryInv, FrameOK, NewRun
  <2>3. \A p, i : ~StoredAt(r, i, p)
    BY <2>2 DEF StoredAt
  <2> QED
    BY <1>2, <2>1, <2>3 DEF Begun
<1>6. ASSUME run' = run, Stored' = Stored, correlations' = correlations,
             \A q \in Fingerprints : /\ rows'[q].finding_id = rows[q].finding_id
                                     /\ rows'[q].row_id = rows[q].row_id
      PROVE  Grows
  <2>1. \A q, t, i : StoredAt(t, i, q)' <=> StoredAt(t, i, q)
    BY <1>6 DEF StoredAt
  <2>2. \A q \in Fingerprints : Sightings[q] \subseteq Sightings'[q]
    BY <1>6, <2>1, SightingsStay
  <2> QED
    BY <1>6, <2>2 DEF Grows, Stored
<1>7. ASSUME NEW u \in Patches, NEW p \in Fingerprints, NEW s \in {"open", "resolved"},
             UpdateLifecycle(u, p, s)
      PROVE  Grows
  <2>1. Stored' = Stored /\ \A q \in Fingerprints : /\ rows'[q].finding_id = rows[q].finding_id
                                                    /\ rows'[q].row_id = rows[q].row_id
    BY <1>7, UpdateKeepsShape
  <2>2. run' = run /\ correlations' = correlations
    BY <1>7 DEF UpdateLifecycle
  <2> QED
    BY <1>6, <2>1, <2>2
<1>8. ASSUME rows' = rows, run' = run, correlations' = correlations PROVE Grows
  BY <1>6, <1>8, SameRows
<1>9. ASSUME NEW r \in Runs, Store(r) PROVE Grows
  BY <1>1, <1>3, <1>4, <1>9, StoreCases, CorrelateKeepsShape
<1> QED
  BY <1>5, <1>7, <1>8, <1>9 DEF Next, ListPage, vars

\* What a run that is over has reported is stored.
LEMMA DoneIsStored ==
  ASSUME RegistryInv, CountInv, NEW q \in Runs, run[q].pc = "done",
         NEW k \in 1..Len(run[q].report)
  PROVE  /\ run[q].report[k] \in AllFindings
         /\ run[q].report[k].fingerprint \in Stored
<1>1. run[q].report \in Seq(AllFindings) /\ run[q].n \in Nat
  BY DEF RegistryInv, Frames
<1>2. run[q].report # << >>
  BY <1>1
<1>3. run[q].n = Len(run[q].report)
  BY <1>2 DEF RegistryInv, FrameOK
<1>4. PICK p : p = run[q].report[k].fingerprint
  OBVIOUS
<1>5. run[q].report[k] \in AllFindings /\ p \in Fingerprints
  BY <1>1, <1>4, FindingIs
<1>6. StoredAt(q, k, p)
  BY <1>1, <1>3, <1>4 DEF StoredAt
<1>7. StoresOf(p) # {}
  BY <1>6, StoresMembers
<1> QED
  BY <1>4, <1>5, <1>7 DEF CountInv, CountOK

\* What a run that begins is given holds every stored fingerprint.
LEMMA PayloadIsSnapshot ==
  ASSUME RegistryInv, CountInv, NEW p \in Stored
  PROVE  Snapshot(rows[p].payload, p)
<1>1. p \in Fingerprints /\ RowOK(p) /\ CountOK(p)
  BY DEF RegistryInv, CountInv, Stored
<1>2. PICK s \in StoresOf(p) : SameSighting(Sighting(s), rows[p].payload)
  BY <1>1 DEF CountOK
<1>3. Sighting(s) \in Sightings[p]
  BY <1>1, <1>2, StoresMembers, SightingsMembers DEF Sighting
<1> QED
  BY <1>1, <1>2, <1>3 DEF RowOK, Snapshot

\* What is to be shown after a step, of findings and fingerprints that are known before.
LEMMA PairsNext ==
  ASSUME NEW r, NEW i, NEW g, g = run'[r].report[i],
         \A q \in run'[r].earlier : \A k \in 1..Len(run'[q].report) :
           \A f : f = run'[q].report[k] => Pair(f, g)'
  PROVE  Pairs(r, i)'
<1>1. ASSUME NEW q \in run'[r].earlier, NEW k \in 1..Len(run'[q].report)
      PROVE  Pair(run[q].report[k], run[r].report[i])'
  <2>1. PICK f : f = run'[q].report[k]
    OBVIOUS
  <2>2. Pair(f, g)'
    BY <1>1, <2>1
  <2> QED
    BY <2>1, <2>2 DEF Pair, Matches, CorrelatedPair, WithinWindow
<1> QED
  BY <1>1 DEF Pairs

LEMMA SeenNext ==
  ASSUME NEW r,
         \A q \in run'[r].earlier :
           /\ q \in Runs /\ run'[q].pc = "done"
           /\ \A k \in 1..Len(run'[q].report) :
                \A p : p = run'[q].report[k].fingerprint => Given(r, p)'
  PROVE  EarlierSeen(r)'
<1>1. ASSUME NEW q \in run'[r].earlier, NEW k \in 1..Len(run'[q].report)
      PROVE  Given(r, run[q].report[k].fingerprint)'
  <2>1. PICK p : p = run'[q].report[k].fingerprint
    OBVIOUS
  <2>2. Given(r, p)'
    BY <1>1, <2>1
  <2> QED
    BY <2>1, <2>2 DEF Given, Snapshot
<1> QED
  BY <1>1 DEF EarlierSeen

\* The pairs that are correlated stay so.
LEMMA PairsStay ==
  ASSUME RegistryInv, CorrelationInv, Grows,
         NEW r \in Runs, run'[r].earlier = run[r].earlier, run'[r].report = run[r].report,
         NEW i, Pairs(r, i)
  PROVE  Pairs(r, i)'
<1>1. PICK g : g = run[r].report[i]
  OBVIOUS
<1>2. ASSUME NEW q \in run[r].earlier, NEW k \in 1..Len(run'[q].report),
             NEW f, f = run'[q].report[k], Matches(f, g)'
      PROVE  CorrelatedPair(f, g)'
  <2>1. q \in Runs /\ run'[q] = run[q]
    BY DEF CorrelationInv, EarlierSeen, Grows
  <2>2. k \in 1..Len(run[q].report) /\ f = run[q].report[k]
    BY <1>2, <2>1
  <2>3. f.fingerprint \in Stored /\ f.fingerprint \in Fingerprints
    BY <2>2 DEF CorrelationInv, EarlierSeen, Given, Stored
  <2>4. rows'[f.fingerprint].finding_id = rows[f.fingerprint].finding_id
    BY <2>3 DEF Grows
  <2>5. Matches(f, g)
    BY <1>2, <2>3, <2>4 DEF Matches, Grows, WithinWindow
  <2>6. CorrelatedPair(f, g)
    BY <1>1, <2>2, <2>5 DEF Pairs, Pair
  <2> QED
    BY <2>4, <2>6 DEF CorrelatedPair, Grows
<1>3. \A q \in run'[r].earlier : \A k \in 1..Len(run'[q].report) :
        \A f : f = run'[q].report[k] => Pair(f, g)'
  BY <1>2 DEF Pair
<1> QED
  BY <1>1, <1>3, PairsNext

\* The runs that were seen stay seen while the run's registry only grows.
LEMMA SeenStays ==
  ASSUME RegistryInv, CorrelationInv, Grows,
         NEW r \in Runs, run'[r].earlier = run[r].earlier,
         run[r].existing \subseteq run'[r].existing
  PROVE  EarlierSeen(r)'
<1>1. ASSUME NEW q \in run[r].earlier
      PROVE  q \in Runs /\ run'[q].pc = "done" /\ run'[q] = run[q]
  BY DEF CorrelationInv, EarlierSeen, Grows
<1>2. ASSUME NEW q \in run[r].earlier, NEW k \in 1..Len(run[q].report),
             NEW p, p = run[q].report[k].fingerprint
      PROVE  Given(r, p)'
  <2>1. Given(r, p)
    BY <1>2 DEF CorrelationInv, EarlierSeen
  <2>2. PICK e \in run[r].existing : Snapshot(e, p)
    BY <2>1 DEF Given
  <2>3. Snapshot(e, p)'
    BY <2>1, <2>2 DEF Given, Snapshot, Grows, Stored
  <2> QED
    BY <2>1, <2>2, <2>3 DEF Given, Grows
<1> QED
  BY <1>1, <1>2, SeenNext

\* The step that correlates the current finding finds every finding that is related.
LEMMA CorrelateFinds ==
  ASSUME RegistryInv, CountInv, CorrelationInv, Grows, NEW r \in Runs, NEW related,
         CorrelateStep(r, related), NEW n, n = run[r].n
  PROVE  Pairs(r, n)'
<1>1. /\ run[r].pc = "correlate" /\ rows' = rows
      /\ run'[r].report = run[r].report /\ run'[r].earlier = run[r].earlier
      /\ \A q \in Runs : q # r => run'[q] = run[q]
      /\ related = IF Current(r).host = None THEN {}
                   ELSE {e \in run[r].existing : Related(Current(r), e)}
      /\ correlations' = IF related = {} THEN correlations
                         ELSE correlations \cup {{Current(r).id} \cup {e.id : e \in related}}
  BY DEF CorrelateStep
<1>2. PICK g : g = Current(r)
  OBVIOUS
<1>3. g = run[r].report[n]
  BY <1>2 DEF Current
<1>4. ASSUME NEW q \in run[r].earlier, NEW k \in 1..Len(run[q].report),
             NEW f, f = run[q].report[k], Matches(f, g)
      PROVE  \E c \in correlations' : rows[f.fingerprint].finding_id \in c /\ g.id \in c
  <2>1. q \in Runs /\ run[q].pc = "done"
    BY DEF CorrelationInv, EarlierSeen
  <2>2. f \in AllFindings /\ f.fingerprint \in Fingerprints
    BY <1>4, <2>1, DoneIsStored, FindingIs
  <2>3. PICK e \in run[r].existing : Snapshot(e, f.fingerprint)
    BY <1>4 DEF CorrelationInv, EarlierSeen, Given
  <2>4. PICK h \in Sightings[f.fingerprint] : SameSighting(h, e)
    BY <2>3 DEF Snapshot
  <2>5. h \in AllFindings /\ h.fingerprint = f.fingerprint
    <3>1. PICK t, i : StoredAt(t, i, f.fingerprint) /\ h = run[t].report[i]
      BY <2>2, <2>4, SightingsMembers
    <3>2. t \in Runs /\ i \in 1..Len(run[t].report) /\ h.fingerprint = f.fingerprint
      BY <3>1 DEF StoredAt
    <3>3. run[t].report \in Seq(AllFindings)
      BY <3>2 DEF RegistryInv, Frames
    <3> QED
      BY <3>1, <3>2, <3>3
  <2>6. h.source = f.source /\ h.host = g.host /\ WithinWindow(h, g)
    BY <1>4, <2>2, <2>4, <2>5, FindingsAssumption DEF Matches
  <2>7. Related(g, e) /\ g.host # None
    BY <1>4, <2>3, <2>4, <2>6 DEF Related, Matches, Snapshot, SameSighting, WithinWindow
  <2>8. e \in related
    BY <1>1, <1>2, <2>7
  <2>9. PICK c : c = {g.id} \cup {x.id : x \in related}
    OBVIOUS
  <2>10. c \in correlations'
    BY <1>1, <1>2, <2>8, <2>9
  <2>11. e.id \in c /\ g.id \in c
    BY <2>8, <2>9
  <2> QED
    BY <2>3, <2>10, <2>11 DEF Snapshot
<1>5. ASSUME NEW q \in run[r].earlier PROVE q \in Runs /\ run'[q] = run[q]
  BY <1>1 DEF CorrelationInv, EarlierSeen
<1>6. ASSUME NEW q \in run[r].earlier, NEW k \in 1..Len(run'[q].report),
             NEW f, f = run'[q].report[k], Matches(f, g)'
      PROVE  CorrelatedPair(f, g)'
  <2>1. k \in 1..Len(run[q].report) /\ f = run[q].report[k]
    BY <1>5, <1>6
  <2>2. f.fingerprint \in Fingerprints
    BY <2>1 DEF CorrelationInv, EarlierSeen, Given, Stored
  <2>3. Matches(f, g)
    BY <1>1, <1>6, <2>2 DEF Matches, Grows, WithinWindow
  <2> QED
    BY <1>1, <1>4, <2>1, <2>3 DEF CorrelatedPair
<1>7. \A q \in run'[r].earlier : \A k \in 1..Len(run'[q].report) :
        \A f : f = run'[q].report[k] => Pair(f, g)'
  BY <1>1, <1>6 DEF Pair
<1> QED
  BY <1>1, <1>3, <1>7, PairsNext

LEMMA CorrelationStep ==
  ASSUME RegistryInv, CountInv, CorrelationInv, [Next]_vars
  PROVE  CorrelationInv'
<1>0. Grows
  BY StepGrows
<1> DEFINE Good(r) == EarlierSeen(r)' /\ \A i \in 1..Len(run'[r].report) : Past(r, i)' => Pairs(r, i)'
<1>1. ASSUME NEW r \in Runs, run'[r].earlier = run[r].earlier, run'[r].report = run[r].report,
             run[r].existing \subseteq run'[r].existing,
             \A i \in 1..Len(run[r].report) : Past(r, i)' => Past(r, i) \/ Pairs(r, i)'
      PROVE  Good(r)
  <2>1. EarlierSeen(r)'
    BY <1>0, <1>1, SeenStays
  <2>2. ASSUME NEW i \in 1..Len(run[r].report), Past(r, i)' PROVE Pairs(r, i)'
    <3>1. CASE Past(r, i)
      <4>1. Pairs(r, i)
        BY <3>1 DEF CorrelationInv
      <4> QED
        BY <1>0, <1>1, <4>1, PairsStay
    <3> QED
      BY <1>1, <2>2, <3>1
  <2> QED
    BY <1>1, <2>1, <2>2
<1>2. ASSUME NEW r \in Runs, run'[r] = run[r] PROVE Good(r)
  <2>1. \A i : Past(r, i)' => Past(r, i)
    BY <1>2 DEF Past
  <2> QED
    BY <1>1, <1>2, <2>1
<1>3. ASSUME NEW r \in Runs, run[r].pc \in Working, run'[r].pc \in Working,
             run'[r].n = run[r].n, run'[r].report = run[r].report,
             run'[r].existing = run[r].existing, run'[r].earlier = run[r].earlier
      PROVE  Good(r)
  <2>1. \A i : Past(r, i)' => Past(r, i)
    BY <1>3 DEF Past, Working
  <2> QED
    BY <1>1, <1>3, <2>1
<1>4. ASSUME NEW r \in Runs, NEW related, CorrelateStep(r, related) PROVE Good(r)
  <2>0. PICK n : n = run[r].n
    OBVIOUS
  <2>1. Pairs(r, n)'
    BY <1>0, <1>4, <2>0, CorrelateFinds
  <2>2. /\ run'[r].earlier = run[r].earlier /\ run'[r].report = run[r].report
        /\ run[r].existing \subseteq run'[r].existing
        /\ \/ run'[r].n = run[r].n + 1 /\ run'[r].pc = "lookup"
           \/ run'[r].n = run[r].n
    BY <1>4 DEF CorrelateStep
  <2>3. run[r].n \in Nat /\ Len(run[r].report) \in Nat
    BY DEF RegistryInv, Frames
  <2>4. ASSUME NEW i \in 1..Len(run[r].report), Past(r, i)'
        PROVE  Past(r, i) \/ Pairs(r, i)'
    <3>1. i < run[r].n \/ i = n
      BY <2>0, <2>2, <2>3, <2>4 DEF Past
    <3> QED
      BY <2>1, <3>1 DEF Past
  <2> QED
    BY <1>1, <2>2, <2>4
<1>5. ASSUME NEW r \in Runs, NEW report \in Reports, Begun(r, report), Begin(r, report) PROVE Good(r)
  <2>1. /\ run[r].pc = "start" /\ rows' = rows
        /\ run'[r].pc = (IF report = << >> THEN "done" ELSE "lookup")
        /\ run'[r].report = report /\ run'[r].n = 1
        /\ run'[r].existing = {rows[p].payload : p \in Stored}
        /\ run'[r].earlier = {q \in Runs : run[q].pc = "done"}
        /\ \A q \in Runs : q # r => run'[q] = run[q]
    BY <1>5 DEF Begun
  <2>2. ASSUME NEW q \in run'[r].earlier
        PROVE  q \in Runs /\ run'[q].pc = "done" /\ run'[q] = run[q] /\ run[q].pc = "done"
    BY <2>1
  <2>3. EarlierSeen(r)'
    <3>1. ASSUME NEW q \in run'[r].earlier, NEW k \in 1..Len(run'[q].report),
                 NEW p, p = run'[q].report[k].fingerprint
          PROVE  Given(r, p)'
      <4>1. p \in Stored
        BY <2>2, <3>1, DoneIsStored
      <4>2. PICK e : e = rows[p].payload
        OBVIOUS
      <4>3. Snapshot(e, p)
        BY <4>1, <4>2, PayloadIsSnapshot
      <4>4. Snapshot(e, p)'
        BY <1>0, <2>1, <4>1, <4>3 DEF Snapshot, Grows, Stored
      <4>5. e \in run'[r].existing /\ p \in Stored'
        BY <1>0, <2>1, <4>1, <4>2 DEF Grows
      <4> QED
        BY <4>4, <4>5 DEF Given
    <3> QED
      BY <2>2, <3>1, SeenNext
  <2>4. ASSUME NEW i \in 1..Len(report) PROVE ~Past(r, i)'
    <3>1. report # << >> /\ i >= 1
      BY <2>4, FindingsAssumption
    <3> QED
      BY <2>1, <2>4, <3>1 DEF Past
  <2> QED
    BY <2>1, <2>3, <2>4
<1> HIDE DEF Good
<1>6. ASSUME NEW r \in Runs, Store(r), NEW q \in Runs PROVE Good(q)
  <2>1. CASE \E new : StoreStep(r, new)
    BY <1>2, <1>3, <2>1, GotoFrames DEF StoreStep, BeforeStore, Working
  <2>2. CASE \E pc : MissStep(r, pc)
    BY <1>2, <1>3, <2>2, GotoFrames DEF MissStep, BeforeStore, Working
  <2>3. CASE \E related : CorrelateStep(r, related)
    BY <1>2, <1>4, <2>3 DEF CorrelateStep
  <2> QED
    BY <1>6, <2>1, <2>2, <2>3, StoreCases, CorrelateKeepsShape
<1>7. ASSUME NEW r \in Runs, NEW report \in Reports, Begin(r, report), NEW q \in Runs PROVE Good(q)
  BY <1>2, <1>5, <1>7, BeginKeepsShape DEF Begun
<1>8. ASSUME run' = run, NEW q \in Runs PROVE Good(q)
  BY <1>2, <1>8
<1>9. \A q \in Runs : Good(q)
  BY <1>6, <1>7, <1>8 DEF Next, UpdateLifecycle, ListPage, vars
<1> QED
  BY <1>9 DEF Good, CorrelationInv

LEMMA CorrelationInvImplies ==
  ASSUME RegistryInv, CorrelationInv
  PROVE  LaterRunsCorrelate
<1>1. ASSUME NEW r \in Runs, run[r].pc = "done", NEW q \in run[r].earlier,
             NEW i \in 1..Len(run[r].report), NEW k \in 1..Len(run[q].report)
      PROVE  AlwaysRelated(run[q].report[k], run[r].report[i]) =>
               CorrelatedPair(run[q].report[k], run[r].report[i])
  <2>1. run[r].n = Len(run[r].report)
    <3>1. run[r].report \in Seq(AllFindings)
      BY DEF RegistryInv, Frames
    <3> QED
      BY <1>1, <3>1 DEF RegistryInv, FrameOK
  <2>2. Past(r, i)
    BY <1>1, <2>1 DEF Past
  <2>3. PICK f, g : f = run[q].report[k] /\ g = run[r].report[i]
    OBVIOUS
  <2>4. Pair(f, g)
    BY <1>1, <2>2, <2>3 DEF CorrelationInv, Pairs
  <2>5. f.fingerprint \in Fingerprints
    BY <1>1, <2>3 DEF CorrelationInv, EarlierSeen, Given, Stored
  <2>6. Sightings[f.fingerprint] = StoredFindings(f.fingerprint)
    BY <2>5 DEF Sightings
  <2> QED
    BY <2>3, <2>4, <2>6 DEF Pair, Matches, AlwaysRelated
<1> QED
  BY <1>1, Zenon DEF LaterRunsCorrelate

\* A run's findings are correlated with those of every run that ended before it began, where
\* everything stored under the earlier finding's fingerprint spells the host as they do: the
\* registry the run was given holds one of those sightings, under an id that never changes.
THEOREM EarlierRunsAreCorrelated == Spec => []LaterRunsCorrelate
<1>1. Init => CorrelationInv
  <2> SUFFICES ASSUME Init PROVE CorrelationInv
    OBVIOUS
  <2>1. ASSUME NEW r \in Runs
        PROVE  run[r].earlier = {} /\ run[r].report = << >>
    BY DEF Init, NewRun
  <2> QED
    BY <2>1 DEF CorrelationInv, EarlierSeen
<1>2. RegistryInv /\ CountInv /\ CorrelationInv /\ [Next]_vars => CorrelationInv'
  BY CorrelationStep
<1>3. RegistryInv /\ CorrelationInv => LaterRunsCorrelate
  BY CorrelationInvImplies
<1> QED
  BY <1>1, <1>2, <1>3, RegistryAlways, CountAlways, PTL DEF Spec

-----------------------------------------------------------------------------
(* A client that pages to the end gets everything once *)

\* A set of subsets of a finite set has one that contains no other.
LEMMA SmallestSet ==
  ASSUME NEW S, NEW T, T # {}, T \subseteq FiniteSubsetsOf(S)
  PROVE  \E x \in T : \A y \in T : y \subseteq x => y = x
<1>1. IsWellFoundedOn(StrictSubsetOrdering(S), FiniteSubsetsOf(S))
  BY FS_StrictSubsetOrderingWellFounded
<1>3. PICK x \in T : \A y \in T : ~ (<<y, x>> \in StrictSubsetOrdering(S))
  BY <1>1, WFMin
<1>4. ASSUME NEW y \in T, y \subseteq x, y # x PROVE FALSE
  BY <1>3, <1>4 DEF StrictSubsetOrdering, FiniteSubsetsOf
<1> QED
  BY <1>3, <1>4

LEMMA MinIs ==
  ASSUME NEW S \in SUBSET Nat, S # {}
  PROVE  Min(S) \in S /\ \A y \in S : Min(S) <= y
<1>1. PICK T : T = {0..x : x \in S}
  OBVIOUS
<1>2. \A x \in S : 0..x \in FiniteSubsetsOf(Nat)
  BY FS_Interval DEF FiniteSubsetsOf
<1>3. T # {} /\ T \subseteq FiniteSubsetsOf(Nat)
  BY <1>1, <1>2
<1>4. PICK t \in T : \A y \in T : y \subseteq t => y = t
  BY <1>3, SmallestSet
<1>5. PICK v \in S : t = 0..v
  BY <1>1, <1>4
<1>6. ASSUME NEW y \in S PROVE v <= y
  <2>1. CASE y < v
    <3>1. 0..y \in T /\ 0..y \subseteq t
      BY <1>1, <1>5, <2>1
    <3>2. 0..y = 0..v
      BY <1>4, <1>5, <3>1
    <3>3. v \in 0..y
      BY <3>2
    <3> QED
      BY <2>1, <3>3
  <2> QED
    BY <2>1
<1> QED
  BY <1>6 DEF Min

\* The rows are numbered in the order they were inserted.
RowIdsOK ==
  /\ \A p \in Stored : rows[p].row_id \in 1..Cardinality(Stored)
  /\ \A p, q \in Stored : rows[p].row_id = rows[q].row_id => p = q

LEMMA RowIdsStep ==
  ASSUME RegistryInv, RowIdsOK, [Next]_vars
  PROVE  RowIdsOK'
<1>0. Grows /\ IsFiniteSet(Stored) /\ Cardinality(Stored) \in Nat
  BY StepGrows, FS_CardinalityType DEF RegistryInv
<1>1. ASSUME Stored' = Stored PROVE RowIdsOK'
  BY <1>0, <1>1 DEF RowIdsOK, Grows
<1>2. ASSUME NEW r \in Runs, NEW new, StoreStep(r, new) PROVE RowIdsOK'
  <2>1. PICK p : p = Current(r).fingerprint
    OBVIOUS
  <2>2. Stored' = Stored \cup {p} /\ rows'[p] = new
    BY <1>2, <2>1, StoreGrows
  <2>3. CASE p \in Stored
    BY <1>1, <2>2, <2>3
  <2>4. CASE p \notin Stored
    <3>1. Cardinality(Stored') = Cardinality(Stored) + 1
      BY <1>0, <2>2, <2>4, FS_AddElement
    <3>2. new.row_id = Cardinality(Stored) + 1
      BY <1>0, <1>2, <2>1, <2>4, StoredRow
    <3>3. PICK c \in Nat : c = Cardinality(Stored)
      BY <1>0
    <3>4. \A q \in Stored : rows'[q].row_id \in 1..c
      BY <1>0, <3>3 DEF RowIdsOK, Grows
    <3>5. \A q, s \in Stored : rows'[q].row_id = rows'[s].row_id => q = s
      BY <1>0 DEF RowIdsOK, Grows
    <3>6. rows'[p].row_id = c + 1 /\ Cardinality(Stored') = c + 1
      BY <2>2, <3>1, <3>2, <3>3
    <3> QED
      BY <2>2, <3>3, <3>4, <3>5, <3>6 DEF RowIdsOK
  <2> QED
    BY <2>3, <2>4
<1>3. ASSUME NEW r \in Runs, Store(r) PROVE RowIdsOK'
  <2>1. \/ \E new : StoreStep(r, new)
        \/ rows' = rows
    BY <1>3, StoreCases DEF MissStep, Correlate
  <2> QED
    BY <1>1, <1>2, <2>1, SameRows
<1>4. rows' = rows => Stored' = Stored
  BY SameRows
<1> QED
  BY <1>1, <1>3, <1>4, UpdateKeepsShape DEF Next, Begin, ListPage, vars

LEMMA RowIdsAlways == Spec => []RowIdsOK
<1>1. Init => RowIdsOK
  <2> SUFFICES ASSUME Init PROVE RowIdsOK
    OBVIOUS
  <2>1. Stored = {}
    BY DEF Init, Stored, NoRow
  <2> QED
    BY <2>1 DEF RowIdsOK
<1>2. RegistryInv /\ RowIdsOK /\ [Next]_vars => RowIdsOK'
  BY RowIdsStep
<1> QED
  BY <1>1, <1>2, RegistryAlways, PTL DEF Spec

\* The rows of B no older than p.
Newer(p, B) == {q \in B : rows[q].row_id >= rows[p].row_id}

Fetched(B) == {p \in B : Cardinality(Newer(p, B)) <= limit + 1}

PageOf(B) == {p \in B : Cardinality(Newer(p, B)) <= limit}

\* The rows a page is made of: a page is full, or has every row below the cursor, and holds
\* the newest of them.
LEMMA PageIs ==
  ASSUME RegistryInv, RowIdsOK, NEW B \in SUBSET Stored
  PROVE  /\ Cardinality(Fetched(B)) \in Nat
         /\ PageOf(B) = {p \in Fetched(B) : Cardinality(Newer(p, B)) <= limit}
         /\ Cardinality(Fetched(B)) <= limit => PageOf(B) = B
         /\ Cardinality(Fetched(B)) > limit => PageOf(B) # {}
         /\ \A p \in PageOf(B), q \in B : rows[q].row_id >= rows[p].row_id => q \in PageOf(B)
<1>0. PICK fetched, page :
        /\ fetched = Fetched(B) /\ fetched = {p \in B : Cardinality(Newer(p, B)) <= limit + 1}
        /\ page = PageOf(B) /\ page = {p \in B : Cardinality(Newer(p, B)) <= limit}
  BY DEF Fetched, PageOf
<1>1. IsFiniteSet(B) /\ limit \in Nat /\ limit >= 1
  BY FS_Subset, FindingsAssumption DEF RegistryInv
<1>2. \A p \in B : rows[p].row_id \in Nat
  BY DEF RowIdsOK
<1>3. \A p \in B : p \in Newer(p, B) /\ Newer(p, B) \in SUBSET B
  BY <1>2 DEF Newer
<1>4. \A p \in B : IsFiniteSet(Newer(p, B)) /\ Cardinality(Newer(p, B)) \in Nat
  BY <1>1, <1>3, FS_Subset, FS_CardinalityType
<1>5. ASSUME NEW p \in B, NEW q \in B, rows[q].row_id >= rows[p].row_id
      PROVE  /\ Newer(q, B) \subseteq Newer(p, B)
             /\ q # p => p \notin Newer(q, B)
  BY <1>2, <1>5 DEF Newer, RowIdsOK
<1>6. IsFiniteSet(fetched) /\ Cardinality(fetched) \in Nat
  BY <1>0, <1>1, FS_Subset, FS_CardinalityType
<1>7. \A p \in page, q \in B : rows[q].row_id >= rows[p].row_id => q \in page
  <2>1. ASSUME NEW p \in page, NEW q \in B, rows[q].row_id >= rows[p].row_id
        PROVE  Cardinality(Newer(q, B)) <= Cardinality(Newer(p, B))
    BY <1>0, <1>4, <1>5, <2>1, FS_Subset
  <2> QED
    BY <1>0, <1>1, <1>4, <2>1
\* Of the rows in X, the newest has only rows outside X that are newer.
<1>8. ASSUME NEW X \in SUBSET B, X # {}
      PROVE  \E p \in X : \A q \in Newer(p, B) : q \in X => q = p
  <2>1. PICK T : T = {Newer(p, B) : p \in X}
    OBVIOUS
  <2>2. T # {} /\ T \subseteq FiniteSubsetsOf(B)
    <3>1. \A p \in X : Newer(p, B) \in FiniteSubsetsOf(B)
      BY <1>3, <1>4, <1>8 DEF FiniteSubsetsOf
    <3> QED
      BY <1>8, <2>1, <3>1
  <2>3. PICK x \in T : \A y \in T : y \subseteq x => y = x
    BY <2>2, SmallestSet
  <2>4. PICK p \in X : x = Newer(p, B)
    BY <2>1, <2>3
  <2>5. ASSUME NEW q \in Newer(p, B), q \in X, q # p PROVE FALSE
    <3>1. q \in B /\ rows[q].row_id >= rows[p].row_id
      BY <2>5 DEF Newer
    <3>2. Newer(q, B) \subseteq x /\ p \notin Newer(q, B)
      BY <1>5, <2>4, <2>5, <3>1
    <3>3. Newer(q, B) \in T /\ p \in x
      BY <1>3, <2>1, <2>4, <2>5
    <3> QED
      BY <2>3, <3>2, <3>3
  <2> QED
    BY <2>5
<1>9. ASSUME Cardinality(fetched) <= limit PROVE page = B
  <2>1. PICK X : X = B \ page
    OBVIOUS
  <2>2. SUFFICES ASSUME X # {} PROVE FALSE
    BY <1>0, <2>1
  <2>3. PICK p \in X : \A q \in Newer(p, B) : q \in X => q = p
    BY <1>8, <2>1, <2>2
  <2>4. PICK N : N = Newer(p, B)
    OBVIOUS
  <2>5. /\ p \in B /\ p \in N /\ N \subseteq B /\ IsFiniteSet(N) /\ Cardinality(N) \in Nat
        /\ Cardinality(N) > limit
    BY <1>0, <1>1, <1>3, <1>4, <2>1, <2>3, <2>4
  <2>6. page \subseteq fetched
    BY <1>0, <1>1, <1>4
  <2>7. N \ {p} \subseteq fetched
    BY <2>1, <2>3, <2>4, <2>5, <2>6
  <2>8. IsFiniteSet(N \ {p}) /\ Cardinality(N \ {p}) = Cardinality(N) - 1
    BY <2>5, FS_RemoveElement
  <2>9. Cardinality(N \ {p}) <= Cardinality(fetched)
    BY <1>6, <2>7, FS_Subset
  <2>10. Cardinality(N) <= limit + 1
    BY <1>1, <1>6, <1>9, <2>5, <2>8, <2>9
  <2>11. N \subseteq fetched
    BY <1>0, <2>4, <2>5, <2>7, <2>10
  <2>12. Cardinality(N) <= Cardinality(fetched)
    BY <1>6, <2>11, FS_Subset
  <2> QED
    BY <1>1, <1>6, <1>9, <2>5, <2>12
<1>10. ASSUME Cardinality(fetched) > limit PROVE page # {}
  <2>1. fetched # {}
    BY <1>1, <1>10, FS_EmptySet
  <2>2. B # {}
    BY <1>0, <2>1
  <2>3. PICK p \in B : \A q \in Newer(p, B) : q \in B => q = p
    BY <1>8, <2>2
  <2>4. Newer(p, B) = {p}
    BY <1>3, <2>3
  <2>5. Cardinality(Newer(p, B)) = 1
    BY <2>4, FS_Singleton
  <2> QED
    BY <1>0, <1>1, <2>5
<1>11. page = {p \in fetched : Cardinality(Newer(p, B)) <= limit}
  BY <1>0, <1>1, <1>4
<1> QED
  BY <1>0, <1>6, <1>7, <1>9, <1>10, <1>11


-----------------------------------------------------------------------------

PagerFrames == [done : BOOLEAN, cursor : Nat, start : SUBSET Fingerprints,
                pages : Seq(SUBSET Fingerprints)]

\* The client has been past the row of p.
Passed(g, p) == pager[g].done \/ rows[p].row_id >= pager[g].cursor

OnOnePage(g, p) ==
  \E i \in 1..Len(pager[g].pages) :
    \A j \in 1..Len(pager[g].pages) : p \in pager[g].pages[j] <=> j = i

OnNoPage(g, p) == \A j \in 1..Len(pager[g].pages) : p \notin pager[g].pages[j]

\* A client's first page starts it; what it has passed of what was there is on one page, what
\* it has not is on none.
PagerOK(g) ==
  /\ pager[g].pages = << >> => ~pager[g].done /\ pager[g].cursor = 0 /\ pager[g].start = {}
  /\ pager[g].pages # << >> =>
       /\ pager[g].done \/ pager[g].cursor > 0
       /\ pager[g].start \subseteq Stored
       /\ \A p \in pager[g].start : /\ Passed(g, p) => OnOnePage(g, p)
                                    /\ ~Passed(g, p) => OnNoPage(g, p)

PagerInv ==
  /\ pager \in [Pagers -> PagerFrames]
  /\ \A g \in Pagers : PagerOK(g)

\* The frame of a client after a page: at its end, or at the last row of the page.
Turned(g, B, page, frame) ==
  /\ B = {p \in Stored : pager[g].cursor = 0 \/ rows[p].row_id < pager[g].cursor}
  /\ page \subseteq B
  /\ frame.done \in BOOLEAN /\ frame.cursor \in Nat
  /\ frame.done => page = B
  /\ ~frame.done => /\ frame.cursor > 0
                    /\ \E p \in page : rows[p].row_id = frame.cursor
                    /\ \A p \in B : p \in page <=> rows[p].row_id >= frame.cursor
  /\ frame.start = IF pager[g].pages = << >> THEN Stored ELSE pager[g].start
  /\ frame.pages = Append(pager[g].pages, page)

LEMMA PageTurns ==
  ASSUME RegistryInv, RowIdsOK, PagerInv, NEW g \in Pagers, ListPage(g)
  PROVE  ~pager[g].done /\ \E B, page, frame :
           /\ Turned(g, B, page, frame)
           /\ frame = [done |-> frame.done, cursor |-> frame.cursor, start |-> frame.start,
                       pages |-> frame.pages]
           /\ pager' = [pager EXCEPT ![g] = frame]
<1>1. PICK B : B = {p \in Stored : pager[g].cursor = 0 \/ rows[p].row_id < pager[g].cursor}
  OBVIOUS
<1>2. PICK fetched, page : fetched = Fetched(B) /\ page = PageOf(B)
  OBVIOUS
<1>3. B \in SUBSET Stored /\ page \subseteq B
  BY <1>1, <1>2 DEF PageOf
<1>4. /\ Cardinality(fetched) \in Nat /\ limit \in Nat
      /\ page = {p \in fetched : Cardinality(Newer(p, B)) <= limit}
      /\ Cardinality(fetched) <= limit => page = B
      /\ Cardinality(fetched) > limit => page # {}
      /\ \A p \in page, q \in B : rows[q].row_id >= rows[p].row_id => q \in page
  BY <1>2, <1>3, PageIs, FindingsAssumption
<1>5. fetched = {p \in B : Cardinality(Newer(p, B)) <= limit + 1}
  BY <1>2 DEF Fetched
<1>5a. PICK done \in BOOLEAN : done = (Cardinality(fetched) <= limit)
  <2>1. (Cardinality(fetched) <= limit) \in BOOLEAN
    OBVIOUS
  <2> QED
    BY <2>1, Zenon
<1>6. PICK cursor, start, pages :
        /\ cursor = (IF Cardinality(fetched) <= limit THEN 0 ELSE NextCursor(fetched, page))
        /\ start = (IF pager[g].pages = << >> THEN Stored ELSE pager[g].start)
        /\ pages = Append(pager[g].pages, page)
  OBVIOUS
<1>7. PICK frame : frame = [done |-> done, cursor |-> cursor, start |-> start, pages |-> pages]
  OBVIOUS
<1>8. pager' = [pager EXCEPT ![g] = frame]
  <2>1. pager' = [pager EXCEPT ![g] =
           [done |-> Cardinality(fetched) <= limit,
            cursor |-> IF Cardinality(fetched) <= limit THEN 0
                       ELSE NextCursor(fetched, page),
            start |-> IF pager[g].pages = << >> THEN Stored ELSE @.start,
            pages |-> Append(@.pages, page)]]
    BY <1>1, <1>4, <1>5, Zenon DEF ListPage, Newer
  <2>2. pager \in [Pagers -> PagerFrames]
    BY DEF PagerInv
  <2>3. pager' = [pager EXCEPT ![g] =
           [done |-> Cardinality(fetched) <= limit,
            cursor |-> IF Cardinality(fetched) <= limit THEN 0
                       ELSE NextCursor(fetched, page),
            start |-> IF pager[g].pages = << >> THEN Stored ELSE pager[g].start,
            pages |-> Append(pager[g].pages, page)]]
    BY <2>1, <2>2, Zenon
  <2> QED
    BY <1>5a, <1>6, <1>7, <2>3, Zenon
<1>9. ASSUME Cardinality(fetched) > limit
      PROVE  /\ cursor \in Nat /\ cursor > 0
             /\ \E p \in page : rows[p].row_id = cursor
             /\ \A p \in B : p \in page <=> rows[p].row_id >= cursor
  <2>1. PICK ids : ids = {rows[p].row_id : p \in page}
    OBVIOUS
  <2>2. \A p \in B : rows[p].row_id \in Nat /\ rows[p].row_id > 0
    BY <1>3 DEF RowIdsOK
  <2>3. ids \in SUBSET Nat /\ ids # {}
    BY <1>3, <1>4, <1>9, <2>1, <2>2
  <2>4. cursor = Min(ids)
    BY <1>4, <1>6, <1>9, <2>1 DEF NextCursor
  <2>5. cursor \in ids /\ \A y \in ids : cursor <= y
    BY <2>3, <2>4, MinIs
  <2>6. PICK p \in page : cursor = rows[p].row_id
    BY <2>1, <2>5
  <2>7. \A q \in B : rows[q].row_id >= cursor => q \in page
    BY <1>4, <2>6
  <2>8. \A q \in page : rows[q].row_id >= cursor
    BY <1>3, <2>1, <2>2, <2>5
  <2> QED
    BY <1>3, <2>2, <2>6, <2>7, <2>8
<1>10. done \in BOOLEAN /\ (done <=> Cardinality(fetched) <= limit)
  BY <1>5a, Zenon
<1>11. Cardinality(fetched) <= limit => cursor = 0
  BY <1>6
<1>12. /\ frame.done = done /\ frame.cursor = cursor /\ frame.start = start
       /\ frame.pages = pages
  BY <1>7
<1>13. cursor \in Nat
  BY <1>4, <1>9, <1>11
<1>14. done => page = B
  BY <1>4, <1>10
<1>15. ~done => /\ cursor > 0 /\ \E p \in page : rows[p].row_id = cursor
                /\ \A p \in B : p \in page <=> rows[p].row_id >= cursor
  BY <1>4, <1>9, <1>10
<1>16. Turned(g, B, page, frame)
  BY <1>1, <1>3, <1>6, <1>10, <1>12, <1>13, <1>14, <1>15, Zenon DEF Turned
<1> QED
  BY <1>7, <1>8, <1>12, <1>16 DEF ListPage

\* A page is one more for what is on it and none for the rest of what was there.
LEMMA PageKeepsPager ==
  ASSUME RegistryInv, RowIdsOK, PagerInv, NEW g \in Pagers, NEW B, NEW page, NEW frame,
         ~pager[g].done, Turned(g, B, page, frame), rows' = rows, pager'[g] = frame
  PROVE  PagerOK(g)'
<1>1. /\ B = {p \in Stored : pager[g].cursor = 0 \/ rows[p].row_id < pager[g].cursor}
      /\ page \subseteq B /\ frame.done \in BOOLEAN /\ frame.cursor \in Nat
      /\ frame.done => page = B
      /\ ~frame.done => /\ frame.cursor > 0
                        /\ \E p \in page : rows[p].row_id = frame.cursor
                        /\ \A p \in B : p \in page <=> rows[p].row_id >= frame.cursor
      /\ frame.start = IF pager[g].pages = << >> THEN Stored ELSE pager[g].start
      /\ frame.pages = Append(pager[g].pages, page)
  BY DEF Turned
<1>2. PagerOK(g) /\ Stored' = Stored
  BY SameRows DEF PagerInv
<1>3. PICK pages, n : pages = pager[g].pages /\ n = Len(pages)
  OBVIOUS
<1>4. pages \in Seq(SUBSET Fingerprints) /\ pager[g].cursor \in Nat
  BY <1>3 DEF PagerInv, PagerFrames
<1>5. page \in SUBSET Fingerprints
  BY <1>1 DEF Stored
<1>6. /\ n \in Nat /\ Len(frame.pages) = n + 1 /\ frame.pages[n + 1] = page
      /\ \A j \in 1..n : frame.pages[j] = pages[j]
  BY <1>1, <1>3, <1>4, <1>5
<1>7. frame.pages # << >>
  BY <1>6
<1>8. frame.start \subseteq Stored
  BY <1>1, <1>2, <1>3 DEF PagerOK
<1>9. \A p \in Stored : rows[p].row_id \in Nat /\ rows[p].row_id > 0
  <2>1. Cardinality(Stored) \in Nat
    BY FS_CardinalityType DEF RegistryInv
  <2> QED
    BY <2>1 DEF RowIdsOK
\* What was there and is not below the cursor is on one page already; the rest is on none.
<1>10. ASSUME NEW p \in frame.start
       PROVE  /\ p \in B => \A j \in 1..n : p \notin pages[j]
              /\ p \notin B => \E i \in 1..n : \A j \in 1..n : p \in pages[j] <=> j = i
  <2>1. CASE pages = << >>
    <3>1. pager[g].cursor = 0 /\ n = 0
      BY <1>2, <1>3, <2>1 DEF PagerOK
    <3> QED
      BY <1>1, <1>8, <1>10, <3>1
  <2>2. CASE pages # << >>
    <3>1. p \in pager[g].start /\ p \in Stored
      BY <1>1, <1>3, <1>8, <1>10, <2>2
    <3> QED
      BY <1>1, <1>2, <1>3, <1>4, <1>9, <2>2, <3>1 DEF PagerOK, Passed, OnOnePage, OnNoPage
  <2> QED
    BY <2>1, <2>2
\* A row that is not below the old cursor is not below the new one.
<1>11. ASSUME NEW p \in frame.start
       PROVE  frame.done \/ rows[p].row_id >= frame.cursor <=> p \in page \/ p \notin B
  <2>1. p \in Stored /\ rows[p].row_id \in Nat
    BY <1>8, <1>9, <1>11
  <2>2. CASE frame.done
    BY <1>1, <2>2
  <2>3. CASE ~frame.done
    <3>1. PICK q \in page : rows[q].row_id = frame.cursor
      BY <1>1, <2>3
    <3>2. rows[q].row_id \in Nat /\ q \in B
      BY <1>1, <1>9, <3>1
    <3>3. p \notin B => rows[p].row_id >= frame.cursor
      BY <1>1, <1>4, <2>1, <3>1, <3>2
    <3> QED
      BY <1>1, <2>3, <3>3
  <2> QED
    BY <2>2, <2>3
<1>12. ASSUME NEW p \in frame.start
       PROVE  /\ p \in page \/ p \notin B =>
                   \E i \in 1..(n + 1) : \A j \in 1..(n + 1) : p \in frame.pages[j] <=> j = i
              /\ ~(p \in page \/ p \notin B) => \A j \in 1..(n + 1) : p \notin frame.pages[j]
  <2>1. \A j \in 1..(n + 1) : j \in 1..n \/ j = n + 1
    BY <1>6
  <2>2. CASE p \in page
    <3>1. \A j \in 1..(n + 1) : p \in frame.pages[j] <=> j = n + 1
      BY <1>1, <1>6, <1>10, <1>12, <2>1, <2>2
    <3> QED
      BY <1>6, <2>2, <3>1
  <2>3. CASE p \notin page /\ p \in B
    BY <1>6, <1>10, <1>12, <2>1, <2>3
  <2>4. CASE p \notin B
    <3>1. PICK i \in 1..n : \A j \in 1..n : p \in pages[j] <=> j = i
      BY <1>10, <1>12, <2>4
    <3>2. \A j \in 1..(n + 1) : p \in frame.pages[j] <=> j = i
      BY <1>1, <1>6, <2>1, <2>4, <3>1
    <3>3. i \in 1..(n + 1)
      BY <1>6
    <3> QED
      BY <2>4, <3>2, <3>3, Zenon
  <2> QED
    BY <2>2, <2>3, <2>4
<1>13. ASSUME NEW p \in frame.start
       PROVE  (Passed(g, p) => OnOnePage(g, p))' /\ (~Passed(g, p) => OnNoPage(g, p))'
  <2>1. Passed(g, p)' <=> p \in page \/ p \notin B
    BY <1>11, <1>13 DEF Passed
  <2> QED
    BY <1>6, <1>12, <1>13, <2>1 DEF OnOnePage, OnNoPage
<1>14. frame.done \/ frame.cursor > 0
  BY <1>1
<1> QED
  BY <1>2, <1>7, <1>8, <1>13, <1>14 DEF PagerOK


LEMMA PagerStep ==
  ASSUME RegistryInv, RowIdsOK, PagerInv, [Next]_vars
  PROVE  PagerInv'
<1>1. Grows
  BY StepGrows
<1>2. ASSUME NEW g \in Pagers, pager'[g] = pager[g] PROVE PagerOK(g)'
  <2>1. PagerOK(g)
    BY DEF PagerInv
  <2>2. ASSUME NEW p \in pager[g].start, pager[g].pages # << >>
        PROVE  (Passed(g, p)' <=> Passed(g, p)) /\ p \in Stored'
    BY <1>1, <1>2, <2>1, <2>2 DEF PagerOK, Passed, Grows
  <2>3. \A p : (OnOnePage(g, p)' <=> OnOnePage(g, p)) /\ (OnNoPage(g, p)' <=> OnNoPage(g, p))
    BY <1>2 DEF OnOnePage, OnNoPage
  <2> QED
    BY <1>2, <2>1, <2>2, <2>3 DEF PagerOK
<1>3. ASSUME NEW g \in Pagers, ListPage(g) PROVE PagerInv'
  <2>1. PICK B, page, frame :
           /\ Turned(g, B, page, frame)
           /\ frame = [done |-> frame.done, cursor |-> frame.cursor, start |-> frame.start,
                       pages |-> frame.pages]
           /\ pager' = [pager EXCEPT ![g] = frame]
    BY <1>3, PageTurns
  <2>2. ~pager[g].done /\ rows' = rows
    BY <1>3 DEF ListPage
  <2>3. pager \in [Pagers -> PagerFrames]
    BY DEF PagerInv
  <2>4. pager'[g] = frame /\ \A q \in Pagers : q # g => pager'[q] = pager[q]
    BY <2>1, <2>3
  <2>5. PagerOK(g)'
    BY <2>1, <2>2, <2>4, PageKeepsPager
  <2>6. frame \in PagerFrames
    <3>1. frame.done \in BOOLEAN /\ frame.cursor \in Nat
      BY <2>1 DEF Turned
    <3>2. frame.start \in SUBSET Fingerprints
      BY <2>1, <2>3 DEF Turned, PagerFrames, Stored
    <3>3. page \in SUBSET Fingerprints
      BY <2>1 DEF Turned, Stored
    <3>4. frame.pages \in Seq(SUBSET Fingerprints)
      BY <2>1, <2>3, <3>3 DEF Turned, PagerFrames
    <3> QED
      BY <2>1, <3>1, <3>2, <3>4 DEF PagerFrames
  <2>7. pager' \in [Pagers -> PagerFrames]
    BY <2>1, <2>3, <2>6
  <2> QED
    BY <1>2, <2>4, <2>5, <2>7 DEF PagerInv
<1>4. ASSUME pager' = pager PROVE PagerInv'
  BY <1>2, <1>4 DEF PagerInv
<1>5. ASSUME NEW r \in Runs, Store(r) PROVE pager' = pager
  BY <1>5 DEF Store, Lookup, Insert, AfterConflict, Correlate
<1> QED
  BY <1>3, <1>4, <1>5 DEF Next, Begin, UpdateLifecycle, vars

LEMMA PagerAlways == Spec => []PagerInv
<1>1. Init => PagerInv
  <2> SUFFICES ASSUME Init PROVE PagerInv
    OBVIOUS
  <2>1. NewPager \in PagerFrames
    BY DEF NewPager, PagerFrames
  <2> QED
    BY <2>1 DEF Init, PagerInv, PagerOK, NewPager
<1>2. RegistryInv /\ RowIdsOK /\ PagerInv /\ [Next]_vars => PagerInv'
  BY PagerStep
<1> QED
  BY <1>1, <1>2, RegistryAlways, RowIdsAlways, PTL DEF Spec

\* A client that follows next_cursor to its end gets every finding that was there when it
\* began on exactly one page, whatever executors insert and merge between its requests: a new
\* row's id is above every cursor, and a page ends at the id the next one begins below.
THEOREM PagesAreComplete == Spec => []PagingIsComplete
<1>1. PagerInv => PagingIsComplete
  <2> SUFFICES ASSUME PagerInv, NEW g \in Pagers, pager[g].done, NEW p \in pager[g].start
               PROVE  Cardinality({i \in 1..Len(pager[g].pages) : p \in pager[g].pages[i]}) = 1
    BY DEF PagingIsComplete
  <2>1. OnOnePage(g, p)
    BY DEF PagerInv, PagerOK, Passed
  <2>2. PICK i \in 1..Len(pager[g].pages) :
          \A j \in 1..Len(pager[g].pages) : p \in pager[g].pages[j] <=> j = i
    BY <2>1 DEF OnOnePage
  <2>3. {j \in 1..Len(pager[g].pages) : p \in pager[g].pages[j]} = {i}
    BY <2>2
  <2> QED
    BY <2>3, FS_Singleton
<1> QED
  BY <1>1, PagerAlways, PTL

\* The rows, the frames of executors and clients and the decisions keep their shape, a run at
\* work is at a finding of its report, and a client's cursor is a row's id.
THEOREM RegistryTypes == Spec => []TypeOK
<1>1. RegistryInv /\ PagerInv => TypeOK
  BY DEF RegistryInv, FrameOK, PagerInv, TypeOK, PatchFrames, PagerFrames
<1> QED
  BY <1>1, RegistryAlways, PagerAlways, PTL

=============================================================================
