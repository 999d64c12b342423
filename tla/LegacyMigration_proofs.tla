-------------------------- MODULE LegacyMigration_proofs --------------------------
(***************************************************************************)
(* Proofs about the SQLite finding registry and about its import, for any   *)
(* number of tenants, findings, subscribers, runs of the import and writes   *)
(* of the gateway that already serves from the target.                      *)
(***************************************************************************)
EXTENDS LegacyMigration, FiniteSetTheorems, SequenceTheorems, TLAPS

-----------------------------------------------------------------------------
(* Least and greatest *)

\* A set of subsets of a finite set has one that contains no other.
LEMMA SmallestSubset ==
  ASSUME NEW S, NEW T, T # {}, T \subseteq FiniteSubsetsOf(S)
  PROVE  \E x \in T : \A y \in T : y \subseteq x => y = x
  <1>1. IsWellFoundedOn(StrictSubsetOrdering(S), FiniteSubsetsOf(S))
    BY FS_StrictSubsetOrderingWellFounded
  <1>2. PICK x \in T : \A y \in T : ~(<<y, x>> \in StrictSubsetOrdering(S))
    BY <1>1, WFMin
  <1>3. ASSUME NEW y \in T, y \subseteq x, y # x PROVE FALSE
    BY <1>2, <1>3 DEF StrictSubsetOrdering, FiniteSubsetsOf
  <1> QED
    BY <1>2, <1>3

\* What Max chooses: a finite set of numbers has a greatest one.
LEMMA GreatestNumber ==
  ASSUME NEW S \in SUBSET Nat, IsFiniteSet(S), S # {}
  PROVE  Max(S) \in S /\ \A y \in S : y <= Max(S)
  <1> DEFINE above(x) == {y \in S : x <= y}
  <1>1. PICK T : T = {above(x) : x \in S}
    OBVIOUS
  <1>2. \A x \in S : /\ above(x) \in SUBSET S /\ x \in above(x)
                     /\ \A y \in S : y \in above(x) <=> x <= y
    OBVIOUS
  <1> HIDE DEF above
  <1>3. T # {} /\ T \subseteq FiniteSubsetsOf(S)
    <2>1. FiniteSubsetsOf(S) = SUBSET S
      BY FS_FiniteSubsetsOfFinite
    <2>2. \A t \in T : t \in SUBSET S
      BY <1>1, <1>2
    <2>3. T # {}
      BY <1>1
    <2> QED
      BY <2>1, <2>2, <2>3
  <1>4. PICK v \in S : \A y \in T : y \subseteq above(v) => y = above(v)
    <2>1. PICK t \in T : \A y \in T : y \subseteq t => y = t
      BY <1>3, SmallestSubset
    <2> QED
      BY <1>1, <2>1
  <1>5. ASSUME NEW y \in S, v < y PROVE FALSE
    <2>1. above(y) \in T /\ above(y) \subseteq above(v)
      BY <1>1, <1>2, <1>5
    <2>2. v \in above(y)
      BY <1>2, <1>4, <2>1
    <2> QED
      BY <1>2, <1>5, <2>2
  <1>6. \A y \in S : v >= y
    BY <1>5
  <1> QED
    BY <1>6 DEF Max

\* What ORDER BY seq begins with: a set of numbered rows has an oldest one.
LEMMA OldestRow ==
  ASSUME NEW rows, rows # {}, \A r \in rows : r.seq \in Nat
  PROVE  Oldest(rows) \in rows /\ \A r \in rows : Oldest(rows).seq <= r.seq
  <1>1. PICK T : T = {0..r.seq : r \in rows}
    OBVIOUS
  <1>2. T # {} /\ T \subseteq FiniteSubsetsOf(Nat)
    <2>1. \A r \in rows : 0..r.seq \in FiniteSubsetsOf(Nat)
      BY FS_Interval DEF FiniteSubsetsOf
    <2> QED
      BY <1>1, <2>1
  <1>3. PICK t \in T : \A y \in T : y \subseteq t => y = t
    BY <1>2, SmallestSubset
  <1>4. PICK row \in rows : t = 0..row.seq
    BY <1>1, <1>3
  <1>5. ASSUME NEW r \in rows, r.seq < row.seq PROVE FALSE
    <2>1. 0..r.seq \in T /\ 0..r.seq \subseteq t
      BY <1>1, <1>4, <1>5
    <2>2. row.seq \in 0..r.seq
      BY <1>3, <1>4, <2>1
    <2> QED
      BY <1>5, <2>2
  <1>6. \A r \in rows : row.seq <= r.seq
    BY <1>5
  <1> QED
    BY <1>6 DEF Oldest

-----------------------------------------------------------------------------
(* The registry's invariant *)

FindingIds == {f.id : f \in Findings}

Fingerprints == {f.fingerprint : f \in Findings}

FindingRows == [seq : Nat, tenant : Tenants, finding : Findings]

CorrelationRows == [seq : Nat, tenant : Tenants, findings : SUBSET FindingIds]

\* A finite table whose rows are numbered, with at most max_size of a tenant.
TableOK(table) ==
  /\ IsFiniteSet(table)
  /\ \A r, s \in table : r.seq = s.seq => r = s
  /\ \A t \in Tenants : Cardinality({row \in table : row.tenant = t}) <= max_size

TablesOK ==
  /\ findings \subseteq FindingRows /\ TableOK(findings)
  /\ correlations \subseteq CorrelationRows /\ TableOK(correlations)
  /\ \A r, s \in findings : r.tenant = s.tenant /\ r.finding.id = s.finding.id => r = s

-----------------------------------------------------------------------------
(* The tables: the invariant behind PruningKeepsNewest *)

\* AUTOINCREMENT numbers a row above all that are there.
LEMMA NextSeqIsNew ==
  ASSUME NEW table, IsFiniteSet(table), \A row \in table : row.seq \in Nat
  PROVE  NextSeq(table) \in Nat /\ \A row \in table : row.seq < NextSeq(table)
  <1> DEFINE S == {row.seq : row \in table}
             f == [row \in table |-> row.seq]
  <1>1. f \in Surjection(table, S)
    BY DEF Surjection
  <1>2. IsFiniteSet(S)
    BY <1>1, FS_Surjection
  <1>3. IsFiniteSet(S \cup {0}) /\ S \cup {0} = {0} \cup S
    BY <1>2, FS_AddElement
  <1>4. {0} \cup S \in SUBSET Nat
    OBVIOUS
  <1>5. Max({0} \cup S) \in {0} \cup S /\ \A y \in {0} \cup S : y <= Max({0} \cup S)
    BY <1>3, <1>4, GreatestNumber
  <1>6. NextSeq(table) = 1 + Max({0} \cup S)
    BY DEF NextSeq
  <1>7. \A row \in table : row.seq \in {0} \cup S
    OBVIOUS
  <1> HIDE DEF S
  <1> QED
    BY <1>4, <1>5, <1>6, <1>7

\* A tenant's rows after pruning are at most max_size, whatever it had before; the other
\* tenants keep theirs.
LEMMA PruneTable ==
  ASSUME NEW T, NEW t \in Tenants, IsFiniteSet(T), \A row \in T : row.seq \in Nat,
         \A r, s \in T : r.seq = s.seq => r = s,
         \A u \in Tenants \ {t} : Cardinality({row \in T : row.tenant = u}) <= max_size
  PROVE  TableOK(Prune(T, t)) /\ Prune(T, t) \subseteq T
  <1> DEFINE P == Prune(T, t)
             of(u) == {row \in P : row.tenant = u}
  <1>1. P \subseteq T
    BY DEF Prune
  <1>2. IsFiniteSet(P) /\ \A u : IsFiniteSet(of(u))
    <2>1. IsFiniteSet(P)
      BY <1>1, FS_Subset
    <2>2. \A u : of(u) \in SUBSET P
      OBVIOUS
    <2> QED
      BY <2>1, <2>2, FS_Subset
  <1>3. ASSUME NEW u \in Tenants \ {t} PROVE Cardinality(of(u)) <= max_size
    <2>1. of(u) = {row \in T : row.tenant = u}
      BY DEF Prune
    <2> QED
      BY <2>1
  <1>4. Cardinality(of(t)) <= max_size
    <2>1. CASE of(t) = {}
      BY <2>1, FS_EmptySet, LegacyAssumption
    <2>2. CASE of(t) # {}
      <3>1. PICK o \in of(t) : \A r \in of(t) : o.seq <= r.seq
        <4>1. \A r \in of(t) : r.seq \in Nat
          BY <1>1
        <4> QED
          BY <2>2, <4>1, OldestRow
      <3>2. of(t) \in SUBSET Newer(T, o) /\ Cardinality(Newer(T, o)) <= max_size
        BY <1>1, <3>1 DEF Newer, Prune
      <3>3. IsFiniteSet(Newer(T, o))
        BY FS_Subset DEF Newer
      <3>4. Cardinality(of(t)) <= Cardinality(Newer(T, o))
        BY <3>2, <3>3, FS_Subset
      <3>5. Cardinality(of(t)) \in Nat /\ Cardinality(Newer(T, o)) \in Nat /\ max_size \in Nat
        BY <1>2, <3>3, FS_CardinalityType, LegacyAssumption
      <3> QED
        BY <3>2, <3>4, <3>5
    <2> QED
      BY <2>1, <2>2
  <1>5. \A r, s \in P : r.seq = s.seq => r = s
    BY <1>1
  <1> QED
    BY <1>1, <1>2, <1>3, <1>4, <1>5 DEF TableOK

\* What is pruned is the tenant's, and older than all it keeps.
LEMMA PrunedIsOldest ==
  ASSUME NEW T, NEW t \in Tenants, IsFiniteSet(T), \A row \in T : row.seq \in Nat,
         NEW old \in T, old \notin Prune(T, t), NEW row \in Prune(T, t), row.tenant = t
  PROVE  old.tenant = t /\ old.seq < row.seq
  <1>1. old.tenant = t /\ ~(Cardinality(Newer(T, old)) <= max_size)
    BY DEF Prune
  <1>2. row \in T /\ Cardinality(Newer(T, row)) <= max_size
    BY DEF Prune
  <1>3. CASE row.seq <= old.seq
    <2>1. Newer(T, old) \in SUBSET Newer(T, row)
      BY <1>1, <1>2, <1>3 DEF Newer
    <2>2. IsFiniteSet(Newer(T, row)) /\ IsFiniteSet(Newer(T, old))
      BY FS_Subset DEF Newer
    <2>3. Cardinality(Newer(T, old)) <= Cardinality(Newer(T, row))
      BY <2>1, <2>2, FS_Subset
    <2>4. Cardinality(Newer(T, old)) \in Nat /\ Cardinality(Newer(T, row)) \in Nat
          /\ max_size \in Nat
      BY <2>2, FS_CardinalityType, LegacyAssumption
    <2> QED
      BY <1>1, <1>2, <2>3, <2>4
  <1> QED
    BY <1>1, <1>2, <1>3

\* add() and add_sync() up to the pruning: a known id keeps its row and its seq, an unknown one
\* gets the next, and either way the finding's row is among the newest max_size.
LEMMA UpsertTable ==
  ASSUME TablesOK, NEW t \in Tenants, NEW f \in Findings, NEW T, T = Upsert(t, f)
  PROVE  /\ T \subseteq FindingRows /\ IsFiniteSet(T)
         /\ \A r, s \in T : r.seq = s.seq => r = s
         /\ \A r, s \in T : r.tenant = s.tenant /\ r.finding.id = s.finding.id => r = s
         /\ \A u \in Tenants \ {t} : {row \in T : row.tenant = u} = {row \in findings : row.tenant = u}
         /\ \A old \in findings : \E r \in T : r.seq = old.seq /\ r.tenant = old.tenant
         /\ \E new \in T : /\ new.tenant = t /\ new.finding = f
                           /\ Cardinality(Newer(T, new)) <= max_size
  <1> DEFINE known == {row \in findings : row.tenant = t /\ row.finding.id = f.id}
  <1>1. /\ findings \subseteq FindingRows /\ IsFiniteSet(findings)
        /\ \A r, s \in findings : r.seq = s.seq => r = s
        /\ \A r, s \in findings : r.tenant = s.tenant /\ r.finding.id = s.finding.id => r = s
        /\ Cardinality({row \in findings : row.tenant = t}) <= max_size
    BY DEF TablesOK, TableOK
  <1>2. \A row \in findings : row.seq \in Nat /\ row.tenant \in Tenants /\ row.finding \in Findings
    BY <1>1 DEF FindingRows
  <1>3. CASE known = {}
    <2>1. PICK n : n = NextSeq(findings)
      OBVIOUS
    <2>2. n \in Nat /\ \A row \in findings : row.seq < n
      BY <1>1, <1>2, <2>1, NextSeqIsNew
    <2>3. PICK new \in FindingRows : new.seq = n /\ new.tenant = t /\ new.finding = f
                                     /\ T = findings \cup {new}
      <3>1. [seq |-> n, tenant |-> t, finding |-> f] \in FindingRows
        BY <2>2 DEF FindingRows
      <3>2. T = findings \cup {[seq |-> n, tenant |-> t, finding |-> f]}
        BY <1>3, <2>1 DEF Upsert
      <3> QED
        BY <3>1, <3>2
    <2>4. T \subseteq FindingRows /\ IsFiniteSet(T)
      BY <1>1, <2>3, FS_AddElement
    <2>5. \A r, s \in T : r.seq = s.seq => r = s
      BY <1>1, <1>2, <2>2, <2>3
    <2>6. \A r, s \in T : r.tenant = s.tenant /\ r.finding.id = s.finding.id => r = s
      BY <1>1, <1>3, <2>3
    <2>7. \A u \in Tenants \ {t} : {row \in T : row.tenant = u} = {row \in findings : row.tenant = u}
      BY <2>3
    <2>8. Cardinality(Newer(T, new)) <= max_size
      <3>1. Newer(T, new) = {new}
        BY <1>2, <2>2, <2>3 DEF Newer
      <3>2. Cardinality({new}) = 1
        BY FS_Singleton
      <3> QED
        BY <3>1, <3>2, LegacyAssumption
    <2> QED
      BY <2>3, <2>4, <2>5, <2>6, <2>7, <2>8
  <1>4. CASE known # {}
    <2>1. PICK row \in findings : known = {row} /\ row.tenant = t /\ row.finding.id = f.id
      BY <1>1, <1>4
    <2>2. PICK new \in FindingRows : /\ new.seq = row.seq /\ new.tenant = t /\ new.finding = f
                                     /\ T = (findings \ {row}) \cup {new}
      <3>1. row \in FindingRows /\ [row EXCEPT !.finding = f] \in FindingRows
        BY <1>1, <2>1 DEF FindingRows
      <3>2. /\ [row EXCEPT !.finding = f].seq = row.seq /\ [row EXCEPT !.finding = f].tenant = t
            /\ [row EXCEPT !.finding = f].finding = f
        BY <2>1, <3>1 DEF FindingRows
      <3>3. T = (findings \ known) \cup {[r EXCEPT !.finding = f] : r \in known}
        BY <1>4 DEF Upsert
      <3>4. {[r EXCEPT !.finding = f] : r \in known} = {[row EXCEPT !.finding = f]}
        BY <2>1
      <3>5. T = (findings \ {row}) \cup {[row EXCEPT !.finding = f]}
        BY <2>1, <3>3, <3>4
      <3> QED
        BY <3>1, <3>2, <3>5
    <2> HIDE DEF known
    <2>3. T \subseteq FindingRows /\ IsFiniteSet(T)
      <3>1. IsFiniteSet(findings \ {row})
        BY <1>1, FS_RemoveElement
      <3> QED
        BY <1>1, <2>2, <3>1, FS_AddElement
    <2>4. \A r, s \in T : r.seq = s.seq => r = s
      BY <1>1, <2>1, <2>2
    <2>5. \A r, s \in T : r.tenant = s.tenant /\ r.finding.id = s.finding.id => r = s
      BY <1>1, <2>1, <2>2
    <2>6. \A u \in Tenants \ {t} : {r \in T : r.tenant = u} = {r \in findings : r.tenant = u}
      BY <2>1, <2>2
    <2>7. \A old \in findings : \E r \in T : r.seq = old.seq /\ r.tenant = old.tenant
      BY <2>1, <2>2
    <2>8. Cardinality(Newer(T, new)) <= max_size
      <3> DEFINE rest == {r \in findings : r.tenant = t} \ {row}
      <3>1. IsFiniteSet({r \in findings : r.tenant = t})
        BY <1>1, FS_Subset
      <3>2. /\ IsFiniteSet(rest)
            /\ Cardinality(rest) = Cardinality({r \in findings : r.tenant = t}) - 1
        BY <2>1, <3>1, FS_RemoveElement
      <3>3. /\ Cardinality({r \in findings : r.tenant = t}) \in Nat /\ max_size \in Nat
            /\ Cardinality(rest) \in Nat
        BY <3>1, <3>2, FS_CardinalityType, LegacyAssumption
      <3> HIDE DEF rest
      <3>4. IsFiniteSet(rest \cup {new}) /\ Cardinality(rest \cup {new}) <= Cardinality(rest) + 1
        <4>1. /\ IsFiniteSet(rest \cup {new})
              /\ Cardinality(rest \cup {new}) \in {Cardinality(rest), Cardinality(rest) + 1}
          BY <3>2, FS_AddElement
        <4> QED
          BY <3>3, <4>1
      <3>5. Newer(T, new) \in SUBSET (rest \cup {new})
        BY <2>2 DEF Newer, rest
      <3>6. /\ Cardinality(Newer(T, new)) <= Cardinality(rest \cup {new})
            /\ Cardinality(Newer(T, new)) \in Nat /\ Cardinality(rest \cup {new}) \in Nat
        BY <3>4, <3>5, FS_Subset, FS_CardinalityType
      <3> QED
        BY <1>1, <3>2, <3>3, <3>4, <3>6
    <2> QED
      BY <2>2, <2>3, <2>4, <2>5, <2>6, <2>7, <2>8
  <1> QED
    BY <1>3, <1>4

\* The tables keep their shape whichever finding is stored.
LEMMA StoreKeepsTable ==
  ASSUME TablesOK, NEW t \in Tenants, NEW f \in Findings, StoreFinding(t, f)
  PROVE  /\ findings' \subseteq FindingRows /\ TableOK(findings)'
         /\ \A r, s \in findings' : r.tenant = s.tenant /\ r.finding.id = s.finding.id => r = s
  <1>1. PICK T : T = Upsert(t, f)
    OBVIOUS
  <1>2. /\ T \subseteq FindingRows /\ IsFiniteSet(T)
        /\ \A r, s \in T : r.seq = s.seq => r = s
        /\ \A r, s \in T : r.tenant = s.tenant /\ r.finding.id = s.finding.id => r = s
        /\ \A u \in Tenants \ {t} : {row \in T : row.tenant = u} = {row \in findings : row.tenant = u}
    BY <1>1, UpsertTable
  <1>3. \A row \in T : row.seq \in Nat
    BY <1>2 DEF FindingRows
  <1>4. \A u \in Tenants \ {t} : Cardinality({row \in T : row.tenant = u}) <= max_size
    BY <1>2 DEF TablesOK, TableOK
  <1>5. TableOK(Prune(T, t)) /\ Prune(T, t) \subseteq T
    BY <1>2, <1>3, <1>4, PruneTable
  <1>6. findings' = Prune(T, t)
    BY <1>1 DEF StoreFinding
  <1>7. TableOK(findings)'
    BY <1>5, <1>6 DEF TableOK
  <1> QED
    BY <1>2, <1>5, <1>6, <1>7

\* The finding that was stored is there, and what is gone is its tenant's oldest.
LEMMA StoreKeepsNewest ==
  ASSUME TablesOK, NEW t \in Tenants, NEW f \in Findings, StoreFinding(t, f)
  PROVE  LET kept == {row \in findings' : row.tenant = t}
         IN  /\ \E row \in kept : row.finding = f
             /\ \A old \in findings :
                  (\A row \in findings' : row.seq # old.seq) =>
                    old.tenant = t /\ \A row \in kept : old.seq < row.seq
  <1>1. PICK T : T = Upsert(t, f)
    OBVIOUS
  <1>2. /\ T \subseteq FindingRows /\ IsFiniteSet(T)
        /\ \A old \in findings : \E r \in T : r.seq = old.seq /\ r.tenant = old.tenant
        /\ \E new \in T : /\ new.tenant = t /\ new.finding = f
                          /\ Cardinality(Newer(T, new)) <= max_size
    BY <1>1, UpsertTable
  <1>3. \A row \in T : row.seq \in Nat
    BY <1>2 DEF FindingRows
  <1>4. findings' = Prune(T, t)
    BY <1>1 DEF StoreFinding
  <1>5. \E row \in findings' : row.tenant = t /\ row.finding = f
    BY <1>2, <1>4 DEF Prune
  <1>6. ASSUME NEW old \in findings, \A row \in findings' : row.seq # old.seq,
               NEW row \in findings', row.tenant = t
        PROVE  old.tenant = t /\ old.seq < row.seq
    <2>1. PICK r \in T : r.seq = old.seq /\ r.tenant = old.tenant
      BY <1>2
    <2>2. r \notin Prune(T, t)
      BY <1>4, <1>6, <2>1
    <2>3. r.tenant = t /\ r.seq < row.seq
      BY <1>2, <1>3, <1>4, <1>6, <2>2, PrunedIsOldest
    <2> QED
      BY <2>1, <2>3
  <1> QED
    BY <1>5, <1>6

\* add_correlation numbers the pair above all others and prunes the same way.
LEMMA AddKeepsTable ==
  ASSUME TablesOK, NEW t \in Tenants, NEW f \in Findings, AddCorrelation(t, f, Related(t, f))
  PROVE  correlations' \subseteq CorrelationRows /\ TableOK(correlations)'
  <1>1. PICK n, ids : n = NextSeq(correlations)
                      /\ ids = {f.id} \cup {row.finding.id : row \in Related(t, f)}
    OBVIOUS
  <1>2. /\ correlations \subseteq CorrelationRows /\ IsFiniteSet(correlations)
        /\ \A r, s \in correlations : r.seq = s.seq => r = s
        /\ \A u \in Tenants : Cardinality({row \in correlations : row.tenant = u}) <= max_size
    BY DEF TablesOK, TableOK
  <1>3. \A row \in correlations : row.seq \in Nat
    BY <1>2 DEF CorrelationRows
  <1>4. n \in Nat /\ \A row \in correlations : row.seq < n
    BY <1>1, <1>2, <1>3, NextSeqIsNew
  <1>5. ids \in SUBSET FindingIds
    <2>1. \A row \in Related(t, f) : row.finding \in Findings
      BY DEF Related, TablesOK, FindingRows
    <2> QED
      BY <1>1, <2>1 DEF FindingIds
  <1>6. PICK new \in CorrelationRows : new.seq = n /\ new.tenant = t
                                       /\ correlations' = Prune(correlations \cup {new}, t)
    <2>1. [seq |-> n, tenant |-> t, findings |-> ids] \in CorrelationRows
      BY <1>4, <1>5 DEF CorrelationRows
    <2>2. correlations' = Prune(correlations \cup {[seq |-> n, tenant |-> t, findings |-> ids]}, t)
      BY <1>1 DEF AddCorrelation
    <2> QED
      BY <2>1, <2>2
  <1>7. PICK T : T = correlations \cup {new}
    OBVIOUS
  <1>8. /\ T \subseteq CorrelationRows /\ IsFiniteSet(T) /\ \A row \in T : row.seq \in Nat
        /\ \A r, s \in T : r.seq = s.seq => r = s
    <2>1. IsFiniteSet(T)
      BY <1>2, <1>7, FS_AddElement
    <2> QED
      BY <1>2, <1>3, <1>4, <1>6, <1>7, <2>1
  <1>9. \A u \in Tenants \ {t} : Cardinality({row \in T : row.tenant = u}) <= max_size
    <2>1. \A u \in Tenants \ {t} : {row \in T : row.tenant = u} = {row \in correlations : row.tenant = u}
      BY <1>6, <1>7
    <2> QED
      BY <1>2, <2>1
  <1>10. TableOK(Prune(T, t)) /\ Prune(T, t) \subseteq T
    BY <1>8, <1>9, PruneTable
  <1>11. TableOK(correlations)'
    BY <1>6, <1>7, <1>10 DEF TableOK
  <1> QED
    BY <1>6, <1>7, <1>8, <1>10, <1>11

-----------------------------------------------------------------------------
(* The feeds: the invariant behind FeedInOrder *)

Items == Tenants \X Nat

Feeds == [tenant : Tenants \cup {None}, from : Nat, queue : Seq(Items), got : Seq(Items)]

\* What was received is in order, all the tenant's, and new since from; an item that is
\* not there found a full queue, so maxsize earlier ones are.
FeedOf(received, tenant, from, last) ==
  /\ \A i, j \in 1..Len(received) : i < j => received[i][2] < received[j][2]
  /\ \A i \in 1..Len(received) : received[i][1] = tenant /\ received[i][2] \in from + 1 .. last
  /\ \A n \in from + 1 .. last : (\A i \in 1..Len(received) : received[i][2] # n) =>
       Cardinality({i \in 1..Len(received) : received[i][2] < n}) >= maxsize

\* A subscriber has received what it took, and then what waits in its queue.
InOrder(feed, last) ==
  feed.from <= last /\ FeedOf(feed.got \o feed.queue, feed.tenant, feed.from, last)

FeedsFollow(feeds, told) ==
  /\ feeds \in [Subscribers -> Feeds]
  /\ \A u \in Subscribers : Len(feeds[u].queue) <= maxsize
  /\ \A u \in Subscribers : feeds[u].tenant # None => InOrder(feeds[u], told[feeds[u].tenant])

FeedsOK ==
  /\ published \in [Tenants -> Nat] /\ reports \in 0..MaxReports
  /\ FeedsFollow(sub, published)

RegistryInv == TablesOK /\ FeedsOK

\* Sequences: where an item is appended, and that taking one moves it from one to the other.
LEMMA ConcatAppend ==
  ASSUME NEW S, NEW s \in Seq(S), NEW q \in Seq(S), NEW e \in S
  PROVE  s \o Append(q, e) = Append(s \o q, e)
  <1>1. <<e>> \in Seq(S) /\ s \o q \in Seq(S)
    OBVIOUS
  <1>2. Append(q, e) = q \o <<e>> /\ Append(s \o q, e) = (s \o q) \o <<e>>
    BY <1>1, AppendIsConcat
  <1>3. PICK one \in Seq(S) : one = <<e>>
    BY <1>1
  <1>4. (s \o q) \o one = s \o (q \o one)
    BY ConcatAssociative
  <1> QED
    BY <1>2, <1>3, <1>4

LEMMA ConcatMove ==
  ASSUME NEW S, NEW s \in Seq(S), NEW q \in Seq(S), q # << >>
  PROVE  Append(s, Head(q)) \o Tail(q) = s \o q
  <1>1. Head(q) \in S /\ Tail(q) \in Seq(S) /\ <<Head(q)>> \in Seq(S)
    OBVIOUS
  <1>2. q = <<Head(q)>> \o Tail(q)
    OBVIOUS
  <1>3. PICK one \in Seq(S), rest \in Seq(S) : one = <<Head(q)>> /\ rest = Tail(q)
    BY <1>1
  <1>4. Append(s, Head(q)) = s \o one
    BY <1>1, <1>3, AppendIsConcat
  <1>5. (s \o one) \o rest = s \o (one \o rest)
    BY ConcatAssociative
  <1> QED
    BY <1>2, <1>3, <1>4, <1>5

\* An item that finds room is the last one received.
LEMMA ItemDelivered ==
  ASSUME NEW r \in Seq(Items), NEW t \in Tenants, NEW from \in Nat, NEW last \in Nat,
         from <= last, FeedOf(r, t, from, last)
  PROVE  FeedOf(Append(r, <<t, last + 1>>), t, from, last + 1)
  <1> DEFINE item == <<t, last + 1>>
             L == Len(r)
             r2 == Append(r, item)
  <1>1. L \in Nat /\ item[1] = t /\ item[2] = last + 1 /\ item \in Items
    BY DEF Items
  <1>2. \A i \in 1..L : r[i] \in Items /\ r[i][2] \in Nat
    BY DEF Items
  <1> HIDE DEF item
  <1>3. /\ Len(r2) = L + 1 /\ r2[L + 1] = item
        /\ \A i \in 1..L : r2[i] = r[i]
    BY <1>1
  <1>4. /\ \A i, j \in 1..L : i < j => r[i][2] < r[j][2]
        /\ \A i \in 1..L : r[i][1] = t /\ r[i][2] \in from + 1 .. last
        /\ \A n \in from + 1 .. last : (\A i \in 1..L : r[i][2] # n) =>
             Cardinality({i \in 1..L : r[i][2] < n}) >= maxsize
    BY DEF FeedOf
  <1> HIDE DEF L, r2
  <1>5. 1..Len(r2) = (1..L) \cup {L + 1}
    BY <1>1, <1>3
  <1>6. \A i \in 1..Len(r2) : /\ r2[i][1] = t /\ r2[i][2] \in from + 1 .. last + 1
                              /\ i # L + 1 => r2[i] = r[i] /\ r2[i][2] \in from + 1 .. last
    <2>1. \A i \in 1..L : r2[i][1] = t /\ r2[i][2] \in from + 1 .. last + 1 /\ r2[i] = r[i]
      BY <1>3, <1>4
    <2> QED
      BY <1>1, <1>3, <1>4, <1>5, <2>1
  <1>7. ASSUME NEW i \in 1..Len(r2), NEW j \in 1..Len(r2), i < j PROVE r2[i][2] < r2[j][2]
    <2>1. CASE j = L + 1
      <3>1. i \in 1..L
        BY <1>1, <1>5, <1>7, <2>1
      <3>2. r2[i][2] \in from + 1 .. last
        BY <1>1, <1>6, <1>7, <3>1
      <3> QED
        BY <1>1, <1>3, <2>1, <3>2
    <2>2. CASE j # L + 1
      <3>1. i \in 1..L /\ j \in 1..L
        BY <1>1, <1>5, <1>7, <2>2
      <3> QED
        BY <1>3, <1>4, <1>7, <3>1
    <2> QED
      BY <2>1, <2>2
  <1>8. ASSUME NEW n \in from + 1 .. last + 1, \A i \in 1..Len(r2) : r2[i][2] # n
        PROVE  Cardinality({i \in 1..Len(r2) : r2[i][2] < n}) >= maxsize
    <2>1. n \in from + 1 .. last
      BY <1>1, <1>3, <1>5, <1>8
    <2>2. \A i \in 1..L : r[i][2] # n
      BY <1>3, <1>5, <1>8
    <2>3. ~(r2[L + 1][2] < n)
      BY <1>1, <1>3, <2>1
    <2>4. {i \in 1..Len(r2) : r2[i][2] < n} = {i \in 1..L : r[i][2] < n}
      BY <1>3, <1>5, <2>3
    <2> QED
      BY <1>4, <2>1, <2>2, <2>4
  <1> QED
    BY <1>6, <1>7, <1>8 DEF FeedOf, r2, item

\* An item that finds the queue full finds maxsize items received before it.
LEMMA ItemDropped ==
  ASSUME NEW r \in Seq(Items), NEW t \in Tenants, NEW from \in Nat, NEW last \in Nat,
         from <= last, FeedOf(r, t, from, last), Len(r) >= maxsize
  PROVE  FeedOf(r, t, from, last + 1)
  <1>1. Len(r) \in Nat
    OBVIOUS
  <1>2. /\ \A i, j \in 1..Len(r) : i < j => r[i][2] < r[j][2]
        /\ \A i \in 1..Len(r) : r[i][1] = t /\ r[i][2] \in from + 1 .. last
        /\ \A n \in from + 1 .. last : (\A i \in 1..Len(r) : r[i][2] # n) =>
             Cardinality({i \in 1..Len(r) : r[i][2] < n}) >= maxsize
    BY DEF FeedOf
  <1>3. Cardinality({i \in 1..Len(r) : r[i][2] < last + 1}) >= maxsize
    <2>1. {i \in 1..Len(r) : r[i][2] < last + 1} = 1..Len(r)
      BY <1>2
    <2>2. PICK n \in Nat : n = Len(r)
      BY <1>1
    <2>3. Cardinality(1..n) = n
      BY FS_Interval
    <2> QED
      BY <2>1, <2>2, <2>3
  <1>4. ASSUME NEW n \in from + 1 .. last + 1, \A i \in 1..Len(r) : r[i][2] # n
        PROVE  Cardinality({i \in 1..Len(r) : r[i][2] < n}) >= maxsize
    <2>1. n \in from + 1 .. last \/ n = last + 1
      OBVIOUS
    <2>2. CASE n = last + 1
      BY <1>3, <2>2
    <2>3. CASE n \in from + 1 .. last
      BY <1>2, <1>4, <2>3
    <2> QED
      BY <2>1, <2>2, <2>3
  <1>5. \A i \in 1..Len(r) : r[i][1] = t /\ r[i][2] \in from + 1 .. last + 1
    BY <1>2
  <1> QED
    BY <1>2, <1>4, <1>5 DEF FeedOf

\* One item offered to a subscriber of its tenant.
LEMMA OfferKeeps ==
  ASSUME NEW feed \in Feeds, feed.tenant \in Tenants, NEW last \in Nat,
         Len(feed.queue) <= maxsize, InOrder(feed, last),
         NEW new, new = Offer(feed, <<feed.tenant, last + 1>>)
  PROVE  /\ new \in Feeds /\ new.tenant = feed.tenant /\ Len(new.queue) <= maxsize
         /\ InOrder(new, last + 1)
  <1>1. PICK q \in Seq(Items), g \in Seq(Items), from \in Nat, t \in Tenants, item \in Items :
          /\ q = feed.queue /\ g = feed.got /\ from = feed.from /\ t = feed.tenant
          /\ item = <<t, last + 1>>
    <2>1. /\ feed.queue \in Seq(Items) /\ feed.got \in Seq(Items) /\ feed.from \in Nat
          /\ <<feed.tenant, last + 1>> \in Items
      BY DEF Feeds, Items
    <2> QED
      BY <2>1
  <1>2. /\ from <= last /\ FeedOf(g \o q, t, from, last) /\ Len(q) <= maxsize
        /\ Len(q) \in Nat /\ Len(g) \in Nat /\ maxsize \in Nat
    BY <1>1, LegacyAssumption DEF InOrder
  <1>3. g \o q \in Seq(Items) /\ Len(g \o q) = Len(g) + Len(q)
    BY <1>1, ConcatProperties
  <1>4. CASE Len(q) < maxsize
    <2>1. new = [feed EXCEPT !.queue = Append(q, item)]
      BY <1>1, <1>4 DEF Offer
    <2>2. Append(q, item) \in Seq(Items) /\ Len(Append(q, item)) = Len(q) + 1
      BY AppendProperties
    <2>3. g \o Append(q, item) = Append(g \o q, item)
      BY ConcatAppend
    <2>4. FeedOf(Append(g \o q, item), t, from, last + 1)
      BY <1>1, <1>2, <1>3, ItemDelivered
    <2>5. /\ new \in Feeds /\ new.tenant = t /\ new.got = g /\ new.from = from
          /\ new.queue = Append(q, item)
      BY <1>1, <2>1, <2>2 DEF Feeds
    <2>6. Len(new.queue) <= maxsize /\ new.from <= last + 1
      BY <1>1, <1>2, <1>4, <2>2, <2>5
    <2>7. FeedOf(new.got \o new.queue, new.tenant, new.from, last + 1)
      BY <2>3, <2>4, <2>5
    <2> QED
      BY <1>1, <2>5, <2>6, <2>7 DEF InOrder
  <1>5. CASE ~(Len(q) < maxsize)
    <2>1. new = feed
      BY <1>1, <1>5 DEF Offer
    <2>2. Len(g \o q) >= maxsize
      BY <1>2, <1>3, <1>5
    <2>3. FeedOf(g \o q, t, from, last + 1)
      BY <1>1, <1>2, <1>3, <2>2, ItemDropped
    <2>4. from <= last + 1
      BY <1>1, <1>2
    <2> QED
      BY <1>1, <2>1, <2>3, <2>4 DEF InOrder
  <1> QED
    BY <1>4, <1>5

\* An item announced to every subscriber of its tenant.
LEMMA AnnounceKeeps ==
  ASSUME NEW told \in [Tenants -> Nat], NEW feeds, FeedsFollow(feeds, told), NEW t \in Tenants
  PROVE  FeedsFollow(Announce(feeds, t, told[t] + 1), [told EXCEPT ![t] = told[t] + 1])
  <1> DEFINE new == Announce(feeds, t, told[t] + 1)
             told2 == [told EXCEPT ![t] = told[t] + 1]
  <1>1. ASSUME NEW u \in Subscribers
        PROVE  /\ new[u] \in Feeds /\ Len(new[u].queue) <= maxsize
               /\ new[u].tenant # None => InOrder(new[u], told2[new[u].tenant])
    <2>1. /\ feeds[u] \in Feeds /\ Len(feeds[u].queue) <= maxsize
          /\ feeds[u].tenant # None => InOrder(feeds[u], told[feeds[u].tenant])
          /\ feeds[u].tenant \in Tenants \cup {None} /\ t # None
      BY LegacyAssumption DEF FeedsFollow, Feeds
    <2>2. CASE feeds[u].tenant = t
      <3>1. new[u] = Offer(feeds[u], <<feeds[u].tenant, told[t] + 1>>)
        BY <2>2 DEF Announce
      <3>2. told[t] \in Nat /\ told2[t] = told[t] + 1
        OBVIOUS
      <3>3. /\ new[u] \in Feeds /\ new[u].tenant = t /\ Len(new[u].queue) <= maxsize
            /\ InOrder(new[u], told[t] + 1)
        BY <2>1, <2>2, <3>1, <3>2, OfferKeeps
      <3> QED
        BY <3>2, <3>3
    <2>3. CASE feeds[u].tenant # t
      <3>1. new[u] = feeds[u]
        BY <2>3 DEF Announce
      <3>2. feeds[u].tenant # None => told2[feeds[u].tenant] = told[feeds[u].tenant]
        BY <2>1, <2>3
      <3> QED
        BY <2>1, <3>1, <3>2
    <2> QED
      BY <2>2, <2>3
  <1>2. new = [u \in Subscribers |-> new[u]]
    BY DEF Announce
  <1> HIDE DEF new, told2
  <1>3. new \in [Subscribers -> Feeds]
    BY <1>1, <1>2
  <1>4. FeedsFollow(new, told2)
    BY <1>1, <1>3 DEF FeedsFollow
  <1> QED
    BY <1>4 DEF new, told2

Taken(feed) ==
  [feed EXCEPT !.got = Append(feed.got, Head(feed.queue)), !.queue = Tail(feed.queue)]

\* The next item is taken from the queue: nothing is received that was not, or lost.
LEMMA ReceiveKeeps ==
  ASSUME NEW feed \in Feeds, feed.queue # << >>, Len(feed.queue) <= maxsize,
         NEW new, new = Taken(feed)
  PROVE  /\ new \in Feeds /\ new.tenant = feed.tenant /\ Len(new.queue) <= maxsize
         /\ \A last : InOrder(feed, last) => InOrder(new, last)
  <1>1. PICK q \in Seq(Items), g \in Seq(Items) : q = feed.queue /\ g = feed.got
    BY DEF Feeds
  <1>2. /\ Head(q) \in Items /\ Tail(q) \in Seq(Items) /\ Len(Tail(q)) = Len(q) - 1
        /\ Len(q) \in Nat /\ Append(g, Head(q)) \in Seq(Items)
    BY <1>1
  <1>3. /\ new \in Feeds /\ new.tenant = feed.tenant /\ new.from = feed.from
        /\ new.got = Append(g, Head(q)) /\ new.queue = Tail(q)
    BY <1>1, <1>2 DEF Feeds, Taken
  <1>4. new.got \o new.queue = feed.got \o feed.queue
    <2>1. Append(g, Head(q)) \o Tail(q) = g \o q
      BY <1>1, ConcatMove
    <2> QED
      BY <1>1, <1>3, <2>1
  <1>5. Len(new.queue) <= maxsize
    BY <1>1, <1>2, <1>3, LegacyAssumption
  <1> QED
    BY <1>3, <1>4, <1>5 DEF InOrder

\* Each step of the stopped or running legacy gateway keeps the invariant.
LEMMA ReportKeeps ==
  ASSUME RegistryInv, NEW t \in Tenants, NEW f \in Findings, Report(t, f)
  PROVE  RegistryInv'
  <1> DEFINE n == published[t]
             told == Announce(sub, t, n + 1)
             one == [published EXCEPT ![t] = n + 1]
  <1>1. n \in Nat /\ one \in [Tenants -> Nat] /\ FeedsFollow(told, one) /\ one[t] = n + 1
    <2>1. published \in [Tenants -> Nat] /\ FeedsFollow(sub, published)
      BY DEF RegistryInv, FeedsOK
    <2>2. FeedsFollow(told, one)
      BY <2>1, AnnounceKeeps
    <2> QED
      BY <2>1, <2>2
  <1>2. reports' \in 0..MaxReports
    BY LegacyAssumption DEF RegistryInv, FeedsOK, Report
  <1>3. /\ findings' \subseteq FindingRows /\ TableOK(findings)'
        /\ \A r, s \in findings' : r.tenant = s.tenant /\ r.finding.id = s.finding.id => r = s
    BY StoreKeepsTable DEF RegistryInv, Report
  <1>4. CASE Related(t, f) = {}
    <2>1. sub' = told /\ published' = one /\ correlations' = correlations
      BY <1>4 DEF Report
    <2>2. TablesOK'
      BY <1>3, <2>1 DEF RegistryInv, TablesOK, TableOK
    <2> QED
      BY <1>1, <1>2, <2>1, <2>2 DEF RegistryInv, FeedsOK
  <1>5. CASE Related(t, f) # {}
    <2>1. /\ AddCorrelation(t, f, Related(t, f)) /\ sub' = Announce(told, t, n + 2)
          /\ published' = [published EXCEPT ![t] = n + 2]
      BY <1>5 DEF Report
    <2>2. correlations' \subseteq CorrelationRows /\ TableOK(correlations)'
      BY <2>1, AddKeepsTable DEF RegistryInv
    <2>3. TablesOK'
      BY <1>3, <2>2 DEF TablesOK
    <2>4. FeedsFollow(Announce(told, t, one[t] + 1), [one EXCEPT ![t] = one[t] + 1])
      BY <1>1, AnnounceKeeps
    <2>5. one[t] + 1 = n + 2 /\ [one EXCEPT ![t] = n + 2] = [published EXCEPT ![t] = n + 2]
      BY <1>1 DEF RegistryInv, FeedsOK
    <2>6. published' \in [Tenants -> Nat]
      BY <1>1, <2>1 DEF RegistryInv, FeedsOK
    <2> HIDE DEF told, one, n
    <2>7. FeedsFollow(sub', published')
      BY <2>1, <2>4, <2>5
    <2> QED
      BY <1>2, <2>3, <2>6, <2>7 DEF RegistryInv, FeedsOK
  <1> QED
    BY <1>4, <1>5

LEMMA SubscriberKeeps ==
  ASSUME RegistryInv, NEW u \in Subscribers,
         \/ \E t \in Tenants : Subscribe(u, t)
         \/ Receive(u) \/ Unsubscribe(u)
  PROVE  RegistryInv'
  <1>1. /\ published' = published /\ reports' = reports
        /\ findings' = findings /\ correlations' = correlations
    BY DEF Subscribe, Receive, Unsubscribe
  <1>2. /\ sub \in [Subscribers -> Feeds] /\ published \in [Tenants -> Nat]
        /\ \A v \in Subscribers : Len(sub[v].queue) <= maxsize
        /\ \A v \in Subscribers : sub[v].tenant # None => InOrder(sub[v], published[sub[v].tenant])
    BY DEF RegistryInv, FeedsOK, FeedsFollow
  <1>3. SUFFICES ASSUME NEW new \in Feeds, sub' = [sub EXCEPT ![u] = new], Len(new.queue) <= maxsize,
                        new.tenant # None => InOrder(new, published[new.tenant])
                 PROVE  RegistryInv'
    <2>1. CASE Unsubscribe(u)
      <3>1. NoFeed \in Feeds /\ NoFeed.tenant = None /\ Len(NoFeed.queue) <= maxsize
        BY LegacyAssumption DEF NoFeed, Feeds
      <3> QED
        BY <1>3, <2>1, <3>1 DEF Unsubscribe
    <2>2. ASSUME NEW t \in Tenants, Subscribe(u, t) PROVE RegistryInv'
      <3>1. PICK new : new = [NoFeed EXCEPT !.tenant = t, !.from = published[t]]
        OBVIOUS
      <3>2. /\ new \in Feeds /\ new.tenant = t /\ new.queue = << >> /\ new.got = << >>
            /\ new.from = published[t] /\ published[t] \in Nat
        <4>1. new = [tenant |-> t, from |-> published[t], queue |-> << >>, got |-> << >>]
          BY <3>1 DEF NoFeed
        <4>2. published[t] \in Nat /\ << >> \in Seq(Items)
          BY <1>2
        <4> QED
          BY <4>1, <4>2 DEF Feeds
      <3>3. Len(new.queue) <= maxsize /\ new.got \o new.queue = << >>
        BY <3>2, LegacyAssumption
      <3>4. FeedOf(<< >>, t, published[t], published[t])
        BY <3>2 DEF FeedOf
      <3>5. InOrder(new, published[t])
        BY <3>2, <3>3, <3>4 DEF InOrder
      <3>6. sub' = [sub EXCEPT ![u] = new]
        BY <2>2, <3>1 DEF Subscribe
      <3> QED
        BY <1>3, <3>2, <3>3, <3>5, <3>6
    <2>3. CASE Receive(u)
      <3>1. PICK feed \in Feeds : feed = sub[u] /\ feed.queue # << >> /\ Len(feed.queue) <= maxsize
        BY <1>2, <2>3 DEF Receive
      <3>2. PICK new : new = Taken(feed) /\ sub' = [sub EXCEPT ![u] = new]
        BY <1>2, <2>3, <3>1 DEF Receive, Taken
      <3>3. /\ new \in Feeds /\ new.tenant = feed.tenant /\ Len(new.queue) <= maxsize
            /\ \A last : InOrder(feed, last) => InOrder(new, last)
        BY <3>1, <3>2, ReceiveKeeps
      <3>4. new.tenant # None => InOrder(new, published[new.tenant])
        BY <1>2, <3>1, <3>3
      <3> QED
        BY <1>3, <3>2, <3>3, <3>4
    <2> QED
      BY <2>1, <2>2, <2>3
  <1>4. sub' \in [Subscribers -> Feeds] /\ sub'[u] = new
    BY <1>2, <1>3
  <1>5. \A v \in Subscribers \ {u} : sub'[v] = sub[v]
    BY <1>2, <1>3
  <1>6. FeedsFollow(sub', published')
    BY <1>1, <1>2, <1>3, <1>4, <1>5 DEF FeedsFollow
  <1> QED
    BY <1>1, <1>2, <1>6 DEF RegistryInv, FeedsOK, TablesOK, TableOK

LEMMA InitRegistry == Init => RegistryInv
  <1> SUFFICES ASSUME Init PROVE RegistryInv
    OBVIOUS
  <1>1. TableOK({})
    BY FS_EmptySet, LegacyAssumption DEF TableOK
  <1>2. TablesOK
    BY <1>1 DEF Init, LegacyInit, TablesOK
  <1>3. NoFeed \in Feeds /\ NoFeed.tenant = None /\ Len(NoFeed.queue) <= maxsize
    BY LegacyAssumption DEF NoFeed, Feeds
  <1>4. sub = [u \in Subscribers |-> NoFeed] /\ published = [t \in Tenants |-> 0] /\ reports = 0
    BY DEF Init, LegacyInit
  <1>5. FeedsOK
    BY <1>3, <1>4, LegacyAssumption DEF FeedsOK, FeedsFollow
  <1> QED
    BY <1>2, <1>5 DEF RegistryInv

LEMMA StopKeepsRegistry ==
  ASSUME RegistryInv, Stop
  PROVE  RegistryInv'
  <1>1. findings' = findings /\ correlations' = correlations
    BY DEF Stop
  <1>2. NoFeed \in Feeds /\ NoFeed.tenant = None /\ Len(NoFeed.queue) <= maxsize
    BY LegacyAssumption DEF NoFeed, Feeds
  <1>3. sub' = [u \in Subscribers |-> NoFeed] /\ published' = [t \in Tenants |-> 0] /\ reports' = 0
    BY DEF Stop
  <1>4. FeedsOK'
    BY <1>2, <1>3, LegacyAssumption DEF FeedsOK, FeedsFollow
  <1> QED
    BY <1>1, <1>4 DEF RegistryInv, TablesOK, TableOK

\* Only the legacy gateway writes its tables and feeds; its import and the new gateway do not.
LEMMA ReadOnly ==
  ASSUME Begin \/ Migrate \/ Gateway
  PROVE  UNCHANGED legacyVars
  <1>1. CASE Begin
    BY <1>1 DEF Begin
  <1>2. CASE Migrate
    BY <1>2 DEF Migrate, FlushTenants, ImportJobs, LookupFinding, InsertFinding,
                ImportCorrelations, Commit, Crash, Import, Fail
  <1>3. CASE Gateway
    BY <1>3 DEF Gateway, TargetStore, TargetTriage, TargetCreate, TargetCancel, Write
  <1> QED
    BY <1>1, <1>2, <1>3

LEMMA SameRegistry ==
  ASSUME RegistryInv, UNCHANGED legacyVars
  PROVE  RegistryInv'
  BY DEF RegistryInv, TablesOK, TableOK, FeedsOK, legacyVars

LEMMA RegistryStep == RegistryInv /\ [Next]_vars => RegistryInv'
  <1> SUFFICES ASSUME RegistryInv, [Next]_vars PROVE RegistryInv'
    OBVIOUS
  <1>1. CASE Serve
    <2>1. ASSUME NEW t \in Tenants, NEW f \in Findings, Report(t, f) PROVE RegistryInv'
      BY <2>1, ReportKeeps
    <2>2. ASSUME NEW t \in Tenants, NEW f \in Findings, AddSync(t, f) PROVE RegistryInv'
      <3>1. /\ findings' \subseteq FindingRows /\ TableOK(findings)'
            /\ \A r, s \in findings' : r.tenant = s.tenant /\ r.finding.id = s.finding.id => r = s
        BY <2>2, StoreKeepsTable DEF RegistryInv, AddSync
      <3>2. TablesOK'
        BY <2>2, <3>1 DEF AddSync, RegistryInv, TablesOK, TableOK
      <3>3. reports' \in 0..MaxReports
        BY <2>2, LegacyAssumption DEF AddSync, RegistryInv, FeedsOK
      <3>4. FeedsOK'
        BY <2>2, <3>3 DEF AddSync, RegistryInv, FeedsOK
      <3> QED
        BY <3>2, <3>4 DEF RegistryInv
    <2>3. ASSUME NEW u \in Subscribers,
                 \/ \E t \in Tenants : Subscribe(u, t)
                 \/ Receive(u) \/ Unsubscribe(u)
          PROVE  RegistryInv'
      BY <2>3, SubscriberKeeps
    <2> QED
      BY <1>1, <2>1, <2>2, <2>3 DEF Serve, LegacyNext
  <1>2. CASE Stop
    BY <1>2, StopKeepsRegistry
  <1>3. CASE Begin \/ Migrate \/ (stopped /\ Gateway)
    BY <1>3, ReadOnly, SameRegistry
  <1>4. CASE UNCHANGED vars
    BY <1>4, SameRegistry DEF vars
  <1> QED
    BY <1>1, <1>2, <1>3, <1>4 DEF Next

\* Whatever is reported, updated, subscribed to and dropped, the tables keep their shape and
\* size, and each feed follows its tenant's items.
THEOREM RegistryAlways == Spec => []RegistryInv
  <1> QED
    BY InitRegistry, RegistryStep, PTL DEF Spec

\* Subscribers get their own tenant's findings and correlations, in order and once, and none
\* before a full queue's worth is missing.
THEOREM FeedsAreInOrder == Spec => []FeedInOrder
  <1>1. RegistryInv => FeedInOrder
    BY DEF RegistryInv, FeedsOK, FeedsFollow, InOrder, FeedOf, FeedInOrder
  <1> QED
    BY <1>1, RegistryAlways, PTL

\* A stored finding survives its own pruning, which takes only the tenant's oldest rows.
THEOREM NewestAreKept == Spec => PruningKeepsNewest
  <1> DEFINE Kept ==
        \A t \in Tenants, f \in Findings : Report(t, f) \/ AddSync(t, f) =>
          LET kept == {row \in findings' : row.tenant = t}
          IN  /\ \E row \in kept : row.finding = f
              /\ \A old \in findings :
                   (\A row \in findings' : row.seq # old.seq) =>
                     old.tenant = t /\ \A row \in kept : old.seq < row.seq
  <1>1. RegistryInv => Kept
    <2> SUFFICES ASSUME RegistryInv, NEW t \in Tenants, NEW f \in Findings,
                        Report(t, f) \/ AddSync(t, f)
                 PROVE  LET kept == {row \in findings' : row.tenant = t}
                        IN  /\ \E row \in kept : row.finding = f
                            /\ \A old \in findings :
                                 (\A row \in findings' : row.seq # old.seq) =>
                                   old.tenant = t /\ \A row \in kept : old.seq < row.seq
      OBVIOUS
    <2>1. TablesOK /\ StoreFinding(t, f)
      BY DEF RegistryInv, Report, AddSync
    <2> QED
      BY <2>1, StoreKeepsNewest
  <1>2. RegistryInv => [Kept]_legacyVars
    BY <1>1
  <1> QED
    BY <1>2, RegistryAlways, PTL DEF PruningKeepsNewest

-----------------------------------------------------------------------------
(* The import: the invariant behind NothingMissing and SafeToRerun *)

TargetRows == [tenant : Tenants, fingerprint : Fingerprints, finding_id : FindingIds,
               occurrences : Nat, status : {"open", "resolved"}]

Databases == [tenants : SUBSET Tenants, jobs : SUBSET Jobs, events : SUBSET (JobIds \X Nat),
              rows : SUBSET TargetRows,
              correlations : SUBSET [id : CorrelationRows, links : SUBSET FindingIds],
              audits : SUBSET Tenants]

Imports == [pc : {"none", "tenants", "jobs", "findings", "insert", "commit", "done", "failed",
                  "crashed"},
            left : SUBSET FindingRows, new : Databases,
            ids : SUBSET (Tenants \X FindingIds \X FindingIds), quiet : BOOLEAN]

\* The legacy job table, empty until the gateway stops.
JobsOK ==
  /\ jobs \subseteq Jobs /\ IsFiniteSet(jobs)
  /\ \A j, k \in jobs : j.id = k.id \/ SameKey(j, k) => j = k
  /\ \A j \in jobs : j.id # NewJob

Clash(r, s) ==
  r.tenant = s.tenant /\ (r.fingerprint = s.fingerprint \/ r.finding_id = s.finding_id)

\* The rows that the transaction f sees in the database d.
RowsOf(d, f) == d.rows \cup f.new.rows

\* The target's keys are unique, for what is committed and what f has written.
KeysOK(d, f) ==
  /\ \A r, s \in RowsOf(d, f) : Clash(r, s) => r = s
  /\ \A j, k \in d.jobs \cup f.new.jobs : j.id = k.id \/ SameKey(j, k) => j = k
  /\ d.rows \cap f.new.rows = {} /\ d.jobs \cap f.new.jobs = {}

\* What Mapped goes by: one entry for each finding that was read, with its row's id.
IdsOK(d, f) ==
  /\ \A row \in findings \ f.left : \E r \in RowsOf(d, f) :
       SameFingerprint(row, r) /\ <<row.tenant, row.finding.id, r.finding_id>> \in f.ids
  /\ \A k \in f.ids : \E row \in findings \ f.left, r \in RowsOf(d, f) :
       SameFingerprint(row, r) /\ k = <<row.tenant, row.finding.id, r.finding_id>>

JobsIn(js, events) == \A j \in jobs : (\E k \in js : k.id = j.id) /\ EventsOf(j) \subseteq events

\* A correlation's links lead to the rows of the findings it names.
LinksOK(c, rows) ==
  /\ c.id \in correlations
  /\ \A row \in findings : row.tenant = c.id.tenant /\ row.finding.id \in c.id.findings =>
       \E r \in rows : SameFingerprint(row, r) /\ r.finding_id \in c.links

AllLinked(cs) == \A c \in correlations : \E d \in cs : d.id = c

Fresh(row, rows) == \A r \in rows : ~SameFingerprint(row, r) /\ ~SameId(row, r)

Running(f) == f.pc \in {"tenants", "jobs", "findings", "insert", "commit"}

\* What has been done by the time jobs are imported, and since.
JobsDone(d, f) ==
  /\ f.new.jobs \subseteq jobs
  /\ JobsIn(d.jobs \cup f.new.jobs, d.events \cup f.new.events)
  /\ IdsOK(d, f)
  /\ \A r \in f.new.rows : \E row \in findings \ f.left : r = Imported(row)

CorrelationsDone(d, f) ==
  /\ f.left = {}
  /\ \A c \in f.new.correlations : LinksOK(c, RowsOf(d, f))
  /\ AllLinked(d.correlations \cup f.new.correlations)
  /\ SourceTenants \subseteq d.audits \cup f.new.audits

\* What the transaction has done, by where it is.
ProgressOK(d, f) ==
  /\ f.left \subseteq findings
  /\ ~Running(f) => f.left = {} /\ f.new = Nothing
  /\ Running(f) => SourceTenants \subseteq d.tenants \cup f.new.tenants
  /\ f.pc \in {"tenants", "jobs"} =>
       /\ f.left = findings /\ f.ids = {}
       /\ f.new.jobs = {} /\ f.new.events = {} /\ f.new.rows = {}
  /\ f.pc \in {"tenants", "jobs", "findings", "insert"} =>
       f.new.correlations = {} /\ f.new.audits = {}
  /\ f.pc \in {"findings", "insert", "commit"} => JobsDone(d, f)
  /\ f.pc = "insert" => f.left # {} /\ Fresh(Oldest(f.left), f.new.rows)
  /\ f.pc = "commit" => CorrelationsDone(d, f)

\* Why an import that met no other writer fails.
Refused(d) ==
  \/ \E j \in jobs, k \in d.jobs : j.id # k.id /\ SameKey(j, k)
  \/ \E row \in findings, r \in d.rows : SameId(row, r) /\ ~SameFingerprint(row, r)

\* Nobody else has committed since it began: what it read still holds, and if it failed, the
\* reason is there.
QuietOK(d, f) ==
  f.quiet =>
    /\ f.pc = "tenants" => f.new.tenants \cap d.tenants = {}
    /\ f.pc = "insert" => Fresh(Oldest(f.left), d.rows)
    /\ f.pc = "failed" => Refused(d)

Good(d, f) ==
  /\ d \in Databases /\ IsFiniteSet(d.events) /\ f \in Imports /\ IsFiniteSet(f.new.events)
  /\ KeysOK(d, f) /\ ProgressOK(d, f) /\ QuietOK(d, f)
  /\ \A c \in d.correlations : LinksOK(c, d.rows)

\* A committed import left nothing for another to write.
Complete(d, f) ==
  /\ SourceTenants \subseteq d.tenants /\ SourceTenants \subseteq d.audits
  /\ \A row \in findings : \E r \in d.rows : SameFingerprint(row, r)
  /\ JobsIn(d.jobs, d.events) /\ AllLinked(d.correlations)
  /\ f.new = Nothing /\ f.pc \notin {"insert", "failed"}

ImportInv ==
  /\ JobsOK /\ stopped \in BOOLEAN /\ done \in BOOLEAN
  /\ ~stopped => target = Nothing /\ imp = NoImport /\ ~done
  /\ Good(target, imp)
  /\ done => Complete(target, imp)


LEMMA SourceTenantsOK ==
  ASSUME TablesOK, JobsOK
  PROVE  SourceTenants \subseteq Tenants
  BY DEF TablesOK, JobsOK, Jobs, FindingRows, CorrelationRows, SourceTenants

LEMMA NoImportOK ==
  /\ Nothing \in Databases /\ IsFiniteSet(Nothing.events)
  /\ NoImport \in Imports /\ NoImport.new = Nothing /\ NoImport.left = {} /\ NoImport.pc = "none"
  BY FS_EmptySet DEF Nothing, NoImport, Databases, Imports

\* The import and the gateway leave the legacy tables alone, so what holds of a database and a
\* transaction beside them is what will hold of the target and the import.
LEMMA SameLegacy ==
  ASSUME ImportInv, findings' = findings, correlations' = correlations, jobs' = jobs,
         NEW d, NEW f, d = target', f = imp', stopped' = TRUE, done' \in BOOLEAN,
         Good(d, f), done' => Complete(d, f)
  PROVE  ImportInv'
  <1>1. Good(target, imp)'
    BY DEF Good, KeysOK, ProgressOK, QuietOK, LinksOK, RowsOf, IdsOK, JobsIn, AllLinked, Fresh,
           Running, JobsDone, CorrelationsDone, Refused, SourceTenants
  <1>2. done' => Complete(target, imp)'
    BY DEF Complete, JobsIn, AllLinked, SourceTenants
  <1>3. JobsOK'
    BY DEF ImportInv, JobsOK
  <1> QED
    BY <1>1, <1>2, <1>3 DEF ImportInv

\* Between two imports, whatever the last one came to.
LEMMA IdleIsGood ==
  ASSUME NEW d, NEW f, Good(d, f), NEW g, NEW pc \in {"none", "done", "failed", "crashed"},
         NEW q \in BOOLEAN, q /\ pc = "failed" => Refused(d),
         g = [NoImport EXCEPT !.pc = pc, !.quiet = q]
  PROVE  Good(d, g)
  <1>1. g \in Imports /\ g.pc = pc /\ g.quiet = q /\ g.new = Nothing /\ g.left = {}
    BY NoImportOK DEF NoImport, Imports
  <1>2. g.new.rows = {} /\ g.new.jobs = {} /\ g.new.events = {}
    BY <1>1 DEF Nothing
  <1>3. KeysOK(d, g)
    BY <1>2 DEF Good, KeysOK, RowsOf
  <1>4. ProgressOK(d, g)
    BY <1>1 DEF ProgressOK, Running
  <1>5. QuietOK(d, g)
    BY <1>1 DEF QuietOK
  <1> QED
    BY <1>1, <1>2, <1>3, <1>4, <1>5, FS_EmptySet DEF Good

LEMMA BeginIsGood ==
  ASSUME TablesOK, JobsOK, NEW d, NEW f, Good(d, f), NEW g,
         g = [NoImport EXCEPT !.pc = "tenants", !.left = findings,
                              !.new.tenants = SourceTenants \ d.tenants]
  PROVE  Good(d, g) /\ (Complete(d, f) => Complete(d, g))
  <1>1. /\ g.pc = "tenants" /\ g.left = findings /\ g.ids = {} /\ g.quiet = TRUE
        /\ g.new = [Nothing EXCEPT !.tenants = SourceTenants \ d.tenants]
        /\ g = [pc |-> g.pc, left |-> g.left, new |-> g.new, ids |-> g.ids, quiet |-> g.quiet]
    BY DEF NoImport
  <1>2. /\ g.new.tenants = SourceTenants \ d.tenants /\ g.new.jobs = {} /\ g.new.events = {}
        /\ g.new.rows = {} /\ g.new.correlations = {} /\ g.new.audits = {}
    BY <1>1 DEF Nothing
  <1>3. g.new \in Databases
    BY <1>1, SourceTenantsOK DEF Nothing, Databases
  <1>4. g \in Imports
    BY <1>1, <1>3 DEF Imports, TablesOK
  <1>5. KeysOK(d, g)
    BY <1>2 DEF Good, KeysOK, RowsOf
  <1>6. ProgressOK(d, g)
    BY <1>1, <1>2 DEF ProgressOK, Running
  <1>7. QuietOK(d, g)
    BY <1>1, <1>2 DEF QuietOK
  <1>8. ASSUME Complete(d, f) PROVE Complete(d, g)
    <2>1. g.new = Nothing
      <3>1. SourceTenants \ d.tenants = {}
        BY <1>8 DEF Complete
      <3> QED
        BY <1>1, <3>1 DEF Nothing
    <2> QED
      BY <1>1, <1>8, <2>1 DEF Complete
  <1> QED
    BY <1>2, <1>4, <1>5, <1>6, <1>7, <1>8, FS_EmptySet DEF Good

LEMMA FlushIsGood ==
  ASSUME NEW d, NEW f, Good(d, f), f.pc = "tenants", f.new.tenants \cap d.tenants = {}, NEW g,
         g = [f EXCEPT !.pc = "jobs"]
  PROVE  Good(d, g) /\ (Complete(d, f) => Complete(d, g))
  <1>1. /\ g.pc = "jobs" /\ g.left = f.left /\ g.ids = f.ids /\ g.quiet = f.quiet
        /\ g.new = f.new /\ g \in Imports
    BY DEF Good, Imports
  <1>2. KeysOK(d, g)
    BY <1>1 DEF Good, KeysOK, RowsOf
  <1>3. ProgressOK(d, g)
    BY <1>1 DEF Good, ProgressOK, Running
  <1>4. QuietOK(d, g)
    BY <1>1 DEF QuietOK
  <1> QED
    BY <1>1, <1>2, <1>3, <1>4 DEF Good, Complete

\* The tables of a database, one by one.
LEMMA Tables ==
  ASSUME NEW d \in Databases
  PROVE  d = [tenants |-> d.tenants, jobs |-> d.jobs, events |-> d.events, rows |-> d.rows,
              correlations |-> d.correlations, audits |-> d.audits]
  BY DEF Databases

\* Each job's events are finitely many, and so are those of a finite table.
LEMMA EventsAreFinite ==
  ASSUME JobsOK
  PROVE  /\ UNION {EventsOf(j) : j \in jobs} \subseteq JobIds \X Nat
         /\ IsFiniteSet(UNION {EventsOf(j) : j \in jobs})
  <1>1. ASSUME NEW j \in jobs PROVE EventsOf(j) \subseteq JobIds \X Nat /\ IsFiniteSet(EventsOf(j))
    <2>1. j.id \in JobIds /\ j.events \in Nat
      BY <1>1 DEF JobsOK, Jobs
    <2>2. IsFiniteSet(1..j.events)
      BY <2>1, FS_Interval
    <2>3. PICK f : f = [s \in 1..j.events |-> <<j.id, s>>]
      OBVIOUS
    <2>4. f \in Surjection(1..j.events, EventsOf(j))
      BY <2>3 DEF Surjection, EventsOf
    <2>5. IsFiniteSet(EventsOf(j))
      BY <2>2, <2>4, FS_Surjection
    <2>6. EventsOf(j) \subseteq JobIds \X Nat
      BY <2>1 DEF EventsOf
    <2> QED
      BY <2>5, <2>6
  <1>2. PICK f : f = [j \in jobs |-> EventsOf(j)]
    OBVIOUS
  <1>3. f \in Surjection(jobs, {EventsOf(j) : j \in jobs})
    BY <1>2 DEF Surjection
  <1>4. IsFiniteSet({EventsOf(j) : j \in jobs})
    BY <1>3, FS_Surjection DEF JobsOK
  <1>5. IsFiniteSet(UNION {EventsOf(j) : j \in jobs})
    BY <1>1, <1>4, FS_UNION
  <1> QED
    BY <1>1, <1>5

JobsFrame(f, new, events) ==
  [f EXCEPT !.pc = "findings", !.new.jobs = new, !.new.events = events]

\* The tables of n, one by one.
TablesAre(n, tenants, js, events, rows, cs, audits) ==
  /\ n = [tenants |-> tenants, jobs |-> js, events |-> events, rows |-> rows,
          correlations |-> cs, audits |-> audits]
  /\ n.tenants = tenants /\ n.jobs = js /\ n.events = events /\ n.rows = rows
  /\ n.correlations = cs /\ n.audits = audits

JobsAdded(f, new, events, g) ==
  /\ g \in Imports
  /\ g.pc = "findings" /\ g.left = f.left /\ g.ids = f.ids /\ g.quiet = f.quiet
  /\ TablesAre(g.new, f.new.tenants, new, events, f.new.rows, f.new.correlations, f.new.audits)

LEMMA JobsFields ==
  ASSUME NEW f \in Imports, NEW new \in SUBSET Jobs, NEW events \in SUBSET (JobIds \X Nat)
  PROVE  JobsAdded(f, new, events, JobsFrame(f, new, events))
  <1> DEFINE g == JobsFrame(f, new, events)
  <1>1. PICK n \in Databases : n = f.new
    BY DEF Imports
  <1>2. PICK m : m = [n EXCEPT !.jobs = new, !.events = events]
    OBVIOUS
  <1>3. m = [tenants |-> n.tenants, jobs |-> new, events |-> events, rows |-> n.rows,
             correlations |-> n.correlations, audits |-> n.audits]
    <2>1. PICK t, j, e, r, c, a : n = [tenants |-> t, jobs |-> j, events |-> e, rows |-> r,
                                      correlations |-> c, audits |-> a]
      BY Tables
    <2> QED
      BY <1>2, <2>1
  <1>4. m \in Databases
    BY <1>2 DEF Databases
  <1>5. g = [f EXCEPT !.pc = "findings", !.new = m]
    BY <1>1, <1>2 DEF JobsFrame
  <1>6. g \in Imports /\ g.pc = "findings" /\ g.left = f.left /\ g.ids = f.ids
        /\ g.quiet = f.quiet /\ g.new = m
    BY <1>4, <1>5 DEF Imports
  <1>7. /\ m.tenants = n.tenants /\ m.jobs = new /\ m.events = events /\ m.rows = n.rows
        /\ m.correlations = n.correlations /\ m.audits = n.audits
    BY <1>3
  <1> QED
    BY <1>1, <1>3, <1>6, <1>7 DEF JobsAdded, TablesAre

\* The jobs that _import_jobs adds: those whose ids the target does not have.
LEMMA JobsAreGood ==
  ASSUME TablesOK, JobsOK, NEW d, NEW f, Good(d, f), f.pc = "jobs",
         NEW new \in SUBSET jobs, \A j \in jobs : j \in new <=> \A k \in d.jobs : k.id # j.id,
         \A j \in new, k \in d.jobs : ~SameKey(j, k),
         NEW events \in SUBSET (JobIds \X Nat), IsFiniteSet(events),
         \A j \in jobs : EventsOf(j) \subseteq events,
         \A e \in events : \E j \in jobs : e \in EventsOf(j),
         NEW g, JobsAdded(f, new, events \ d.events, g)
  PROVE  Good(d, g) /\ (Complete(d, f) => Complete(d, g))
  <1>1. /\ f.left = findings /\ f.ids = {} /\ f.new.rows = {} /\ f.new.correlations = {}
        /\ f.new.audits = {} /\ f.new.jobs = {} /\ f.new.events = {}
        /\ SourceTenants \subseteq d.tenants \cup f.new.tenants
        /\ f \in Imports /\ f.new \in Databases
    BY DEF Good, ProgressOK, Running, Imports
  <1>2. new \subseteq jobs /\ new \in SUBSET Jobs
    BY DEF JobsOK
  <1>3. /\ g \in Imports /\ g.pc = "findings" /\ g.left = f.left /\ g.ids = f.ids
        /\ g.quiet = f.quiet
    BY DEF JobsAdded
  <1>4. /\ g.new.tenants = f.new.tenants /\ g.new.jobs = new /\ g.new.events = events \ d.events
        /\ g.new.rows = {} /\ g.new.correlations = {} /\ g.new.audits = {}
    BY <1>1 DEF JobsAdded, TablesAre
  <1>5. IsFiniteSet(g.new.events)
    BY <1>4, FS_Subset
  <1>6. KeysOK(d, g)
    <2>1. /\ \A r, s \in RowsOf(d, g) : Clash(r, s) => r = s
          /\ d.rows \cap g.new.rows = {}
      BY <1>1, <1>4 DEF Good, KeysOK, RowsOf
    <2>2. \A j, k \in new : j.id = k.id \/ SameKey(j, k) => j = k
      BY <1>2 DEF JobsOK
    <2>3. \A j, k \in d.jobs : j.id = k.id \/ SameKey(j, k) => j = k
      BY DEF Good, KeysOK
    <2>4. \A j \in new, k \in d.jobs : j.id # k.id /\ ~SameKey(j, k) /\ ~SameKey(k, j)
      BY DEF SameKey
    <2>5. d.jobs \cap new = {}
      BY <2>4
    <2>6. \A j, k \in d.jobs \cup new : j.id = k.id \/ SameKey(j, k) => j = k
      BY <2>2, <2>3, <2>4
    <2> QED
      BY <1>4, <2>1, <2>5, <2>6 DEF KeysOK
  <1>7. JobsDone(d, g)
    <2>1. IdsOK(d, g)
      BY <1>1, <1>3, <1>4 DEF IdsOK, RowsOf
    <2>2. \A j \in jobs : EventsOf(j) \subseteq d.events \cup g.new.events
      BY <1>4
    <2>3. \A j \in jobs : \E k \in d.jobs \cup new : k.id = j.id
      OBVIOUS
    <2>4. JobsIn(d.jobs \cup g.new.jobs, d.events \cup g.new.events)
      BY <1>4, <2>2, <2>3 DEF JobsIn
    <2> QED
      BY <1>2, <1>4, <2>1, <2>4 DEF JobsDone
  <1>8. ProgressOK(d, g)
    BY <1>1, <1>3, <1>4, <1>7 DEF ProgressOK, Running
  <1>9. QuietOK(d, g)
    BY <1>3 DEF QuietOK
  <1>10. ASSUME Complete(d, f) PROVE Complete(d, g)
    <2>1. new = {} /\ events \ d.events = {}
      BY <1>10 DEF Complete, JobsIn
    <2>2. g.new = [tenants |-> f.new.tenants, jobs |-> {}, events |-> {}, rows |-> f.new.rows,
                   correlations |-> f.new.correlations, audits |-> f.new.audits]
      BY <2>1 DEF JobsAdded, TablesAre
    <2>3. g.new = Nothing
      BY <1>10, <2>2 DEF Complete, Nothing
    <2> QED
      BY <1>3, <1>10, <2>3 DEF Complete
  <1> QED
    BY <1>3, <1>5, <1>6, <1>8, <1>9, <1>10 DEF Good

RowRead(f, row, finding_id, rows, g) ==
  /\ g \in Imports
  /\ g.pc = "findings" /\ g.left = f.left \ {row} /\ g.quiet = f.quiet
  /\ g.ids = f.ids \cup Known(row, finding_id)
  /\ TablesAre(g.new, f.new.tenants, f.new.jobs, f.new.events, rows, f.new.correlations,
               f.new.audits)

\* A finding is read: its fingerprint is there, at the latest once its row is inserted.
LEMMA ReadIsGood ==
  ASSUME TablesOK, NEW d, NEW f, Good(d, f), f.pc \in {"findings", "insert"}, NEW row \in f.left,
         NEW rows, rows = f.new.rows \/ rows = f.new.rows \cup {Imported(row)},
         rows = f.new.rows \/ Fresh(row, RowsOf(d, f)),
         NEW r \in d.rows \cup rows, SameFingerprint(row, r),
         NEW g, RowRead(f, row, r.finding_id, rows, g)
  PROVE  Good(d, g)
  <1>1. /\ f.left \subseteq findings /\ JobsDone(d, f) /\ f.new.correlations = {}
        /\ f.new.audits = {} /\ SourceTenants \subseteq d.tenants \cup f.new.tenants
        /\ IsFiniteSet(f.new.events) /\ KeysOK(d, f)
    BY DEF Good, ProgressOK, Running
  <1>2. /\ g \in Imports /\ g.pc = "findings" /\ g.left = f.left \ {row} /\ g.quiet = f.quiet
        /\ g.ids = f.ids \cup Known(row, r.finding_id)
    BY DEF RowRead
  <1>3. /\ g.new.tenants = f.new.tenants /\ g.new.jobs = f.new.jobs
        /\ g.new.events = f.new.events /\ g.new.rows = rows
        /\ g.new.correlations = {} /\ g.new.audits = {}
    BY <1>1 DEF RowRead, TablesAre
  <1>4. row \in findings /\ findings \ g.left = (findings \ f.left) \cup {row}
    BY <1>1, <1>2
  <1>5. RowsOf(d, f) \subseteq RowsOf(d, g) /\ RowsOf(d, g) = d.rows \cup rows
    BY <1>3 DEF RowsOf
  <1>6. KeysOK(d, g)
    <2>1. CASE rows = f.new.rows
      BY <1>1, <1>3, <2>1 DEF KeysOK, RowsOf
    <2>2. CASE rows = f.new.rows \cup {Imported(row)} /\ Fresh(row, RowsOf(d, f))
      <3> DEFINE s == Imported(row)
      <3>1. /\ s = Imported(row) /\ s.tenant = row.tenant
            /\ s.fingerprint = row.finding.fingerprint /\ s.finding_id = row.finding.id
        BY DEF Imported
      <3> HIDE DEF s
      <3>2. \A q \in RowsOf(d, f) : ~Clash(s, q) /\ ~Clash(q, s)
        BY <2>2, <3>1 DEF Fresh, SameFingerprint, SameId, Clash
      <3>3. s \notin RowsOf(d, f)
        BY <3>2 DEF Clash
      <3>4. RowsOf(d, g) = RowsOf(d, f) \cup {s}
        BY <1>3, <2>2, <3>1 DEF RowsOf
      <3>5. \A p, q \in RowsOf(d, f) : Clash(p, q) => p = q
        BY <1>1 DEF KeysOK
      <3>6. \A p, q \in RowsOf(d, g) : Clash(p, q) => p = q
        BY <3>2, <3>4, <3>5
      <3>7. d.rows \cap g.new.rows = {}
        BY <1>1, <1>3, <2>2, <3>1, <3>3 DEF KeysOK, RowsOf
      <3> QED
        BY <1>1, <1>3, <3>6, <3>7 DEF KeysOK
    <2> QED
      BY <2>1, <2>2
  <1>7. IdsOK(d, g)
    <2>1. \A old \in findings \ f.left : \E q \in RowsOf(d, g) :
            SameFingerprint(old, q) /\ <<old.tenant, old.finding.id, q.finding_id>> \in g.ids
      BY <1>1, <1>2, <1>5 DEF JobsDone, IdsOK
    <2>2. r \in RowsOf(d, g) /\ <<row.tenant, row.finding.id, r.finding_id>> \in g.ids
      BY <1>2, <1>5 DEF Known
    <2>3. \A k \in f.ids : \E old \in findings \ f.left, q \in RowsOf(d, g) :
            SameFingerprint(old, q) /\ k = <<old.tenant, old.finding.id, q.finding_id>>
      BY <1>1, <1>5 DEF JobsDone, IdsOK
    <2>4. \A old \in findings \ g.left : \E q \in RowsOf(d, g) :
            SameFingerprint(old, q) /\ <<old.tenant, old.finding.id, q.finding_id>> \in g.ids
      BY <1>4, <2>1, <2>2
    <2>5. \A k \in g.ids : \E old \in findings \ g.left, q \in RowsOf(d, g) :
            SameFingerprint(old, q) /\ k = <<old.tenant, old.finding.id, q.finding_id>>
      BY <1>2, <1>4, <2>2, <2>3 DEF Known
    <2> QED
      BY <2>4, <2>5 DEF IdsOK
  <1>8. JobsDone(d, g)
    <2>1. \A q \in g.new.rows : \E old \in findings \ g.left : q = Imported(old)
      BY <1>1, <1>3, <1>4 DEF JobsDone
    <2> QED
      BY <1>1, <1>3, <1>7, <2>1 DEF JobsDone
  <1>9. ProgressOK(d, g)
    BY <1>1, <1>2, <1>3, <1>8 DEF ProgressOK, Running
  <1>10. QuietOK(d, g)
    BY <1>2 DEF QuietOK
  <1> QED
    BY <1>1, <1>2, <1>3, <1>6, <1>9, <1>10 DEF Good

\* What _import_findings does not find it goes on to insert, unless the finding's id is taken.
LEMMA MissingIsGood ==
  ASSUME TablesOK, NEW d, NEW f, Good(d, f), f.pc = "findings", f.left # {},
         \A r \in RowsOf(d, f) : ~SameFingerprint(Oldest(f.left), r),
         NEW g, g = [f EXCEPT !.pc = "insert"]
  PROVE  /\ (\E r \in RowsOf(d, f) : SameId(Oldest(f.left), r)) => Refused(d)
         /\ (\A r \in RowsOf(d, f) : ~SameId(Oldest(f.left), r)) => Good(d, g)
         /\ ~Complete(d, f)
  <1>1. f.left \subseteq findings /\ findings \subseteq FindingRows /\ JobsDone(d, f)
    BY DEF Good, ProgressOK, TablesOK
  <1>2. PICK row \in f.left : row = Oldest(f.left)
    <2>1. \A r \in f.left : r.seq \in Nat
      BY <1>1 DEF FindingRows
    <2> QED
      BY <2>1, OldestRow
  <1>3. row \in findings /\ \A r \in RowsOf(d, f) : ~SameFingerprint(row, r)
    BY <1>1, <1>2
  <1>4. ASSUME NEW r \in RowsOf(d, f), SameId(row, r) PROVE Refused(d)
    <2>1. CASE r \in d.rows
      BY <1>3, <1>4, <2>1 DEF Refused
    <2>2. CASE r \in f.new.rows
      <3>1. PICK old \in findings \ f.left : r = Imported(old)
        BY <1>1, <2>2 DEF JobsDone
      <3>2. old.tenant = row.tenant /\ old.finding.id = row.finding.id
        BY <1>4, <3>1 DEF SameId, Imported
      <3>3. old = row
        BY <1>3, <3>1, <3>2 DEF TablesOK
      <3> QED
        BY <1>2, <3>1, <3>3
    <2> QED
      BY <2>1, <2>2 DEF RowsOf
  <1>5. ASSUME \A r \in RowsOf(d, f) : ~SameId(row, r) PROVE Good(d, g)
    <2>1. Fresh(row, d.rows) /\ Fresh(row, f.new.rows)
      BY <1>3, <1>5 DEF Fresh, RowsOf
    <2>2. /\ g \in Imports /\ g.pc = "insert" /\ g.left = f.left /\ g.ids = f.ids
          /\ g.quiet = f.quiet /\ g.new = f.new
      BY DEF Good, Imports
    <2>3. KeysOK(d, g)
      BY <2>2 DEF Good, KeysOK, RowsOf
    <2>4. JobsDone(d, g)
      BY <1>1, <2>2 DEF JobsDone, IdsOK, RowsOf
    <2>5. ProgressOK(d, g)
      BY <1>2, <2>1, <2>2, <2>4 DEF Good, ProgressOK, Running
    <2>6. QuietOK(d, g)
      BY <1>2, <2>1, <2>2 DEF QuietOK
    <2> QED
      BY <2>2, <2>3, <2>5, <2>6 DEF Good
  <1>6. ~Complete(d, f)
    BY <1>3 DEF Complete, RowsOf
  <1> QED
    BY <1>2, <1>4, <1>5, <1>6

CorrelationsAdded(f, cs, audits, g) ==
  /\ g \in Imports
  /\ g.pc = "commit" /\ g.left = f.left /\ g.ids = f.ids /\ g.quiet = f.quiet
  /\ TablesAre(g.new, f.new.tenants, f.new.jobs, f.new.events, f.new.rows, cs, audits)

\* Every finding of a legacy id has one row, and Mapped leads there.
LEMMA MappedIsRow ==
  ASSUME TablesOK, NEW d, Good(d, imp), imp.pc = "findings", imp.left = {}, NEW row \in findings
  PROVE  \E r \in RowsOf(d, imp) : /\ SameFingerprint(row, r)
                                   /\ Mapped(row.tenant, row.finding.id) = r.finding_id
  <1>1. IdsOK(d, imp) /\ KeysOK(d, imp)
    BY DEF Good, ProgressOK, JobsDone
  <1>2. PICK r \in RowsOf(d, imp) :
          SameFingerprint(row, r) /\ <<row.tenant, row.finding.id, r.finding_id>> \in imp.ids
    BY <1>1 DEF IdsOK
  <1>3. ASSUME NEW k \in imp.ids, k[1] = row.tenant, k[2] = row.finding.id
        PROVE  k[3] = r.finding_id
    <2>1. PICK old \in findings, q \in RowsOf(d, imp) :
            SameFingerprint(old, q) /\ k = <<old.tenant, old.finding.id, q.finding_id>>
      BY <1>1 DEF IdsOK
    <2>2. old = row
      BY <1>3, <2>1 DEF TablesOK
    <2>3. Clash(q, r)
      BY <1>2, <2>1, <2>2 DEF SameFingerprint, Clash
    <2>4. q = r
      BY <1>1, <1>2, <2>1, <2>3 DEF KeysOK
    <2> QED
      BY <2>1, <2>4
  <1>4. PICK e : e = <<row.tenant, row.finding.id, r.finding_id>>
    OBVIOUS
  <1>5. e \in imp.ids /\ e[1] = row.tenant /\ e[2] = row.finding.id
    BY <1>2, <1>4
  <1>6. Mapped(row.tenant, row.finding.id) = r.finding_id
    BY <1>3, <1>5 DEF Mapped
  <1> QED
    BY <1>2, <1>6

LEMMA MappedIsId ==
  ASSUME imp \in Imports, NEW tenant, NEW finding_id \in FindingIds
  PROVE  Mapped(tenant, finding_id) \in FindingIds
  <1>1. \A k \in imp.ids : k[3] \in FindingIds
    BY DEF Imports
  <1> QED
    BY <1>1 DEF Mapped

LEMMA LinksAreGood ==
  ASSUME TablesOK, NEW d, Good(d, imp), imp.pc = "findings", imp.left = {}, NEW c \in correlations
  PROVE  /\ ImportedCorrelation(c) \in [id : CorrelationRows, links : SUBSET FindingIds]
         /\ ImportedCorrelation(c).id = c
         /\ LinksOK(ImportedCorrelation(c), RowsOf(d, imp))
  <1>1. PICK links : links = {Mapped(c.tenant, finding_id) : finding_id \in c.findings}
    OBVIOUS
  <1>2. c \in CorrelationRows /\ c.findings \subseteq FindingIds
    BY DEF TablesOK, CorrelationRows
  <1>3. links \subseteq FindingIds
    BY <1>1, <1>2, MappedIsId DEF Good
  <1>4. ImportedCorrelation(c) = [id |-> c, links |-> links]
    BY <1>1 DEF ImportedCorrelation
  <1>5. ImportedCorrelation(c).id = c /\ ImportedCorrelation(c).links = links
    BY <1>4
  <1>6. ASSUME NEW row \in findings, row.tenant = c.tenant, row.finding.id \in c.findings
        PROVE  \E r \in RowsOf(d, imp) : SameFingerprint(row, r) /\ r.finding_id \in links
    <2>1. Mapped(row.tenant, row.finding.id) \in links
      BY <1>1, <1>6
    <2> QED
      BY <2>1, MappedIsRow
  <1>7. LinksOK(ImportedCorrelation(c), RowsOf(d, imp))
    BY <1>5, <1>6 DEF LinksOK
  <1> QED
    BY <1>2, <1>3, <1>4, <1>5, <1>7

\* What _import_correlations adds: correlations whose ids the target does not have.
LEMMA CorrelationsAreGood ==
  ASSUME TablesOK, JobsOK, NEW d, Good(d, imp), imp.pc = "findings", imp.left = {},
         NEW new \in SUBSET correlations,
         \A c \in correlations : c \in new <=> \A old \in d.correlations : old.id # c,
         NEW cs, \A c \in new : ImportedCorrelation(c) \in cs,
         \A x \in cs : \E c \in new : x = ImportedCorrelation(c),
         NEW g, CorrelationsAdded(imp, cs, SourceTenants \ d.audits, g)
  PROVE  Good(d, g) /\ (Complete(d, imp) => Complete(d, g))
  <1>1. /\ JobsDone(d, imp) /\ SourceTenants \subseteq d.tenants \cup imp.new.tenants
        /\ IsFiniteSet(imp.new.events) /\ KeysOK(d, imp)
    BY DEF Good, ProgressOK, Running
  <1>2. /\ g \in Imports /\ g.pc = "commit" /\ g.left = {} /\ g.ids = imp.ids
        /\ g.quiet = imp.quiet
    BY DEF CorrelationsAdded
  <1>3. /\ g.new.tenants = imp.new.tenants /\ g.new.jobs = imp.new.jobs
        /\ g.new.events = imp.new.events /\ g.new.rows = imp.new.rows
        /\ g.new.correlations = cs /\ g.new.audits = SourceTenants \ d.audits
    BY DEF CorrelationsAdded, TablesAre
  <1>4. RowsOf(d, g) = RowsOf(d, imp)
    BY <1>3 DEF RowsOf
  <1>5. KeysOK(d, g)
    BY <1>1, <1>3, <1>4 DEF KeysOK
  <1>6. JobsDone(d, g)
    BY <1>1, <1>2, <1>3, <1>4 DEF JobsDone, IdsOK
  <1>7. CorrelationsDone(d, g)
    <2>1. \A c \in g.new.correlations : LinksOK(c, RowsOf(d, g))
      BY <1>3, <1>4, LinksAreGood
    <2>2. \A c \in new : ImportedCorrelation(c) \in cs /\ ImportedCorrelation(c).id = c
      BY LinksAreGood
    <2>3. AllLinked(d.correlations \cup g.new.correlations)
      BY <1>3, <2>2 DEF AllLinked
    <2> QED
      BY <1>2, <1>3, <2>1, <2>3 DEF CorrelationsDone
  <1>8. ProgressOK(d, g)
    BY <1>1, <1>2, <1>3, <1>6, <1>7 DEF ProgressOK, Running
  <1>9. QuietOK(d, g)
    BY <1>2 DEF QuietOK
  <1>10. ASSUME Complete(d, imp) PROVE Complete(d, g)
    <2>1. new = {} /\ SourceTenants \ d.audits = {}
      BY <1>10 DEF Complete, AllLinked
    <2>2. cs = {}
      BY <2>1
    <2>3. g.new = [tenants |-> imp.new.tenants, jobs |-> imp.new.jobs, events |-> imp.new.events,
                   rows |-> imp.new.rows, correlations |-> {}, audits |-> {}]
      BY <2>1, <2>2 DEF CorrelationsAdded, TablesAre
    <2>4. g.new = Nothing
      BY <1>10, <2>3 DEF Complete, Nothing
    <2> QED
      BY <1>2, <1>10, <2>4 DEF Complete
  <1> QED
    BY <1>1, <1>2, <1>3, <1>5, <1>8, <1>9, <1>10 DEF Good

\* The transaction commits: what it saw is what there is.
LEMMA CommitIsGood ==
  ASSUME TablesOK, NEW d, NEW f, Good(d, f), f.pc = "commit",
         NEW new, new \in Databases,
         TablesAre(new, d.tenants \cup f.new.tenants, d.jobs \cup f.new.jobs,
                   d.events \cup f.new.events, d.rows \cup f.new.rows,
                   d.correlations \cup f.new.correlations, d.audits \cup f.new.audits),
         NEW g, g = [NoImport EXCEPT !.pc = "done"]
  PROVE  Good(new, g) /\ Complete(new, g)
  <1>1. /\ SourceTenants \subseteq d.tenants \cup f.new.tenants
        /\ JobsDone(d, f) /\ CorrelationsDone(d, f) /\ KeysOK(d, f)
        /\ IsFiniteSet(d.events) /\ IsFiniteSet(f.new.events)
        /\ \A c \in d.correlations : LinksOK(c, d.rows)
    BY DEF Good, ProgressOK, Running
  <1>2. /\ new.tenants = d.tenants \cup f.new.tenants /\ new.jobs = d.jobs \cup f.new.jobs
        /\ new.events = d.events \cup f.new.events /\ new.rows = RowsOf(d, f)
        /\ new.correlations = d.correlations \cup f.new.correlations
        /\ new.audits = d.audits \cup f.new.audits
    BY DEF TablesAre, RowsOf
  <1>3. /\ g \in Imports /\ g.pc = "done" /\ g.left = {} /\ g.new = Nothing
        /\ g.new.rows = {} /\ g.new.jobs = {} /\ IsFiniteSet(g.new.events)
    <2>1. g \in Imports /\ g.pc = "done" /\ g.left = {} /\ g.new = Nothing
      BY NoImportOK DEF NoImport, Imports
    <2> QED
      BY <2>1, FS_EmptySet DEF Nothing
  <1>4. IsFiniteSet(new.events)
    <2>1. PICK a, b : a = d.events /\ b = f.new.events
      OBVIOUS
    <2>2. IsFiniteSet(a \cup b)
      BY <1>1, <2>1, FS_Union
    <2> QED
      BY <1>2, <2>1, <2>2
  <1>5. KeysOK(new, g)
    <2>1. RowsOf(new, g) = RowsOf(d, f)
      BY <1>2, <1>3 DEF RowsOf
    <2> QED
      BY <1>1, <1>2, <1>3, <2>1 DEF KeysOK
  <1>6. ProgressOK(new, g)
    BY <1>3 DEF ProgressOK, Running
  <1>7. QuietOK(new, g)
    BY <1>3 DEF QuietOK
  <1>8. ASSUME NEW c \in new.correlations PROVE LinksOK(c, new.rows)
    <2>1. CASE c \in d.correlations
      BY <1>1, <1>2, <2>1 DEF LinksOK, RowsOf
    <2>2. CASE c \in f.new.correlations
      BY <1>1, <1>2, <2>2 DEF CorrelationsDone
    <2> QED
      BY <1>2, <1>8, <2>1, <2>2
  <1>9. Complete(new, g)
    <2>1. \A row \in findings : \E r \in new.rows : SameFingerprint(row, r)
      BY <1>1, <1>2 DEF JobsDone, CorrelationsDone, IdsOK
    <2>2. JobsIn(new.jobs, new.events)
      BY <1>1, <1>2 DEF JobsDone
    <2> QED
      BY <1>1, <1>2, <1>3, <2>1, <2>2 DEF Complete, CorrelationsDone
  <1> QED
    BY <1>3, <1>4, <1>5, <1>6, <1>7, <1>8, <1>9 DEF Good

\* The new gateway's calls: no row, job or event is lost, and keys stay unique.
LEMMA WriteIsGood ==
  ASSUME TablesOK, NEW d, NEW f, Good(d, f), NEW new \in Databases, IsFiniteSet(new.events),
         d.tenants \subseteq new.tenants, d.events \subseteq new.events,
         new.audits = d.audits, new.correlations = d.correlations,
         \A j \in d.jobs : \E k \in new.jobs : k.id = j.id,
         \A r \in d.rows : \E s \in new.rows :
           /\ s.tenant = r.tenant /\ s.fingerprint = r.fingerprint /\ s.finding_id = r.finding_id,
         KeysOK(new, f),
         NEW g, g = [f EXCEPT !.quiet = FALSE]
  PROVE  Good(new, g) /\ (Complete(d, f) => Complete(new, g))
  <1>1. /\ g \in Imports /\ g.pc = f.pc /\ g.left = f.left /\ g.ids = f.ids /\ g.quiet = FALSE
        /\ g.new = f.new
    BY DEF Good, Imports
  <1>2. KeysOK(new, g)
    BY <1>1 DEF KeysOK, RowsOf
  <1>3. \A row : \A r \in RowsOf(d, f) : SameFingerprint(row, r) =>
          \E s \in RowsOf(new, g) : SameFingerprint(row, s) /\ s.finding_id = r.finding_id
    BY <1>1 DEF RowsOf, SameFingerprint
  <1>4. \A js, events : JobsIn(d.jobs \cup js, d.events \cup events) =>
          JobsIn(new.jobs \cup js, new.events \cup events)
    BY DEF JobsIn
  <1>5. JobsDone(d, f) => JobsDone(new, g)
    <2> SUFFICES ASSUME JobsDone(d, f) PROVE JobsDone(new, g)
      OBVIOUS
    <2>1. IdsOK(d, f)
      BY DEF JobsDone
    <2>2. \A row \in findings \ g.left : \E r \in RowsOf(new, g) :
            SameFingerprint(row, r) /\ <<row.tenant, row.finding.id, r.finding_id>> \in g.ids
      <3> SUFFICES ASSUME NEW row \in findings \ g.left
                   PROVE  \E r \in RowsOf(new, g) :
                            /\ SameFingerprint(row, r)
                            /\ <<row.tenant, row.finding.id, r.finding_id>> \in g.ids
        OBVIOUS
      <3>1. PICK r \in RowsOf(d, f) :
              SameFingerprint(row, r) /\ <<row.tenant, row.finding.id, r.finding_id>> \in f.ids
        BY <1>1, <2>1 DEF IdsOK
      <3>2. PICK s \in RowsOf(new, g) : SameFingerprint(row, s) /\ s.finding_id = r.finding_id
        BY <1>3, <3>1
      <3> QED
        BY <1>1, <3>1, <3>2
    <2>3. \A k \in g.ids : \E row \in findings \ g.left, r \in RowsOf(new, g) :
            SameFingerprint(row, r) /\ k = <<row.tenant, row.finding.id, r.finding_id>>
      <3> SUFFICES ASSUME NEW k \in g.ids
                   PROVE  \E row \in findings \ g.left, r \in RowsOf(new, g) :
                            /\ SameFingerprint(row, r)
                            /\ k = <<row.tenant, row.finding.id, r.finding_id>>
        OBVIOUS
      <3>1. PICK row \in findings \ f.left, r \in RowsOf(d, f) :
              SameFingerprint(row, r) /\ k = <<row.tenant, row.finding.id, r.finding_id>>
        BY <1>1, <2>1 DEF IdsOK
      <3>2. PICK s \in RowsOf(new, g) : SameFingerprint(row, s) /\ s.finding_id = r.finding_id
        BY <1>3, <3>1
      <3> QED
        BY <1>1, <3>1, <3>2
    <2>4. IdsOK(new, g)
      BY <2>2, <2>3 DEF IdsOK
    <2> QED
      BY <1>1, <1>4, <2>4 DEF JobsDone
  <1>6. ASSUME NEW c, NEW rows, NEW more, LinksOK(c, rows),
               \A row : \A r \in rows : SameFingerprint(row, r) =>
                 \E s \in more : SameFingerprint(row, s) /\ s.finding_id = r.finding_id
        PROVE  LinksOK(c, more)
    <2>1. ASSUME NEW row \in findings, row.tenant = c.id.tenant, row.finding.id \in c.id.findings
          PROVE  \E s \in more : SameFingerprint(row, s) /\ s.finding_id \in c.links
      BY <1>6, <2>1 DEF LinksOK
    <2> QED
      BY <1>6, <2>1 DEF LinksOK
  <1>7. f.pc = "commit" => CorrelationsDone(new, g)
    <2> SUFFICES ASSUME f.pc = "commit" PROVE CorrelationsDone(new, g)
      OBVIOUS
    <2>1. CorrelationsDone(d, f)
      BY DEF Good, ProgressOK
    <2>2. \A c \in g.new.correlations : LinksOK(c, RowsOf(new, g))
      <3>1. \A c \in f.new.correlations : LinksOK(c, RowsOf(d, f))
        BY <2>1 DEF CorrelationsDone
      <3>2. \A c \in f.new.correlations : LinksOK(c, RowsOf(new, g))
        BY <1>3, <1>6, <3>1
      <3> QED
        BY <1>1, <3>2
    <2> QED
      BY <1>1, <2>1, <2>2 DEF CorrelationsDone
  <1>8. ProgressOK(new, g)
    BY <1>1, <1>5, <1>7 DEF Good, ProgressOK, Running
  <1>9. QuietOK(new, g)
    BY <1>1 DEF QuietOK
  <1>10. \A c \in new.correlations : LinksOK(c, new.rows)
    <2>1. \A row : \A r \in d.rows : SameFingerprint(row, r) =>
            \E s \in new.rows : SameFingerprint(row, s) /\ s.finding_id = r.finding_id
      BY DEF SameFingerprint
    <2> QED
      BY <1>6, <2>1 DEF Good
  <1>11. ASSUME Complete(d, f) PROVE Complete(new, g)
    <2>1. \A row \in findings : \E r \in new.rows : SameFingerprint(row, r)
      BY <1>11 DEF Complete, SameFingerprint
    <2>2. JobsIn(new.jobs, new.events)
      BY <1>11 DEF Complete, JobsIn
    <2> QED
      BY <1>1, <1>11, <2>1, <2>2 DEF Complete
  <1> QED
    BY <1>1, <1>2, <1>8, <1>9, <1>10, <1>11 DEF Good

\* What the import's other statements write: the row of a finding, and the correlations.
ReadFrame(f, row, finding_id) ==
  [f EXCEPT !.left = f.left \ {row}, !.ids = f.ids \cup Known(row, finding_id)]

LEMMA ReadFields ==
  ASSUME NEW f \in Imports, f.pc = "findings", NEW row \in FindingRows, NEW finding_id \in FindingIds
  PROVE  RowRead(f, row, finding_id, f.new.rows, ReadFrame(f, row, finding_id))
  <1>1. row.tenant \in Tenants /\ row.finding.id \in FindingIds
    BY DEF FindingRows, FindingIds
  <1>2. Known(row, finding_id) \subseteq Tenants \X FindingIds \X FindingIds
    BY <1>1 DEF Known
  <1>3. PICK g : g = ReadFrame(f, row, finding_id)
    OBVIOUS
  <1>4. /\ g \in Imports /\ g.pc = "findings" /\ g.left = f.left \ {row} /\ g.quiet = f.quiet
        /\ g.ids = f.ids \cup Known(row, finding_id) /\ g.new = f.new
    BY <1>2, <1>3 DEF Imports, ReadFrame
  <1>5. PICK n \in Databases : n = f.new
    BY DEF Imports
  <1>6. TablesAre(n, n.tenants, n.jobs, n.events, n.rows, n.correlations, n.audits)
    BY Tables DEF TablesAre
  <1> QED
    BY <1>3, <1>4, <1>5, <1>6 DEF RowRead

InsertFrame(f, row) ==
  [f EXCEPT !.pc = "findings", !.left = f.left \ {row},
            !.ids = f.ids \cup Known(row, row.finding.id),
            !.new.rows = f.new.rows \cup {Imported(row)}]

LEMMA InsertFields ==
  ASSUME NEW f \in Imports, NEW row \in FindingRows
  PROVE  /\ RowRead(f, row, row.finding.id, f.new.rows \cup {Imported(row)}, InsertFrame(f, row))
         /\ Imported(row).finding_id = row.finding.id /\ SameFingerprint(row, Imported(row))
  <1>1. row.tenant \in Tenants /\ row.finding.id \in FindingIds /\ row.finding.fingerprint \in Fingerprints
    BY DEF FindingRows, FindingIds, Fingerprints
  <1>2. Known(row, row.finding.id) \subseteq Tenants \X FindingIds \X FindingIds
    BY <1>1 DEF Known
  <1>3. PICK known \in SUBSET (Tenants \X FindingIds \X FindingIds) : known = Known(row, row.finding.id)
    BY <1>2
  <1>4. Imported(row) \in TargetRows
    BY <1>1 DEF Imported, TargetRows
  <1>5. PICK n \in Databases : n = f.new
    BY DEF Imports
  <1>6. PICK rows \in SUBSET TargetRows : rows = f.new.rows \cup {Imported(row)}
    BY <1>4, <1>5 DEF Databases
  <1>7. PICK m : m = [n EXCEPT !.rows = rows]
    OBVIOUS
  <1>8. m = [tenants |-> n.tenants, jobs |-> n.jobs, events |-> n.events, rows |-> rows,
             correlations |-> n.correlations, audits |-> n.audits]
    <2>1. PICK t, j, e, r, c, a : n = [tenants |-> t, jobs |-> j, events |-> e, rows |-> r,
                                      correlations |-> c, audits |-> a]
      BY Tables
    <2> QED
      BY <1>7, <2>1
  <1>9. m \in Databases
    BY <1>7 DEF Databases
  <1>10. PICK left \in SUBSET FindingRows : left = f.left \ {row}
    BY DEF Imports
  <1>11. PICK g : g = InsertFrame(f, row)
    OBVIOUS
  <1>12. g = [f EXCEPT !.pc = "findings", !.left = left, !.ids = f.ids \cup known, !.new = m]
    BY <1>3, <1>5, <1>6, <1>7, <1>10, <1>11 DEF InsertFrame, Imports
  <1>13. /\ g \in Imports /\ g.pc = "findings" /\ g.left = left /\ g.quiet = f.quiet
         /\ g.ids = f.ids \cup known /\ g.new = m
    BY <1>9, <1>12 DEF Imports
  <1>14. TablesAre(m, n.tenants, n.jobs, n.events, rows, n.correlations, n.audits)
    BY <1>8 DEF TablesAre
  <1>15. RowRead(f, row, row.finding.id, rows, g)
    BY <1>3, <1>5, <1>10, <1>13, <1>14 DEF RowRead
  <1>16. Imported(row).finding_id = row.finding.id /\ SameFingerprint(row, Imported(row))
    BY DEF Imported, SameFingerprint
  <1> QED
    BY <1>6, <1>11, <1>15, <1>16

CorrelationsFrame(f, cs, audits) ==
  [f EXCEPT !.pc = "commit", !.new.correlations = cs, !.new.audits = audits]

LEMMA CorrelationsFields ==
  ASSUME NEW f \in Imports, NEW audits \in SUBSET Tenants,
         NEW cs \in SUBSET [id : CorrelationRows, links : SUBSET FindingIds]
  PROVE  CorrelationsAdded(f, cs, audits, CorrelationsFrame(f, cs, audits))
  <1>1. PICK n \in Databases : n = f.new
    BY DEF Imports
  <1>2. PICK m : m = [n EXCEPT !.correlations = cs, !.audits = audits]
    OBVIOUS
  <1>3. m = [tenants |-> n.tenants, jobs |-> n.jobs, events |-> n.events, rows |-> n.rows,
             correlations |-> cs, audits |-> audits]
    <2>1. PICK t, j, e, r, c, a : n = [tenants |-> t, jobs |-> j, events |-> e, rows |-> r,
                                      correlations |-> c, audits |-> a]
      BY Tables
    <2> QED
      BY <1>2, <2>1
  <1>4. m \in Databases
    BY <1>2 DEF Databases
  <1>5. PICK g : g = CorrelationsFrame(f, cs, audits)
    OBVIOUS
  <1>6. g = [f EXCEPT !.pc = "commit", !.new = m]
    BY <1>1, <1>2, <1>5 DEF CorrelationsFrame, Imports
  <1>7. /\ g \in Imports /\ g.pc = "commit" /\ g.left = f.left /\ g.quiet = f.quiet
        /\ g.ids = f.ids /\ g.new = m
    BY <1>4, <1>6 DEF Imports
  <1>8. TablesAre(m, n.tenants, n.jobs, n.events, n.rows, cs, audits)
    BY <1>3 DEF TablesAre
  <1> QED
    BY <1>1, <1>5, <1>7, <1>8 DEF CorrelationsAdded

-----------------------------------------------------------------------------
(* The steps of the import *)

LEMMA ImportKeeps ==
  ASSUME ImportInv, stopped, NEW g, Import(g), Good(target, g), done => Complete(target, g)
  PROVE  ImportInv'
  <1>1. /\ imp' = g /\ target' = target /\ done' = done /\ stopped' = stopped /\ jobs' = jobs
        /\ findings' = findings /\ correlations' = correlations
    BY DEF Import, legacyVars
  <1>2. stopped' = TRUE /\ done' \in BOOLEAN
    BY <1>1 DEF ImportInv
  <1> QED
    BY <1>1, <1>2, SameLegacy

LEMMA FailKeeps ==
  ASSUME ImportInv, stopped, ~Complete(target, imp), imp.quiet => Refused(target), Fail
  PROVE  ImportInv'
  <1>1. PICK g : g = [NoImport EXCEPT !.pc = "failed", !.quiet = imp.quiet]
    OBVIOUS
  <1>2. imp.quiet \in BOOLEAN /\ Good(target, imp) /\ ~done
    BY DEF ImportInv, Good, Imports
  <1>3. Good(target, g)
    BY <1>1, <1>2, IdleIsGood
  <1>4. Import(g)
    BY <1>1 DEF Fail
  <1> QED
    BY <1>2, <1>3, <1>4, ImportKeeps

LEMMA BeginKeeps ==
  ASSUME TablesOK, ImportInv, Begin
  PROVE  ImportInv'
  <1>1. /\ target' = target /\ done' = done /\ stopped' = stopped /\ jobs' = jobs
        /\ findings' = findings /\ correlations' = correlations /\ stopped
        /\ imp' = [NoImport EXCEPT !.pc = "tenants", !.left = findings,
                                   !.new.tenants = SourceTenants \ target.tenants]
    BY DEF Begin, legacyVars
  <1>2. Good(target, imp') /\ (Complete(target, imp) => Complete(target, imp'))
    BY <1>1, BeginIsGood DEF ImportInv
  <1>3. stopped' = TRUE /\ done' \in BOOLEAN
    BY <1>1 DEF ImportInv
  <1> QED
    BY <1>1, <1>2, <1>3, SameLegacy DEF ImportInv

LEMMA FlushKeeps ==
  ASSUME ImportInv, stopped, FlushTenants
  PROVE  ImportInv'
  <1>1. Good(target, imp) /\ imp.pc = "tenants" /\ (done => Complete(target, imp))
    BY DEF ImportInv, FlushTenants
  <1>2. CASE imp.new.tenants \cap target.tenants # {}
    <2>1. ~imp.quiet
      BY <1>1, <1>2 DEF Good, QuietOK
    <2>2. imp.new # Nothing
      BY <1>2 DEF Nothing
    <2> QED
      BY <1>2, <2>1, <2>2, FailKeeps DEF FlushTenants, Complete
  <1>3. CASE imp.new.tenants \cap target.tenants = {}
    <2>1. PICK g : g = [imp EXCEPT !.pc = "jobs"]
      OBVIOUS
    <2>2. Good(target, g) /\ (Complete(target, imp) => Complete(target, g))
      BY <1>1, <1>3, <2>1, FlushIsGood
    <2>3. Import(g)
      BY <1>3, <2>1 DEF FlushTenants
    <2> QED
      BY <1>1, <2>2, <2>3, ImportKeeps
  <1> QED
    BY <1>2, <1>3

LEMMA JobsKeeps ==
  ASSUME TablesOK, ImportInv, stopped, ImportJobs
  PROVE  ImportInv'
  <1>1. Good(target, imp) /\ imp.pc = "jobs" /\ (done => Complete(target, imp)) /\ JobsOK
    BY DEF ImportInv, ImportJobs
  <1>2. PICK new : new = {j \in jobs : \A k \in target.jobs : k.id # j.id}
    OBVIOUS
  <1>3. /\ new \in SUBSET jobs
        /\ \A j \in jobs : j \in new <=> \A k \in target.jobs : k.id # j.id
    BY <1>2
  <1>4. PICK events : events = UNION {EventsOf(j) : j \in jobs}
    OBVIOUS
  <1>5. events \in SUBSET (JobIds \X Nat) /\ IsFiniteSet(events)
    BY <1>1, <1>4, EventsAreFinite
  <1>6. /\ \A j \in jobs : EventsOf(j) \subseteq events
        /\ \A e \in events : \E j \in jobs : e \in EventsOf(j)
    BY <1>4
  <1>7. CASE KeyTaken(new)
    <2>1. PICK j \in new, k \in target.jobs : SameKey(j, k)
      BY <1>7 DEF KeyTaken
    <2>2. j \in jobs /\ j.id # k.id
      BY <1>3, <2>1
    <2>3. Refused(target)
      BY <2>1, <2>2 DEF Refused
    <2>4. ~Complete(target, imp)
      BY <1>3, <2>1 DEF Complete, JobsIn
    <2>5. Fail
      BY <1>2, <1>7 DEF ImportJobs
    <2> QED
      BY <2>3, <2>4, <2>5, FailKeeps
  <1>8. CASE ~KeyTaken(new)
    <2>1. \A j \in new, k \in target.jobs : ~SameKey(j, k)
      BY <1>8 DEF KeyTaken
    <2>2. PICK g : g = JobsFrame(imp, new, events \ target.events)
      OBVIOUS
    <2>3. Import(g)
      BY <1>2, <1>4, <1>8, <2>2 DEF ImportJobs, JobsFrame
    <2>4. JobsAdded(imp, new, events \ target.events, g)
      <3>1. new \in SUBSET Jobs /\ imp \in Imports
        BY <1>1, <1>3 DEF JobsOK, Good
      <3> QED
        BY <1>5, <2>2, <3>1, JobsFields
    <2>5. Good(target, g) /\ (Complete(target, imp) => Complete(target, g))
      BY <1>1, <1>3, <1>5, <1>6, <2>1, <2>4, JobsAreGood
    <2> QED
      BY <1>1, <2>3, <2>5, ImportKeeps
  <1> QED
    BY <1>7, <1>8

LEMMA OldestLeft ==
  ASSUME TablesOK, NEW d, NEW f, Good(d, f), f.left # {}
  PROVE  Oldest(f.left) \in f.left /\ f.left \subseteq findings /\ findings \subseteq FindingRows
  <1>1. f.left \subseteq findings /\ findings \subseteq FindingRows
    BY DEF Good, ProgressOK, TablesOK
  <1>2. \A r \in f.left : r.seq \in Nat
    BY <1>1 DEF FindingRows
  <1> QED
    BY <1>1, <1>2, OldestRow

LEMMA LookupKeeps ==
  ASSUME TablesOK, ImportInv, stopped, LookupFinding
  PROVE  ImportInv'
  <1>1. /\ Good(target, imp) /\ imp.pc = "findings" /\ imp.left # {} /\ imp \in Imports
        /\ (done => Complete(target, imp))
    BY DEF ImportInv, LookupFinding, Good
  <1>2. PICK row : row = Oldest(imp.left)
    OBVIOUS
  <1>3. row \in imp.left /\ row \in findings /\ row \in FindingRows
    BY <1>1, <1>2, OldestLeft
  <1>4. ASSUME NEW r \in RowsOf(target, imp), SameFingerprint(row, r),
               Import([imp EXCEPT !.left = @ \ {row}, !.ids = @ \cup Known(row, r.finding_id)])
        PROVE  ImportInv'
    <2>1. PICK g : g = ReadFrame(imp, row, r.finding_id)
      OBVIOUS
    <2>2. Import(g)
      BY <1>4, <2>1 DEF ReadFrame
    <2>3. r.finding_id \in FindingIds
      BY <1>1 DEF Good, Databases, Imports, TargetRows, RowsOf
    <2>4. RowRead(imp, row, r.finding_id, imp.new.rows, g)
      BY <1>1, <1>3, <2>1, <2>3, ReadFields
    <2>5. PICK rows : rows = imp.new.rows
      OBVIOUS
    <2>6. Good(target, g)
      <3>1. r \in target.rows \cup rows
        BY <2>5 DEF RowsOf
      <3>2. RowRead(imp, row, r.finding_id, rows, g)
        BY <2>4, <2>5
      <3> QED
        BY <1>1, <1>3, <1>4, <2>5, <3>1, <3>2, ReadIsGood
    <2>7. ASSUME Complete(target, imp) PROVE Complete(target, g)
      <3>1. g.new = imp.new
        BY <1>1, <2>1 DEF ReadFrame, Imports
      <3>2. g.pc = "findings"
        BY <2>4 DEF RowRead
      <3> QED
        BY <2>7, <3>1, <3>2 DEF Complete
    <2> QED
      BY <1>1, <2>2, <2>6, <2>7, ImportKeeps
  <1>5. ASSUME \A r \in RowsOf(target, imp) : ~SameFingerprint(row, r),
               IF \E r \in RowsOf(target, imp) : SameId(row, r) THEN Fail
               ELSE Import([imp EXCEPT !.pc = "insert"])
        PROVE  ImportInv'
    <2>1. PICK g : g = [imp EXCEPT !.pc = "insert"]
      OBVIOUS
    <2>2. /\ (\E r \in RowsOf(target, imp) : SameId(row, r)) => Refused(target)
          /\ (\A r \in RowsOf(target, imp) : ~SameId(row, r)) => Good(target, g)
          /\ ~Complete(target, imp)
      BY <1>1, <1>2, <1>5, <2>1, MissingIsGood
    <2>3. CASE \E r \in RowsOf(target, imp) : SameId(row, r)
      BY <1>5, <2>2, <2>3, FailKeeps
    <2>4. CASE \A r \in RowsOf(target, imp) : ~SameId(row, r)
      <3>1. Import(g)
        BY <1>5, <2>1, <2>4
      <3> QED
        BY <1>1, <2>2, <2>4, <3>1, ImportKeeps
    <2> QED
      BY <2>3, <2>4
  <1> QED
    BY <1>2, <1>4, <1>5 DEF LookupFinding, RowsOf

LEMMA InsertKeeps ==
  ASSUME TablesOK, ImportInv, stopped, InsertFinding
  PROVE  ImportInv'
  <1>1. /\ Good(target, imp) /\ imp.pc = "insert" /\ imp.left # {} /\ imp \in Imports
        /\ ~Complete(target, imp) /\ ~done
    BY DEF ImportInv, InsertFinding, Good, ProgressOK, Complete
  <1>2. PICK row : row = Oldest(imp.left)
    OBVIOUS
  <1>3. row \in imp.left /\ row \in findings /\ row \in FindingRows
    BY <1>1, <1>2, OldestLeft
  <1>4. CASE \E r \in target.rows : SameFingerprint(row, r) \/ SameId(row, r)
    <2>1. ~imp.quiet
      BY <1>1, <1>2, <1>4 DEF Good, QuietOK, Fresh
    <2>2. Fail
      BY <1>2, <1>4 DEF InsertFinding
    <2> QED
      BY <1>1, <2>1, <2>2, FailKeeps
  <1>5. CASE \A r \in target.rows : ~SameFingerprint(row, r) /\ ~SameId(row, r)
    <2>1. PICK g : g = InsertFrame(imp, row)
      OBVIOUS
    <2>2. Import(g)
      BY <1>2, <1>5, <2>1 DEF InsertFinding, InsertFrame
    <2>3. PICK r : r = Imported(row)
      OBVIOUS
    <2>4. PICK rows : rows = imp.new.rows \cup {r}
      OBVIOUS
    <2>5. RowRead(imp, row, r.finding_id, rows, g) /\ SameFingerprint(row, r)
      BY <1>1, <1>3, <2>1, <2>3, <2>4, InsertFields
    <2>6. Fresh(row, RowsOf(target, imp))
      BY <1>1, <1>2, <1>5 DEF Good, ProgressOK, Fresh, RowsOf
    <2>7. Good(target, g)
      BY <1>1, <1>3, <2>3, <2>4, <2>5, <2>6, ReadIsGood
    <2> QED
      BY <1>1, <2>2, <2>7, ImportKeeps
  <1> QED
    BY <1>4, <1>5

LEMMA CorrelationsKeeps ==
  ASSUME TablesOK, ImportInv, stopped, ImportCorrelations
  PROVE  ImportInv'
  <1>1. /\ Good(target, imp) /\ imp.pc = "findings" /\ imp.left = {} /\ imp \in Imports
        /\ (done => Complete(target, imp)) /\ JobsOK
    BY DEF ImportInv, ImportCorrelations, Good
  <1>2. PICK new : new = {c \in correlations : \A d \in target.correlations : d.id # c}
    OBVIOUS
  <1>3. /\ new \in SUBSET correlations
        /\ \A c \in correlations : c \in new <=> \A old \in target.correlations : old.id # c
    BY <1>2
  <1>4. PICK cs : cs = {ImportedCorrelation(c) : c \in new}
    OBVIOUS
  <1>5. /\ \A c \in new : ImportedCorrelation(c) \in cs
        /\ \A x \in cs : \E c \in new : x = ImportedCorrelation(c)
    BY <1>4
  <1>6. cs \in SUBSET [id : CorrelationRows, links : SUBSET FindingIds]
    BY <1>1, <1>3, <1>5, LinksAreGood
  <1>7. PICK audits : audits = SourceTenants \ target.audits
    OBVIOUS
  <1>8. audits \in SUBSET Tenants
    BY <1>1, <1>7, SourceTenantsOK
  <1>9. PICK g : g = CorrelationsFrame(imp, cs, audits)
    OBVIOUS
  <1>10. Import(g)
    BY <1>2, <1>4, <1>7, <1>9 DEF ImportCorrelations, CorrelationsFrame
  <1>11. CorrelationsAdded(imp, cs, SourceTenants \ target.audits, g)
    BY <1>1, <1>6, <1>7, <1>8, <1>9, CorrelationsFields
  <1>12. Good(target, g) /\ (Complete(target, imp) => Complete(target, g))
    BY <1>1, <1>3, <1>5, <1>11, CorrelationsAreGood
  <1> QED
    BY <1>1, <1>10, <1>12, ImportKeeps

LEMMA CommitKeeps ==
  ASSUME TablesOK, ImportInv, stopped, Commit
  PROVE  ImportInv'
  <1>1. /\ Good(target, imp) /\ imp.pc = "commit" /\ imp \in Imports
        /\ target \in Databases /\ imp.new \in Databases
    BY DEF ImportInv, Commit, Good, Imports
  <1>2. /\ done' = TRUE /\ stopped' = stopped /\ jobs' = jobs
        /\ findings' = findings /\ correlations' = correlations
        /\ imp' = [NoImport EXCEPT !.pc = "done"]
    BY DEF Commit, legacyVars
  <1>3. PICK d, n : d = target /\ n = imp.new
    OBVIOUS
  <1>4. target' = [tenants |-> d.tenants \cup n.tenants, jobs |-> d.jobs \cup n.jobs,
                   events |-> d.events \cup n.events, rows |-> d.rows \cup n.rows,
                   correlations |-> d.correlations \cup n.correlations,
                   audits |-> d.audits \cup n.audits]
    BY <1>3 DEF Commit, Nothing
  <1>5. TablesAre(target', d.tenants \cup n.tenants, d.jobs \cup n.jobs, d.events \cup n.events,
                  d.rows \cup n.rows, d.correlations \cup n.correlations, d.audits \cup n.audits)
    BY <1>4 DEF TablesAre
  <1>6. target' \in Databases
    BY <1>1, <1>3, <1>4 DEF Databases
  <1>7. Good(target', imp') /\ Complete(target', imp')
    BY <1>1, <1>2, <1>3, <1>5, <1>6, CommitIsGood
  <1>8. stopped' = TRUE
    BY <1>2 DEF ImportInv
  <1> QED
    BY <1>2, <1>7, <1>8, SameLegacy

LEMMA CrashKeeps ==
  ASSUME ImportInv, stopped, Crash
  PROVE  ImportInv'
  <1>1. PICK g : g = [NoImport EXCEPT !.pc = "crashed"]
    OBVIOUS
  <1>2. g = [NoImport EXCEPT !.pc = "crashed", !.quiet = TRUE]
    <2>1. g = [pc |-> "crashed", left |-> {}, new |-> Nothing, ids |-> {}, quiet |-> TRUE]
      BY <1>1 DEF NoImport
    <2>2. PICK h : h = [NoImport EXCEPT !.pc = "crashed", !.quiet = TRUE]
      OBVIOUS
    <2>3. h = [pc |-> "crashed", left |-> {}, new |-> Nothing, ids |-> {}, quiet |-> TRUE]
      BY <2>2 DEF NoImport
    <2> QED
      BY <2>1, <2>2, <2>3
  <1>3. Good(target, g)
    BY <1>2, IdleIsGood DEF ImportInv
  <1>4. g.new = Nothing /\ g.pc = "crashed"
    BY <1>1 DEF NoImport
  <1>5. Import(g)
    BY <1>1 DEF Crash
  <1> QED
    BY <1>3, <1>4, <1>5, ImportKeeps DEF ImportInv, Complete

LEMMA MigrateKeeps ==
  ASSUME TablesOK, ImportInv, Migrate
  PROVE  ImportInv'
  <1>1. stopped
    <2>1. imp.pc # "none"
      BY DEF Migrate, FlushTenants, ImportJobs, LookupFinding, InsertFinding, ImportCorrelations,
             Commit, Crash, Active
    <2> QED
      BY <2>1, NoImportOK DEF ImportInv
  <1> QED
    BY <1>1, FlushKeeps, JobsKeeps, LookupKeeps, InsertKeeps, CorrelationsKeeps, CommitKeeps,
       CrashKeeps DEF Migrate

-----------------------------------------------------------------------------
(* The new gateway's calls *)

LEMMA WriteKeeps ==
  ASSUME TablesOK, ImportInv, stopped, NEW tenant, NEW new, Write(tenant, new),
         new \in Databases, IsFiniteSet(new.events),
         target.tenants \subseteq new.tenants, target.events \subseteq new.events,
         new.audits = target.audits, new.correlations = target.correlations,
         \A j \in target.jobs : \E k \in new.jobs : k.id = j.id,
         \A r \in target.rows : \E s \in new.rows :
           /\ s.tenant = r.tenant /\ s.fingerprint = r.fingerprint /\ s.finding_id = r.finding_id,
         KeysOK(new, imp)
  PROVE  ImportInv'
  <1>1. /\ target' = new /\ done' = done /\ stopped' = stopped /\ jobs' = jobs
        /\ findings' = findings /\ correlations' = correlations
    BY DEF Write, legacyVars
  <1>2. PICK g : g = [imp EXCEPT !.quiet = FALSE]
    OBVIOUS
  <1>3. imp' = g
    BY <1>2 DEF Write
  <1>4. Good(new, g) /\ (Complete(target, imp) => Complete(new, g))
    BY <1>2, WriteIsGood DEF ImportInv
  <1>5. stopped' = TRUE /\ done' \in BOOLEAN
    BY <1>1 DEF ImportInv
  <1> QED
    BY <1>1, <1>3, <1>4, <1>5, SameLegacy DEF ImportInv

\* A row is updated: its tenant, fingerprint and id stay.
LEMMA RowUpdated ==
  ASSUME TablesOK, ImportInv, stopped, NEW r \in target.rows, NEW s \in TargetRows,
         s.tenant = r.tenant, s.fingerprint = r.fingerprint, s.finding_id = r.finding_id,
         NEW tenant, NEW new, new = [target EXCEPT !.rows = (target.rows \ {r}) \cup {s}],
         Write(tenant, new)
  PROVE  ImportInv'
  <1>1. target \in Databases /\ KeysOK(target, imp) /\ IsFiniteSet(target.events)
    BY DEF ImportInv, Good
  <1>2. /\ new.tenants = target.tenants /\ new.jobs = target.jobs /\ new.events = target.events
        /\ new.correlations = target.correlations /\ new.audits = target.audits
        /\ new.rows = (target.rows \ {r}) \cup {s} /\ new \in Databases
    BY <1>1 DEF Databases
  <1>3. \A q : (Clash(s, q) <=> Clash(r, q)) /\ (Clash(q, s) <=> Clash(q, r))
    BY DEF Clash
  <1>4. \A p, q \in target.rows \cup imp.new.rows : Clash(p, q) => p = q
    BY <1>1 DEF KeysOK, RowsOf
  <1>5. r \notin imp.new.rows /\ s \notin imp.new.rows
    <2>1. r \notin imp.new.rows
      BY <1>1 DEF KeysOK
    <2>2. s \in imp.new.rows => Clash(r, s)
      BY DEF Clash
    <2> QED
      BY <1>4, <2>1, <2>2
  <1>6. \A p, q \in RowsOf(new, imp) : Clash(p, q) => p = q
    <2> SUFFICES ASSUME NEW p \in RowsOf(new, imp), NEW q \in RowsOf(new, imp), Clash(p, q)
                 PROVE  p = q
      OBVIOUS
    <2>1. /\ p = s \/ (p # r /\ p \in target.rows \cup imp.new.rows)
          /\ q = s \/ (q # r /\ q \in target.rows \cup imp.new.rows)
      BY <1>2, <1>5 DEF RowsOf
    <2> QED
      BY <1>3, <1>4, <2>1
  <1>7. KeysOK(new, imp)
    BY <1>1, <1>2, <1>5, <1>6 DEF KeysOK
  <1> QED
    BY <1>1, <1>2, <1>7, WriteKeeps

LEMMA TriageKeeps ==
  ASSUME TablesOK, ImportInv, stopped, NEW r \in target.rows, TargetTriage(r)
  PROVE  ImportInv'
  <1>1. r \in TargetRows
    BY DEF ImportInv, Good, Databases
  <1>2. PICK s : s = [r EXCEPT !.status = "resolved"]
    OBVIOUS
  <1>3. /\ s \in TargetRows /\ s.tenant = r.tenant /\ s.fingerprint = r.fingerprint
        /\ s.finding_id = r.finding_id
    BY <1>1, <1>2 DEF TargetRows
  <1>4. PICK new : new = [target EXCEPT !.rows = (target.rows \ {r}) \cup {s}]
    OBVIOUS
  <1>5. Write(r.tenant, new)
    BY <1>2, <1>4 DEF TargetTriage
  <1> QED
    BY <1>3, <1>4, <1>5, RowUpdated

LEMMA StoreKeeps ==
  ASSUME TablesOK, ImportInv, stopped, NEW t \in Tenants, NEW finding \in Findings,
         TargetStore(t, finding)
  PROVE  ImportInv'
  <1>1. PICK row : row = [tenant |-> t, finding |-> finding]
    OBVIOUS
  <1>2. row.tenant = t /\ row.finding = finding
    BY <1>1
  <1>3. ASSUME NEW r \in target.rows,
               Write(t, [target EXCEPT !.rows = (@ \ {r}) \cup {[r EXCEPT !.occurrences = @ + 1]}])
        PROVE  ImportInv'
    <2>1. r \in TargetRows
      BY DEF ImportInv, Good, Databases
    <2>2. PICK s : s = [r EXCEPT !.occurrences = r.occurrences + 1]
      OBVIOUS
    <2>3. /\ s \in TargetRows /\ s.tenant = r.tenant /\ s.fingerprint = r.fingerprint
          /\ s.finding_id = r.finding_id
      BY <2>1, <2>2 DEF TargetRows
    <2>4. PICK new : new = [target EXCEPT !.rows = (target.rows \ {r}) \cup {s}]
      OBVIOUS
    <2>5. Write(t, new)
      BY <1>3, <2>2, <2>4
    <2> QED
      BY <2>3, <2>4, <2>5, RowUpdated
  <1>4. ASSUME \A r \in target.rows \cup imp.new.rows : ~SameFingerprint(row, r) /\ ~SameId(row, r),
               Write(t, [target EXCEPT !.tenants = @ \cup {t}, !.rows = @ \cup {Imported(row)}])
        PROVE  ImportInv'
    <2>1. target \in Databases /\ KeysOK(target, imp) /\ IsFiniteSet(target.events)
      BY DEF ImportInv, Good
    <2>2. PICK s : s = Imported(row)
      OBVIOUS
    <2>3. /\ s.tenant = t /\ s.fingerprint = finding.fingerprint /\ s.finding_id = finding.id
      BY <1>2, <2>2 DEF Imported
    <2>4. s \in TargetRows
      BY <1>2, <2>2 DEF Imported, TargetRows, Fingerprints, FindingIds
    <2>5. PICK new : new = [target EXCEPT !.tenants = target.tenants \cup {t},
                                          !.rows = target.rows \cup {s}]
      OBVIOUS
    <2>6. Write(t, new)
      BY <1>4, <2>2, <2>5
    <2>7. /\ new.tenants = target.tenants \cup {t} /\ new.jobs = target.jobs
          /\ new.events = target.events /\ new.correlations = target.correlations
          /\ new.audits = target.audits /\ new.rows = target.rows \cup {s} /\ new \in Databases
      BY <2>1, <2>4, <2>5 DEF Databases
    <2>8. \A q \in target.rows \cup imp.new.rows : ~Clash(s, q) /\ ~Clash(q, s)
      BY <1>2, <1>4, <2>3 DEF Clash, SameFingerprint, SameId
    <2>9. s \notin imp.new.rows
      BY <2>8 DEF Clash
    <2>10. \A p, q \in RowsOf(new, imp) : Clash(p, q) => p = q
      <3>1. \A p, q \in target.rows \cup imp.new.rows : Clash(p, q) => p = q
        BY <2>1 DEF KeysOK, RowsOf
      <3>2. RowsOf(new, imp) = (target.rows \cup imp.new.rows) \cup {s}
        BY <2>7 DEF RowsOf
      <3> QED
        BY <2>8, <3>1, <3>2
    <2>11. KeysOK(new, imp)
      BY <2>1, <2>7, <2>9, <2>10 DEF KeysOK
    <2> QED
      BY <2>1, <2>6, <2>7, <2>11, WriteKeeps
  <1>5. ASSUME {r \in target.rows : SameFingerprint(row, r)} = {},
               \A r \in target.rows : ~SameId(row, r),
               {r \in imp.new.rows : SameFingerprint(row, r) \/ SameId(row, r)} = {}
        PROVE  \A r \in target.rows \cup imp.new.rows : ~SameFingerprint(row, r) /\ ~SameId(row, r)
    BY <1>5
  <1> QED
    BY <1>1, <1>3, <1>4, <1>5 DEF TargetStore, Locked


\* The jobs that the transaction has written are legacy jobs, whose ids the gateway never draws.
LEMMA WrittenJobs ==
  ASSUME ImportInv, NEW j \in imp.new.jobs
  PROVE  j.id # NewJob
  <1>1. Good(target, imp) /\ JobsOK
    BY DEF ImportInv
  <1>2. imp.new.jobs = {} \/ imp.new.jobs \subseteq jobs
    <2>1. CASE Running(imp)
      BY <1>1, <2>1 DEF Good, ProgressOK, Running, JobsDone
    <2>2. CASE ~Running(imp)
      BY <1>1, <2>2 DEF Good, ProgressOK, Nothing
    <2> QED
      BY <2>1, <2>2
  <1> QED
    BY <1>1, <1>2 DEF JobsOK

LEMMA CreateKeeps ==
  ASSUME TablesOK, ImportInv, stopped, NEW tenant \in Tenants, NEW key \in Keys \cup {None},
         TargetCreate(tenant, key)
  PROVE  ImportInv'
  <1>1. PICK job : job = [id |-> NewJob, tenant |-> tenant, key |-> key, status |-> "queued",
                          events |-> 1]
    OBVIOUS
  <1>2. job \in Jobs /\ job.id = NewJob /\ job.events = 1
    BY <1>1, MigrationAssumption DEF Jobs
  <1>3. target \in Databases /\ KeysOK(target, imp) /\ IsFiniteSet(target.events)
    BY DEF ImportInv, Good
  <1>4. /\ \A k \in target.jobs : k.id # NewJob /\ ~SameKey(job, k)
        /\ \A k \in imp.new.jobs : k.id # NewJob /\ ~SameKey(job, k)
    BY <1>1, WrittenJobs DEF TargetCreate, Locked
  <1>5. PICK events : events = target.events \cup EventsOf(job)
    OBVIOUS
  <1>6. EventsOf(job) = {<<NewJob, 1>>}
    <2>1. 1..1 = {1}
      OBVIOUS
    <2> QED
      BY <1>2, <2>1 DEF EventsOf
  <1>7. events \subseteq JobIds \X Nat /\ target.events \subseteq events
    BY <1>3, <1>5, <1>6, MigrationAssumption DEF Databases
  <1>8. IsFiniteSet(events)
    <2>1. PICK old : old = target.events
      OBVIOUS
    <2>2. IsFiniteSet(old \cup {<<NewJob, 1>>})
      BY <1>3, <2>1, FS_AddElement
    <2> QED
      BY <1>5, <1>6, <2>1, <2>2
  <1>9. PICK new : new = [target EXCEPT !.tenants = target.tenants \cup {tenant},
                                        !.jobs = target.jobs \cup {job}, !.events = events]
    OBVIOUS
  <1>10. Write(tenant, new)
    BY <1>1, <1>5, <1>9 DEF TargetCreate
  <1>11. /\ new.tenants = target.tenants \cup {tenant} /\ new.jobs = target.jobs \cup {job}
         /\ new.events = events /\ new.correlations = target.correlations
         /\ new.audits = target.audits /\ new.rows = target.rows /\ new \in Databases
    BY <1>2, <1>3, <1>7, <1>9 DEF Databases
  <1>12. KeysOK(new, imp)
    <2>1. \A j, k \in target.jobs \cup imp.new.jobs : j.id = k.id \/ SameKey(j, k) => j = k
      BY <1>3 DEF KeysOK
    <2>2. \A k \in target.jobs \cup imp.new.jobs :
            k.id # job.id /\ ~SameKey(job, k) /\ ~SameKey(k, job)
      BY <1>2, <1>4 DEF SameKey
    <2>3. \A j, k \in new.jobs \cup imp.new.jobs : j.id = k.id \/ SameKey(j, k) => j = k
      BY <1>11, <2>1, <2>2
    <2>4. new.jobs \cap imp.new.jobs = {}
      BY <1>3, <1>11, <2>2 DEF KeysOK
    <2> QED
      BY <1>3, <1>11, <2>3, <2>4 DEF KeysOK, RowsOf
  <1> QED
    BY <1>3, <1>7, <1>8, <1>10, <1>11, <1>12, WriteKeeps

LEMMA CancelKeeps ==
  ASSUME TablesOK, ImportInv, stopped, NEW job \in target.jobs, TargetCancel(job)
  PROVE  ImportInv'
  <1>1. target \in Databases /\ KeysOK(target, imp) /\ IsFiniteSet(target.events)
    BY DEF ImportInv, Good
  <1>2. job \in Jobs
    BY <1>1 DEF Databases
  <1>3. PICK over : over = [job EXCEPT !.status = "cancelled"]
    OBVIOUS
  <1>4. over \in Jobs /\ over.id = job.id /\ over.tenant = job.tenant /\ over.key = job.key
    BY <1>2, <1>3 DEF Jobs
  <1>5. PICK n : n = Cardinality({e \in target.events : e[1] = job.id})
    OBVIOUS
  <1>6. n \in Nat
    <2>1. PICK old, own : old = target.events /\ own = {e \in target.events : e[1] = job.id}
      OBVIOUS
    <2>2. own \in SUBSET old /\ IsFiniteSet(old)
      BY <1>1, <2>1
    <2>3. IsFiniteSet(own)
      BY <2>2, FS_Subset
    <2> QED
      BY <1>5, <2>1, <2>3, FS_CardinalityType
  <1>7. PICK e : e = <<job.id, 1 + n>>
    OBVIOUS
  <1>8. e \in JobIds \X Nat
    BY <1>2, <1>6, <1>7 DEF Jobs
  <1>9. PICK events : events = target.events \cup {e}
    OBVIOUS
  <1>10. events \subseteq JobIds \X Nat
    BY <1>1, <1>8, <1>9 DEF Databases
  <1>11. IsFiniteSet(events)
    <2>1. PICK old : old = target.events
      OBVIOUS
    <2> QED
      BY <1>1, <1>9, <2>1, FS_AddElement
  <1>12. PICK new : new = [target EXCEPT !.jobs = (target.jobs \ {job}) \cup {over},
                                         !.events = events]
    OBVIOUS
  <1>13. Write(job.tenant, new)
    BY <1>3, <1>5, <1>7, <1>9, <1>12 DEF TargetCancel
  <1>14. /\ new.tenants = target.tenants /\ new.jobs = (target.jobs \ {job}) \cup {over}
         /\ new.events = events /\ new.correlations = target.correlations
         /\ new.audits = target.audits /\ new.rows = target.rows /\ new \in Databases
    BY <1>1, <1>4, <1>10, <1>12 DEF Databases
  <1>15. \A j, k \in target.jobs \cup imp.new.jobs : j.id = k.id \/ SameKey(j, k) => j = k
    BY <1>1 DEF KeysOK
  <1>16. job \notin imp.new.jobs /\ over \notin imp.new.jobs
    <2>1. job \notin imp.new.jobs
      BY <1>1 DEF KeysOK
    <2> QED
      BY <1>4, <1>15, <2>1
  <1>17. KeysOK(new, imp)
    <2>1. \A k : (SameKey(over, k) <=> SameKey(job, k)) /\ (SameKey(k, over) <=> SameKey(k, job))
      BY <1>4 DEF SameKey
    <2>2. ASSUME NEW j \in new.jobs \cup imp.new.jobs, NEW k \in new.jobs \cup imp.new.jobs,
                 j.id = k.id \/ SameKey(j, k)
          PROVE  j = k
      <3>1. /\ j = over \/ (j # job /\ j \in target.jobs \cup imp.new.jobs)
            /\ k = over \/ (k # job /\ k \in target.jobs \cup imp.new.jobs)
        BY <1>14, <1>16
      <3> QED
        BY <1>4, <1>15, <2>1, <2>2, <3>1
    <2>3. new.jobs \cap imp.new.jobs = {}
      BY <1>1, <1>14, <1>16 DEF KeysOK
    <2> QED
      BY <1>1, <1>14, <2>2, <2>3 DEF KeysOK, RowsOf
  <1>18. \A j \in target.jobs : \E k \in new.jobs : k.id = j.id
    BY <1>4, <1>14
  <1>19. target.events \subseteq new.events
    BY <1>9, <1>14
  <1> QED
    BY <1>11, <1>13, <1>14, <1>17, <1>18, <1>19, WriteKeeps

LEMMA GatewayKeeps ==
  ASSUME TablesOK, ImportInv, stopped, Gateway
  PROVE  ImportInv'
  <1>1. ASSUME NEW t \in Moved, NEW f \in Findings, TargetStore(t, f) PROVE ImportInv'
    BY <1>1, StoreKeeps, MigrationAssumption
  <1>2. ASSUME NEW r \in target.rows, TargetTriage(r) PROVE ImportInv'
    BY <1>2, TriageKeeps
  <1>3. ASSUME NEW j \in UNION LegacyJobs, TargetCreate(j.tenant, j.key) PROVE ImportInv'
    <2>1. j.tenant \in Tenants /\ j.key \in Keys \cup {None}
      BY MigrationAssumption DEF Jobs
    <2> QED
      BY <1>3, <2>1, CreateKeeps
  <1>4. ASSUME NEW j \in target.jobs, TargetCancel(j) PROVE ImportInv'
    BY <1>4, CancelKeeps
  <1> QED
    BY <1>1, <1>2, <1>3, <1>4 DEF Gateway

-----------------------------------------------------------------------------
(* The invariant, and what it says of a completed import *)

\* With nothing imported or written, there is nothing to be said of it.
LEMMA NothingIsGood == Good(Nothing, NoImport)
  <1>1. /\ NoImport.pc = "none" /\ NoImport.left = {} /\ NoImport.new = Nothing
        /\ NoImport \in Imports /\ Nothing \in Databases /\ IsFiniteSet(Nothing.events)
    BY NoImportOK
  <1>2. /\ Nothing.rows = {} /\ Nothing.jobs = {} /\ Nothing.correlations = {}
    BY DEF Nothing
  <1>3. KeysOK(Nothing, NoImport)
    BY <1>1, <1>2 DEF KeysOK, RowsOf
  <1>4. ProgressOK(Nothing, NoImport)
    BY <1>1 DEF ProgressOK, Running
  <1>5. QuietOK(Nothing, NoImport)
    BY <1>1 DEF QuietOK
  <1> QED
    BY <1>1, <1>2, <1>3, <1>4, <1>5 DEF Good

LEMMA InitImport == Init => ImportInv
  <1> SUFFICES ASSUME Init PROVE ImportInv
    OBVIOUS
  <1>1. JobsOK
    BY FS_EmptySet DEF Init, JobsOK
  <1> QED
    BY <1>1, NothingIsGood DEF Init, ImportInv

\* Before the gateway stops nothing is imported, and Stop picks a job table.
LEMMA LegacyKeeps ==
  ASSUME ImportInv, Serve \/ Stop
  PROVE  ImportInv'
  <1>1. /\ ~stopped /\ target' = target /\ imp' = imp /\ done' = done
        /\ stopped' \in BOOLEAN
    BY DEF Serve, Stop, ImportInv
  <1>2. target' = Nothing /\ imp' = NoImport /\ ~done'
    BY <1>1 DEF ImportInv
  <1>3. JobsOK'
    <2>1. CASE Serve
      BY <2>1 DEF Serve, ImportInv, JobsOK
    <2>2. CASE Stop
      BY <2>2, MigrationAssumption DEF Stop, JobsOK
    <2> QED
      BY <2>1, <2>2
  <1>4. Good(target, imp)'
    <2>1. (Good(Nothing, NoImport))'
      BY NothingIsGood, PTL
    <2> QED
      BY <1>2, <2>1
  <1> QED
    BY <1>1, <1>2, <1>3, <1>4 DEF ImportInv

LEMMA ImportStep == TablesOK /\ ImportInv /\ [Next]_vars => ImportInv'
  <1> SUFFICES ASSUME TablesOK, ImportInv, [Next]_vars PROVE ImportInv'
    OBVIOUS
  <1>1. CASE Serve \/ Stop
    BY <1>1, LegacyKeeps
  <1>2. CASE Begin
    BY <1>2, BeginKeeps
  <1>3. CASE Migrate
    BY <1>3, MigrateKeeps
  <1>4. CASE stopped /\ Gateway
    BY <1>4, GatewayKeeps
  <1>5. CASE UNCHANGED vars
    <2>1. /\ target' = target /\ imp' = imp /\ done' = done /\ stopped' = stopped /\ jobs' = jobs
          /\ findings' = findings /\ correlations' = correlations
      BY <1>5 DEF vars, legacyVars
    <2>2. CASE stopped
      BY <2>1, <2>2, SameLegacy DEF ImportInv
    <2>3. CASE ~stopped
      <3>1. (Good(Nothing, NoImport))'
        BY NothingIsGood, PTL
      <3>2. Good(target, imp)'
        BY <2>1, <2>3, <3>1 DEF ImportInv
      <3>3. JobsOK'
        BY <2>1 DEF ImportInv, JobsOK
      <3> QED
        BY <2>1, <2>3, <3>2, <3>3 DEF ImportInv
    <2> QED
      BY <2>2, <2>3 DEF ImportInv
  <1> QED
    BY <1>1, <1>2, <1>3, <1>4, <1>5 DEF Next

\* Whatever interleaves with it, crashes it or starts it again, the import keeps to its
\* progress: keys stay unique, ids lead to their rows and links to the rows they name.
THEOREM ImportAlways == Spec => []ImportInv
  <1>1. RegistryInv => TablesOK
    BY DEF RegistryInv
  <1> QED
    BY <1>1, InitImport, ImportStep, RegistryAlways, PTL DEF Spec

\* A completed import stands for the whole legacy file, whatever the new gateway wrote
\* before it, during it and since.
THEOREM NothingIsMissing == Spec => []NothingMissing
  <1>1. ImportInv => NothingMissing
    <2> SUFFICES ASSUME ImportInv, done PROVE NothingMissing
      BY DEF NothingMissing
    <2>1. Complete(target, imp) /\ KeysOK(target, imp)
      BY DEF ImportInv, Good
    <2>2. ASSUME NEW row \in findings, NEW r \in target.rows, SameFingerprint(row, r)
          PROVE  TargetId(row) = r.finding_id
      <3>1. ASSUME NEW s \in target.rows, SameFingerprint(row, s) PROVE s = r
        <4>1. Clash(s, r)
          BY <2>2, <3>1 DEF SameFingerprint, Clash
        <4> QED
          BY <2>1, <2>2, <3>1, <4>1 DEF KeysOK, RowsOf
      <3> QED
        BY <2>2, <3>1 DEF TargetId
    <2>3. ASSUME NEW c \in correlations
          PROVE  \E d \in target.correlations :
                   /\ d.id = c
                   /\ \A row \in findings :
                        row.tenant = c.tenant /\ row.finding.id \in c.findings =>
                          TargetId(row) \in d.links
      <3>1. PICK d \in target.correlations : d.id = c
        BY <2>1 DEF Complete, AllLinked
      <3>2. LinksOK(d, target.rows)
        BY DEF ImportInv, Good
      <3>3. ASSUME NEW row \in findings, row.tenant = c.tenant, row.finding.id \in c.findings
            PROVE  TargetId(row) \in d.links
        <4>1. PICK r \in target.rows : SameFingerprint(row, r) /\ r.finding_id \in d.links
          BY <3>1, <3>2, <3>3 DEF LinksOK
        <4> QED
          BY <2>2, <4>1
      <3> QED
        BY <3>1, <3>3
    <2> QED
      BY <2>1, <2>3 DEF NothingMissing, Complete, JobsIn
  <1> QED
    BY <1>1, ImportAlways, PTL

\* Once it has committed, it neither fails nor writes again; and an import that met no other
\* writer fails only for a key that the target holds already.
THEOREM RerunIsSafe == Spec => []SafeToRerun
  <1>1. ImportInv => SafeToRerun
    BY DEF ImportInv, Good, Complete, QuietOK, Refused, SafeToRerun
  <1> QED
    BY <1>1, ImportAlways, PTL

\* The tables and keys have their shape: the legacy file's, and the target's with what the
\* import is about to commit.
THEOREM TypesAlways == Spec => []TypeOK
  <1>1. RegistryInv => LegacyTypeOK
    <2> SUFFICES ASSUME RegistryInv PROVE LegacyTypeOK
      OBVIOUS
    <2>1. /\ \A row \in findings : row.seq \in Nat /\ row.tenant \in Tenants /\ row.finding \in Findings
          /\ \A row \in correlations : row.seq \in Nat /\ row.tenant \in Tenants
      BY DEF RegistryInv, TablesOK, FindingRows, CorrelationRows
    <2>2. \A u \in Subscribers : sub[u].tenant \in Tenants \cup {None} /\ Len(sub[u].queue) <= maxsize
      BY DEF RegistryInv, FeedsOK, FeedsFollow, Feeds
    <2> QED
      BY <2>1, <2>2 DEF RegistryInv, TablesOK, TableOK, FeedsOK, LegacyTypeOK
  <1>2. ImportInv /\ LegacyTypeOK => TypeOK
    <2> SUFFICES ASSUME ImportInv, LegacyTypeOK PROVE TypeOK
      OBVIOUS
    <2>1. KeysOK(target, imp) /\ imp \in Imports
      BY DEF ImportInv, Good
    <2>2. imp.pc \in {"none", "tenants", "jobs", "findings", "insert", "commit", "done", "failed",
                      "crashed"}
      BY <2>1 DEF Imports
    <2>3. \A r, s \in target.rows \cup imp.new.rows : r # s /\ r.tenant = s.tenant =>
            r.fingerprint # s.fingerprint /\ r.finding_id # s.finding_id
      BY <2>1 DEF KeysOK, RowsOf, Clash
    <2>4. \A j, k \in target.jobs \cup imp.new.jobs : j # k => j.id # k.id /\ ~SameKey(j, k)
      BY <2>1 DEF KeysOK
    <2> QED
      BY <2>2, <2>3, <2>4 DEF TypeOK
  <1> QED
    BY <1>1, <1>2, RegistryAlways, ImportAlways, PTL
=============================================================================
