------------------------------ MODULE LegacyRegistry ------------------------------
(***************************************************************************)
(* The SQLite finding registry of the inline gateway: findings and          *)
(* correlations of every tenant in two tables, pruned to the newest         *)
(* max_size rows of a tenant, and the in-process feeds that announce them.  *)
(*                                                                         *)
(* The registry's methods never suspend, so one report of an executor       *)
(* (add, then the rule's add_correlation) is one turn of the event loop.    *)
(* Reports are of one finding and inside the rule's time window.            *)
(***************************************************************************)
EXTENDS Naturals, Sequences, FiniteSetsExt

CONSTANTS Tenants,
          Findings,    \* [id, fingerprint, host, source]
          Subscribers,
          max_size,    \* rows a tenant keeps in each table
          maxsize,     \* room of a subscriber's asyncio.Queue
          MaxReports,  \* bound: findings stored before the gateway stops
          None

ASSUME LegacyAssumption ==
  /\ max_size \in Nat \ {0} /\ maxsize \in Nat \ {0} /\ MaxReports \in Nat
  /\ None \notin Tenants

VARIABLES findings,     \* the rows of the findings table
          correlations, \* the rows of the correlations table
          published,    \* items announced for each tenant so far
          sub,          \* feed of each subscriber
          reports

legacyVars == <<findings, correlations, published, sub, reports>>

NoFeed == [tenant |-> None, from |-> 0, queue |-> << >>, got |-> << >>]

LegacyInit ==
  /\ findings = {} /\ correlations = {}
  /\ published = [t \in Tenants |-> 0]
  /\ sub = [u \in Subscribers |-> NoFeed]
  /\ reports = 0

-----------------------------------------------------------------------------

\* AUTOINCREMENT: the newest row is never older than one that was pruned.
NextSeq(table) == 1 + Max({0} \cup {row.seq : row \in table})

Newer(table, row) == {r \in table : r.tenant = row.tenant /\ r.seq >= row.seq}

\* Mutant: ORDER BY seq without DESC.
PruneNewest(table, tenant) ==
  {row \in table : row.tenant = tenant =>
     Cardinality({r \in table : r.tenant = tenant /\ r.seq <= row.seq}) <= max_size}

Prune(table, tenant) ==
  {row \in table : row.tenant = tenant => Cardinality(Newer(table, row)) <= max_size}

\* ON CONFLICT (tenant_id, finding_id) DO UPDATE: a known id gets its new payload and keeps
\* its seq.
Upsert(tenant, finding) ==
  LET known == {row \in findings : row.tenant = tenant /\ row.finding.id = finding.id}
  IN  IF known = {}
        THEN findings \cup {[seq |-> NextSeq(findings), tenant |-> tenant, finding |-> finding]}
        ELSE (findings \ known) \cup {[row EXCEPT !.finding = finding] : row \in known}

StoreFinding(tenant, finding) == findings' = Prune(Upsert(tenant, finding), tenant)

\* The rule is given the tenant's findings as they were before this one was stored.
Related(tenant, finding) ==
  {row \in findings :
    /\ row.tenant = tenant /\ row.finding.id # finding.id
    /\ row.finding.host = finding.host /\ row.finding.source # finding.source}

\* A correlation names finding ids; the order it names them in is left out.
AddCorrelation(tenant, finding, related) ==
  correlations' = Prune(correlations \cup
    {[seq |-> NextSeq(correlations), tenant |-> tenant,
      findings |-> {finding.id} \cup {row.finding.id : row \in related}]}, tenant)

\* Mutant: a full queue makes room by dropping its oldest item.
OfferDroppingOldest(feed, item) ==
  [feed EXCEPT !.queue = Append(IF Len(@) = maxsize THEN Tail(@) ELSE @, item)]

\* put_nowait, unless the queue is full.
Offer(feed, item) ==
  IF Len(feed.queue) < maxsize THEN [feed EXCEPT !.queue = Append(@, item)] ELSE feed

\* The item is offered to every subscriber of the tenant.
Announce(feeds, tenant, item) ==
  [u \in Subscribers |-> IF feeds[u].tenant = tenant THEN Offer(feeds[u], <<tenant, item>>)
                         ELSE feeds[u]]

\* add(finding), and add_correlation for what the rule finds.
Report(tenant, finding) ==
  LET related == Related(tenant, finding)
      n == published[tenant]
      told == Announce(sub, tenant, n + 1)
  IN  /\ reports < MaxReports /\ reports' = reports + 1
      /\ StoreFinding(tenant, finding)
      /\ \/ /\ related = {}
            /\ sub' = told
            /\ published' = [published EXCEPT ![tenant] = n + 1]
            /\ UNCHANGED correlations
         \/ /\ related # {}
            /\ AddCorrelation(tenant, finding, related)
            /\ sub' = Announce(told, tenant, n + 2)
            /\ published' = [published EXCEPT ![tenant] = n + 2]

\* add_sync stores and announces nothing.
AddSync(tenant, finding) ==
  /\ reports < MaxReports /\ reports' = reports + 1
  /\ StoreFinding(tenant, finding)
  /\ UNCHANGED <<correlations, published, sub>>

Subscribe(u, tenant) ==
  /\ sub[u].tenant = None
  /\ sub' = [sub EXCEPT ![u] = [NoFeed EXCEPT !.tenant = tenant, !.from = published[tenant]]]
  /\ UNCHANGED <<findings, correlations, published, reports>>

Receive(u) ==
  /\ sub[u].queue # << >>
  /\ sub' = [sub EXCEPT ![u].got = Append(@, Head(sub[u].queue)), ![u].queue = Tail(@)]
  /\ UNCHANGED <<findings, correlations, published, reports>>

\* The generator is closed: its queue leaves the tenant's list.
Unsubscribe(u) ==
  /\ sub[u].tenant # None
  /\ sub' = [sub EXCEPT ![u] = NoFeed]
  /\ UNCHANGED <<findings, correlations, published, reports>>

LegacyNext ==
  \/ \E t \in Tenants, f \in Findings : Report(t, f) \/ AddSync(t, f)
  \/ \E u \in Subscribers : \/ \E t \in Tenants : Subscribe(u, t)
                            \/ Receive(u) \/ Unsubscribe(u)

-----------------------------------------------------------------------------

\* Rows are numbered, and a tenant has at most max_size of them in each table; a finding's
\* id is its tenant's only once.
LegacyTypeOK ==
  /\ \A table \in {findings, correlations} :
       /\ \A row \in table : row.seq \in Nat /\ row.tenant \in Tenants
       /\ \A r, s \in table : r.seq = s.seq => r = s
       /\ \A t \in Tenants : Cardinality({row \in table : row.tenant = t}) <= max_size
  /\ \A r, s \in findings : r.tenant = s.tenant /\ r.finding.id = s.finding.id => r = s
  /\ \A row \in findings : row.finding \in Findings
  /\ published \in [Tenants -> Nat] /\ reports \in 0..MaxReports
  /\ \A u \in Subscribers : sub[u].tenant \in Tenants \cup {None} /\ Len(sub[u].queue) <= maxsize

\* The fan-out's `if not queue.full()`: a subscriber gets its own tenant's items, each once
\* and in the order they were stored, and it misses one only with a full queue's worth of
\* earlier items before it, so the first maxsize items of a feed always arrive.
FeedInOrder ==
  \A u \in Subscribers : sub[u].tenant # None =>
    LET received == sub[u].got \o sub[u].queue
        new == sub[u].from + 1 .. published[sub[u].tenant]
    IN  /\ \A i, j \in 1..Len(received) : i < j => received[i][2] < received[j][2]
        /\ \A i \in 1..Len(received) : received[i][1] = sub[u].tenant /\ received[i][2] \in new
        /\ \A n \in new : (\A i \in 1..Len(received) : received[i][2] # n) =>
             Cardinality({i \in 1..Len(received) : received[i][2] < n}) >= maxsize

\* Retention by seq though updates keep their seq: a finding that was just stored is never
\* the one pruned, and what is pruned is the same tenant's and older than all it keeps.
PruningKeepsNewest ==
  [][\A t \in Tenants, f \in Findings : Report(t, f) \/ AddSync(t, f) =>
       LET kept == {row \in findings' : row.tenant = t}
       IN  /\ \E row \in kept : row.finding = f
           /\ \A old \in findings :
                (\A row \in findings' : row.seq # old.seq) =>
                  old.tenant = t /\ \A row \in kept : old.seq < row.seq]_legacyVars

=============================================================================
