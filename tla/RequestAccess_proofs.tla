--------------------------- MODULE RequestAccess_proofs ---------------------------
(***************************************************************************)
(* Proofs about RequestAccess, for any number of requests, keys and tenants   *)
(* and every configuration: the permission matrix, the refusal of revoked    *)
(* keys and the isolation of tenants.                                        *)
(***************************************************************************)
EXTENDS RequestAccess, TLAPS

-----------------------------------------------------------------------------
(* The inductive invariant *)

Owners == Tenants \cup {"_system", "_auth", "default", None}

Principals == [tenant : Owners, role : ROLES \cup {None}, scopes : SUBSET Scopes]

KeyRows == [status : {"absent", "active", "revoked"}, tenant : Tenants \cup {None},
            role : ROLES \cup {None}, scopes : SUBSET Scopes, expires_at : Nat \cup {None}]

CallFrames == [pc : {"new", "key", "key_tenant", "serving", "401", "403", "done"},
               route : Routes \cup {None},
               token : StaticTokens \cup ApiKeys \cup {None, Session},
               row : KeyRows, principal : Principals, dead : BOOLEAN, alive : BOOLEAN]

ScanFrames == [pc : {"none", "submitted", "running", "ended"}, tenant : Owners]

\* The rows, frames and contexts have their types; an issued key has a tenant, a configured
\* token a role and no scopes.
Types ==
  /\ DOMAIN principals \subseteq StaticTokens
  /\ \A b \in DOMAIN principals : principals[b] \in Principals /\ principals[b].role \in ROLES
  /\ now \in Nat
  /\ tenant \in [Tenants -> {"active", "suspended"}]
  /\ key \in [ApiKeys -> KeyRows]
  /\ \A k \in ApiKeys : key[k].status # "absent" =>
       key[k].tenant \in Tenants /\ key[k].role \in ROLES
  /\ call \in [Requests -> CallFrames]
  /\ scan \in [Requests -> ScanFrames]
  /\ context \in [Tasks -> Owners]

\* A row that is over stays over: keys are not reinstated and the clock does not go back.
Over(row) == row.status = "revoked" \/ ExpiredAt(row, now)

\* A request that looks its key up: a key that was over when it came is over in what it has
\* read, and the history remembers an active tenant.
LookupOK(c) ==
  /\ c.pc \in {"key", "key_tenant"} => c.token \in ApiKeys /\ c.route \in Routes
  /\ c.pc = "key" =>
       /\ c.dead => Over(key[c.token])
       /\ key[c.token].status # "absent" /\ tenant[key[c.token].tenant] = "active" => c.alive
  /\ c.pc = "key_tenant" =>
       /\ c.row.status # "absent" /\ key[c.token].status # "absent"
       /\ c.row.tenant = key[c.token].tenant
       /\ c.row.role \in ROLES
       /\ c.dead => Over(c.row)
       /\ tenant[c.row.tenant] = "active" => c.alive

\* A request that was decided on.
DecisionOK(c) ==
  c.pc \in {"403", "serving"} =>
    /\ c.token # None => /\ c.principal.role \in ROLES /\ c.route \in Routes
                         /\ c.pc = "serving" <=> Permitted(c.principal, c.route)
    /\ c.token \in ApiKeys => /\ ~c.dead /\ c.alive /\ key[c.token].status # "absent"
                              /\ c.principal.tenant = key[c.token].tenant

\* The contexts that are bound are bound to the right tenant.
BoundOK(p) ==
  /\ call[p].pc = "serving" => context[<<p, "request">>] = call[p].principal.tenant
  /\ scan[p].pc = "running" => context[<<p, "executor">>] = scan[p].tenant

Inv ==
  /\ Types
  /\ \A p \in Requests : LookupOK(call[p]) /\ DecisionOK(call[p]) /\ BoundOK(p)

-----------------------------------------------------------------------------
(* The chain of early returns is the documented matrix *)

\* What the scopes of a key allow is what one of them allows.
LEMMA ScopesAreAlternatives ==
  ASSUME NEW scopes \in SUBSET Scopes, NEW r \in Routes
  PROVE  ScopeAllows(scopes, r) <=> scopes = {} \/ \E s \in scopes : ScopeMay(s, r)
  <1>1. /\ r \in [path : Paths, method : {"GET", "POST", "PATCH"}]
        /\ r = [path |-> "finding", method |-> "PATCH"]
             <=> r.path = "finding" /\ r.method = "PATCH"
    BY DEF Routes
  <1>2. \A s \in scopes : ScopeMay(s, r) => ScopeAllows(scopes, r)
    <2> SUFFICES ASSUME NEW s \in scopes, ScopeMay(s, r) PROVE ScopeAllows(scopes, r)
      OBVIOUS
    <2>1. s \in Scopes
      OBVIOUS
    <2> QED
      BY <1>1, <2>1 DEF ScopeMay, ScopeAllows, Scopes, Reads, Paths
  <1>3. ASSUME ScopeAllows(scopes, r), scopes # {} PROVE \E s \in scopes : ScopeMay(s, r)
    <2>1. CASE "gateway:*" \in scopes
      BY <2>1 DEF ScopeMay
    <2>2. CASE "gateway:*" \notin scopes
      BY <1>1, <1>3, <2>2 DEF ScopeMay, ScopeAllows, Reads
    <2> QED
      BY <2>1, <2>2
  <1> QED
    BY <1>2, <1>3 DEF ScopeAllows

LEMMA PermittedIsTheMatrix ==
  ASSUME NEW who \in Principals, who.role \in ROLES, NEW r \in Routes
  PROVE  Permitted(who, r) <=> /\ RoleMay(who.role, r)
                               /\ who.scopes = {} \/ \E s \in who.scopes : ScopeMay(s, r)
  <1>1. who.scopes \in SUBSET Scopes /\ r.method \in {"GET", "POST", "PATCH"}
    BY DEF Principals, Routes
  <1>2. (r.path = "admin" => who.role = "admin") /\ (r.method \notin Reads => who.role # "viewer")
          <=> RoleMay(who.role, r)
    BY <1>1 DEF RoleMay, Reads, ROLES
  <1> QED
    BY <1>1, <1>2, ScopesAreAlternatives DEF Permitted

-----------------------------------------------------------------------------
(* Requests *)

\* A request's step, after which its frame and its context agree.
LEMMA CallStep ==
  ASSUME Inv, NEW p \in Requests, NEW f \in CallFrames, call' = [call EXCEPT ![p] = f],
         LookupOK(f), DecisionOK(f), context' \in [Tasks -> Owners],
         f.pc = "serving" => context'[<<p, "request">>] = f.principal.tenant,
         \A t \in Tasks : t # <<p, "request">> => context'[t] = context[t],
         UNCHANGED <<config, now, tenant, key, scan, changes>>
  PROVE  Inv'
  <1>1. Types' /\ call'[p] = f /\ \A q \in Requests \ {p} : call'[q] = call[q]
    BY DEF Inv, Types, config
  <1>2. LookupOK(call[p])' /\ DecisionOK(call[p])'
    BY <1>1 DEF LookupOK, DecisionOK, Over, ExpiredAt
  <1>3. \A q \in Requests : <<q, "request">> \in Tasks /\ <<q, "executor">> \in Tasks
    BY DEF Tasks
  <1>4. \A q \in Requests : /\ <<q, "executor">> # <<p, "request">>
                            /\ q # p => <<q, "request">> # <<p, "request">>
    OBVIOUS
  <1>5. BoundOK(p)'
    BY <1>1, <1>3, <1>4 DEF Inv, BoundOK
  <1>6. ASSUME NEW q \in Requests \ {p}
        PROVE  LookupOK(call[q])' /\ DecisionOK(call[q])' /\ BoundOK(q)'
    <2>1. LookupOK(call[q]) /\ DecisionOK(call[q]) /\ BoundOK(q) /\ call'[q] = call[q]
      BY <1>1 DEF Inv
    <2>2. LookupOK(call[q])' /\ DecisionOK(call[q])'
      BY <2>1 DEF LookupOK, DecisionOK, Over, ExpiredAt
    <2>3. BoundOK(q)'
      BY <1>3, <1>4, <2>1 DEF BoundOK
    <2> QED
      BY <2>2, <2>3
  <1> QED
    BY <1>1, <1>2, <1>5, <1>6 DEF Inv

\* The routine frames that name nobody.
LEMMA Nobody ==
  ASSUME NEW pc \in {"401", "done"}
  PROVE  /\ [NewCall EXCEPT !.pc = pc] \in CallFrames /\ [NewCall EXCEPT !.pc = pc].pc = pc
         /\ LookupOK([NewCall EXCEPT !.pc = pc]) /\ DecisionOK([NewCall EXCEPT !.pc = pc])
  <1> DEFINE f == [NewCall EXCEPT !.pc = pc]
  <1>1. NoKey \in KeyRows /\ NoPrincipal \in Principals
    BY DEF NoKey, KeyRows, NoPrincipal, Principal, Principals, Owners
  <1>2. f \in CallFrames /\ f.pc = pc
    BY <1>1 DEF NewCall, CallFrames
  <1> HIDE DEF f
  <1>3. LookupOK(f) /\ DecisionOK(f)
    BY <1>2 DEF LookupOK, DecisionOK
  <1> QED
    BY <1>2, <1>3 DEF f

LEMMA RefuseInv ==
  ASSUME Inv, NEW p \in Requests, Refuse(p),
         UNCHANGED <<config, now, tenant, key, scan, changes>>
  PROVE  Inv'
  <1> DEFINE f == [NewCall EXCEPT !.pc = "401"]
  <1>1. f \in CallFrames /\ f.pc = "401" /\ LookupOK(f) /\ DecisionOK(f)
    BY Nobody
  <1>2. call' = [call EXCEPT ![p] = f] /\ context' = context /\ context \in [Tasks -> Owners]
    BY DEF Refuse, Inv, Types
  <1> HIDE DEF f
  <1> QED
    BY <1>1, <1>2, CallStep

\* The application is called, for someone whose credential holds.
LEMMA CallAsInv ==
  ASSUME Inv, NEW p \in Requests, NEW c \in CallFrames, NEW who \in Principals, CallAs(p, c, who),
         c.token # None => who.role \in ROLES /\ c.route \in Routes /\ Permitted(who, c.route),
         c.token \in ApiKeys => /\ ~c.dead /\ c.alive /\ key[c.token].status # "absent"
                                /\ who.tenant = key[c.token].tenant,
         UNCHANGED <<config, now, tenant, key, scan, changes>>
  PROVE  Inv'
  <1> DEFINE f == [c EXCEPT !.pc = "serving", !.principal = who]
  <1>1. /\ f \in CallFrames /\ f.pc = "serving" /\ f.principal = who /\ f.token = c.token
        /\ f.route = c.route /\ f.dead = c.dead /\ f.alive = c.alive
    BY DEF CallFrames
  <1>2. /\ call' = [call EXCEPT ![p] = f]
        /\ context' = [context EXCEPT ![<<p, "request">>] = who.tenant]
    BY DEF CallAs, bind_tenant
  <1> HIDE DEF f
  <1>3. /\ <<p, "request">> \in Tasks /\ who.tenant \in Owners /\ context \in [Tasks -> Owners]
    BY DEF Tasks, Principals, Inv, Types
  <1>4. /\ context' \in [Tasks -> Owners] /\ context'[<<p, "request">>] = who.tenant
        /\ \A t \in Tasks : t # <<p, "request">> => context'[t] = context[t]
    BY <1>2, <1>3
  <1>5. LookupOK(f)
    BY <1>1 DEF LookupOK
  <1>6. DecisionOK(f)
    BY <1>1 DEF DecisionOK
  <1> QED
    BY <1>1, <1>2, <1>4, <1>5, <1>6, CallStep

LEMMA AuthoriseInv ==
  ASSUME Inv, NEW p \in Requests, NEW c \in CallFrames, NEW who \in Principals,
         Authorise(p, c, who), who.role \in ROLES, c.route \in Routes,
         c.token \in ApiKeys => /\ ~c.dead /\ c.alive /\ key[c.token].status # "absent"
                                /\ who.tenant = key[c.token].tenant,
         UNCHANGED <<config, now, tenant, key, scan, changes>>
  PROVE  Inv'
  <1>1. CASE Permitted(who, c.route) /\ CallAs(p, c, who)
    BY <1>1, CallAsInv
  <1>2. CASE /\ ~Permitted(who, c.route)
             /\ call' = [call EXCEPT ![p] = [c EXCEPT !.pc = "403", !.principal = who]]
             /\ UNCHANGED context
    <2> DEFINE f == [c EXCEPT !.pc = "403", !.principal = who]
    <2>1. /\ f \in CallFrames /\ f.pc = "403" /\ f.principal = who /\ f.token = c.token
          /\ f.route = c.route /\ f.dead = c.dead /\ f.alive = c.alive
      BY DEF CallFrames
    <2>2. call' = [call EXCEPT ![p] = f] /\ context' = context /\ context \in [Tasks -> Owners]
      BY <1>2 DEF Inv, Types
    <2> HIDE DEF f
    <2>3. LookupOK(f)
      BY <2>1 DEF LookupOK
    <2>4. DecisionOK(f)
      BY <1>2, <2>1 DEF DecisionOK
    <2> QED
      BY <2>1, <2>2, <2>3, <2>4, CallStep
  <1> QED
    BY <1>1, <1>2 DEF Authorise

LEMMA ArrivalType ==
  ASSUME Inv, NEW p \in Requests, NEW route \in Routes,
         NEW token \in StaticTokens \cup ApiKeys \cup {None, Session}
  PROVE  /\ Arrival(p, route, token) \in CallFrames
         /\ Arrival(p, route, token).token = token /\ Arrival(p, route, token).route = route
         /\ Arrival(p, route, token).row \in KeyRows
  <1>1. call[p] \in CallFrames
    BY DEF Inv, Types
  <1> QED
    BY <1>1 DEF Arrival, CallFrames

LEMMA PrincipalType ==
  ASSUME NEW t \in Owners, NEW role \in ROLES, NEW scopes \in SUBSET Scopes
  PROVE  /\ Principal(t, role, scopes) \in Principals /\ Principal(t, role, scopes).tenant = t
         /\ Principal(t, role, scopes).role = role
  BY DEF Principal, Principals

LEMMA ArriveUnguardedInv ==
  ASSUME Inv, NEW p \in Requests, NEW route \in Routes, ArriveUnguarded(p, route)
  PROVE  Inv'
  <1> DEFINE c == Arrival(p, route, None)
  <1>1. c \in CallFrames /\ c.token = None /\ None \notin ApiKeys
    BY ArrivalType, AccessAssumption
  <1>2. PICK who \in {Principal("_system", "viewer", {}), Principal("_auth", "viewer", {}),
                      Principal("default", "admin", {})} : CallAs(p, c, who)
    BY DEF ArriveUnguarded
  <1> HIDE DEF c
  <1>3. who \in Principals
    BY PrincipalType DEF Owners, ROLES
  <1>4. UNCHANGED <<config, now, tenant, key, scan, changes>>
    BY DEF ArriveUnguarded
  <1> QED
    BY <1>1, <1>2, <1>3, <1>4, CallAsInv

LEMMA ArriveStaticInv ==
  ASSUME Inv, NEW p \in Requests, NEW route \in Routes, NEW token \in StaticTokens,
         ArriveStatic(p, route, token)
  PROVE  Inv'
  <1> DEFINE c == Arrival(p, route, token)
  <1>1. c \in CallFrames /\ c.token = token /\ c.route = route /\ token \notin ApiKeys
    BY ArrivalType, AccessAssumption
  <1>2. /\ Authorise(p, c, principals[token]) /\ token \in DOMAIN principals
        /\ UNCHANGED <<config, now, tenant, key, scan, changes>>
    BY DEF ArriveStatic
  <1> HIDE DEF c
  <1>3. principals[token] \in Principals /\ principals[token].role \in ROLES
    BY <1>2 DEF Inv, Types
  <1> QED
    BY <1>1, <1>2, <1>3, AuthoriseInv

LEMMA ArriveWithSessionInv ==
  ASSUME Inv, NEW p \in Requests, NEW route \in Routes, ArriveWithSession(p, route)
  PROVE  Inv'
  <1> DEFINE c == Arrival(p, route, Session)
  <1>1. c \in CallFrames /\ c.token = Session /\ c.route = route /\ Session \notin ApiKeys
    BY ArrivalType, AccessAssumption
  <1>2. UNCHANGED <<config, now, tenant, key, scan, changes>>
    BY DEF ArriveWithSession
  <1>3. Refuse(p) \/ \E t \in Tenants, role \in ROLES : Authorise(p, c, Principal(t, role, {}))
    BY DEF ArriveWithSession
  <1> HIDE DEF c
  <1>4. CASE Refuse(p)
    BY <1>2, <1>4, RefuseInv
  <1>5. ASSUME NEW t \in Tenants, NEW role \in ROLES, Authorise(p, c, Principal(t, role, {}))
        PROVE  Inv'
    <2>1. Principal(t, role, {}) \in Principals /\ Principal(t, role, {}).role = role
      BY PrincipalType DEF Owners
    <2> QED
      BY <1>1, <1>2, <1>5, <2>1, AuthoriseInv
  <1> QED
    BY <1>3, <1>4, <1>5

LEMMA ArriveWithKeyInv ==
  ASSUME Inv, NEW p \in Requests, NEW route \in Routes, NEW k \in ApiKeys, ArriveWithKey(p, route, k)
  PROVE  Inv'
  <1> DEFINE dead == key[k].status = "revoked" \/ ExpiredAt(key[k], now)
             alive == key[k].status # "absent" /\ tenant[key[k].tenant] = "active"
             f == [Arrival(p, route, k) EXCEPT !.pc = "key", !.dead = dead, !.alive = alive]
  <1>1. Arrival(p, route, k) \in CallFrames /\ Arrival(p, route, k).token = k
        /\ Arrival(p, route, k).route = route
    BY ArrivalType
  <1>2. dead \in BOOLEAN /\ alive \in BOOLEAN /\ (dead <=> Over(key[k]))
    BY DEF Over, ExpiredAt
  <1>3. /\ call' = [call EXCEPT ![p] = f] /\ context' = context
        /\ UNCHANGED <<config, now, tenant, key, scan, changes>>
        /\ context \in [Tasks -> Owners]
    BY DEF ArriveWithKey, Inv, Types
  <1>4. alive <=> key[k].status # "absent" /\ tenant[key[k].tenant] = "active"
    OBVIOUS
  <1> HIDE DEF dead, alive
  <1>5. /\ f \in CallFrames /\ f.pc = "key" /\ f.token = k /\ f.route = route
        /\ f.dead = dead /\ f.alive = alive
    BY <1>1, <1>2 DEF CallFrames
  <1> HIDE DEF f
  <1>6. LookupOK(f) /\ DecisionOK(f)
    BY <1>2, <1>4, <1>5 DEF LookupOK, DecisionOK
  <1> QED
    BY <1>3, <1>5, <1>6, CallStep

LEMMA ReadKeyInv ==
  ASSUME Inv, NEW p \in Requests, ReadKey(p)
  PROVE  Inv'
  <1>1. /\ UNCHANGED <<config, now, tenant, key, scan, changes>> /\ call[p].pc = "key"
        /\ call[p] \in CallFrames /\ LookupOK(call[p]) /\ context \in [Tasks -> Owners]
    BY DEF ReadKey, Inv, Types
  <1>2. CASE Refuse(p)
    BY <1>1, <1>2, RefuseInv
  <1>3. CASE /\ key[call[p].token].status # "absent"
             /\ call' = [call EXCEPT ![p].pc = "key_tenant", ![p].row = key[call[p].token]]
             /\ UNCHANGED context
    <2> DEFINE row == key[call[p].token]
               f == [call[p] EXCEPT !.pc = "key_tenant", !.row = row]
    <2>1. call[p].token \in ApiKeys /\ row \in KeyRows /\ row.tenant \in Tenants
          /\ row.role \in ROLES
      BY <1>1, <1>3 DEF LookupOK, Inv, Types
    <2>2. call' = [call EXCEPT ![p] = f]
      BY <1>3 DEF Inv, Types
    <2>3. LookupOK(f) /\ f \in CallFrames /\ f.pc = "key_tenant"
      <3>1. /\ f.pc = "key_tenant" /\ f.token = call[p].token /\ f.row = row /\ f \in CallFrames
            /\ f.route = call[p].route /\ f.dead = call[p].dead /\ f.alive = call[p].alive
        BY <1>1, <2>1 DEF CallFrames
      <3> HIDE DEF f
      <3> QED
        BY <1>1, <1>3, <2>1, <3>1 DEF LookupOK
    <2> HIDE DEF f
    <2>4. DecisionOK(f)
      BY <2>3 DEF DecisionOK
    <2> QED
      BY <1>1, <1>3, <2>2, <2>3, <2>4, CallStep
  <1> QED
    BY <1>2, <1>3 DEF ReadKey

LEMMA ReadKeyTenantInv ==
  ASSUME Inv, NEW p \in Requests, ReadKeyTenant(p)
  PROVE  Inv'
  <1> DEFINE row == call[p].row
             who == Principal(row.tenant, row.role, row.scopes)
  <1>1. /\ UNCHANGED <<config, now, tenant, key, scan, changes>> /\ call[p].pc = "key_tenant"
        /\ call[p] \in CallFrames /\ LookupOK(call[p]) /\ row \in KeyRows
    BY DEF ReadKeyTenant, Inv, Types, CallFrames
  <1>2. /\ call[p].token \in ApiKeys /\ call[p].route \in Routes /\ row.role \in ROLES
        /\ key[call[p].token].status # "absent" /\ row.tenant = key[call[p].token].tenant
        /\ row.tenant \in Tenants /\ row.scopes \in SUBSET Scopes
    BY <1>1 DEF LookupOK, Inv, Types, KeyRows
  <1>3. CASE KeyInForce(row) /\ Authorise(p, call[p], who)
    <2>1. who \in Principals /\ who.role = row.role /\ who.tenant = row.tenant
      BY <1>2, PrincipalType DEF Owners
    <2>2. ~call[p].dead /\ call[p].alive
      BY <1>1, <1>3 DEF LookupOK, KeyInForce, Over
    <2> HIDE DEF who
    <2> QED
      BY <1>1, <1>2, <1>3, <2>1, <2>2, AuthoriseInv
  <1>4. CASE ~KeyInForce(row) /\ Refuse(p)
    BY <1>1, <1>4, RefuseInv
  <1> QED
    BY <1>3, <1>4 DEF ReadKeyTenant

LEMMA CompleteInv ==
  ASSUME Inv, NEW p \in Requests, Complete(p)
  PROVE  Inv'
  <1> DEFINE f == [NewCall EXCEPT !.pc = "done"]
  <1>1. f \in CallFrames /\ f.pc = "done" /\ LookupOK(f) /\ DecisionOK(f)
    BY Nobody
  <1>2. /\ call' = [call EXCEPT ![p] = f]
        /\ context' = [context EXCEPT ![<<p, "request">>] = "default"]
        /\ UNCHANGED <<config, now, tenant, key, scan, changes>>
    BY DEF Complete, reset_tenant
  <1> HIDE DEF f
  <1>3. context \in [Tasks -> Owners] /\ "default" \in Owners
    BY DEF Inv, Types, Owners
  <1>4. /\ context' \in [Tasks -> Owners]
        /\ \A t \in Tasks : t # <<p, "request">> => context'[t] = context[t]
    BY <1>2, <1>3
  <1> QED
    BY <1>1, <1>2, <1>4, CallStep

-----------------------------------------------------------------------------
(* Executors *)

\* An executor's step, after which its context and its scan agree.
LEMMA ScanStep ==
  ASSUME Inv, NEW p \in Requests, NEW f \in ScanFrames, NEW owner \in Owners,
         scan' = [scan EXCEPT ![p] = f],
         context' = [context EXCEPT ![<<p, "executor">>] = owner],
         f.pc = "running" => owner = f.tenant,
         UNCHANGED <<config, now, tenant, key, call, changes>>
  PROVE  Inv'
  <1>1. Types' /\ scan'[p] = f /\ \A q \in Requests \ {p} : scan'[q] = scan[q]
    BY DEF Inv, Types, config
  <1>2. \A q \in Requests : <<q, "request">> \in Tasks /\ <<q, "executor">> \in Tasks
    BY DEF Tasks
  <1>3. \A q \in Requests : /\ <<q, "request">> # <<p, "executor">>
                            /\ q # p => <<q, "executor">> # <<p, "executor">>
    OBVIOUS
  <1>4. context \in [Tasks -> Owners]
    BY DEF Inv, Types
  <1>5. /\ context'[<<p, "executor">>] = owner
        /\ \A q \in Requests : context'[<<q, "request">>] = context[<<q, "request">>]
        /\ \A q \in Requests \ {p} : context'[<<q, "executor">>] = context[<<q, "executor">>]
    BY <1>2, <1>3, <1>4
  <1>6. ASSUME NEW q \in Requests
        PROVE  LookupOK(call[q])' /\ DecisionOK(call[q])' /\ BoundOK(q)'
    <2>1. LookupOK(call[q]) /\ DecisionOK(call[q]) /\ BoundOK(q)
      BY DEF Inv
    <2>2. LookupOK(call[q])' /\ DecisionOK(call[q])'
      BY <2>1 DEF LookupOK, DecisionOK, Over, ExpiredAt
    <2>3. BoundOK(q)'
      BY <1>1, <1>5, <2>1 DEF BoundOK
    <2> QED
      BY <2>2, <2>3
  <1> QED
    BY <1>1, <1>6 DEF Inv

LEMMA SubmitScanInv ==
  ASSUME Inv, NEW p \in Requests, SubmitScan(p)
  PROVE  Inv'
  <1> DEFINE f == [pc |-> "submitted", tenant |-> call[p].principal.tenant]
             owner == IF mode = "inline" THEN context[<<p, "request">>] ELSE "default"
  <1>1. call[p] \in CallFrames /\ context \in [Tasks -> Owners] /\ <<p, "request">> \in Tasks
    BY DEF Inv, Types, Tasks
  <1>2. f \in ScanFrames /\ f.pc = "submitted" /\ owner \in Owners
    BY <1>1 DEF CallFrames, Principals, ScanFrames, Owners
  <1>3. /\ scan' = [scan EXCEPT ![p] = f]
        /\ context' = [context EXCEPT ![<<p, "executor">>] = owner]
        /\ UNCHANGED <<config, now, tenant, key, call, changes>>
    BY DEF SubmitScan
  <1> HIDE DEF f, owner
  <1> QED
    BY <1>2, <1>3, ScanStep

LEMMA AttemptBeginsInv ==
  ASSUME Inv, NEW p \in Requests, AttemptBegins(p)
  PROVE  Inv'
  <1> DEFINE f == [scan[p] EXCEPT !.pc = "running"]
  <1>1. f \in ScanFrames /\ f.tenant = scan[p].tenant /\ scan[p].tenant \in Owners
    BY DEF Inv, Types, ScanFrames
  <1>2. /\ scan' = [scan EXCEPT ![p] = f]
        /\ context' = [context EXCEPT ![<<p, "executor">>] = scan[p].tenant]
        /\ UNCHANGED <<config, now, tenant, key, call, changes>>
    BY DEF AttemptBegins, bind_tenant
  <1> HIDE DEF f
  <1> QED
    BY <1>1, <1>2, ScanStep

LEMMA AttemptEndsInv ==
  ASSUME Inv, NEW p \in Requests, NEW next \in {"submitted", "ended"}, AttemptEnds(p, next)
  PROVE  Inv'
  <1> DEFINE f == [scan[p] EXCEPT !.pc = next]
             owner == IF mode = "inline" THEN scan[p].tenant ELSE "default"
  <1>1. f \in ScanFrames /\ f.pc # "running" /\ owner \in Owners
    BY DEF Inv, Types, ScanFrames, Owners
  <1>2. /\ scan' = [scan EXCEPT ![p] = f]
        /\ context' = [context EXCEPT ![<<p, "executor">>] = owner]
        /\ UNCHANGED <<config, now, tenant, key, call, changes>>
    BY DEF AttemptEnds, reset_tenant
  <1> HIDE DEF f, owner
  <1> QED
    BY <1>1, <1>2, ScanStep

-----------------------------------------------------------------------------
(* Administration and time *)

\* A step of the environment: what the requests' frames rest on is kept for each of them.
LEMMA OutsideStep ==
  ASSUME Inv, Types', UNCHANGED <<config, scan, context>>,
         \A p \in Requests : /\ call'[p].pc = call[p].pc
                             /\ call'[p].principal = call[p].principal
                             /\ LookupOK(call[p])' /\ DecisionOK(call[p])'
  PROVE  Inv'
  <1>1. ASSUME NEW p \in Requests PROVE BoundOK(p)'
    BY DEF Inv, BoundOK
  <1> QED
    BY <1>1 DEF Inv

LEMMA SetTenantStatusInv ==
  ASSUME Inv, NEW t \in Tenants, NEW status \in {"active", "suspended"}, SetTenantStatus(t, status)
  PROVE  Inv'
  <1>1. /\ tenant' = [tenant EXCEPT ![t] = status] /\ UNCHANGED <<config, now, key, scan, context>>
        /\ call' = IF status = "active" THEN SeenActive(t) ELSE call
        /\ Types
    BY DEF SetTenantStatus, Inv
  <1>2. \A u \in Tenants : tenant'[u] = IF u = t THEN status ELSE tenant[u]
    BY <1>1 DEF Types
  <1>3. ASSUME NEW p \in Requests
        PROVE  /\ call'[p] \in CallFrames /\ call'[p].pc = call[p].pc
               /\ call'[p].route = call[p].route /\ call'[p].token = call[p].token
               /\ call'[p].row = call[p].row /\ call'[p].principal = call[p].principal
               /\ call'[p].dead = call[p].dead /\ (call[p].alive => call'[p].alive)
               /\ /\ call[p].pc \in {"key", "key_tenant"} /\ key[call[p].token].tenant = t
                  /\ status = "active"
                  => call'[p].alive
    <2>1. call[p] \in CallFrames
      BY <1>1 DEF Types
    <2>2. call'[p] = call[p] \/ call'[p] = [call[p] EXCEPT !.alive = TRUE]
      BY <1>1 DEF SeenActive
    <2>3. /\ call[p].pc \in {"key", "key_tenant"} /\ key[call[p].token].tenant = t
          /\ status = "active"
          => call'[p] = [call[p] EXCEPT !.alive = TRUE]
      BY <1>1 DEF SeenActive
    <2> QED
      BY <2>1, <2>2, <2>3 DEF CallFrames
  <1>4. Types'
    <2>1. call' \in [Requests -> CallFrames]
      <3>1. call' = [p \in Requests |-> call'[p]]
        BY <1>1 DEF SeenActive, Types
      <3> QED
        BY <1>3, <3>1
    <2>2. tenant' \in [Tenants -> {"active", "suspended"}]
      BY <1>1 DEF Types
    <2> QED
      BY <1>1, <2>1, <2>2 DEF Types, config
  <1>5. ASSUME NEW p \in Requests
        PROVE  LookupOK(call[p])' /\ DecisionOK(call[p])'
    <2>1. LookupOK(call[p]) /\ DecisionOK(call[p]) /\ \A k \in ApiKeys : key[k].status # "absent" =>
            key[k].tenant \in Tenants
      BY DEF Inv, Types
    <2>2. LookupOK(call[p])'
      BY <1>1, <1>2, <1>3, <2>1 DEF LookupOK, Over, ExpiredAt
    <2>3. DecisionOK(call[p])'
      BY <1>1, <1>3, <2>1 DEF DecisionOK
    <2> QED
      BY <2>2, <2>3
  <1> QED
    BY <1>1, <1>3, <1>4, <1>5, OutsideStep

LEMMA IssueKeyInv ==
  ASSUME Inv, NEW k \in ApiKeys, NEW t \in Tenants, NEW role \in ROLES, NEW scopes \in ScopeSets,
         NEW e \in {None} \cup (1..MaxNow), IssueKey(k, t, role, scopes, e)
  PROVE  Inv'
  <1> DEFINE row == [status |-> "active", tenant |-> t, role |-> role, scopes |-> scopes,
                     expires_at |-> e]
  <1>1. /\ key' = [key EXCEPT ![k] = row] /\ UNCHANGED <<config, now, tenant, call, scan, context>>
        /\ \A p \in Requests : call[p].token # k
        /\ Types
    BY DEF IssueKey, Inv
  <1>2. row \in KeyRows /\ row.tenant \in Tenants /\ row.role \in ROLES
    BY AccessAssumption DEF KeyRows
  <1> HIDE DEF row
  <1>3. \A j \in ApiKeys : j # k => key'[j] = key[j]
    BY <1>1 DEF Types
  <1>4. Types'
    BY <1>1, <1>2 DEF Types, config
  <1>5. ASSUME NEW p \in Requests
        PROVE  LookupOK(call[p])' /\ DecisionOK(call[p])'
    <2>1. LookupOK(call[p]) /\ DecisionOK(call[p])
      BY DEF Inv
    <2>2. call'[p] = call[p] /\ call[p].token # k
      BY <1>1
    <2>3. LookupOK(call[p])'
      BY <1>1, <1>3, <2>1, <2>2 DEF LookupOK, Over, ExpiredAt
    <2>4. DecisionOK(call[p])'
      BY <1>1, <1>3, <2>1, <2>2 DEF DecisionOK
    <2> QED
      BY <2>3, <2>4
  <1> QED
    BY <1>1, <1>4, <1>5, OutsideStep

LEMMA RevokeKeyInv ==
  ASSUME Inv, NEW k \in ApiKeys, RevokeKey(k)
  PROVE  Inv'
  <1>1. /\ key' = [key EXCEPT ![k].status = "revoked"] /\ key[k].status # "absent"
        /\ UNCHANGED <<config, now, tenant, call, scan, context>>
        /\ Types
    BY DEF RevokeKey, Inv
  <1>2. ASSUME NEW j \in ApiKeys
        PROVE  /\ key'[j] \in KeyRows
               /\ key'[j].tenant = key[j].tenant /\ key'[j].role = key[j].role
               /\ key'[j].expires_at = key[j].expires_at
               /\ key'[j].status = key[j].status \/ key'[j].status = "revoked"
               /\ key'[j].status = "absent" <=> key[j].status = "absent"
    BY <1>1 DEF Types, KeyRows
  <1>3. Types'
    <2>1. key' \in [ApiKeys -> KeyRows]
      BY <1>1, <1>2 DEF Types
    <2> QED
      BY <1>1, <1>2, <2>1 DEF Types, config
  <1>4. ASSUME NEW p \in Requests
        PROVE  LookupOK(call[p])' /\ DecisionOK(call[p])'
    <2>1. LookupOK(call[p]) /\ DecisionOK(call[p])
      BY DEF Inv
    <2>2. call'[p] = call[p]
      BY <1>1
    <2>3. LookupOK(call[p])'
      BY <1>1, <1>2, <2>1, <2>2 DEF LookupOK, Over, ExpiredAt
    <2>4. DecisionOK(call[p])'
      BY <1>1, <1>2, <2>1, <2>2 DEF DecisionOK
    <2> QED
      BY <2>3, <2>4
  <1> QED
    BY <1>1, <1>3, <1>4, OutsideStep

LEMMA TickInv ==
  ASSUME Inv, Tick
  PROVE  Inv'
  <1>1. /\ now' = now + 1 /\ now \in Nat
        /\ UNCHANGED <<config, tenant, key, call, scan, context>>
        /\ Types
    BY DEF Tick, Inv, Types
  <1>2. Types'
    BY <1>1 DEF Types, config
  <1>3. ASSUME NEW row \in KeyRows, Over(row)
        PROVE  Over(row)'
    <2>1. row.expires_at \in Nat \cup {None}
      BY DEF KeyRows
    <2> QED
      BY <1>1, <1>3, <2>1 DEF Over, ExpiredAt
  <1>4. ASSUME NEW p \in Requests
        PROVE  LookupOK(call[p])' /\ DecisionOK(call[p])'
    <2>1. LookupOK(call[p]) /\ DecisionOK(call[p]) /\ call[p] \in CallFrames
      BY DEF Inv, Types
    <2>2. DecisionOK(call[p])'
      BY <1>1, <2>1 DEF DecisionOK
    <2>3. call[p].row \in KeyRows /\ \A k \in ApiKeys : key[k] \in KeyRows
      BY <2>1 DEF CallFrames, Inv, Types
    <2>4. /\ Over(call[p].row) => call[p].row.status = "revoked" \/ ExpiredAt(call[p].row, now')
          /\ \A k \in ApiKeys : Over(key[k]) => key[k].status = "revoked" \/ ExpiredAt(key[k], now')
      BY <1>3, <2>3 DEF Over
    <2>5. LookupOK(call[p])'
      BY <1>1, <2>1, <2>4 DEF LookupOK, Over, ExpiredAt
    <2> QED
      BY <2>2, <2>5
  <1> QED
    BY <1>1, <1>2, <1>4, OutsideStep

-----------------------------------------------------------------------------
(* The theorems *)

LEMMA NextInv == Inv /\ [Next]_vars => Inv'
  <1> SUFFICES ASSUME Inv, [Next]_vars PROVE Inv'
    OBVIOUS
  <1>1. \A p \in Requests : (IF p \in Plain THEN {PostScan} ELSE Routes) \subseteq Routes
    BY DEF PostScan, Routes, Paths
  <1>2. ASSUME NEW p \in Requests, NEW route \in Routes, NEW token \in StaticTokens,
               ArriveStatic(p, route, token)
        PROVE  Inv'
    BY <1>2, ArriveStaticInv
  <1>3. ASSUME NEW p \in Requests, NEW route \in Routes, Arrive(p, route)
        PROVE  Inv'
    <2>1. ASSUME NEW token \in StaticTokens \cup ApiKeys \cup {None, Session},
                 ArriveUnknown(p, route, token)
          PROVE  Inv'
      BY <2>1, RefuseInv DEF ArriveUnknown
    <2> QED
      BY <1>3, <2>1, ArriveUnguardedInv, ArriveWithSessionInv, ArriveWithKeyInv DEF Arrive
  <1>4. ASSUME NEW p \in Requests,
               \/ ReadKey(p) \/ ReadKeyTenant(p) \/ Complete(p) \/ SubmitScan(p) \/ AttemptBegins(p)
               \/ \E next \in {"submitted", "ended"} : AttemptEnds(p, next)
        PROVE  Inv'
    BY <1>4, ReadKeyInv, ReadKeyTenantInv, CompleteInv, SubmitScanInv, AttemptBeginsInv,
       AttemptEndsInv
  <1>5. CASE Administer
    BY <1>5, SetTenantStatusInv, IssueKeyInv, RevokeKeyInv DEF Administer
  <1>6. CASE Tick
    BY <1>6, TickInv
  <1>7. CASE UNCHANGED vars
    <2>1. Types'
      BY <1>7 DEF Inv, Types, vars, config
    <2>2. ASSUME NEW p \in Requests PROVE LookupOK(call[p])' /\ DecisionOK(call[p])'
      <3>1. LookupOK(call[p]) /\ DecisionOK(call[p]) /\ call' = call
        BY <1>7 DEF Inv, vars
      <3> QED
        BY <1>7, <3>1 DEF LookupOK, DecisionOK, Over, ExpiredAt, vars
    <2> QED
      BY <1>7, <2>1, <2>2, OutsideStep DEF vars
  <1> QED
    BY <1>1, <1>2, <1>3, <1>4, <1>5, <1>6, <1>7 DEF Next

LEMMA InitInv == Init => Inv
  <1> SUFFICES ASSUME Init PROVE Inv
    OBVIOUS
  <1>1. NoKey \in KeyRows /\ NoPrincipal \in Principals
    BY DEF NoKey, KeyRows, NoPrincipal, Principal, Principals, Owners
  <1>2. NewCall \in CallFrames /\ NewCall.pc = "new"
    BY <1>1 DEF NewCall, CallFrames
  <1>3. \A b \in DOMAIN principals : principals[b] \in Principals /\ principals[b].role \in ROLES
    <2>1. PICK S \in SUBSET StaticTokens :
            principals \in [S -> {Principal(t, role, {}) : t \in Tenants, role \in StaticRoles}]
      BY DEF Init
    <2> SUFFICES ASSUME NEW b \in S
                 PROVE  principals[b] \in Principals /\ principals[b].role \in ROLES
      BY <2>1
    <2>2. PICK t \in Tenants, role \in StaticRoles : principals[b] = Principal(t, role, {})
      BY <2>1
    <2>3. t \in Owners /\ role \in ROLES
      BY AccessAssumption DEF Owners
    <2> QED
      BY <2>2, <2>3, PrincipalType
  <1>4. DOMAIN principals \subseteq StaticTokens
    BY DEF Init
  <1>5. /\ key = [k \in ApiKeys |-> NoKey] /\ NoKey.status = "absent"
        /\ call = [p \in Requests |-> NewCall] /\ now = 0
        /\ tenant = [t \in Tenants |-> "active"]
        /\ scan = [p \in Requests |-> [pc |-> "none", tenant |-> None]]
        /\ context = [t \in Tasks |-> "default"]
    BY DEF Init, NoKey
  <1>6. [pc |-> "none", tenant |-> None] \in ScanFrames /\ "default" \in Owners
    BY DEF ScanFrames, Owners
  <1>7. Types
    BY <1>1, <1>2, <1>3, <1>4, <1>5, <1>6 DEF Types
  <1>8. ASSUME NEW p \in Requests PROVE LookupOK(call[p]) /\ DecisionOK(call[p]) /\ BoundOK(p)
    <2>1. call[p].pc = "new" /\ scan[p].pc = "none"
      BY <1>2, <1>5
    <2> QED
      BY <2>1 DEF LookupOK, DecisionOK, BoundOK
  <1> QED
    BY <1>7, <1>8 DEF Inv

LEMMA AlwaysInv == Spec => []Inv
  BY InitInv, NextInv, PTL DEF Spec

\* Whoever is authenticated reaches the application exactly when the documented table of
\* roles allows the route and, for a key with scopes, one of its scopes does.
THEOREM AccessMatrix == Spec => []PermissionMatrix
  <1>1. Inv => PermissionMatrix
    <2> SUFFICES ASSUME Inv, NEW p \in Requests, call[p].token # None,
                        call[p].pc \in {"403", "serving"}
                 PROVE  call[p].pc = "serving" <=>
                          /\ RoleMay(call[p].principal.role, call[p].route)
                          /\ \/ call[p].principal.scopes = {}
                             \/ \E s \in call[p].principal.scopes : ScopeMay(s, call[p].route)
      BY DEF PermissionMatrix
    <2>1. DecisionOK(call[p]) /\ call[p].principal \in Principals
      BY DEF Inv, Types, CallFrames
    <2>2. /\ call[p].principal.role \in ROLES /\ call[p].route \in Routes
          /\ call[p].pc = "serving" <=> Permitted(call[p].principal, call[p].route)
      BY <2>1 DEF DecisionOK
    <2> QED
      BY <2>1, <2>2, PermittedIsTheMatrix
  <1> QED
    BY <1>1, AlwaysInv, PTL

\* No request is let in by a key that was revoked or had run out when the request began, nor
\* by one whose tenant was not active at any moment of the request.
THEOREM AccessRevocation == Spec => []RevokedKeysStayOut
  <1>1. Inv => RevokedKeysStayOut
    BY DEF Inv, DecisionOK, RevokedKeysStayOut
  <1> QED
    BY <1>1, AlwaysInv, PTL

\* Requests and executors use the registries under the tenant of their credential or job.
THEOREM AccessIsolation == Spec => []TenantIsolation
  <1>1. Inv => TenantIsolation
    BY DEF Inv, DecisionOK, BoundOK, TenantIsolation
  <1> QED
    BY <1>1, AlwaysInv, PTL

=============================================================================
