------------------------------- MODULE RequestAccess -------------------------------
(***************************************************************************)
(* TenantRBACMiddleware: who a request is, whether it may pass, and which    *)
(* tenant the code below it works for.                                       *)
(*                                                                         *)
(* A static token is compared in memory; an API key's row and its tenant's   *)
(* row are two SELECTs, and an administrator's process may commit between    *)
(* them.  What a session token is worth is IdentitySessions' subject: here   *)
(* it has any answer authenticate_user_session can give.  The registries     *)
(* learn their tenant from a context variable: a request runs in a task of   *)
(* its own, and the executor of a scan in another, which inline copies the    *)
(* request's context and under Celery starts from the default.               *)
(***************************************************************************)
EXTENDS Naturals, FiniteSets

CONSTANTS Requests,      \* HTTP requests
          ApiKeys,       \* API keys that may be issued
          StaticTokens,  \* bearer tokens of INTEGRATION_AUTH_TOKENS
          StaticRoles,   \* bound: the roles they are configured with
          Tenants,
          ScopeSets,     \* the scopes a key may be issued with
          None,
          Plain,         \* bound: requests that only create scans, with a static token
          MaxNow,        \* bound: the clock stops here
          MaxChanges     \* bound: administrative changes

ROLES == {"viewer", "analyst", "admin"}

Scopes == {"gateway:*", "gateway:admin", "gateway:read", "gateway:write", "scan:write",
           "finding:write"}

Session == "session"   \* a session's token, which no key and no static token is

ASSUME AccessAssumption ==
  /\ ScopeSets \subseteq SUBSET Scopes /\ StaticRoles \subseteq ROLES
  /\ Requests \cap (ApiKeys \cup StaticTokens) = {} /\ ApiKeys \cap StaticTokens = {}
  /\ None \notin ApiKeys \cup StaticTokens \cup Tenants
  /\ Session \notin ApiKeys \cup StaticTokens
  /\ Plain \subseteq Requests /\ MaxNow \in Nat /\ MaxChanges \in Nat

VARIABLES backend,     \* INTEGRATION_AUTH_BACKEND
          principals,  \* tenant and role of each configured static token
          mode,        \* INTEGRATION_JOB_MODE
          now,
          tenant,      \* status of each tenant's row
          key,         \* the API key rows
          call,        \* what each request is doing
          scan,        \* the executor of the scan a request created, and the scan's tenant
          context,     \* the tenant each task's context is bound to
          changes

config == <<backend, principals, mode>>
vars == <<config, now, tenant, key, call, scan, context, changes>>

\* /livez, the routes that authenticate themselves, /v1/admin/..., scans, a finding, the rest
Paths == {"public", "route_auth", "admin", "scans", "finding", "other"}

Reads == {"GET"}

\* One route for each case the middleware tells apart; "finding" is /v1/findings/{id}.
Routes ==
  {r \in [path : Paths, method : {"GET", "POST", "PATCH"}] :
     /\ r.method = "PATCH" => r.path = "finding"
     /\ r.path = "finding" => r.method # "GET"
     /\ r.path = "public" => r.method = "GET"
     /\ r.path = "route_auth" => r.method = "POST"}

PostScan == [path |-> "scans", method |-> "POST"]

\* A principal without scopes, or with None for them, is not restricted by scope.
Principal(t, role, scopes) == [tenant |-> t, role |-> role, scopes |-> scopes]

NoPrincipal == Principal(None, None, {})

NoKey == [status |-> "absent", tenant |-> None, role |-> None, scopes |-> {}, expires_at |-> None]

NewCall == [pc |-> "new", route |-> None, token |-> None, row |-> NoKey,
            principal |-> NoPrincipal, dead |-> FALSE, alive |-> TRUE]

Tasks == Requests \X {"request", "executor"}

Init ==
  /\ backend \in {"static", "database", "hybrid"}
  /\ mode \in {"inline", "celery"}
  /\ principals \in
       UNION {[S -> {Principal(t, role, {}) : t \in Tenants, role \in StaticRoles}] :
                S \in SUBSET StaticTokens}
  /\ backend = "database" => DOMAIN principals = {}
  /\ now = 0
  /\ tenant = [t \in Tenants |-> "active"]
  /\ key = [k \in ApiKeys |-> NoKey]
  /\ call = [p \in Requests |-> NewCall]
  /\ scan = [p \in Requests |-> [pc |-> "none", tenant |-> None]]
  /\ context = [t \in Tasks |-> "default"]
  /\ changes = 0

-----------------------------------------------------------------------------
(* The tenant of a context *)

\* Mutant: a variable of the process instead of a context variable.
BindTenantGlobally(c, task, t) == [x \in Tasks |-> t]

bind_tenant(c, task, t) == [c EXCEPT ![task] = t]

\* reset_tenant restores what the context held before.
reset_tenant(c, task, before) == [c EXCEPT ![task] = before]

-----------------------------------------------------------------------------
(* Authorisation *)

\* Mutant: reading is decided before the administration's paths are.
ScopeAllowsReadsFirst(scopes, route) ==
  \/ scopes = {} \/ "gateway:*" \in scopes
  \/ IF route.method \in Reads THEN "gateway:read" \in scopes
     ELSE IF route.path = "admin" THEN "gateway:admin" \in scopes
     ELSE IF route.path = "scans" THEN "scan:write" \in scopes
     ELSE IF route.path = "finding" /\ route.method = "PATCH" THEN "finding:write" \in scopes
     ELSE "gateway:write" \in scopes

ScopeAllows(scopes, route) ==
  \/ scopes = {} \/ "gateway:*" \in scopes
  \/ IF route.path = "admin" THEN "gateway:admin" \in scopes
     ELSE IF route.method \in Reads THEN "gateway:read" \in scopes
     ELSE IF route.path = "scans" THEN "scan:write" \in scopes
     ELSE IF route.path = "finding" /\ route.method = "PATCH" THEN "finding:write" \in scopes
     ELSE "gateway:write" \in scopes

Permitted(who, route) ==
  /\ route.path = "admin" => who.role = "admin"
  /\ route.method \notin Reads => who.role # "viewer"
  /\ ScopeAllows(who.scopes, route)

\* _call_as: the application is called under the principal's tenant.
CallAs(p, c, who) ==
  /\ call' = [call EXCEPT ![p] = [c EXCEPT !.pc = "serving", !.principal = who]]
  /\ context' = bind_tenant(context, <<p, "request">>, who.tenant)

\* 401 names nobody.
Refuse(p) ==
  /\ call' = [call EXCEPT ![p] = [NewCall EXCEPT !.pc = "401"]]
  /\ UNCHANGED context

\* Nothing is awaited between the authentication's answer and the application's call.
Authorise(p, c, who) ==
  \/ Permitted(who, c.route) /\ CallAs(p, c, who)
  \/ /\ ~Permitted(who, c.route)
     /\ call' = [call EXCEPT ![p] = [c EXCEPT !.pc = "403", !.principal = who]]
     /\ UNCHANGED context

-----------------------------------------------------------------------------
(* Requests *)

Arrival(p, route, token) == [call[p] EXCEPT !.route = route, !.token = token]

\* Neither static tokens nor an authenticator: every request is the default administrator's.
Open == DOMAIN principals = {} /\ backend = "static"

ArriveUnguarded(p, route) ==
  /\ call[p].pc = "new"
  /\ LET c == Arrival(p, route, None) IN
     \/ route.path = "public" /\ CallAs(p, c, Principal("_system", "viewer", {}))
     \/ route.path = "route_auth" /\ CallAs(p, c, Principal("_auth", "viewer", {}))
     \/ /\ route.path \notin {"public", "route_auth"} /\ Open
        /\ CallAs(p, c, Principal("default", "admin", {}))
  /\ UNCHANGED <<config, now, tenant, key, scan, changes>>

Guarded(p, route) == call[p].pc = "new" /\ route.path \notin {"public", "route_auth"} /\ ~Open

\* No bearer token, or one that nobody knows here.
ArriveUnknown(p, route, token) ==
  /\ Guarded(p, route)
  /\ token \notin DOMAIN principals
  /\ backend = "static" \/ token \in StaticTokens \cup {None}
  /\ Refuse(p)
  /\ UNCHANGED <<config, now, tenant, key, scan, changes>>

ArriveStatic(p, route, token) ==
  /\ Guarded(p, route) /\ token \in DOMAIN principals
  /\ Authorise(p, Arrival(p, route, token), principals[token])
  /\ UNCHANGED <<config, now, tenant, key, scan, changes>>

\* authenticate_user_session refuses, or names the tenant and the role of a membership.
ArriveWithSession(p, route) ==
  /\ Guarded(p, route) /\ backend # "static"
  /\ LET c == Arrival(p, route, Session) IN
     \/ Refuse(p)
     \/ \E t \in Tenants, role \in ROLES : Authorise(p, c, Principal(t, role, {}))
  /\ UNCHANGED <<config, now, tenant, key, scan, changes>>

ExpiredAt(row, t) == row.expires_at # None /\ row.expires_at <= t

\* A token that is not a session's is looked up among the keys.
ArriveWithKey(p, route, k) ==
  /\ Guarded(p, route) /\ backend # "static" /\ k \notin DOMAIN principals
  /\ call' = [call EXCEPT ![p] = [Arrival(p, route, k) EXCEPT !.pc = "key",
                !.dead = key[k].status = "revoked" \/ ExpiredAt(key[k], now),
                !.alive = key[k].status # "absent" /\ tenant[key[k].tenant] = "active"]]
  /\ UNCHANGED <<config, now, tenant, key, scan, context, changes>>

ReadKey(p) ==
  /\ call[p].pc = "key"
  /\ \/ /\ key[call[p].token].status # "absent"
        /\ call' = [call EXCEPT ![p].pc = "key_tenant", ![p].row = key[call[p].token]]
        /\ UNCHANGED context
     \/ /\ key[call[p].token].status = "absent"
        /\ Refuse(p)
  /\ UNCHANGED <<config, now, tenant, key, scan, changes>>

\* Mutant: the key's expiry is not looked at.
KeyInForceUnlimited(row) == tenant[row.tenant] = "active" /\ row.status # "revoked"

\* The revocation is what the first SELECT saw, the clock is read after the second.
KeyInForce(row) ==
  tenant[row.tenant] = "active" /\ row.status # "revoked" /\ ~ExpiredAt(row, now)

ReadKeyTenant(p) ==
  /\ call[p].pc = "key_tenant"
  /\ LET row == call[p].row IN
     \/ KeyInForce(row) /\ Authorise(p, call[p], Principal(row.tenant, row.role, row.scopes))
     \/ ~KeyInForce(row) /\ Refuse(p)
  /\ UNCHANGED <<config, now, tenant, key, scan, changes>>

\* The response is complete, or the application raised.
Complete(p) ==
  /\ call[p].pc = "serving"
  /\ call' = [call EXCEPT ![p] = [NewCall EXCEPT !.pc = "done"]]
  /\ context' = reset_tenant(context, <<p, "request">>, "default")
  /\ UNCHANGED <<config, now, tenant, key, scan, changes>>

-----------------------------------------------------------------------------
(* The executor of a scan that a request created *)

SubmitScan(p) ==
  /\ call[p].pc = "serving" /\ call[p].route = PostScan
  /\ scan[p].pc = "none"
  /\ scan' = [scan EXCEPT ![p] = [pc |-> "submitted", tenant |-> call[p].principal.tenant]]
  /\ context' = [context EXCEPT ![<<p, "executor">>] =
                   IF mode = "inline" THEN context[<<p, "request">>] ELSE "default"]
  /\ UNCHANGED <<config, now, tenant, key, call, changes>>

AttemptBegins(p) ==
  /\ scan[p].pc = "submitted"
  /\ scan' = [scan EXCEPT ![p].pc = "running"]
  /\ context' = bind_tenant(context, <<p, "executor">>, scan[p].tenant)
  /\ UNCHANGED <<config, now, tenant, key, call, changes>>

\* The attempt was the last one, or another follows.
AttemptEnds(p, next) ==
  /\ scan[p].pc = "running"
  /\ scan' = [scan EXCEPT ![p].pc = next]
  /\ context' = reset_tenant(context, <<p, "executor">>,
                             IF mode = "inline" THEN scan[p].tenant ELSE "default")
  /\ UNCHANGED <<config, now, tenant, key, call, changes>>

-----------------------------------------------------------------------------
(* Administration *)

Change == changes < MaxChanges /\ changes' = changes + 1

\* History: a request was under way when the tenant of its key was active.
SeenActive(t) ==
  [p \in Requests |-> IF call[p].pc \in {"key", "key_tenant"} /\ key[call[p].token].tenant = t
                        THEN [call[p] EXCEPT !.alive = TRUE] ELSE call[p]]

\* "disabled" is another status that is not active.
SetTenantStatus(t, status) ==
  /\ Change
  /\ tenant' = [tenant EXCEPT ![t] = status]
  /\ call' = IF status = "active" THEN SeenActive(t) ELSE call
  /\ UNCHANGED <<config, now, key, scan, context>>

\* A key is unknown to its holder before the command has answered.
IssueKey(k, t, role, scopes, expires_at) ==
  /\ key[k].status = "absent" /\ tenant[t] = "active"
  /\ expires_at # None => expires_at > now
  /\ \A p \in Requests : call[p].token # k
  /\ Change
  /\ key' = [key EXCEPT ![k] = [status |-> "active", tenant |-> t, role |-> role,
                                scopes |-> scopes, expires_at |-> expires_at]]
  /\ UNCHANGED <<config, now, tenant, call, scan, context>>

RevokeKey(k) ==
  /\ key[k].status # "absent" /\ Change
  /\ key' = [key EXCEPT ![k].status = "revoked"]
  /\ UNCHANGED <<config, now, tenant, call, scan, context>>

Tick ==
  /\ now < MaxNow /\ now' = now + 1
  /\ UNCHANGED <<config, tenant, key, call, scan, context, changes>>

Arrive(p, route) ==
  \/ ArriveUnguarded(p, route) \/ ArriveWithSession(p, route)
  \/ \E token \in StaticTokens \cup ApiKeys \cup {None, Session} : ArriveUnknown(p, route, token)
  \/ \E k \in ApiKeys : ArriveWithKey(p, route, k)

Administer ==
  \/ \E t \in Tenants, s \in {"active", "suspended"} : SetTenantStatus(t, s)
  \/ \E k \in ApiKeys, t \in Tenants, role \in ROLES, scopes \in ScopeSets,
        e \in {None} \cup (1..MaxNow) : IssueKey(k, t, role, scopes, e)
  \/ \E k \in ApiKeys : RevokeKey(k)

Next ==
  \/ \E p \in Requests :
       \/ \E route \in (IF p \in Plain THEN {PostScan} ELSE Routes) :
            \/ \E token \in StaticTokens : ArriveStatic(p, route, token)
            \/ p \notin Plain /\ Arrive(p, route)
       \/ ReadKey(p) \/ ReadKeyTenant(p) \/ Complete(p)
       \/ SubmitScan(p) \/ AttemptBegins(p)
       \/ \E next \in {"submitted", "ended"} : AttemptEnds(p, next)
  \/ Administer
  \/ Tick

Spec == Init /\ [][Next]_vars

-----------------------------------------------------------------------------
(* Properties *)

\* docs/architecture.md, the table of roles: what each role may do.
RoleMay(role, r) ==
  \/ r.path # "admin" /\ r.method = "GET"
  \/ r.path # "admin" /\ role \in {"analyst", "admin"}
  \/ role = "admin"

\* What one scope of a key adds.
ScopeMay(scope, r) ==
  CASE scope = "gateway:*" -> TRUE
    [] scope = "gateway:admin" -> r.path = "admin"
    [] scope = "gateway:read" -> r.path # "admin" /\ r.method = "GET"
    [] scope = "scan:write" -> r.path = "scans" /\ r.method # "GET"
    [] scope = "finding:write" -> r = [path |-> "finding", method |-> "PATCH"]
    [] OTHER -> /\ r.path \notin {"admin", "scans"} /\ r.method # "GET"
                /\ r # [path |-> "finding", method |-> "PATCH"]

\* The middleware's chain of early returns is the matrix of the documentation: whoever is
\* authenticated reaches the application exactly when the role allows the route and, for a
\* key with scopes, one of the scopes does; scopes never give what the role does not.
PermissionMatrix ==
  \A p \in Requests : LET c == call[p] IN
    c.token # None /\ c.pc \in {"403", "serving"} =>
      (c.pc = "serving" <=> /\ RoleMay(c.principal.role, c.route)
                            /\ \/ c.principal.scopes = {}
                               \/ \E s \in c.principal.scopes : ScopeMay(s, c.route))

\* No request that begins after its key was revoked or ran out is let in, nor one whose
\* key's tenant was not active at any moment of it, though the two rows are read apart.
RevokedKeysStayOut ==
  \A p \in Requests :
    call[p].token \in ApiKeys /\ call[p].pc \in {"403", "serving"} =>
      ~call[p].dead /\ call[p].alive

\* "跨租户访问全部拒绝" (docs/architecture.md): however requests and executors interleave, the
\* registries are used under the tenant of the credential, and an executor's under its job's.
TenantIsolation ==
  \A p \in Requests : LET c == call[p] IN
    /\ c.pc = "serving" => context[<<p, "request">>] = c.principal.tenant
    /\ scan[p].pc = "running" => context[<<p, "executor">>] = scan[p].tenant
    /\ c.token \in ApiKeys /\ c.pc = "serving" => c.principal.tenant = key[c.token].tenant

=============================================================================
