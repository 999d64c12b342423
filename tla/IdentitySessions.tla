----------------------------- MODULE IdentitySessions -----------------------------
(***************************************************************************)
(* User sessions: the bridge exchanges an identity for a session, requests  *)
(* are authenticated with it, and handlers and administrators revoke.       *)
(*                                                                         *)
(* SQLAlchemyIdentityRepository reads the rows of a decision one SELECT at   *)
(* a time, without locks, so under READ COMMITTED another process may        *)
(* commit between any two of them: every SELECT is a step here, with the     *)
(* writes of its transaction at the last one.  A session's id is the name    *)
(* of the exchange that issued it.  Secrets and hashes are abstracted: a     *)
(* token is known to whom the exchange's answer gave it.                     *)
(***************************************************************************)
EXTENDS Naturals, FiniteSets

CONSTANTS Exchanges,   \* POST /v1/auth/exchange calls
          Calls,       \* requests with a session token
          Revokes,     \* POST /v1/auth/session/revoke calls and user-session-revoke commands
          Tenants, Subjects, IdentityClients, Roles,
          None,
          ttl,         \* session lifetime
          MaxNow,      \* bound: the clock stops here
          MaxChanges   \* bound: administrative changes

ASSUME SessionsAssumption ==
  /\ Exchanges \cap (Calls \cup Revokes) = {} /\ Calls \cap Revokes = {}
  /\ None \notin Exchanges \cup IdentityClients
  /\ ttl \in Nat \ {0} /\ MaxNow \in Nat /\ MaxChanges \in Nat

VARIABLES now,
          tenant,      \* status of each tenant's row, "absent" without one
          user,        \* the user row of each subject: the exchange that inserted it
          membership,  \* status and role in each tenant
          client,      \* status of each identity client
          session,     \* the session rows
          frame,       \* what each handler is doing
          changes      \* administrative changes so far

vars == <<now, tenant, user, membership, client, session, frame, changes>>

Handlers == Exchanges \cup Calls \cup Revokes

NoSession == [status |-> "absent", tenant |-> None, subject |-> None, client |-> None,
              expires_at |-> 0]

NewFrame == [pc |-> "new", session |-> None, client |-> None, tenant |-> None, subject |-> None,
             user_id |-> None, now |-> 0, dead |-> FALSE, disturbed |-> FALSE]

\* Provisioned is the user row an earlier exchange left behind.
Provisioned == "provisioned"

Init ==
  /\ now = 0
  /\ tenant \in [Tenants -> {"absent", "active"}]
  /\ user \in [Subjects -> {None, Provisioned}]
  /\ membership \in [Tenants \X Subjects -> {[status |-> "absent", role |-> None]}
                                              \cup [status : {"active"}, role : Roles]]
  /\ \A t \in Tenants, u \in Subjects :
       membership[<<t, u>>].status = "active" => tenant[t] = "active" /\ user[u] = Provisioned
  /\ client \in [IdentityClients -> {"absent", "active"}]
  /\ session = [e \in Exchanges |-> NoSession]
  /\ frame = [p \in Handlers |-> NewFrame]
  /\ changes = 0

Goto(p, pc) == frame' = [frame EXCEPT ![p].pc = pc]

\* History: the rows a request is being decided on change under it.
Disturb(f) ==
  [p \in Handlers |-> IF p \in Calls /\ f[p].pc # "new" THEN [f[p] EXCEPT !.disturbed = TRUE]
                      ELSE f[p]]

Row(p) == session[frame[p].session]

-----------------------------------------------------------------------------
(* authenticate_user_session *)

\* Revoked, expired or issued by a revoked client: nothing makes such a session valid again.
Dead(s) ==
  \/ session[s].status # "live" \/ session[s].expires_at <= now
  \/ client[session[s].client] # "active"

Valid(s) ==
  /\ ~Dead(s)
  /\ tenant[session[s].tenant] = "active"
  /\ membership[<<session[s].tenant, session[s].subject>>].status = "active"

\* The clock is read before the transaction.
Authenticating(f, s, row_dead) ==
  [f EXCEPT !.pc = "session", !.session = s, !.now = now, !.dead = row_dead]

ReadSession(p) ==
  /\ frame[p].pc = "session"
  /\ Goto(p, IF Row(p).status = "live" /\ Row(p).expires_at > frame[p].now
               THEN "client" ELSE "denied")
  /\ UNCHANGED <<now, tenant, user, membership, client, session, changes>>

\* Mutant: the client's row is not looked at.
ReadClientUnchecked(p) ==
  /\ frame[p].pc = "client"
  /\ Goto(p, "tenant")
  /\ UNCHANGED <<now, tenant, user, membership, client, session, changes>>

ReadClient(p) ==
  /\ frame[p].pc = "client"
  /\ Goto(p, IF client[Row(p).client] = "active" THEN "tenant" ELSE "denied")
  /\ UNCHANGED <<now, tenant, user, membership, client, session, changes>>

\* Mutant: the tenant's row is not looked at.
ReadTenantUnchecked(p) ==
  /\ frame[p].pc = "tenant"
  /\ Goto(p, "membership")
  /\ UNCHANGED <<now, tenant, user, membership, client, session, changes>>

ReadTenant(p) ==
  /\ frame[p].pc = "tenant"
  /\ Goto(p, IF tenant[Row(p).tenant] = "active" THEN "membership" ELSE "denied")
  /\ UNCHANGED <<now, tenant, user, membership, client, session, changes>>

\* The UPDATE of last_seen_at finds no row if a cleanup deleted it: the request fails.
ReadMembership(p) ==
  /\ frame[p].pc = "membership"
  /\ Goto(p, IF membership[<<Row(p).tenant, Row(p).subject>>].status # "active" THEN "denied"
             ELSE IF Row(p).status = "deleted" THEN "error" ELSE "granted")
  /\ UNCHANGED <<now, tenant, user, membership, client, session, changes>>

Authenticate(p) == ReadSession(p) \/ ReadClient(p) \/ ReadTenant(p) \/ ReadMembership(p)

-----------------------------------------------------------------------------
(* revoke_user_session *)

\* Without a lock: the row is read, then written.
RevokeRead(p) ==
  /\ frame[p].pc = "revoke"
  /\ Goto(p, IF Row(p).status = "live" THEN "revoke_write" ELSE "revoked")
  /\ UNCHANGED <<now, tenant, user, membership, client, session, changes>>

RevokeWrite(p) ==
  /\ frame[p].pc = "revoke_write"
  /\ \/ /\ Row(p).status # "deleted"
        /\ session' = [session EXCEPT ![frame[p].session].status = "revoked"]
        /\ frame' = Disturb([frame EXCEPT ![p].pc = "revoked"])
     \/ /\ Row(p).status = "deleted"
        /\ Goto(p, "error")
        /\ UNCHANGED session
  /\ UNCHANGED <<now, tenant, user, membership, client, changes>>

-----------------------------------------------------------------------------
(* POST /v1/auth/exchange *)

\* authenticate_identity_client; trusted: the issuer is on the client's list, which a
\* rotation copies and nothing changes.
ExchangeBegins(p, c, t, u, trusted) ==
  /\ frame[p].pc = "new"
  /\ \/ /\ client[c] = "active" /\ trusted
        /\ frame' = [frame EXCEPT ![p].pc = "upsert", ![p].client = c, ![p].tenant = t,
                                  ![p].subject = u]
     \/ /\ client[c] # "active" \/ ~trusted
        /\ Goto(p, "401")
  /\ UNCHANGED <<now, tenant, user, membership, client, session, changes>>

HasUser(p, id) == frame' = [frame EXCEPT ![p].pc = "issue_client", ![p].user_id = id,
                                         ![p].now = now]

UpsertUser(p) ==
  /\ frame[p].pc = "upsert"
  /\ \/ user[frame[p].subject] # None /\ HasUser(p, user[frame[p].subject])
     \/ user[frame[p].subject] = None /\ Goto(p, "insert_user")
  /\ UNCHANGED <<now, tenant, user, membership, client, session, changes>>

\* Mutant: no unique index, only the lookup before.
InsertUserUnindexed(p) ==
  /\ frame[p].pc = "insert_user"
  /\ user' = [user EXCEPT ![frame[p].subject] = p]
  /\ HasUser(p, p)
  /\ UNCHANGED <<now, tenant, membership, client, session, changes>>

\* The unique index of (issuer, subject): the loser reads the winner's row.
InsertUser(p) ==
  /\ frame[p].pc = "insert_user"
  /\ \/ /\ user[frame[p].subject] = None
        /\ user' = [user EXCEPT ![frame[p].subject] = p]
        /\ HasUser(p, p)
     \/ /\ user[frame[p].subject] # None
        /\ HasUser(p, user[frame[p].subject])
        /\ UNCHANGED user
  /\ UNCHANGED <<now, tenant, membership, client, session, changes>>

\* issue_user_session raises at the first row that is not active.
IssueRead(p, at, active, next) ==
  /\ frame[p].pc = at
  /\ \/ active /\ Goto(p, next)
     \/ ~active /\ Goto(p, "403")
  /\ UNCHANGED <<now, tenant, user, membership, client, session, changes>>

IssueClient(p) == IssueRead(p, "issue_client", client[frame[p].client] = "active", "issue_tenant")

IssueTenant(p) == IssueRead(p, "issue_tenant", tenant[frame[p].tenant] = "active", "issue")

\* Mutant: the session row does not name its client.
NewSessionWithoutClient(f) ==
  [status |-> "live", tenant |-> f.tenant, subject |-> f.subject, client |-> None,
   expires_at |-> f.now + ttl]

NewSession(f) ==
  [status |-> "live", tenant |-> f.tenant, subject |-> f.subject, client |-> f.client,
   expires_at |-> f.now + ttl]

\* The membership is read, the row inserted, and the new session authenticated.
IssueSession(p) ==
  /\ frame[p].pc = "issue"
  /\ \/ /\ membership[<<frame[p].tenant, frame[p].subject>>].status = "active"
        /\ session' = [session EXCEPT ![p] = NewSession(frame[p])]
        /\ frame' = [frame EXCEPT ![p] = Authenticating(@, p, FALSE)]
     \/ /\ membership[<<frame[p].tenant, frame[p].subject>>].status # "active"
        /\ Goto(p, "403")
        /\ UNCHANGED session
  /\ UNCHANGED <<now, tenant, user, membership, client, changes>>

\* Mutant: the exchange is refused and its session kept.
ExchangeAnswersOnly(p) ==
  /\ p \in Exchanges
  /\ \/ frame[p].pc = "granted" /\ Goto(p, "200")
     \/ frame[p].pc = "denied" /\ Goto(p, "403")
  /\ UNCHANGED <<now, tenant, user, membership, client, session, changes>>

\* "membership/client changed during the exchange": the session is revoked again.
ExchangeAnswers(p) ==
  /\ p \in Exchanges
  /\ \/ frame[p].pc = "granted" /\ Goto(p, "200")
     \/ frame[p].pc = "denied" /\ Goto(p, "revoke")
     \/ frame[p].pc = "revoked" /\ Goto(p, "403")
  /\ UNCHANGED <<now, tenant, user, membership, client, session, changes>>

Exchange(p) ==
  \/ UpsertUser(p) \/ InsertUser(p) \/ IssueClient(p) \/ IssueTenant(p) \/ IssueSession(p)
  \/ Authenticate(p) \/ ExchangeAnswers(p) \/ RevokeRead(p) \/ RevokeWrite(p)

-----------------------------------------------------------------------------
(* Requests and revocations *)

Disclosed(s) == frame[s].pc = "200"

CallBegins(p, s) ==
  /\ frame[p].pc = "new" /\ Disclosed(s)
  /\ frame' = [frame EXCEPT ![p] = Authenticating(@, s, Dead(s))]
  /\ UNCHANGED <<now, tenant, user, membership, client, session, changes>>

\* revoke_session with the session's own token, c = None, or with a bridge's.
RevokeBegins(p, s, c) ==
  /\ frame[p].pc = "new" /\ Disclosed(s)
  /\ IF c = None \/ client[c] = "active"
       THEN frame' = [frame EXCEPT ![p] = [Authenticating(@, s, FALSE) EXCEPT !.client = c]]
       ELSE Goto(p, "401")
  /\ UNCHANGED <<now, tenant, user, membership, client, session, changes>>

\* A bridge may only revoke the sessions it issued.
RevokeAuthorised(p) ==
  /\ p \in Revokes
  /\ \/ frame[p].pc = "granted" /\ frame[p].client \in {None, Row(p).client} /\ Goto(p, "revoke")
     \/ frame[p].pc = "granted" /\ frame[p].client \notin {None, Row(p).client} /\ Goto(p, "401")
     \/ frame[p].pc = "denied" /\ Goto(p, "401")
  /\ UNCHANGED <<now, tenant, user, membership, client, session, changes>>

\* The administrator's command names a session and is not authenticated by one.
AdminRevokes(p, s) ==
  /\ frame[p].pc = "new" /\ session[s].status # "absent"
  /\ frame' = [frame EXCEPT ![p].pc = "revoke", ![p].session = s]
  /\ UNCHANGED <<now, tenant, user, membership, client, session, changes>>

-----------------------------------------------------------------------------
(* Administration.  Writing the value a row already has is a stuttering step. *)

Change == changes < MaxChanges /\ changes' = changes + 1 /\ frame' = Disturb(frame)

CreateTenant(t) ==
  /\ tenant[t] = "absent" /\ Change
  /\ tenant' = [tenant EXCEPT ![t] = "active"]
  /\ UNCHANGED <<now, user, membership, client, session>>

\* "disabled" is another status that is not active.
SetTenantStatus(t, status) ==
  /\ tenant[t] \notin {"absent", status} /\ Change
  /\ tenant' = [tenant EXCEPT ![t] = status]
  /\ UNCHANGED <<now, user, membership, client, session>>

\* user-upsert: a user row that no exchange inserted.
ProvisionUser(u) ==
  /\ user[u] = None /\ Change
  /\ user' = [user EXCEPT ![u] = Provisioned]
  /\ UNCHANGED <<now, tenant, membership, client, session>>

\* A new membership is active; an old one keeps its status.
SetMembership(t, u, role) ==
  /\ tenant[t] # "absent" /\ user[u] # None /\ membership[<<t, u>>].role # role /\ Change
  /\ membership' = [membership EXCEPT ![<<t, u>>] =
       [status |-> IF @.status = "absent" THEN "active" ELSE @.status, role |-> role]]
  /\ UNCHANGED <<now, tenant, user, client, session>>

SetMembershipStatus(t, u, status) ==
  /\ membership[<<t, u>>].status \notin {"absent", status} /\ Change
  /\ membership' = [membership EXCEPT ![<<t, u>>].status = status]
  /\ UNCHANGED <<now, tenant, user, client, session>>

CreateClient(c) ==
  /\ client[c] = "absent" /\ Change
  /\ client' = [client EXCEPT ![c] = "active"]
  /\ UNCHANGED <<now, tenant, user, membership, session>>

\* The rotated client stays active until it is revoked.
RotateClient(c, d) ==
  /\ client[c] = "active" /\ client[d] = "absent" /\ Change
  /\ client' = [client EXCEPT ![d] = "active"]
  /\ UNCHANGED <<now, tenant, user, membership, session>>

RevokeClient(c) ==
  /\ client[c] = "active" /\ Change
  /\ client' = [client EXCEPT ![c] = "revoked"]
  /\ UNCHANGED <<now, tenant, user, membership, session>>

CleanupExpired ==
  /\ \E e \in Exchanges : session[e].status \in {"live", "revoked"} /\ session[e].expires_at <= now
  /\ session' = [e \in Exchanges |->
       IF session[e].status \in {"live", "revoked"} /\ session[e].expires_at <= now
         THEN [session[e] EXCEPT !.status = "deleted"] ELSE session[e]]
  /\ UNCHANGED <<now, tenant, user, membership, client, frame, changes>>

Tick ==
  /\ now < MaxNow /\ now' = now + 1 /\ frame' = Disturb(frame)
  /\ UNCHANGED <<tenant, user, membership, client, session, changes>>

AdministerTenants ==
  \/ \E t \in Tenants : CreateTenant(t)
  \/ \E t \in Tenants, s \in {"active", "suspended"} : SetTenantStatus(t, s)
  \/ \E u \in Subjects : ProvisionUser(u)
  \/ \E t \in Tenants, u \in Subjects, role \in Roles : SetMembership(t, u, role)
  \/ \E t \in Tenants, u \in Subjects, s \in {"active", "suspended"} : SetMembershipStatus(t, u, s)

AdministerClients ==
  \/ \E c \in IdentityClients : CreateClient(c)
  \/ \E c, d \in IdentityClients : RotateClient(c, d)
  \/ \E c \in IdentityClients : RevokeClient(c)
  \/ CleanupExpired

Next ==
  \/ \E p \in Exchanges :
       \/ \E c \in IdentityClients, t \in Tenants, u \in Subjects, trusted \in BOOLEAN :
            ExchangeBegins(p, c, t, u, trusted)
       \/ Exchange(p)
  \/ \E p \in Calls : (\E s \in Exchanges : CallBegins(p, s)) \/ Authenticate(p)
  \/ \E p \in Revokes :
       \/ \E s \in Exchanges, c \in IdentityClients \cup {None} : RevokeBegins(p, s, c)
       \/ \E s \in Exchanges : AdminRevokes(p, s)
       \/ Authenticate(p) \/ RevokeAuthorised(p) \/ RevokeRead(p) \/ RevokeWrite(p)
  \/ AdministerTenants
  \/ AdministerClients
  \/ Tick

Spec == Init /\ [][Next]_vars

-----------------------------------------------------------------------------
(* Properties *)

Pcs == {"new", "session", "client", "tenant", "membership", "granted", "denied", "error",
        "revoke", "revoke_write", "revoked", "upsert", "insert_user", "issue_client",
        "issue_tenant", "issue", "200", "401", "403"}

\* Rows and frames keep their shape, and a session row names what its exchange was given.
TypeOK ==
  /\ now \in 0..MaxNow /\ changes \in 0..MaxChanges
  /\ \A t \in Tenants : tenant[t] \in {"absent", "active", "suspended"}
  /\ \A e \in Exchanges : session[e].status # "absent" =>
       /\ session[e].client \in IdentityClients /\ session[e].tenant \in Tenants
       /\ session[e].expires_at \in 0..(MaxNow + ttl)
  /\ \A p \in Handlers : frame[p].pc \in Pcs

\* m3-auth-rollout-rollback: revoking a client, like revoking or outliving a session, takes
\* effect on the next request, though the four rows are read one after the other: no request
\* that begins after it is let in, whatever else changes while the rows are read.
RevocationIsPermanent == \A p \in Calls : frame[p].pc = "granted" => ~frame[p].dead

\* A request whose rows do not change while it is read is let in exactly when session,
\* client, tenant and membership are all in force.
DecisionsAreExact ==
  \A p \in Calls : frame[p].pc \in {"granted", "denied"} /\ ~frame[p].disturbed =>
    (frame[p].pc = "granted" <=> Valid(frame[p].session))

\* An exchange that is refused leaves no session behind that a later reactivation of the
\* tenant, the membership or the client would make valid.
RefusedLeavesNothing ==
  \A p \in Exchanges : frame[p].pc \in {"401", "403"} => session[p].status # "live"

\* Concurrent first exchanges of one subject end with one user.
OneUserPerSubject ==
  \A p, q \in Exchanges :
    frame[p].user_id # None /\ frame[q].user_id # None /\ frame[p].subject = frame[q].subject
    => frame[p].user_id = frame[q].user_id

=============================================================================
