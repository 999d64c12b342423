-------------------------- MODULE IdentitySessions_proofs --------------------------
(***************************************************************************)
(* Proofs about IdentitySessions, for any number of exchanges, requests and   *)
(* revocations: revocation is permanent, decisions are exact, a refused       *)
(* exchange leaves no session, and a subject has one user.                    *)
(***************************************************************************)
EXTENDS IdentitySessions, TLAPS

-----------------------------------------------------------------------------
(* The inductive invariant *)

Users == Exchanges \cup {None, Provisioned}

Statuses == {"absent", "active", "suspended"}

SessionRows == [status : {"absent", "live", "revoked", "deleted"}, tenant : Tenants \cup {None},
                subject : Subjects \cup {None}, client : IdentityClients \cup {None},
                expires_at : Nat]

Frames == [pc : Pcs, session : Exchanges \cup {None}, client : IdentityClients \cup {None},
           tenant : Tenants \cup {None}, subject : Subjects \cup {None}, user_id : Users,
           now : 0..MaxNow, dead : BOOLEAN, disturbed : BOOLEAN]

\* The rows have their types, and a session row names what its exchange was given.
RowsOK ==
  /\ now \in 0..MaxNow /\ changes \in 0..MaxChanges
  /\ tenant \in [Tenants -> Statuses]
  /\ user \in [Subjects -> Users]
  /\ membership \in [Tenants \X Subjects -> [status : Statuses, role : Roles \cup {None}]]
  /\ client \in [IdentityClients -> {"absent", "active", "revoked"}]
  /\ session \in [Exchanges -> SessionRows]
  /\ \A e \in Exchanges : session[e].status # "absent" =>
       /\ session[e].client \in IdentityClients /\ client[session[e].client] # "absent"
       /\ session[e].tenant \in Tenants /\ session[e].subject \in Subjects
       /\ session[e].expires_at \in 0..(MaxNow + ttl)

\* Where a handler has a session in hand.
SessionPcs == {"session", "client", "tenant", "membership", "granted", "denied", "revoke",
               "revoke_write", "revoked", "200"}

IssuePcs == {"upsert", "insert_user", "issue_client", "issue_tenant", "issue"}

\* An exchange knows whom it is for, has no session row before it issues one, works on that
\* row afterwards, and names the subject's user.
ExchangeOK(p) == LET f == frame[p] IN
  /\ f.pc \in {"new", "401"} \cup IssuePcs => session[p].status = "absent"
  /\ f.pc \in IssuePcs => /\ f.client \in IdentityClients /\ client[f.client] # "absent"
                          /\ f.tenant \in Tenants /\ f.subject \in Subjects
  /\ f.pc = "403" => session[p].status # "live"
  /\ f.pc \in SessionPcs => f.session = p
  /\ f.pc = "new" => f.user_id = None
  /\ f.user_id # None => f.subject \in Subjects /\ f.user_id = user[f.subject]

\* What is left to be read of a session that was dead when the request began shows it.
DeadIsSeen(p) == LET f == frame[p] IN
  /\ f.pc = "session" /\ f.dead => \/ Row(p).status # "live" \/ Row(p).expires_at <= f.now
                                   \/ client[Row(p).client] # "active"
  /\ f.pc = "client" /\ f.dead => client[Row(p).client] # "active"
  /\ f.pc \in {"tenant", "membership", "granted"} => ~f.dead

\* While nothing disturbs a request, what it has read still holds.
ReadsHold(p) == LET f == frame[p] IN
  ~f.disturbed =>
    /\ f.pc \in SessionPcs => f.now = now
    /\ f.pc \in {"client", "tenant", "membership"} =>
         Row(p).status = "live" /\ Row(p).expires_at > now
    /\ f.pc \in {"tenant", "membership"} => client[Row(p).client] = "active"
    /\ f.pc = "membership" => tenant[Row(p).tenant] = "active"
    /\ f.pc = "granted" => Valid(f.session)
    /\ f.pc = "denied" => ~Valid(f.session)

FrameOK(p) ==
  /\ frame[p].pc \in SessionPcs =>
       frame[p].session \in Exchanges /\ Row(p).status # "absent"
  /\ frame[p].pc = "revoked" => Row(p).status # "live"
  /\ frame[p].now <= now
  /\ p \in Exchanges => ExchangeOK(p)
  /\ p \in Calls => DeadIsSeen(p) /\ ReadsHold(p)

Inv == RowsOK /\ frame \in [Handlers -> Frames] /\ \A p \in Handlers : FrameOK(p)

-----------------------------------------------------------------------------
(* What steps do to the rows *)

\* No step brings a session, a client or a moment back, or changes whose they are.
Later ==
  /\ now <= now'
  /\ \A e \in Exchanges : session[e].status # "absent" =>
       /\ session'[e].status # "absent"
       /\ session'[e].status = "live" => session[e].status = "live"
       /\ session'[e].tenant = session[e].tenant /\ session'[e].subject = session[e].subject
       /\ session'[e].client = session[e].client
       /\ session'[e].expires_at = session[e].expires_at
  /\ \A c \in IdentityClients : client[c] # "absent" =>
       client'[c] # "absent" /\ (client'[c] = "active" => client[c] = "active")
  /\ \A u \in Subjects : user[u] # None => user'[u] = user[u]

\* A step that does not disturb requests: only rows that have expired may go.
Calm ==
  /\ UNCHANGED <<now, tenant, membership, client>>
  /\ \A e \in Exchanges : session[e].status = "live" =>
       session'[e].status = "live" \/ session[e].expires_at <= now

LEMMA NothingIsLater ==
  ASSUME RowsOK, UNCHANGED <<now, tenant, user, membership, client, session, changes>>
  PROVE  Later /\ Calm /\ RowsOK'
  BY DEF Later, Calm, RowsOK

\* A calm step changes the validity of no session.
LEMMA CalmKeepsValid ==
  ASSUME RowsOK, Later, Calm, NEW s \in Exchanges, session[s].status # "absent"
  PROVE  Valid(s)' <=> Valid(s)
  <1>1. /\ session'[s].tenant = session[s].tenant /\ session'[s].subject = session[s].subject
        /\ session'[s].client = session[s].client
        /\ session'[s].expires_at = session[s].expires_at
        /\ session'[s].status = "live" => session[s].status = "live"
        /\ session[s].status = "live" => session'[s].status = "live" \/ session[s].expires_at <= now
    BY DEF Later, Calm
  <1>2. now' = now /\ tenant' = tenant /\ membership' = membership /\ client' = client
    BY DEF Calm
  <1> QED
    BY <1>1, <1>2 DEF Valid, Dead

\* A handler that does not step keeps its part of the invariant if its exchange still has no
\* row and, for an undisturbed request, the step was calm.
LEMMA KeepFrame ==
  ASSUME RowsOK, RowsOK', frame \in [Handlers -> Frames], Later, NEW p \in Handlers, FrameOK(p),
         \/ frame'[p] = frame[p]
         \/ frame'[p] = [frame[p] EXCEPT !.disturbed = TRUE],
         p \in Exchanges /\ session[p].status = "absent" => session'[p].status = "absent",
         p \in Calls => frame[p].pc = "new" \/ frame'[p].disturbed \/ Calm
  PROVE  FrameOK(p)'
  <1>1. /\ frame[p] \in Frames /\ frame'[p].pc = frame[p].pc /\ frame'[p].session = frame[p].session
        /\ frame'[p].client = frame[p].client /\ frame'[p].tenant = frame[p].tenant
        /\ frame'[p].subject = frame[p].subject /\ frame'[p].user_id = frame[p].user_id
        /\ frame'[p].now = frame[p].now /\ frame'[p].dead = frame[p].dead
        /\ frame'[p].disturbed = frame[p].disturbed \/ frame'[p].disturbed
    BY DEF Frames
  <1>2. now \in Nat /\ now' \in Nat /\ frame[p].now \in Nat /\ now <= now'
    BY <1>1, SessionsAssumption DEF RowsOK, Frames, Later
  <1>3. ASSUME frame[p].pc \in SessionPcs
        PROVE  /\ frame[p].session \in Exchanges /\ Row(p).status # "absent"
               /\ Row(p)'.status # "absent" /\ (Row(p)'.status = "live" => Row(p).status = "live")
               /\ Row(p)'.client = Row(p).client /\ Row(p)'.tenant = Row(p).tenant
               /\ Row(p)'.expires_at = Row(p).expires_at
               /\ Row(p).client \in IdentityClients /\ client[Row(p).client] # "absent"
               /\ client'[Row(p).client] = "active" => client[Row(p).client] = "active"
               /\ Row(p).expires_at \in Nat
    <2>1. frame[p].session \in Exchanges /\ Row(p).status # "absent"
      BY <1>3 DEF FrameOK
    <2>2. /\ Row(p).client \in IdentityClients /\ client[Row(p).client] # "absent"
          /\ Row(p).expires_at \in Nat
      BY <2>1, SessionsAssumption DEF RowsOK, Row
    <2> QED
      BY <1>1, <2>1, <2>2 DEF Later, Row
  <1>4. frame'[p].pc = "revoked" => Row(p)'.status # "live"
    BY <1>1, <1>3 DEF FrameOK, SessionPcs
  <1>5. p \in Exchanges => ExchangeOK(p)'
    <2>1. SUFFICES ASSUME p \in Exchanges PROVE ExchangeOK(p)'
      OBVIOUS
    <2>2. ExchangeOK(p) /\ (session[p].status = "absent" => session'[p].status = "absent")
      BY <2>1 DEF FrameOK
    <2>3. session[p].status # "live" => session'[p].status # "live"
      BY <2>1, <2>2 DEF Later
    <2>4. /\ \A c \in IdentityClients : client[c] # "absent" => client'[c] # "absent"
          /\ \A u \in Subjects : user[u] # None => user'[u] = user[u]
      BY DEF Later
    <2> QED
      BY <1>1, <2>2, <2>3, <2>4 DEF ExchangeOK
  <1>6. p \in Calls => DeadIsSeen(p)'
    BY <1>1, <1>3 DEF FrameOK, DeadIsSeen, SessionPcs
  <1>7. p \in Calls => ReadsHold(p)'
    <2>1. SUFFICES ASSUME p \in Calls, ~frame'[p].disturbed PROVE ReadsHold(p)'
      BY DEF ReadsHold
    <2>2. CASE frame[p].pc = "new"
      BY <1>1, <2>2 DEF ReadsHold, SessionPcs
    <2>3. CASE frame[p].pc \notin SessionPcs
      BY <1>1, <2>3 DEF ReadsHold, SessionPcs
    <2>4. CASE frame[p].pc # "new" /\ frame[p].pc \in SessionPcs
      <3>1. /\ Calm /\ ~frame[p].disturbed /\ ReadsHold(p) /\ now' = now
            /\ Row(p).status = "live" => Row(p)'.status = "live" \/ Row(p).expires_at <= now
        BY <1>1, <1>3, <2>1, <2>4 DEF FrameOK, Calm, Row
      <3>2. Valid(frame[p].session)' <=> Valid(frame[p].session)
        <4>1. PICK s \in Exchanges : s = frame[p].session
          BY <1>3, <2>4
        <4>2. session[s].status # "absent"
          BY <1>3, <2>4, <4>1 DEF Row
        <4>3. Valid(s)' <=> Valid(s)
          BY <3>1, <4>2, CalmKeepsValid
        <4>4. frame'[p].session = s
          BY <1>1, <4>1
        <4>5. Valid(frame[p].session)' <=> Valid(s)'
          BY <4>1, <4>4 DEF Valid, Dead
        <4> QED
          BY <4>1, <4>3, <4>5
      <3>3. client' = client /\ tenant' = tenant
        BY <3>1 DEF Calm
      <3> QED
        BY <1>1, <1>2, <1>3, <2>4, <3>1, <3>2, <3>3 DEF ReadsHold, Valid, Dead
    <2> QED
      BY <2>2, <2>3, <2>4
  <1>8. frame'[p].pc \in SessionPcs =>
          frame'[p].session \in Exchanges /\ Row(p)'.status # "absent"
    BY <1>1, <1>3
  <1>9. frame'[p].now <= now'
    BY <1>1, <1>2 DEF FrameOK
  <1> QED
    BY <1>4, <1>5, <1>6, <1>7, <1>8, <1>9 DEF FrameOK

-----------------------------------------------------------------------------
(* Steps of handlers *)

rows == <<now, tenant, user, membership, client, session, changes>>

\* A handler's step, which may disturb the requests.
LEMMA HandlerStep ==
  ASSUME Inv, RowsOK', Later, NEW p \in Handlers, frame' \in [Handlers -> Frames], FrameOK(p)',
         \/ Calm /\ \A q \in Handlers \ {p} : frame'[q] = frame[q]
         \/ \A q \in Handlers \ {p} :
              frame'[q] = IF q \in Calls /\ frame[q].pc # "new"
                            THEN [frame[q] EXCEPT !.disturbed = TRUE] ELSE frame[q],
         \A q \in Exchanges \ {p} : session[q].status = "absent" => session'[q].status = "absent"
  PROVE  Inv'
  <1>1. RowsOK /\ frame \in [Handlers -> Frames] /\ \A q \in Handlers : FrameOK(q)
    BY DEF Inv
  <1>2. ASSUME NEW q \in Handlers \ {p} PROVE FrameOK(q)'
    <2>1. frame[q] \in Frames /\ [frame[q] EXCEPT !.disturbed = TRUE].disturbed
      BY <1>1 DEF Frames
    <2>2. frame'[q] = frame[q] \/ frame'[q] = [frame[q] EXCEPT !.disturbed = TRUE]
      OBVIOUS
    <2>3. q \in Calls => frame[q].pc = "new" \/ frame'[q].disturbed \/ Calm
      BY <2>1
    <2> QED
      BY <1>1, <2>2, <2>3, KeepFrame
  <1> QED
    BY <1>2 DEF Inv

\* A handler's step that writes no row.
LEMMA ReadingStep ==
  ASSUME Inv, NEW p \in Handlers, NEW f \in Frames, frame' = [frame EXCEPT ![p] = f],
         UNCHANGED rows, FrameOK(p)'
  PROVE  Inv'
  <1>1. Later /\ Calm /\ RowsOK'
    BY NothingIsLater DEF Inv, rows
  <1>2. frame' \in [Handlers -> Frames] /\ \A q \in Handlers \ {p} : frame'[q] = frame[q]
    BY DEF Inv
  <1>3. session' = session
    BY DEF rows
  <1> QED
    BY <1>1, <1>2, <1>3, HandlerStep

\* Going on to another place, in a handler that keeps what it has in hand.
LEMMA GotoStep ==
  ASSUME Inv, NEW p \in Handlers, NEW pc \in Pcs, Goto(p, pc), UNCHANGED rows,
         pc \in SessionPcs => frame[p].pc \in SessionPcs,
         pc = "revoked" => Row(p).status # "live",
         p \in Exchanges =>
           /\ pc \in {"new", "401"} \cup IssuePcs => frame[p].pc \in {"new"} \cup IssuePcs
           /\ pc \in IssuePcs => frame[p].pc \in IssuePcs
           /\ pc = "403" => session[p].status # "live"
           /\ pc # "new",
         p \in Calls =>
           /\ frame[p].dead => /\ pc # "session" /\ pc \notin {"tenant", "membership", "granted"}
                               /\ pc = "client" => client[Row(p).client] # "active"
           /\ ~frame[p].disturbed /\ frame[p].now = now =>
                /\ pc \in {"client", "tenant", "membership"} =>
                     Row(p).status = "live" /\ Row(p).expires_at > now
                /\ pc \in {"tenant", "membership"} => client[Row(p).client] = "active"
                /\ pc = "membership" => tenant[Row(p).tenant] = "active"
                /\ pc = "granted" => Valid(frame[p].session)
                /\ pc = "denied" => ~Valid(frame[p].session)
  PROVE  Inv'
  <1> DEFINE f == [frame[p] EXCEPT !.pc = pc]
  <1>1. /\ RowsOK /\ frame \in [Handlers -> Frames] /\ frame[p] \in Frames /\ FrameOK(p)
    BY DEF Inv
  <1>2. /\ f \in Frames /\ f.pc = pc /\ f.session = frame[p].session /\ f.client = frame[p].client
        /\ f.tenant = frame[p].tenant /\ f.subject = frame[p].subject
        /\ f.user_id = frame[p].user_id /\ f.now = frame[p].now /\ f.dead = frame[p].dead
        /\ f.disturbed = frame[p].disturbed
    BY <1>1 DEF Frames
  <1>3. frame' = [frame EXCEPT ![p] = f] /\ frame'[p] = f
    BY <1>1 DEF Goto
  <1> HIDE DEF f
  <1>4. Row(p)' = Row(p) /\ UNCHANGED <<now, tenant, user, membership, client, session>>
    BY <1>2, <1>3 DEF Row, rows
  <1>5. p \in Exchanges => ExchangeOK(p)'
    BY <1>1, <1>2, <1>3, <1>4 DEF FrameOK, ExchangeOK, SessionPcs, IssuePcs
  <1>6. p \in Calls => DeadIsSeen(p)'
    BY <1>1, <1>2, <1>3, <1>4 DEF FrameOK, DeadIsSeen
  <1>7. p \in Calls => ReadsHold(p)'
    <2> SUFFICES ASSUME p \in Calls, ~frame'[p].disturbed PROVE ReadsHold(p)'
      BY DEF ReadsHold
    <2>1. ~frame[p].disturbed /\ ReadsHold(p)
      BY <1>1, <1>2, <1>3 DEF FrameOK
    <2>2. CASE pc \in SessionPcs
      <3>1. frame[p].now = now
        BY <2>1, <2>2 DEF ReadsHold
      <3>2. Valid(frame[p].session)' <=> Valid(frame[p].session)
        BY <1>2, <1>3, <1>4 DEF Valid, Dead
      <3> QED
        BY <1>2, <1>3, <1>4, <2>1, <2>2, <3>1, <3>2 DEF ReadsHold, Valid, Dead
    <2>3. CASE pc \notin SessionPcs
      BY <1>2, <1>3, <2>3 DEF ReadsHold, SessionPcs
    <2> QED
      BY <2>2, <2>3
  <1>8. FrameOK(p)'
    BY <1>1, <1>2, <1>3, <1>4, <1>5, <1>6, <1>7 DEF FrameOK
  <1> QED
    BY <1>2, <1>3, <1>8, ReadingStep

LEMMA ReadSessionInv ==
  ASSUME Inv, NEW p \in Handlers, ReadSession(p)
  PROVE  Inv'
  <1> DEFINE pc == IF Row(p).status = "live" /\ Row(p).expires_at > frame[p].now
                     THEN "client" ELSE "denied"
  <1>1. FrameOK(p) /\ frame[p].pc = "session" /\ Goto(p, pc) /\ UNCHANGED rows
    BY DEF Inv, ReadSession, rows
  <1>2. /\ pc \in {"client", "denied"}
        /\ pc = "client" <=> Row(p).status = "live" /\ Row(p).expires_at > frame[p].now
    OBVIOUS
  <1>3. Row(p).expires_at \in Nat /\ frame[p].now \in Nat
    <2>1. frame[p].session \in Exchanges
      BY <1>1 DEF FrameOK, SessionPcs
    <2> QED
      BY <2>1, SessionsAssumption DEF Inv, RowsOK, SessionRows, Frames, Row
  <1> HIDE DEF pc
  <1>4. p \in Calls /\ frame[p].dead /\ pc = "client" => client[Row(p).client] # "active"
    BY <1>1, <1>2, <1>3 DEF FrameOK, DeadIsSeen
  <1>5. frame[p].now = now /\ pc = "denied" => ~Valid(frame[p].session)
    BY <1>2, <1>3 DEF Valid, Dead, Row
  <1> QED
    BY <1>1, <1>2, <1>4, <1>5, GotoStep DEF SessionPcs, IssuePcs, Pcs

LEMMA ReadClientInv ==
  ASSUME Inv, NEW p \in Handlers, ReadClient(p)
  PROVE  Inv'
  <1> DEFINE pc == IF client[Row(p).client] = "active" THEN "tenant" ELSE "denied"
  <1>1. FrameOK(p) /\ frame[p].pc = "client" /\ Goto(p, pc) /\ UNCHANGED rows
    BY DEF Inv, ReadClient, rows
  <1>2. pc \in {"tenant", "denied"} /\ (pc = "tenant" <=> client[Row(p).client] = "active")
    OBVIOUS
  <1> HIDE DEF pc
  <1>3. p \in Calls /\ frame[p].dead => pc = "denied"
    BY <1>1, <1>2 DEF FrameOK, DeadIsSeen
  <1>4. pc = "denied" => ~Valid(frame[p].session)
    BY <1>2 DEF Valid, Dead, Row
  <1>5. p \in Calls /\ ~frame[p].disturbed => Row(p).status = "live" /\ Row(p).expires_at > now
    BY <1>1 DEF FrameOK, ReadsHold
  <1> QED
    BY <1>1, <1>2, <1>3, <1>4, <1>5, GotoStep DEF SessionPcs, IssuePcs, Pcs

LEMMA ReadTenantInv ==
  ASSUME Inv, NEW p \in Handlers, ReadTenant(p)
  PROVE  Inv'
  <1> DEFINE pc == IF tenant[Row(p).tenant] = "active" THEN "membership" ELSE "denied"
  <1>1. FrameOK(p) /\ frame[p].pc = "tenant" /\ Goto(p, pc) /\ UNCHANGED rows
    BY DEF Inv, ReadTenant, rows
  <1>2. pc \in {"membership", "denied"} /\ (pc = "membership" <=> tenant[Row(p).tenant] = "active")
    OBVIOUS
  <1> HIDE DEF pc
  <1>3. p \in Calls => ~frame[p].dead
    BY <1>1 DEF FrameOK, DeadIsSeen
  <1>4. pc = "denied" => ~Valid(frame[p].session)
    BY <1>2 DEF Valid, Row
  <1>5. p \in Calls /\ ~frame[p].disturbed =>
          /\ Row(p).status = "live" /\ Row(p).expires_at > now
          /\ client[Row(p).client] = "active"
    BY <1>1 DEF FrameOK, ReadsHold
  <1> QED
    BY <1>1, <1>2, <1>3, <1>4, <1>5, GotoStep DEF SessionPcs, IssuePcs, Pcs

LEMMA ReadMembershipInv ==
  ASSUME Inv, NEW p \in Handlers, ReadMembership(p)
  PROVE  Inv'
  <1> DEFINE member == membership[<<Row(p).tenant, Row(p).subject>>].status = "active"
  <1>1. /\ FrameOK(p) /\ frame[p].pc = "membership" /\ UNCHANGED rows
        /\ Goto(p, IF ~member THEN "denied"
                   ELSE IF Row(p).status = "deleted" THEN "error" ELSE "granted")
    BY DEF Inv, ReadMembership, rows
  <1>2. PICK pc \in {"denied", "error", "granted"} :
          /\ Goto(p, pc) /\ (pc = "granted" => member /\ Row(p).status # "deleted")
          /\ pc = "denied" => ~member
    BY <1>1
  <1>3. p \in Calls => ~frame[p].dead
    BY <1>1 DEF FrameOK, DeadIsSeen
  <1>4. pc = "denied" => ~Valid(frame[p].session)
    BY <1>2 DEF Valid, Row
  <1>5. p \in Calls /\ ~frame[p].disturbed =>
          /\ Row(p).status = "live" /\ Row(p).expires_at > now
          /\ client[Row(p).client] = "active" /\ tenant[Row(p).tenant] = "active"
    BY <1>1 DEF FrameOK, ReadsHold
  <1>6. p \in Calls /\ ~frame[p].disturbed /\ pc = "granted" => Valid(frame[p].session)
    <2>1. SUFFICES ASSUME p \in Calls, ~frame[p].disturbed, pc = "granted"
                   PROVE  Valid(frame[p].session)
      OBVIOUS
    <2>2. Row(p).expires_at \in Nat /\ now \in Nat /\ Row(p) = session[frame[p].session]
      BY <1>1, SessionsAssumption DEF Inv, RowsOK, SessionRows, FrameOK, SessionPcs, Row
    <2> QED
      BY <1>2, <1>5, <2>1, <2>2 DEF Valid, Dead
  <1> HIDE DEF member
  <1> QED
    BY <1>1, <1>2, <1>3, <1>4, <1>5, <1>6, GotoStep DEF SessionPcs, IssuePcs, Pcs

LEMMA AuthenticateInv ==
  ASSUME Inv, NEW p \in Handlers, Authenticate(p)
  PROVE  Inv'
  BY ReadSessionInv, ReadClientInv, ReadTenantInv, ReadMembershipInv DEF Authenticate

LEMMA RevokeReadInv ==
  ASSUME Inv, NEW p \in Handlers \ Calls, RevokeRead(p)
  PROVE  Inv'
  <1>1. PICK pc \in {"revoke_write", "revoked"} :
          Goto(p, pc) /\ (pc = "revoked" => Row(p).status # "live")
    BY DEF RevokeRead
  <1>2. frame[p].pc = "revoke" /\ UNCHANGED rows
    BY DEF RevokeRead, rows
  <1> QED
    BY <1>1, <1>2, GotoStep DEF SessionPcs, IssuePcs, Pcs

LEMMA RevokeWriteInv ==
  ASSUME Inv, NEW p \in Handlers \ Calls, RevokeWrite(p)
  PROVE  Inv'
  <1>1. /\ RowsOK /\ frame \in [Handlers -> Frames] /\ frame[p] \in Frames /\ FrameOK(p)
        /\ frame[p].pc = "revoke_write"
        /\ UNCHANGED <<now, tenant, user, membership, client, changes>>
        /\ frame[p].session \in Exchanges /\ Row(p).status # "absent"
    BY DEF Inv, RevokeWrite, FrameOK, SessionPcs
  <1>2. CASE Row(p).status = "deleted" /\ Goto(p, "error") /\ UNCHANGED session
    BY <1>1, <1>2, GotoStep DEF SessionPcs, IssuePcs, Pcs, rows
  <1>3. CASE /\ Row(p).status # "deleted"
             /\ session' = [session EXCEPT ![frame[p].session].status = "revoked"]
             /\ frame' = Disturb([frame EXCEPT ![p].pc = "revoked"])
    <2> DEFINE s == frame[p].session
               f == [frame[p] EXCEPT !.pc = "revoked"]
    <2>1. /\ session' = [session EXCEPT ![s] = [session[s] EXCEPT !.status = "revoked"]]
          /\ session[s].status # "absent" /\ s \in Exchanges /\ session \in [Exchanges -> SessionRows]
      BY <1>1, <1>3 DEF Row, RowsOK
    <2>2. /\ session' \in [Exchanges -> SessionRows]
          /\ \A e \in Exchanges \ {s} : session'[e] = session[e]
          /\ session'[s].status = "revoked" /\ session'[s].tenant = session[s].tenant
          /\ session'[s].subject = session[s].subject /\ session'[s].client = session[s].client
          /\ session'[s].expires_at = session[s].expires_at
      BY <2>1 DEF SessionRows
    <2>3. RowsOK' /\ Later
      BY <1>1, <2>1, <2>2, SessionsAssumption DEF RowsOK, Later
    <2>4. /\ f \in Frames /\ f.pc = "revoked" /\ f.session = s /\ f.user_id = frame[p].user_id
          /\ f.subject = frame[p].subject /\ f.now = frame[p].now
      BY <1>1 DEF Frames, Pcs
    <2>5. /\ \A q \in Handlers \ {p} :
               frame'[q] = IF q \in Calls /\ frame[q].pc # "new"
                             THEN [frame[q] EXCEPT !.disturbed = TRUE] ELSE frame[q]
          /\ frame'[p] = f
          /\ frame' = [q \in Handlers |-> frame'[q]]
      BY <1>1, <1>3 DEF Disturb
    <2>6. frame' \in [Handlers -> Frames]
      <3>1. \A q \in Handlers : [frame[q] EXCEPT !.disturbed = TRUE] \in Frames
        BY <1>1 DEF Frames
      <3>2. \A q \in Handlers : frame'[q] \in Frames
        BY <1>1, <2>4, <2>5, <3>1
      <3> QED
        BY <2>5, <3>2
    <2> HIDE DEF s, f
    <2>7. FrameOK(p)'
      BY <1>1, <2>2, <2>4, <2>5 DEF FrameOK, ExchangeOK, SessionPcs, IssuePcs, Row, s
    <2>8. \A q \in Exchanges : session[q].status = "absent" => session'[q].status = "absent"
      BY <2>1, <2>2
    <2> QED
      BY <2>3, <2>5, <2>6, <2>7, <2>8, HandlerStep
  <1> QED
    BY <1>2, <1>3 DEF RevokeWrite

LEMMA ExchangeBeginsInv ==
  ASSUME Inv, NEW p \in Exchanges, NEW c \in IdentityClients, NEW t \in Tenants,
         NEW u \in Subjects, NEW trusted \in BOOLEAN, ExchangeBegins(p, c, t, u, trusted)
  PROVE  Inv'
  <1>1. /\ frame \in [Handlers -> Frames] /\ frame[p] \in Frames /\ FrameOK(p)
        /\ frame[p].pc = "new" /\ UNCHANGED rows /\ p \in Handlers /\ p \notin Calls
    BY SessionsAssumption DEF Inv, ExchangeBegins, rows, Handlers
  <1>2. CASE Goto(p, "401")
    BY <1>1, <1>2, GotoStep DEF SessionPcs, IssuePcs, Pcs
  <1>3. CASE /\ client[c] = "active"
             /\ frame' = [frame EXCEPT ![p].pc = "upsert", ![p].client = c, ![p].tenant = t,
                                       ![p].subject = u]
    <2> DEFINE f == [frame[p] EXCEPT !.pc = "upsert", !.client = c, !.tenant = t, !.subject = u]
    <2>1. /\ f \in Frames /\ f.pc = "upsert" /\ f.client = c /\ f.tenant = t /\ f.subject = u
          /\ f.user_id = frame[p].user_id /\ f.now = frame[p].now
      BY <1>1 DEF Frames, Pcs
    <2>2. frame' = [frame EXCEPT ![p] = f] /\ frame'[p] = f
      BY <1>1, <1>3
    <2> HIDE DEF f
    <2>3. ExchangeOK(p) /\ frame[p].user_id = None /\ session[p].status = "absent"
      BY <1>1 DEF FrameOK, ExchangeOK
    <2>4. ExchangeOK(p)'
      BY <1>1, <1>3, <2>1, <2>2, <2>3 DEF ExchangeOK, SessionPcs, IssuePcs, rows
    <2>5. FrameOK(p)'
      BY <1>1, <2>1, <2>2, <2>4 DEF FrameOK, SessionPcs, rows
    <2> QED
      BY <1>1, <2>1, <2>2, <2>5, ReadingStep
  <1> QED
    BY <1>2, <1>3 DEF ExchangeBegins

\* The subject's user row is known, or was inserted just now.
LEMMA HasUserInv ==
  ASSUME Inv, NEW p \in Exchanges, frame[p].pc \in {"upsert", "insert_user"}, NEW id \in Users,
         HasUser(p, id), RowsOK', Later, Calm, session' = session, user'[frame[p].subject] = id
  PROVE  Inv'
  <1> DEFINE f == [frame[p] EXCEPT !.pc = "issue_client", !.user_id = id, !.now = now]
  <1>1. /\ frame \in [Handlers -> Frames] /\ frame[p] \in Frames /\ ExchangeOK(p)
        /\ p \in Handlers /\ p \notin Calls /\ now \in 0..MaxNow
    BY SessionsAssumption DEF Inv, FrameOK, Handlers, RowsOK
  <1>2. /\ f \in Frames /\ f.pc = "issue_client" /\ f.client = frame[p].client
        /\ f.tenant = frame[p].tenant /\ f.subject = frame[p].subject
        /\ f.user_id = id /\ f.now = now
    BY <1>1 DEF Frames, Pcs
  <1>3. frame' = [frame EXCEPT ![p] = f] /\ frame'[p] = f
    BY <1>1 DEF HasUser
  <1> HIDE DEF f
  <1>4. /\ frame' \in [Handlers -> Frames]
        /\ \A q \in Handlers \ {p} : frame'[q] = frame[q]
    BY <1>1, <1>2, <1>3
  <1>5. ExchangeOK(p)'
    BY <1>1, <1>2, <1>3 DEF ExchangeOK, SessionPcs, IssuePcs, Calm
  <1>6. now' = now /\ now \in Nat
    BY <1>1, SessionsAssumption DEF Calm
  <1>7. FrameOK(p)'
    BY <1>1, <1>2, <1>3, <1>5, <1>6 DEF FrameOK, SessionPcs
  <1> QED
    BY <1>1, <1>4, <1>7, HandlerStep

LEMMA UpsertUserInv ==
  ASSUME Inv, NEW p \in Exchanges, UpsertUser(p)
  PROVE  Inv'
  <1>1. /\ UNCHANGED rows /\ frame[p].pc = "upsert" /\ frame[p].subject \in Subjects
        /\ p \in Handlers /\ p \notin Calls
    BY SessionsAssumption DEF Inv, UpsertUser, rows, FrameOK, ExchangeOK, IssuePcs, Handlers
  <1>2. Later /\ Calm /\ RowsOK' /\ user' = user /\ session' = session
    BY <1>1, NothingIsLater DEF Inv, rows
  <1>3. CASE HasUser(p, user[frame[p].subject])
    <2>1. user[frame[p].subject] \in Users
      BY <1>1 DEF Inv, RowsOK
    <2> QED
      BY <1>1, <1>2, <1>3, <2>1, HasUserInv
  <1>4. CASE Goto(p, "insert_user")
    BY <1>1, <1>4, GotoStep DEF SessionPcs, IssuePcs, Pcs
  <1> QED
    BY <1>3, <1>4 DEF UpsertUser

LEMMA InsertUserInv ==
  ASSUME Inv, NEW p \in Exchanges, InsertUser(p)
  PROVE  Inv'
  <1>1. /\ frame[p].pc = "insert_user" /\ frame[p].subject \in Subjects /\ RowsOK
        /\ UNCHANGED <<now, tenant, membership, client, session, changes>>
        /\ user \in [Subjects -> Users]
    BY DEF Inv, InsertUser, FrameOK, ExchangeOK, IssuePcs, Handlers, RowsOK
  <1>2. Calm
    BY <1>1 DEF Calm
  <1>3. CASE /\ user[frame[p].subject] = None
             /\ user' = [user EXCEPT ![frame[p].subject] = p] /\ HasUser(p, p)
    <2>1. /\ user' \in [Subjects -> Users] /\ user'[frame[p].subject] = p /\ p \in Users
          /\ \A u \in Subjects : user[u] # None => user'[u] = user[u]
      BY <1>1, <1>3 DEF Users
    <2>2. RowsOK' /\ Later
      BY <1>1, <2>1, SessionsAssumption DEF RowsOK, Later
    <2> QED
      BY <1>1, <1>2, <1>3, <2>1, <2>2, HasUserInv
  <1>4. CASE HasUser(p, user[frame[p].subject]) /\ UNCHANGED user
    <2>1. user[frame[p].subject] \in Users /\ Later /\ RowsOK'
      BY <1>1, <1>4, NothingIsLater
    <2> QED
      BY <1>1, <1>2, <1>4, <2>1, HasUserInv
  <1> QED
    BY <1>3, <1>4 DEF InsertUser

LEMMA IssueReadInv ==
  ASSUME Inv, NEW p \in Exchanges, IssueClient(p) \/ IssueTenant(p)
  PROVE  Inv'
  <1>1. /\ UNCHANGED rows /\ frame[p].pc \in IssuePcs /\ p \in Handlers /\ p \notin Calls
        /\ \E pc \in {"issue_tenant", "issue", "403"} : Goto(p, pc)
    BY SessionsAssumption DEF IssueClient, IssueTenant, IssueRead, rows, IssuePcs, Handlers
  <1>2. session[p].status = "absent"
    BY <1>1 DEF Inv, FrameOK, ExchangeOK
  <1> QED
    BY <1>1, <1>2, GotoStep DEF SessionPcs, IssuePcs, Pcs

LEMMA IssueSessionInv ==
  ASSUME Inv, NEW p \in Exchanges, IssueSession(p)
  PROVE  Inv'
  <1>1. /\ RowsOK /\ frame \in [Handlers -> Frames] /\ frame[p] \in Frames /\ ExchangeOK(p)
        /\ UNCHANGED <<now, tenant, user, membership, client, changes>>
        /\ frame[p].pc = "issue" /\ p \in Handlers /\ p \notin Calls
        /\ session[p].status = "absent" /\ session \in [Exchanges -> SessionRows]
    BY SessionsAssumption DEF Inv, IssueSession, FrameOK, ExchangeOK, IssuePcs, Handlers, RowsOK
  <1>2. CASE Goto(p, "403") /\ UNCHANGED session
    BY <1>1, <1>2, GotoStep DEF SessionPcs, IssuePcs, Pcs, rows
  <1>3. CASE /\ session' = [session EXCEPT ![p] = NewSession(frame[p])]
             /\ frame' = [frame EXCEPT ![p] = Authenticating(frame[p], p, FALSE)]
    <2> DEFINE row == NewSession(frame[p])
               f == Authenticating(frame[p], p, FALSE)
    <2>1. /\ frame[p].client \in IdentityClients /\ client[frame[p].client] # "absent"
          /\ frame[p].tenant \in Tenants /\ frame[p].subject \in Subjects
          /\ frame[p].now \in 0..MaxNow
          /\ frame[p].user_id # None => frame[p].user_id = user[frame[p].subject]
      BY <1>1 DEF ExchangeOK, IssuePcs, Frames
    <2>2. /\ row \in SessionRows /\ row.status = "live" /\ row.client = frame[p].client
          /\ row.tenant = frame[p].tenant /\ row.subject = frame[p].subject
          /\ row.expires_at \in 0..(MaxNow + ttl)
      BY <2>1, SessionsAssumption DEF NewSession, SessionRows
    <2>3. now \in 0..MaxNow
      BY <1>1 DEF RowsOK
    <2>4. /\ f \in Frames /\ f.pc = "session" /\ f.session = p /\ f.now = now
          /\ f.subject = frame[p].subject /\ f.user_id = frame[p].user_id
      BY <1>1, <2>3 DEF Authenticating, Frames, Pcs
    <2> HIDE DEF row, f
    <2>5. /\ session' \in [Exchanges -> SessionRows] /\ session'[p] = row
          /\ \A e \in Exchanges \ {p} : session'[e] = session[e]
      BY <1>1, <1>3, <2>2 DEF row
    <2>6. RowsOK'
      BY <1>1, <2>1, <2>2, <2>5 DEF RowsOK
    <2>7. now <= now
      BY <2>3, SessionsAssumption
    <2>8. Later /\ Calm
      BY <1>1, <2>5, <2>7 DEF Later, Calm
    <2>9. /\ frame' \in [Handlers -> Frames] /\ frame'[p] = f
          /\ \A q \in Handlers \ {p} : frame'[q] = frame[q]
      BY <1>1, <1>3, <2>4 DEF f
    <2>10. ExchangeOK(p)'
      BY <1>1, <2>1, <2>4, <2>9 DEF ExchangeOK, SessionPcs, IssuePcs
    <2>11. FrameOK(p)'
      BY <1>1, <2>2, <2>4, <2>5, <2>7, <2>9, <2>10 DEF FrameOK, Row
    <2> QED
      BY <1>1, <2>5, <2>6, <2>8, <2>9, <2>11, HandlerStep
  <1> QED
    BY <1>2, <1>3 DEF IssueSession

LEMMA ExchangeAnswersInv ==
  ASSUME Inv, NEW p \in Exchanges, ExchangeAnswers(p)
  PROVE  Inv'
  <1>1. /\ UNCHANGED rows /\ p \in Handlers /\ p \notin Calls /\ FrameOK(p)
    BY SessionsAssumption DEF Inv, ExchangeAnswers, rows, Handlers
  <1>2. frame[p].pc = "revoked" => session[p].status # "live"
    BY <1>1 DEF FrameOK, ExchangeOK, SessionPcs, Row
  <1> QED
    BY <1>1, <1>2, GotoStep DEF ExchangeAnswers, SessionPcs, IssuePcs, Pcs

LEMMA DisclosedIsStored ==
  ASSUME Inv, NEW s \in Exchanges, Disclosed(s)
  PROVE  session[s].status # "absent"
  BY DEF Inv, Disclosed, FrameOK, ExchangeOK, SessionPcs, Row, Handlers

LEMMA CallBeginsInv ==
  ASSUME Inv, NEW p \in Calls, NEW s \in Exchanges, CallBegins(p, s)
  PROVE  Inv'
  <1> DEFINE f == Authenticating(frame[p], s, Dead(s))
  <1>1. /\ RowsOK /\ frame \in [Handlers -> Frames] /\ frame[p] \in Frames /\ UNCHANGED rows
        /\ p \in Handlers /\ p \notin Exchanges /\ session[s].status # "absent"
        /\ frame' = [frame EXCEPT ![p] = f] /\ now \in 0..MaxNow
    BY DisclosedIsStored, SessionsAssumption DEF Inv, CallBegins, rows, Handlers, RowsOK
  <1>2. Dead(s) \in BOOLEAN
    BY DEF Dead
  <1>3. /\ f \in Frames /\ f.pc = "session" /\ f.session = s /\ f.now = now /\ f.dead = Dead(s)
    BY <1>1, <1>2 DEF Authenticating, Frames, Pcs
  <1> HIDE DEF f
  <1>4. frame'[p] = f /\ Row(p)' = session[s] /\ now' = now /\ client' = client
    BY <1>1, <1>3 DEF Row, rows
  <1>5. DeadIsSeen(p)'
    BY <1>3, <1>4 DEF DeadIsSeen, Dead
  <1>6. ReadsHold(p)'
    BY <1>3, <1>4 DEF ReadsHold
  <1>7. f.now <= now
    BY <1>1, <1>3, SessionsAssumption
  <1>8. FrameOK(p)'
    BY <1>1, <1>3, <1>4, <1>5, <1>6, <1>7 DEF FrameOK
  <1> QED
    BY <1>1, <1>3, <1>8, ReadingStep

LEMMA RevokeBeginsInv ==
  ASSUME Inv, NEW p \in Revokes, NEW s \in Exchanges, NEW c \in IdentityClients \cup {None},
         RevokeBegins(p, s, c)
  PROVE  Inv'
  <1> DEFINE f == [Authenticating(frame[p], s, FALSE) EXCEPT !.client = c]
  <1>1. /\ RowsOK /\ frame \in [Handlers -> Frames] /\ frame[p] \in Frames /\ UNCHANGED rows
        /\ p \in Handlers /\ p \notin Exchanges \cup Calls /\ session[s].status # "absent"
        /\ now \in 0..MaxNow /\ frame[p].pc = "new"
    BY DisclosedIsStored, SessionsAssumption DEF Inv, RevokeBegins, rows, Handlers, RowsOK
  <1>2. CASE Goto(p, "401")
    BY <1>1, <1>2, GotoStep DEF SessionPcs, Pcs
  <1>3. CASE frame' = [frame EXCEPT ![p] = f]
    <2>1. f \in Frames /\ f.pc = "session" /\ f.session = s /\ f.now = now
      BY <1>1 DEF Authenticating, Frames, Pcs
    <2> HIDE DEF f
    <2>2. frame'[p] = f /\ Row(p)' = session[s] /\ now' = now
      BY <1>1, <1>3, <2>1 DEF Row, rows
    <2>3. f.now <= now
      BY <1>1, <2>1, SessionsAssumption
    <2>4. FrameOK(p)'
      BY <1>1, <2>1, <2>2, <2>3 DEF FrameOK
    <2> QED
      BY <1>1, <1>3, <2>1, <2>4, ReadingStep
  <1> QED
    BY <1>2, <1>3 DEF RevokeBegins

LEMMA RevokeAuthorisedInv ==
  ASSUME Inv, NEW p \in Revokes, RevokeAuthorised(p)
  PROVE  Inv'
  <1>1. UNCHANGED rows /\ p \in Handlers /\ p \notin Exchanges \cup Calls
    BY SessionsAssumption DEF RevokeAuthorised, rows, Handlers
  <1> QED
    BY <1>1, GotoStep DEF RevokeAuthorised, SessionPcs, Pcs

LEMMA AdminRevokesInv ==
  ASSUME Inv, NEW p \in Revokes, NEW s \in Exchanges, AdminRevokes(p, s)
  PROVE  Inv'
  <1> DEFINE f == [frame[p] EXCEPT !.pc = "revoke", !.session = s]
  <1>1. /\ frame \in [Handlers -> Frames] /\ frame[p] \in Frames /\ UNCHANGED rows /\ FrameOK(p)
        /\ p \in Handlers /\ p \notin Exchanges \cup Calls /\ session[s].status # "absent"
    BY SessionsAssumption DEF Inv, AdminRevokes, rows, Handlers
  <1>2. frame' = [frame EXCEPT ![p] = f]
    BY <1>1 DEF AdminRevokes
  <1>3. f \in Frames /\ f.pc = "revoke" /\ f.session = s /\ f.now = frame[p].now
    BY <1>1 DEF Frames, Pcs
  <1> HIDE DEF f
  <1>4. frame'[p] = f /\ Row(p)' = session[s] /\ now' = now
    BY <1>1, <1>2, <1>3 DEF Row, rows
  <1>5. FrameOK(p)'
    BY <1>1, <1>3, <1>4 DEF FrameOK
  <1> QED
    BY <1>1, <1>2, <1>3, <1>5, ReadingStep

-----------------------------------------------------------------------------
(* Administration and time *)

\* A change that disturbs every request under way.
LEMMA DisturbingStep ==
  ASSUME Inv, RowsOK', Later, frame' = Disturb(frame), session' = session
  PROVE  Inv'
  <1>1. RowsOK /\ frame \in [Handlers -> Frames] /\ \A q \in Handlers : FrameOK(q)
    BY DEF Inv
  <1>2. \A q \in Handlers :
          /\ frame[q] \in Frames /\ [frame[q] EXCEPT !.disturbed = TRUE] \in Frames
          /\ [frame[q] EXCEPT !.disturbed = TRUE].disturbed
    BY <1>1 DEF Frames
  <1>3. /\ \A q \in Handlers :
             frame'[q] = IF q \in Calls /\ frame[q].pc # "new"
                           THEN [frame[q] EXCEPT !.disturbed = TRUE] ELSE frame[q]
        /\ frame' = [q \in Handlers |-> frame'[q]]
    BY DEF Disturb
  <1>4. frame' \in [Handlers -> Frames]
    BY <1>2, <1>3
  <1>5. ASSUME NEW q \in Handlers PROVE FrameOK(q)'
    <2>1. /\ frame'[q] = frame[q] \/ frame'[q] = [frame[q] EXCEPT !.disturbed = TRUE]
          /\ q \in Calls => frame[q].pc = "new" \/ frame'[q].disturbed
      BY <1>2, <1>3
    <2> QED
      BY <1>1, <2>1, KeepFrame
  <1> QED
    BY <1>4, <1>5 DEF Inv

LEMMA AdministerTenantsInv ==
  ASSUME Inv, AdministerTenants
  PROVE  Inv'
  <1>1. RowsOK /\ (Change => frame' = Disturb(frame) /\ changes' \in 0..MaxChanges)
        /\ now <= now
    BY SessionsAssumption DEF Inv, Change, RowsOK
  <1>2. ASSUME NEW t \in Tenants, NEW s \in {"active", "suspended"},
               CreateTenant(t) \/ SetTenantStatus(t, s)
        PROVE  Inv'
    <2>1. /\ tenant' \in [Tenants -> Statuses] /\ Change
          /\ UNCHANGED <<now, user, membership, client, session>>
      BY <1>1, <1>2 DEF CreateTenant, SetTenantStatus, RowsOK, Statuses
    <2>2. RowsOK' /\ Later
      BY <1>1, <2>1 DEF RowsOK, Later
    <2> QED
      BY <1>1, <2>1, <2>2, DisturbingStep
  <1>3. ASSUME NEW u \in Subjects, ProvisionUser(u)
        PROVE  Inv'
    <2>1. /\ user' \in [Subjects -> Users] /\ Change
          /\ \A v \in Subjects : user[v] # None => user'[v] = user[v]
          /\ UNCHANGED <<now, tenant, membership, client, session>>
      BY <1>1, <1>3 DEF ProvisionUser, RowsOK, Users
    <2>2. RowsOK' /\ Later
      BY <1>1, <2>1 DEF RowsOK, Later
    <2> QED
      BY <1>1, <2>1, <2>2, DisturbingStep
  <1>4. ASSUME NEW t \in Tenants, NEW u \in Subjects, NEW role \in Roles, SetMembership(t, u, role)
        PROVE  Inv'
    <2> DEFINE old == membership[<<t, u>>]
               row == [status |-> IF old.status = "absent" THEN "active" ELSE old.status,
                       role |-> role]
    <2>1. old \in [status : Statuses, role : Roles \cup {None}] /\ <<t, u>> \in Tenants \X Subjects
      BY <1>1 DEF RowsOK
    <2>2. row \in [status : Statuses, role : Roles \cup {None}]
      BY <2>1 DEF Statuses
    <2>3. /\ membership' = [membership EXCEPT ![<<t, u>>] = row] /\ Change
          /\ UNCHANGED <<now, tenant, user, client, session>>
      BY <1>4 DEF SetMembership
    <2> HIDE DEF row, old
    <2>4. membership' \in [Tenants \X Subjects -> [status : Statuses, role : Roles \cup {None}]]
      BY <1>1, <2>2, <2>3 DEF RowsOK
    <2>5. RowsOK' /\ Later
      BY <1>1, <2>3, <2>4 DEF RowsOK, Later
    <2> QED
      BY <1>1, <2>3, <2>5, DisturbingStep
  <1>5. ASSUME NEW t \in Tenants, NEW u \in Subjects, NEW s \in {"active", "suspended"},
               SetMembershipStatus(t, u, s)
        PROVE  Inv'
    <2> DEFINE row == [membership[<<t, u>>] EXCEPT !.status = s]
    <2>1. membership[<<t, u>>] \in [status : Statuses, role : Roles \cup {None}]
          /\ <<t, u>> \in Tenants \X Subjects
      BY <1>1 DEF RowsOK
    <2>2. row \in [status : Statuses, role : Roles \cup {None}]
      BY <2>1 DEF Statuses
    <2>3. /\ membership' = [membership EXCEPT ![<<t, u>>] = row] /\ Change
          /\ UNCHANGED <<now, tenant, user, client, session>>
      BY <1>5 DEF SetMembershipStatus
    <2> HIDE DEF row
    <2>4. membership' \in [Tenants \X Subjects -> [status : Statuses, role : Roles \cup {None}]]
      BY <1>1, <2>2, <2>3 DEF RowsOK
    <2>5. RowsOK' /\ Later
      BY <1>1, <2>3, <2>4 DEF RowsOK, Later
    <2> QED
      BY <1>1, <2>3, <2>5, DisturbingStep
  <1> QED
    BY <1>2, <1>3, <1>4, <1>5 DEF AdministerTenants

LEMMA AdministerClientsInv ==
  ASSUME Inv, NEW c \in IdentityClients, NEW d \in IdentityClients,
         CreateClient(c) \/ RotateClient(c, d) \/ RevokeClient(c)
  PROVE  Inv'
  <1>1. RowsOK /\ (Change => frame' = Disturb(frame) /\ changes' \in 0..MaxChanges)
        /\ now <= now
    BY SessionsAssumption DEF Inv, Change, RowsOK
  <1>2. /\ client' \in [IdentityClients -> {"absent", "active", "revoked"}] /\ Change
        /\ \A k \in IdentityClients : client[k] # "absent" =>
             client'[k] # "absent" /\ (client'[k] = "active" => client[k] = "active")
        /\ UNCHANGED <<now, tenant, user, membership, session>>
    BY <1>1 DEF CreateClient, RotateClient, RevokeClient, RowsOK
  <1>3. RowsOK' /\ Later
    BY <1>1, <1>2 DEF RowsOK, Later
  <1> QED
    BY <1>1, <1>2, <1>3, DisturbingStep

LEMMA TickInv ==
  ASSUME Inv, Tick
  PROVE  Inv'
  <1>1. /\ RowsOK /\ frame' = Disturb(frame) /\ now' \in 0..MaxNow /\ now <= now'
        /\ UNCHANGED <<tenant, user, membership, client, session, changes>>
    BY SessionsAssumption DEF Inv, Tick, RowsOK
  <1>2. RowsOK' /\ Later
    BY <1>1 DEF RowsOK, Later
  <1> QED
    BY <1>1, <1>2, DisturbingStep

\* A step that moves no handler, and disturbs none.
LEMMA QuietStep ==
  ASSUME Inv, RowsOK', Later, Calm, frame' = frame,
         \A e \in Exchanges : session[e].status = "absent" => session'[e].status = "absent"
  PROVE  Inv'
  <1>1. RowsOK /\ frame \in [Handlers -> Frames] /\ \A q \in Handlers : FrameOK(q)
    BY DEF Inv
  <1>2. ASSUME NEW q \in Handlers PROVE FrameOK(q)'
    BY <1>1, KeepFrame
  <1> QED
    BY <1>1, <1>2 DEF Inv

LEMMA CleanupExpiredInv ==
  ASSUME Inv, CleanupExpired
  PROVE  Inv'
  <1>1. /\ RowsOK /\ UNCHANGED <<now, tenant, user, membership, client, frame, changes>>
        /\ session \in [Exchanges -> SessionRows] /\ now <= now
        /\ session' = [e \in Exchanges |->
             IF session[e].status \in {"live", "revoked"} /\ session[e].expires_at <= now
               THEN [session[e] EXCEPT !.status = "deleted"] ELSE session[e]]
    BY SessionsAssumption DEF Inv, CleanupExpired, RowsOK
  <1>2. ASSUME NEW e \in Exchanges
        PROVE  /\ session'[e] \in SessionRows
               /\ session'[e].status = "absent" <=> session[e].status = "absent"
               /\ session'[e].status = "live" => session[e].status = "live"
               /\ session[e].status = "live" =>
                    session'[e].status = "live" \/ session[e].expires_at <= now
               /\ session'[e].tenant = session[e].tenant
               /\ session'[e].subject = session[e].subject
               /\ session'[e].client = session[e].client
               /\ session'[e].expires_at = session[e].expires_at
    <2>1. session[e] \in SessionRows
      BY <1>1
    <2>2. \/ session'[e] = session[e]
          \/ /\ session'[e] = [session[e] EXCEPT !.status = "deleted"]
             /\ session[e].status # "absent" /\ session[e].expires_at <= now
      BY <1>1
    <2> QED
      BY <2>1, <2>2 DEF SessionRows
  <1>3. session' \in [Exchanges -> SessionRows]
    BY <1>1, <1>2
  <1>4. RowsOK' /\ Later /\ Calm
    BY <1>1, <1>2, <1>3 DEF RowsOK, Later, Calm
  <1> QED
    BY <1>1, <1>2, <1>4, QuietStep

-----------------------------------------------------------------------------
(* The theorems *)

LEMMA NextInv == Inv /\ [Next]_vars => Inv'
  <1> SUFFICES ASSUME Inv, [Next]_vars PROVE Inv'
    OBVIOUS
  <1>1. /\ \A p \in Exchanges \cup Revokes : p \in Handlers \ Calls
        /\ \A p \in Calls : p \in Handlers
    BY SessionsAssumption DEF Handlers
  <1>2. ASSUME NEW p \in Exchanges, Exchange(p) PROVE Inv'
    BY <1>1, <1>2, UpsertUserInv, InsertUserInv, IssueReadInv, IssueSessionInv, AuthenticateInv,
       ExchangeAnswersInv, RevokeReadInv, RevokeWriteInv DEF Exchange
  <1>3. ASSUME NEW p \in Exchanges, NEW c \in IdentityClients, NEW t \in Tenants,
               NEW u \in Subjects, NEW trusted \in BOOLEAN, ExchangeBegins(p, c, t, u, trusted)
        PROVE  Inv'
    BY <1>3, ExchangeBeginsInv
  <1>4. ASSUME NEW p \in Calls, (\E s \in Exchanges : CallBegins(p, s)) \/ Authenticate(p)
        PROVE  Inv'
    BY <1>1, <1>4, CallBeginsInv, AuthenticateInv
  <1>5. ASSUME NEW p \in Revokes,
               \/ \E s \in Exchanges, c \in IdentityClients \cup {None} : RevokeBegins(p, s, c)
               \/ \E s \in Exchanges : AdminRevokes(p, s)
               \/ Authenticate(p) \/ RevokeAuthorised(p) \/ RevokeRead(p) \/ RevokeWrite(p)
        PROVE  Inv'
    BY <1>1, <1>5, RevokeBeginsInv, AdminRevokesInv, AuthenticateInv, RevokeAuthorisedInv,
       RevokeReadInv, RevokeWriteInv
  <1>6. CASE AdministerClients
    BY <1>6, AdministerClientsInv, CleanupExpiredInv DEF AdministerClients
  <1>7. CASE UNCHANGED vars
    <2>1. Later /\ Calm /\ RowsOK' /\ frame' = frame /\ session' = session
      BY <1>7, NothingIsLater DEF Inv, vars
    <2> QED
      BY <2>1, QuietStep
  <1> QED
    BY <1>2, <1>3, <1>4, <1>5, <1>6, <1>7, AdministerTenantsInv, TickInv DEF Next

LEMMA InitInv == Init => Inv
  <1> SUFFICES ASSUME Init PROVE Inv
    OBVIOUS
  <1>1. /\ NoSession \in SessionRows /\ NoSession.status = "absent"
        /\ NewFrame \in Frames /\ NewFrame.pc = "new" /\ NewFrame.user_id = None
        /\ NewFrame.now = 0
    BY SessionsAssumption DEF NoSession, SessionRows, NewFrame, Frames, Pcs, Users
  <1>2. /\ now = 0 /\ changes = 0
        /\ tenant \in [Tenants -> {"absent", "active"}]
        /\ user \in [Subjects -> {None, Provisioned}]
        /\ membership \in [Tenants \X Subjects -> {[status |-> "absent", role |-> None]}
                                                    \cup [status : {"active"}, role : Roles]]
        /\ client \in [IdentityClients -> {"absent", "active"}]
        /\ session = [e \in Exchanges |-> NoSession]
        /\ frame = [p \in Handlers |-> NewFrame]
    BY DEF Init
  <1>3. \A row \in {[status |-> "absent", role |-> None]} \cup [status : {"active"}, role : Roles] :
          row \in [status : Statuses, role : Roles \cup {None}]
    BY DEF Statuses
  <1>4. membership \in [Tenants \X Subjects -> [status : Statuses, role : Roles \cup {None}]]
    BY <1>2, <1>3
  <1>5. RowsOK
    BY <1>1, <1>2, <1>4, SessionsAssumption DEF RowsOK, Statuses, Users
  <1>6. ASSUME NEW p \in Handlers PROVE FrameOK(p)
    <2>1. /\ frame[p].pc = "new" /\ frame[p].user_id = None /\ frame[p].now <= now
          /\ p \in Exchanges => session[p].status = "absent"
      BY <1>1, <1>2
    <2> QED
      BY <2>1 DEF FrameOK, ExchangeOK, DeadIsSeen, ReadsHold, SessionPcs, IssuePcs
  <1> QED
    BY <1>1, <1>2, <1>5, <1>6 DEF Inv

LEMMA AlwaysInv == Spec => []Inv
  BY InitInv, NextInv, PTL DEF Spec

\* Rows and frames keep their shape, and a session row names what its exchange was given.
THEOREM SessionTypes == Spec => []TypeOK
  <1>1. Inv => TypeOK
    BY DEF Inv, RowsOK, TypeOK, Statuses, Frames
  <1> QED
    BY <1>1, AlwaysInv, PTL

\* No request is let in that began when its session was revoked or had run out, or its
\* client was revoked.
THEOREM SessionRevocation == Spec => []RevocationIsPermanent
  <1>1. Inv => RevocationIsPermanent
    BY DEF Inv, Handlers, FrameOK, DeadIsSeen, RevocationIsPermanent
  <1> QED
    BY <1>1, AlwaysInv, PTL

\* An undisturbed request is let in exactly when the four rows are in force.
THEOREM SessionDecisions == Spec => []DecisionsAreExact
  <1>1. Inv => DecisionsAreExact
    BY DEF Inv, Handlers, FrameOK, ReadsHold, DecisionsAreExact
  <1> QED
    BY <1>1, AlwaysInv, PTL

\* A refused exchange leaves no live session.
THEOREM RefusedExchanges == Spec => []RefusedLeavesNothing
  <1>1. Inv => RefusedLeavesNothing
    <2> SUFFICES ASSUME Inv, NEW p \in Exchanges, frame[p].pc \in {"401", "403"}
                 PROVE  session[p].status # "live"
      BY DEF RefusedLeavesNothing
    <2>1. ExchangeOK(p)
      BY DEF Inv, Handlers, FrameOK
    <2> QED
      BY <2>1 DEF ExchangeOK
  <1> QED
    BY <1>1, AlwaysInv, PTL

\* Exchanges of one subject end with one user, however many are the first.
THEOREM OneUser == Spec => []OneUserPerSubject
  <1>1. Inv => OneUserPerSubject
    BY DEF Inv, Handlers, FrameOK, ExchangeOK, OneUserPerSubject
  <1> QED
    BY <1>1, AlwaysInv, PTL

=============================================================================
