--------------------------- MODULE RefreshSessions ----------------------------
(***************************************************************************)
(* Login sessions and the rotation of their refresh tokens                 *)
(* (auth/session/refresh.ts, routes/auth/session.ts).  A refresh token is  *)
(* exchanged for a new one each time it is used; using a token that was    *)
(* already exchanged is taken for a replay and ends the session.           *)
(*                                                                         *)
(* A handler is a record in `req` that walks from one database access to   *)
(* the next.  db.transaction() appears as one step at its COMMIT; the      *)
(* transaction that db.scoped() opens for the logout is never committed    *)
(* (nobody calls release()), so its writes stay invisible, and its row     *)
(* locks and its connection of the pool stay taken until the instance      *)
(* stops.  Other handlers of the process that call scoped() take           *)
(* connections in the same way: PoolSize counts those that are left.       *)
(***************************************************************************)
EXTENDS Naturals, FiniteSets

CONSTANTS
  Sessions,    \* ids of the rows of table sessions
  Tokens,      \* the rows of table refresh_tokens, numbered as they are inserted
  Requests,    \* HTTP requests, numbered as they arrive; each is handled once
  RefreshTtl,  \* REFRESH_TTL_SEC
  PoolSize,    \* connections of the pool
  MaxTime,     \* bound: the clock stops here
  None         \* "no session" or "no token"

ASSUME TtlAssumption == RefreshTtl \in Nat \ {0} /\ MaxTime \in Nat
ASSUME PoolAssumption == PoolSize \in Nat \ {0}
ASSUME NumberAssumption == Tokens \subseteq Nat /\ Requests \subseteq Nat
ASSUME NoneAssumption == None \notin Sessions /\ None \notin Tokens

VARIABLES
  session,   \* table sessions: absent, open, or revoked (revoked_at set)
  tok,       \* table refresh_tokens
  req,       \* the request handlers
  locks,     \* rows locked by transactions that a logout left open
  pool,      \* requests that keep a connection between two of their steps
  now,       \* Date.now()
  known,     \* tokens that have reached a client
  reused     \* sessions of which some token was presented twice (history)

vars == <<session, tok, req, locks, pool, now, known, reused>>

Stages == {"idle", "token", "rotate", "answer", "replayTokens", "replaySession",
           "logoutTokens", "logoutSession", "audit", "done"}
Answers == {"none", "tokens", "expired", "replay", "loggedOut", "accepted", "failed"}

TokenRows == [state: {"absent", "live", "revoked"}, session: Sessions \cup {None},
              parent: Tokens \cup {None}, createdAt: Nat, expiresAt: Nat,
              presented: BOOLEAN]

NoToken == [state |-> "absent", session |-> None, parent |-> None,
            createdAt |-> 0, expiresAt |-> 0, presented |-> FALSE]

RequestRecords == [at: Stages, session: Sessions \cup {None},
                   token: Tokens \cup {None}, ts: Nat, answer: Answers]

NewRequest == [at |-> "idle", session |-> None,
               token |-> None, ts |-> 0, answer |-> "none"]

TypeOK ==
  /\ session \in [Sessions -> {"absent", "open", "revoked"}]
  /\ tok \in [Tokens -> TokenRows]
  /\ req \in [Requests -> RequestRecords]
  /\ locks \subseteq (Sessions \cup Tokens)
  /\ pool \subseteq Requests
  /\ now \in Nat
  /\ known \subseteq Tokens
  /\ reused \subseteq Sessions

Init ==
  /\ session = [s \in Sessions |-> "absent"]
  /\ tok = [t \in Tokens |-> NoToken]
  /\ req = [r \in Requests |-> NewRequest]
  /\ locks = {}
  /\ pool = {}
  /\ now = 0
  /\ known = {}
  /\ reused = {}

Tick ==
  /\ now < MaxTime
  /\ now' = now + 1
  /\ UNCHANGED <<session, tok, req, locks, pool, known, reused>>

FamilyOf(s) == {t \in Tokens : tok[t].session = s}
LiveOf(s) == {t \in FamilyOf(s) : tok[t].state = "live"}

\* Bound: a request that may insert a token starts only while a row is left.
Unused == {t \in Tokens : tok[t].state = "absent"}
Inserting == {r \in Requests : req[r].at \in {"token", "rotate"}}
RowLeft == Cardinality(Unused) > Cardinality(Inserting)

NextUnused(t) == t \in Unused /\ \A u \in Unused : t <= u

Arrives(r) ==
  req[r].at = "idle" /\ \A x \in Requests : x < r => req[x].at # "idle"

\* A statement, or a transaction that ends with its step, finds a connection;
\* postgres.js lets it wait for one without a limit.
ConnectionLeft == Cardinality(pool) < PoolSize

Goes(r, stage) == req' = [req EXCEPT ![r].at = stage]

\* What the handler held is forgotten with its answer.
Ends(r, answer) ==
  req' = [req EXCEPT ![r] = [NewRequest EXCEPT !.at = "done", !.answer = answer]]

\* What is left to do is the row in the audit log.
Audits(r, answer) == req' = [req EXCEPT ![r].at = "audit", ![r].answer = answer]

(***************************************************************************)
(* Login (Google callback or passkey): the session row, then, in its own   *)
(* transaction, the first refresh token.                                   *)
(***************************************************************************)
CreateSession(r, s) ==
  /\ Arrives(r)
  /\ ConnectionLeft
  /\ session[s] = "absent"
  /\ RowLeft
  /\ session' = [session EXCEPT ![s] = "open"]
  /\ req' = [req EXCEPT ![r] = [NewRequest EXCEPT !.at = "token", !.session = s]]
  /\ UNCHANGED <<tok, locks, pool, now, known, reused>>

NewToken(s, parent, ts) ==
  [NoToken EXCEPT !.state = "live", !.session = s, !.parent = parent,
                  !.createdAt = ts, !.expiresAt = ts + RefreshTtl]

IssueInitialRefresh(r, t) ==
  /\ req[r].at = "token"
  /\ ConnectionLeft
  /\ NextUnused(t)
  /\ tok' = [tok EXCEPT ![t] = NewToken(req[r].session, None, now)]
  /\ req' = [req EXCEPT ![r].at = "answer", ![r].token = t]
  /\ UNCHANGED <<session, locks, pool, now, known, reused>>

(***************************************************************************)
(* POST /auth/refresh                                                      *)
(***************************************************************************)
\* Mutant: replaced_by is tested in place of revoked_at.
AfterSelectReplacedOnly(t) ==
  IF \E c \in Tokens : tok[c].parent = t THEN "replayTokens"
  ELSE IF tok[t].expiresAt < now THEN "done" ELSE "rotate"

\* Where the SELECT sends a refresh: a revoked token is a replay, even when it
\* has also expired.
AfterSelect(t) ==
  CASE tok[t].state = "revoked" -> "replayTokens"
    [] tok[t].state # "revoked" /\ tok[t].expiresAt < now -> "done"
    [] OTHER -> "rotate"

RefreshSelect(r, t) ==
  /\ Arrives(r)
  /\ ConnectionLeft
  /\ t \in known
  /\ RowLeft
  /\ IF AfterSelect(t) = "done" THEN Ends(r, "expired")
     ELSE req' = [req EXCEPT ![r] = [at |-> AfterSelect(t), session |-> tok[t].session,
                                     token |-> t, ts |-> now, answer |-> "none"]]
  /\ tok' = [tok EXCEPT ![t].presented = TRUE]
  /\ reused' = IF tok[t].presented THEN reused \cup {tok[t].session} ELSE reused
  /\ UNCHANGED <<session, locks, pool, now, known>>

\* Mutant: the new token is inserted, the old one is not revoked.
RotateKeepsOld(r, c) ==
  /\ req[r].at = "rotate"
  /\ ConnectionLeft
  /\ req[r].token \notin locks
  /\ NextUnused(c)
  /\ tok' = [tok EXCEPT ![c] = NewToken(req[r].session, req[r].token, req[r].ts)]
  /\ req' = [req EXCEPT ![r].at = "answer", ![r].token = c]
  /\ UNCHANGED <<session, locks, pool, now, known, reused>>

\* The transaction of rotateRefresh.  Its UPDATE names the old row by id only,
\* so it does not notice that the row was revoked since the SELECT; it waits
\* while a logout holds the row.
Rotate(r, c) ==
  /\ req[r].at = "rotate"
  /\ ConnectionLeft
  /\ req[r].token \notin locks
  /\ NextUnused(c)
  /\ tok' = [tok EXCEPT ![c] = NewToken(req[r].session, req[r].token, req[r].ts),
                        ![req[r].token].state = "revoked"]
  /\ req' = [req EXCEPT ![r].at = "answer", ![r].token = c]
  /\ UNCHANGED <<session, locks, pool, now, known, reused>>

\* The client receives its token (login or refresh).
Answer(r) ==
  /\ req[r].at = "answer"
  /\ ConnectionLeft
  /\ known' = known \cup {req[r].token}
  /\ Ends(r, "tokens")
  /\ UNCHANGED <<session, tok, locks, pool, now, reused>>

Revoked(S) == [t \in Tokens |-> IF t \in S THEN [tok[t] EXCEPT !.state = "revoked"] ELSE tok[t]]

\* Mutant: the replay revokes the tokens of every session.
ReplayRevokesAll(r) ==
  /\ req[r].at = "replayTokens"
  /\ ConnectionLeft
  /\ LiveOf(req[r].session) \cap locks = {}
  /\ tok' = Revoked({t \in Tokens : tok[t].state = "live"})
  /\ Goes(r, "replaySession")
  /\ UNCHANGED <<session, locks, pool, now, known, reused>>

\* UPDATE refresh_tokens ... WHERE session_id = s AND revoked_at IS NULL
ReplayTokens(r) ==
  /\ req[r].at = "replayTokens"
  /\ ConnectionLeft
  /\ LiveOf(req[r].session) \cap locks = {}
  /\ tok' = Revoked(LiveOf(req[r].session))
  /\ Goes(r, "replaySession")
  /\ UNCHANGED <<session, locks, pool, now, known, reused>>

\* UPDATE sessions SET revoked_at ... WHERE id = s
ReplaySession(r) ==
  /\ req[r].at = "replaySession"
  /\ ConnectionLeft
  /\ req[r].session \notin locks
  /\ session' = [session EXCEPT ![req[r].session] = "revoked"]
  /\ Audits(r, "replay")
  /\ UNCHANGED <<tok, locks, pool, now, known, reused>>

(***************************************************************************)
(* POST /auth/logout.  The two UPDATEs of revokeSession run in a           *)
(* transaction that stays open: they lock rows and change nothing.         *)
(***************************************************************************)
Logout(r, s) ==
  /\ Arrives(r)
  /\ session[s] # "absent"
  /\ req' = [req EXCEPT ![r] = [NewRequest EXCEPT !.at = "logoutTokens", !.session = s]]
  /\ UNCHANGED <<session, tok, locks, pool, now, known, reused>>

\* scoped() reserves a connection that no step gives back.
LogoutTokens(r) ==
  /\ req[r].at = "logoutTokens"
  /\ ConnectionLeft
  /\ LiveOf(req[r].session) \cap locks = {}
  /\ pool' = pool \cup {r}
  /\ locks' = locks \cup LiveOf(req[r].session)
  /\ Goes(r, "logoutSession")
  /\ UNCHANGED <<session, tok, now, known, reused>>

LogoutSession(r) ==
  /\ req[r].at = "logoutSession"
  /\ req[r].session \notin locks
  /\ locks' = IF session[req[r].session] = "open" THEN locks \cup {req[r].session} ELSE locks
  /\ Audits(r, "loggedOut")
  /\ UNCHANGED <<session, tok, pool, now, known, reused>>

\* emitAudit, with a connection of its own; then the answer.
Audit(r) ==
  /\ req[r].at = "audit"
  /\ ConnectionLeft
  /\ Ends(r, req[r].answer)
  /\ UNCHANGED <<session, tok, locks, pool, now, known, reused>>

\* The handler waits for a row that a logout has locked for good.
BlockedByLogout(r) ==
  \/ req[r].at = "rotate" /\ req[r].token \in locks
  \/ req[r].at \in {"replayTokens", "logoutTokens"} /\ LiveOf(req[r].session) \cap locks # {}
  \/ req[r].at \in {"replaySession", "logoutSession"} /\ req[r].session \in locks

\* Who waits for a row waits with a connection.
WaitForRow(r) ==
  /\ BlockedByLogout(r) /\ r \notin pool
  /\ ConnectionLeft
  /\ pool' = pool \cup {r}
  /\ UNCHANGED <<session, tok, req, locks, now, known, reused>>

\* Any other authenticated request: middleware/auth.ts verifies the signature
\* of the access token and its expiry, and reads no table.
Access(r, s) ==
  /\ Arrives(r)
  /\ FamilyOf(s) \cap known # {}
  /\ Ends(r, "accepted")
  /\ UNCHANGED <<session, tok, locks, pool, now, known, reused>>

\* Mutant: the connection of a transaction that fails is not released.
FailKeepsConnection(r) ==
  /\ req[r].at \in {"token", "rotate", "answer", "replayTokens", "replaySession"}
  /\ Ends(r, "failed")
  /\ pool' = IF req[r].at \in {"token", "rotate"} THEN pool \cup {r} ELSE pool \ {r}
  /\ UNCHANGED <<session, tok, locks, now, known, reused>>

\* A database access of a login or refresh fails, or its answer is lost.
Fail(r) ==
  /\ req[r].at \in {"token", "rotate", "answer", "replayTokens", "replaySession"}
  /\ Ends(r, "failed")
  /\ pool' = pool \ {r}
  /\ UNCHANGED <<session, tok, locks, now, known, reused>>

\* The instance stops: its requests die and Postgres rolls back what the
\* logouts left open.
Restart ==
  /\ pool # {}
  /\ locks' = {} /\ pool' = {}
  /\ req' = [r \in Requests |->
       IF req[r].at \in {"idle", "done"} THEN req[r]
       ELSE [NewRequest EXCEPT !.at = "done", !.answer = "failed"]]
  /\ UNCHANGED <<session, tok, now, known, reused>>

\* What a handler does by itself.
Step(r) ==
  \/ \E t \in Tokens : IssueInitialRefresh(r, t) \/ Rotate(r, t)
  \/ Answer(r)
  \/ ReplayTokens(r) \/ ReplaySession(r)
  \/ LogoutTokens(r) \/ LogoutSession(r) \/ Audit(r)

Arrive(r) ==
  \/ \E s \in Sessions : CreateSession(r, s) \/ Logout(r, s) \/ Access(r, s)
  \/ \E t \in Tokens : RefreshSelect(r, t)

Next ==
  \/ Tick
  \/ \E r \in Requests : Arrive(r) \/ Step(r) \/ WaitForRow(r) \/ Fail(r)
  \/ Restart

Spec == Init /\ [][Next]_vars

\* A handler that waits neither for a locked row nor for a connection goes on.
FairSpec == Spec /\ \A r \in Requests : WF_vars(Step(r))

-------------------------------------------------------------------------------
(***************************************************************************)
(* Properties                                                              *)
(***************************************************************************)

\* The handover from one token to the next is atomic: no token is valid
\* together with the token it replaces, whatever replays and failures come
\* between (the INSERT and the UPDATE of rotateRefresh share a transaction).
HandoverAtomic ==
  \A t \in Tokens : tok[t].parent # None => tok[tok[t].parent].state = "revoked"

\* As long as no token of a session is presented twice, the session has at
\* most one valid token, so that a thief and the owner cannot both go on.
OneLiveUnlessReused ==
  \A s \in Sessions \ reused : Cardinality(LiveOf(s)) <= 1

\* A client that presents every token once is never taken for a replay: a
\* session is ended, and a token taken from it unreplaced, only after reuse.
NoFalseReplay ==
  \A s \in Sessions \ reused :
    /\ session[s] # "revoked"
    /\ \A t \in FamilyOf(s) : tok[t].state = "revoked" => \E c \in Tokens : tok[c].parent = t

\* What holds of every row: an absent row is empty, another belongs to a session
\* that exists; a token that was replaced had been presented.
TokenOK(t) ==
  /\ tok[t].state = "absent" => tok[t] = NoToken
  /\ tok[t].state # "absent" => /\ tok[t].session \in Sessions
                                /\ session[tok[t].session] # "absent"
  /\ tok[t].parent # None => tok[tok[t].parent].presented
  /\ tok[t].presented => tok[t].state # "absent"
  /\ t \in known => tok[t].state # "absent"

\* What a handler still knows of the rows it has looked at before.
HandlerOK(r) ==
  /\ req[r].at \notin {"idle", "done", "answer"} =>
       req[r].session \in Sessions /\ session[req[r].session] # "absent"
  /\ req[r].at = "rotate" =>
       /\ req[r].token \in Tokens
       /\ tok[req[r].token].session = req[r].session
       /\ tok[req[r].token].presented
  /\ req[r].at = "answer" => req[r].token \in Tokens /\ tok[req[r].token].state # "absent"
  /\ req[r].at \in {"replayTokens", "replaySession"} => req[r].session \in reused

\* The request may end in a new token of session s.
Exchanging(r, s) == req[r].at \in {"token", "rotate"} /\ req[r].session = s

\* As long as no token of the session was presented twice there is one chain of
\* tokens, whose end is valid or not yet made; at most one request extends it.
ChainOK(s) ==
  /\ session[s] # "revoked"
  /\ \A t, u \in LiveOf(s) : t = u
  /\ \A t \in FamilyOf(s) : tok[t].state = "revoked" => \E c \in Tokens : tok[c].parent = t
  /\ \A r, q \in Requests : Exchanging(r, s) /\ Exchanging(q, s) => r = q
  /\ \A r \in Requests : Exchanging(r, s) =>
       \/ req[r].at = "token" /\ FamilyOf(s) = {}
       \/ req[r].at = "rotate" /\ req[r].token \in LiveOf(s)

\* The inductive invariant.
IInv ==
  /\ TypeOK
  /\ HandoverAtomic
  /\ \A t \in Tokens : TokenOK(t)
  /\ \A r \in Requests : HandlerOK(r)
  /\ \A s \in Sessions \ reused : ChainOK(s)

\* All tokens of the session are revoked and no exchange is on its way.
Buried(s) ==
  /\ session[s] # "absent" /\ FamilyOf(s) # {} /\ LiveOf(s) = {}
  /\ \A r \in Requests : req[r].session = s => req[r].at \notin {"token", "rotate"}

\* Such a session never gets a valid token again: only an exchange that had
\* passed its check before can survive a replay.
BuriedStaysDead ==
  [][\A s \in Sessions : Buried(s) => Buried(s)']_vars

\* Connections that are gone until the instance stops: those of the logouts, and
\* of handlers that wait for a row which a logout has locked.
GoneForGood ==
  {r \in pool : req[r].at = "logoutSession" \/ req[r].answer = "loggedOut" \/ BlockedByLogout(r)}

\* Every request ends, unless logouts that never commit hold its rows, or have
\* used up the pool together with those who wait for their rows.
EndsUnlessBlocked ==
  \A r \in Requests :
    req[r].at # "idle" ~> \/ req[r].at = "done" \/ BlockedByLogout(r)
                          \/ Cardinality(GoneForGood) >= PoolSize

(***************************************************************************)
(* Statements of the repository that the code does not keep.               *)
(***************************************************************************)

\* schema/postgres/sessions.ts: revoked_at is set "bei explicit logout ODER
\* Refresh-Replay-Detection", so an answered logout has revoked the session.
LogoutRevokes ==
  [][\A r \in Requests :
       req[r].at = "audit" /\ req'[r].at = "done" /\ req'[r].answer = "loggedOut" =>
         session'[req[r].session] = "revoked"]_vars

===============================================================================
