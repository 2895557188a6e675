------------------------------ MODULE OAuthTokens -----------------------------
(***************************************************************************)
(* The OAuth 2.1 authorization server for MCP clients (mcp/oauth/          *)
(* authorize.ts, token.ts, revoke.ts): consent, one-shot authorization     *)
(* codes, families of rotating refresh tokens, replay detection and        *)
(* revocation, for one user.                                               *)
(*                                                                         *)
(* A handler is a record in `req` that walks from one database statement   *)
(* to the next; every statement of these handlers is committed on its own, *)
(* but for the INSERT of a consent, which runs on db.scoped() and is never *)
(* committed: it stays invisible and holds its key until the instance      *)
(* stops.                                                                  *)
(***************************************************************************)
EXTENDS Naturals, FiniteSets

CONSTANTS
  Clients,     \* registered OAuth clients
  DcrClients,  \* those that came by dynamic registration and need a consent
  Codes,       \* ids of the rows of oauth_authz_codes
  Tokens,      \* ids of the rows of oauth_refresh_tokens
  Requests,    \* HTTP requests; each is handled once
  CodeTtl,     \* AUTHZ_CODE_TTL_MS
  RefreshTtl,  \* REFRESH_TTL_SEC
  MaxTime,     \* bound: the clock stops here
  None         \* "no client", "no code", "no token" or "no family"

ASSUME ClientAssumption == DcrClients \subseteq Clients
ASSUME TimeAssumption ==
  CodeTtl \in Nat \ {0} /\ RefreshTtl \in Nat \ {0} /\ MaxTime \in Nat
ASSUME NoneAssumption ==
  None \notin Clients /\ None \notin Codes /\ None \notin Tokens /\ None \notin Requests
ASSUME DisjointAssumption == Codes \cap Tokens = {}

VARIABLES
  code,       \* table oauth_authz_codes
  tok,        \* table oauth_refresh_tokens
  consenting, \* clients whose consent row an open transaction has inserted
  req,        \* the request handlers
  now,        \* Date.now()
  known,      \* codes and tokens that have reached their client
  reused,     \* families of which a token was presented twice (history)
  ended       \* families whose client has asked for their end (history)

vars == <<code, tok, consenting, req, now, known, reused, ended>>

\* A family is named by the request that redeemed its code: randomUUID().
Families == Requests

Kinds == {"none", "authorize", "allow", "redeem", "refresh", "revoke"}
Stages == {"idle", "consent", "code", "markUsed", "issue", "answer", "rotate",
           "revokeReplayed", "revokeAsked", "done"}
Answers == {"none", "consentRequired", "code", "tokens", "refused", "replay",
            "revoked", "failed"}

CodeRows == [issued: BOOLEAN, client: Clients \cup {None}, expiresAt: Nat,
             used: BOOLEAN, usedAt: Nat]
NoCode == [issued |-> FALSE, client |-> None, expiresAt |-> 0,
           used |-> FALSE, usedAt |-> 0]

TokenRows == [issued: BOOLEAN, client: Clients \cup {None}, code: Codes \cup {None},
              family: Families \cup {None}, expiresAt: Nat,
              rotated: BOOLEAN, rotatedAt: Nat, revoked: BOOLEAN, presented: BOOLEAN]
NoToken == [issued |-> FALSE, client |-> None, code |-> None, family |-> None,
            expiresAt |-> 0, rotated |-> FALSE, rotatedAt |-> 0, revoked |-> FALSE,
            presented |-> FALSE]

RequestRecords == [kind: Kinds, at: Stages, client: Clients \cup {None},
                   code: Codes \cup {None}, token: Tokens \cup {None},
                   family: Families \cup {None}, ts: Nat, answer: Answers]
NewRequest == [kind |-> "none", at |-> "idle", client |-> None, code |-> None,
               token |-> None, family |-> None, ts |-> 0, answer |-> "none"]

TypeOK ==
  /\ code \in [Codes -> CodeRows]
  /\ tok \in [Tokens -> TokenRows]
  /\ consenting \subseteq Clients
  /\ req \in [Requests -> RequestRecords]
  /\ now \in Nat
  /\ known \subseteq (Codes \cup Tokens)
  /\ reused \subseteq Families
  /\ ended \subseteq Families

Init ==
  /\ code = [k \in Codes |-> NoCode]
  /\ tok = [t \in Tokens |-> NoToken]
  /\ consenting = {}
  /\ req = [r \in Requests |-> NewRequest]
  /\ now = 0
  /\ known = {}
  /\ reused = {}
  /\ ended = {}

Tick ==
  /\ now < MaxTime
  /\ now' = now + 1
  /\ UNCHANGED <<code, tok, consenting, req, known, reused, ended>>

Arrives(r, kind, c, stage) ==
  [NewRequest EXCEPT !.kind = kind, !.client = c, !.at = stage, !.ts = now]

Goes(r, stage) == req' = [req EXCEPT ![r].at = stage]
Ends(r, answer) == req' = [req EXCEPT ![r].at = "done", ![r].answer = answer]

\* Bounds: a request that may insert a row starts only while a row is left.
CodeLeft ==
  Cardinality({k \in Codes : ~code[k].issued})
    > Cardinality({r \in Requests : req[r].at \in {"consent", "code"}})
TokenLeft ==
  Cardinality({t \in Tokens : ~tok[t].issued})
    > Cardinality({r \in Requests : req[r].at \in {"markUsed", "rotate", "issue"}})

FamilyMembers(f) == {t \in Tokens : tok[t].issued /\ tok[t].family = f}
Active(t) == tok[t].issued /\ ~tok[t].rotated /\ ~tok[t].revoked
ActiveIn(f) == {t \in FamilyMembers(f) : Active(t)}

(***************************************************************************)
(* GET and POST /oauth/authorize                                           *)
(***************************************************************************)
\* A client of our own gets its code; for any other hasConsent looks for a
\* committed consent row, of which there is none.
Authorize(r, c) ==
  /\ req[r].at = "idle"
  /\ CodeLeft
  /\ req' = [req EXCEPT ![r] =
       IF c \in DcrClients
       THEN [Arrives(r, "authorize", c, "done") EXCEPT !.answer = "consentRequired"]
       ELSE Arrives(r, "authorize", c, "code")]
  /\ UNCHANGED <<code, tok, consenting, now, known, reused, ended>>

\* The user allows the client on the consent page.
Allow(r, c) ==
  /\ req[r].at = "idle"
  /\ CodeLeft
  /\ req' = [req EXCEPT ![r] = Arrives(r, "allow", c, "consent")]
  /\ UNCHANGED <<code, tok, consenting, now, known, reused, ended>>

\* recordConsent: INSERT ... ON CONFLICT waits for the transaction that has
\* inserted the same key, and that transaction is never ended.
RecordConsent(r) ==
  /\ req[r].at = "consent"
  /\ req[r].client \notin consenting
  /\ consenting' = consenting \cup {req[r].client}
  /\ Goes(r, "code")
  /\ UNCHANGED <<code, tok, now, known, reused, ended>>

\* The code is stored and sent to the client's redirect URI.
IssueCode(r, k) ==
  /\ req[r].at = "code"
  /\ ~code[k].issued
  /\ code' = [code EXCEPT ![k] = [NoCode EXCEPT !.issued = TRUE,
                !.client = req[r].client, !.expiresAt = now + CodeTtl]]
  /\ known' = known \cup {k}
  /\ req' = [req EXCEPT ![r].at = "done", ![r].code = k, ![r].answer = "code"]
  /\ UNCHANGED <<tok, consenting, now, reused, ended>>

(***************************************************************************)
(* POST /oauth/token, grant authorization_code                             *)
(***************************************************************************)
\* Mutant: any client may redeem any code.
RedeemableByAnyone(k, c, verifies) ==
  ~code[k].used /\ code[k].expiresAt >= now /\ verifies

Redeemable(k, c, verifies) ==
  ~code[k].used /\ code[k].expiresAt >= now /\ code[k].client = c /\ verifies

\* `verifies`: the redirect URI and the PKCE verifier match.
Redeem(r, k, c, verifies) ==
  /\ req[r].at = "idle"
  /\ k \in known
  /\ TokenLeft
  /\ req' = [req EXCEPT ![r] =
       IF Redeemable(k, c, verifies)
       THEN [Arrives(r, "redeem", c, "markUsed") EXCEPT !.code = k, !.family = r]
       ELSE [Arrives(r, "redeem", c, "done") EXCEPT !.code = k, !.answer = "refused"]]
  /\ UNCHANGED <<code, tok, consenting, now, known, reused, ended>>

\* The UPDATE does not ask whether the code is still unused.
MarkUsed(r) ==
  /\ req[r].at = "markUsed"
  /\ code' = [code EXCEPT ![req[r].code].used = TRUE, ![req[r].code].usedAt = req[r].ts]
  /\ Goes(r, "issue")
  /\ UNCHANGED <<tok, consenting, now, known, reused, ended>>

\* issueTokenPair: the new refresh token joins the family of the request.
IssueToken(r, t) ==
  /\ req[r].at = "issue"
  /\ ~tok[t].issued
  /\ tok' = [tok EXCEPT ![t] = [NoToken EXCEPT !.issued = TRUE,
               !.client = req[r].client, !.code = req[r].code,
               !.family = req[r].family, !.expiresAt = now + RefreshTtl]]
  /\ req' = [req EXCEPT ![r].at = "answer", ![r].token = t, ![r].answer = "tokens"]
  /\ UNCHANGED <<code, consenting, now, known, reused, ended>>

\* The client receives its token pair.
Answer(r) ==
  /\ req[r].at = "answer"
  /\ known' = known \cup {req[r].token}
  /\ Goes(r, "done")
  /\ UNCHANGED <<code, tok, consenting, now, reused, ended>>

(***************************************************************************)
(* POST /oauth/token, grant refresh_token                                  *)
(***************************************************************************)

\* Mutant: the client is compared only after the replay check.
AfterLookupReplayFirst(t, c) ==
  CASE tok[t].rotated /\ ~tok[t].revoked -> "revokeReplayed"
    [] tok[t].client # c \/ tok[t].revoked \/ tok[t].expiresAt < now -> "done"
    [] OTHER -> "rotate"

\* Mutant: a revoked token that was not rotated is rotated.
AfterLookupRotatedOnly(t, c) ==
  CASE tok[t].client # c \/ (tok[t].rotated /\ tok[t].revoked) -> "done"
    [] OTHER -> IF tok[t].rotated THEN "revokeReplayed"
                ELSE IF tok[t].expiresAt < now THEN "done" ELSE "rotate"

\* Mutant: an expired token is taken for a replay.
AfterLookupExpiredIsReplay(t, c) ==
  CASE tok[t].client # c \/ tok[t].revoked -> "done"
    [] OTHER -> IF tok[t].rotated \/ tok[t].expiresAt < now THEN "revokeReplayed" ELSE "rotate"

AfterLookup(t, c) ==
  CASE tok[t].client # c \/ tok[t].revoked -> "done"
    [] tok[t].client = c /\ ~tok[t].revoked /\ tok[t].rotated -> "revokeReplayed"
    [] OTHER -> IF tok[t].expiresAt < now THEN "done" ELSE "rotate"

Refresh(r, t, c) ==
  /\ req[r].at = "idle"
  /\ t \in known
  /\ TokenLeft
  /\ req' = [req EXCEPT ![r] =
       [Arrives(r, "refresh", c, AfterLookup(t, c)) EXCEPT
          !.token = t, !.code = tok[t].code, !.family = tok[t].family,
          !.answer = IF AfterLookup(t, c) = "done" THEN "refused" ELSE "none"]]
  /\ tok' = [tok EXCEPT ![t].presented = @ \/ tok[t].client = c]
  /\ reused' = IF tok[t].client = c /\ tok[t].presented
               THEN reused \cup {tok[t].family} ELSE reused
  /\ UNCHANGED <<code, consenting, now, known, ended>>

\* Mutant: the old token stays usable.
RotateKeepsOld(r) ==
  /\ req[r].at = "rotate"
  /\ Goes(r, "issue")
  /\ UNCHANGED <<code, tok, consenting, now, known, reused, ended>>

\* The UPDATE does not ask whether the token was rotated or revoked since.
Rotate(r) ==
  /\ req[r].at = "rotate"
  /\ tok' = [tok EXCEPT ![req[r].token].rotated = TRUE,
                        ![req[r].token].rotatedAt = req[r].ts]
  /\ Goes(r, "issue")
  /\ UNCHANGED <<code, consenting, now, known, reused, ended>>

Revoked(S) == [t \in Tokens |-> IF t \in S THEN [tok[t] EXCEPT !.revoked = TRUE] ELSE tok[t]]

RevokeReplayed(r) ==
  /\ req[r].at = "revokeReplayed"
  /\ tok' = Revoked(FamilyMembers(req[r].family))
  /\ Ends(r, "replay")
  /\ UNCHANGED <<code, consenting, now, known, reused, ended>>

(***************************************************************************)
(* POST /oauth/revoke                                                      *)
(***************************************************************************)
Revoke(r, t, c) ==
  /\ req[r].at = "idle"
  /\ t \in known
  /\ req' = [req EXCEPT ![r] =
       IF tok[t].client = c /\ ~tok[t].revoked
       THEN [Arrives(r, "revoke", c, "revokeAsked") EXCEPT !.token = t, !.family = tok[t].family]
       ELSE [Arrives(r, "revoke", c, "done") EXCEPT !.token = t, !.answer = "refused"]]
  /\ ended' = IF tok[t].client = c THEN ended \cup {tok[t].family} ELSE ended
  /\ UNCHANGED <<code, tok, consenting, now, known, reused>>

RevokeAsked(r) ==
  /\ req[r].at = "revokeAsked"
  /\ tok' = Revoked(FamilyMembers(req[r].family))
  /\ Ends(r, "revoked")
  /\ UNCHANGED <<code, consenting, now, known, reused, ended>>

(***************************************************************************)
(* Failures                                                                *)
(***************************************************************************)
\* A statement fails, the answer is lost, or the instance dies under it.
Fail(r) ==
  /\ req[r].at \notin {"idle", "done"}
  /\ Ends(r, "failed")
  /\ UNCHANGED <<code, tok, consenting, now, known, reused, ended>>

\* The instance stops: its requests die and PostgreSQL rolls the open consent
\* transactions back.
Restart ==
  /\ consenting # {}
  /\ consenting' = {}
  /\ req' = [r \in Requests |->
       IF req[r].at \in {"idle", "done"} THEN req[r]
       ELSE [req[r] EXCEPT !.at = "done", !.answer = "failed"]]
  /\ UNCHANGED <<code, tok, now, known, reused, ended>>

Step(r) ==
  \/ RecordConsent(r)
  \/ \E k \in Codes : IssueCode(r, k)
  \/ MarkUsed(r)
  \/ \E t \in Tokens : IssueToken(r, t)
  \/ Answer(r)
  \/ Rotate(r) \/ RevokeReplayed(r)
  \/ RevokeAsked(r)

Arrive(r) ==
  \E c \in Clients :
    \/ Authorize(r, c) \/ Allow(r, c)
    \/ \E k \in Codes, verifies \in BOOLEAN : Redeem(r, k, c, verifies)
    \/ \E t \in Tokens : Refresh(r, t, c) \/ Revoke(r, t, c)

Next ==
  \/ Tick
  \/ \E r \in Requests : Arrive(r) \/ Step(r) \/ Fail(r)
  \/ Restart

Spec == Init /\ [][Next]_vars

-------------------------------------------------------------------------------
(***************************************************************************)
(* Properties                                                              *)
(***************************************************************************)

\* However many rotations lie between, a refresh token belongs to the client
\* its authorization code was made for.
TokensStayWithClient ==
  \A t \in Tokens : tok[t].issued => tok[t].client = code[tok[t].code].client

\* As long as no token of a family is presented twice, at most one of them can
\* be exchanged.
OneActiveUnlessReused ==
  \A f \in Families \ reused : Cardinality(ActiveIn(f)) <= 1

\* A family is revoked only because one of its own tokens was presented twice
\* by its client, or because its client asked for it.
NoFalseRevocation ==
  \A t \in Tokens : tok[t].revoked => tok[t].family \in reused \cup ended

\* Codes and tokens are exchanged within their lives, although the check and
\* the exchange are separate statements.
ExchangedInLife ==
  /\ \A k \in Codes : code[k].used => code[k].usedAt <= code[k].expiresAt
  /\ \A t \in Tokens : tok[t].rotated => tok[t].rotatedAt <= tok[t].expiresAt

\* No token of the family can be exchanged and no exchange is on its way,
\* because it was revoked or because a rotation died half way.
Buried(f) ==
  /\ FamilyMembers(f) # {} /\ ActiveIn(f) = {}
  /\ \A r \in Requests : req[r].family = f => req[r].at \notin {"rotate", "issue"}

\* Such a family never has a usable token again.
BuriedStaysDead ==
  [][\A f \in Families : Buried(f) => Buried(f)']_vars

\* A token is revoked for good only by a request that its own client sent.
OnlyOwnClientRevokes ==
  [][\A t \in Tokens : tok'[t].revoked /\ ~tok[t].revoked =>
       \E r \in Requests : /\ req[r].at \in {"revokeReplayed", "revokeAsked"}
                           /\ req[r].client = tok[t].client /\ req'[r].at = "done"]_vars

(***************************************************************************)
(* The inductive invariant behind these properties (OAuthProofs).          *)
(***************************************************************************)
CodeOK(k) ==
  /\ ~code[k].issued => code[k] = NoCode
  /\ code[k].used => code[k].usedAt <= code[k].expiresAt
  /\ k \in known => code[k].issued

TokenOK(t) ==
  /\ ~tok[t].issued => tok[t] = NoToken
  /\ tok[t].issued => /\ tok[t].code \in Codes /\ code[tok[t].code].issued
                      /\ tok[t].client = code[tok[t].code].client
                      /\ tok[t].family \in Families
  /\ tok[t].rotated => tok[t].presented /\ tok[t].rotatedAt <= tok[t].expiresAt
  /\ tok[t].revoked => tok[t].family \in reused \cup ended
  /\ t \in known => tok[t].issued

\* The request has looked at an issued token of its client and its family.
HoldsToken(r) ==
  /\ req[r].token \in Tokens
  /\ tok[req[r].token].issued
  /\ tok[req[r].token].client = req[r].client
  /\ tok[req[r].token].code = req[r].code
  /\ tok[req[r].token].family = req[r].family

\* The request has looked at a code of its client, for a family of its own.
HoldsCode(r) ==
  /\ req[r].code \in Codes
  /\ code[req[r].code].issued
  /\ code[req[r].code].client = req[r].client
  /\ req[r].family = r

\* What a handler still knows of the rows it has looked at before.
HandlerOK(r) ==
  /\ req[r].at # "idle" => req[r].client \in Clients
  /\ req[r].at = "markUsed" => HoldsCode(r) /\ req[r].ts <= code[req[r].code].expiresAt
                               /\ req[r].kind = "redeem"
  /\ req[r].at = "rotate" =>
       /\ HoldsToken(r) /\ tok[req[r].token].presented
       /\ req[r].ts <= tok[req[r].token].expiresAt /\ req[r].kind = "refresh"
  /\ req[r].at = "issue" => \/ req[r].kind = "redeem" /\ HoldsCode(r)
                            \/ req[r].kind = "refresh" /\ HoldsToken(r)
  /\ req[r].at = "answer" => req[r].token \in Tokens /\ tok[req[r].token].issued
  /\ req[r].at = "revokeReplayed" => HoldsToken(r) /\ req[r].family \in reused
  /\ req[r].at = "revokeAsked" =>
       /\ req[r].token \in Tokens /\ tok[req[r].token].issued
       /\ tok[req[r].token].client = req[r].client
       /\ tok[req[r].token].family = req[r].family
       /\ req[r].family \in ended
  /\ \/ req[r].at \in {"idle", "markUsed"}
     \/ req[r].at = "issue" /\ req[r].kind = "redeem"
     => FamilyMembers(r) = {}

\* The request may end in a new token of family f.
Exchanging(r, f) == req[r].at \in {"markUsed", "rotate", "issue"} /\ req[r].family = f

FamilyOK(f) ==
  /\ \A t, u \in FamilyMembers(f) : tok[t].client = tok[u].client
  /\ f \notin reused =>
       /\ \A t, u \in ActiveIn(f) : t = u
       /\ \A r, q \in Requests : Exchanging(r, f) /\ Exchanging(q, f) => r = q
       /\ \A r \in Requests : Exchanging(r, f) =>
            \A u \in ActiveIn(f) : req[r].at = "rotate" /\ u = req[r].token

IInv ==
  /\ TypeOK
  /\ \A k \in Codes : CodeOK(k)
  /\ \A t \in Tokens : TokenOK(t)
  /\ \A r \in Requests : HandlerOK(r)
  /\ \A f \in Families : FamilyOK(f)
===============================================================================
