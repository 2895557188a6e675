------------------------------ MODULE OAuthProofs ------------------------------
(***************************************************************************)
(* Proofs about OAuthTokens for any sets of clients, codes, tokens and     *)
(* requests and any times to live.                                         *)
(***************************************************************************)
EXTENDS OAuthTokens, FiniteSetTheorems, TLAPS

LEMMA TypeInit == Init => TypeOK
<1> SUFFICES ASSUME Init PROVE TypeOK
  OBVIOUS
<1>1. NoCode \in CodeRows /\ NoToken \in TokenRows
  BY DEF NoCode, CodeRows, NoToken, TokenRows
<1>2. NewRequest \in RequestRecords
  BY DEF NewRequest, RequestRecords, Kinds, Stages, Answers
<1>3. QED
  BY <1>1, <1>2 DEF Init, TypeOK

\* A request that arrives, or one that moves on, is a request.
LEMMA ArrivesType ==
  ASSUME TypeOK, NEW kind \in Kinds, NEW c \in Clients, NEW stage \in Stages, NEW r \in Requests
  PROVE  Arrives(r, kind, c, stage) \in RequestRecords
BY DEF TypeOK, Arrives, NewRequest, RequestRecords, Answers

LEMMA GoesType ==
  ASSUME TypeOK, NEW r \in Requests, NEW stage \in Stages, Goes(r, stage)
  PROVE  req' \in [Requests -> RequestRecords]
<1>1. req[r] \in RequestRecords
  BY DEF TypeOK
<1>2. [req[r] EXCEPT !.at = stage] \in RequestRecords
  BY <1>1 DEF RequestRecords
<1>3. QED
  BY <1>2 DEF TypeOK, Goes

LEMMA EndsType ==
  ASSUME TypeOK, NEW r \in Requests, NEW answer \in Answers, Ends(r, answer)
  PROVE  req' \in [Requests -> RequestRecords]
<1>1. req[r] \in RequestRecords /\ "done" \in Stages
  BY DEF TypeOK, Stages
<1>2. [req[r] EXCEPT !.at = "done", !.answer = answer] \in RequestRecords
  BY <1>1 DEF RequestRecords
<1>3. QED
  BY <1>2 DEF TypeOK, Ends

LEMMA TypeStep == IInv /\ [Next]_vars => TypeOK'
<1> SUFFICES ASSUME IInv, [Next]_vars PROVE TypeOK'
  OBVIOUS
<1> USE DEF TypeOK
<1>0. TypeOK
  BY DEF IInv
<1>1. /\ {"idle", "consent", "code", "markUsed", "issue", "answer", "rotate",
          "revokeReplayed", "revokeAsked", "done"} \subseteq Stages
      /\ {"none", "consentRequired", "code", "tokens", "refused", "replay",
          "revoked", "failed"} \subseteq Answers
      /\ {"none", "authorize", "allow", "redeem", "refresh", "revoke"} \subseteq Kinds
  BY DEF Stages, Answers, Kinds
<1>2. CASE Tick
  BY <1>0, <1>2 DEF Tick
<1>3. ASSUME NEW r \in Requests, NEW c \in Clients, Authorize(r, c) PROVE TypeOK'
  <2>1. /\ Arrives(r, "authorize", c, "done") \in RequestRecords
        /\ Arrives(r, "authorize", c, "code") \in RequestRecords
    BY <1>0, <1>1, ArrivesType
  <2>2. [Arrives(r, "authorize", c, "done") EXCEPT !.answer = "consentRequired"] \in RequestRecords
    BY <1>1, <2>1 DEF RequestRecords
  <2>3. QED
    BY <1>0, <1>3, <2>1, <2>2 DEF Authorize
<1>4. ASSUME NEW r \in Requests, NEW c \in Clients, Allow(r, c) PROVE TypeOK'
  BY <1>0, <1>1, <1>4, ArrivesType DEF Allow
<1>5. ASSUME NEW r \in Requests, NEW c \in Clients, NEW k \in Codes, NEW verifies \in BOOLEAN,
             Redeem(r, k, c, verifies)
      PROVE  TypeOK'
  <2>1. /\ Arrives(r, "redeem", c, "markUsed") \in RequestRecords
        /\ Arrives(r, "redeem", c, "done") \in RequestRecords
    BY <1>0, <1>1, ArrivesType
  <2>2. [Arrives(r, "redeem", c, "markUsed") EXCEPT !.code = k, !.family = r] \in RequestRecords
    BY <2>1 DEF RequestRecords, Families
  <2>3. [Arrives(r, "redeem", c, "done") EXCEPT !.code = k, !.answer = "refused"] \in RequestRecords
    BY <1>1, <2>1 DEF RequestRecords
  <2>4. QED
    BY <1>0, <1>5, <2>2, <2>3 DEF Redeem
<1>6. ASSUME NEW r \in Requests, NEW c \in Clients, NEW t \in Tokens, Refresh(r, t, c)
      PROVE  TypeOK'
  <2>1. AfterLookup(t, c) \in Stages
    BY <1>1 DEF AfterLookup
  <2>2. tok[t] \in TokenRows /\ tok[t].family \in Families
    BY <1>0, <1>6 DEF Refresh, IInv, TokenOK
  <2>3. tok' \in [Tokens -> TokenRows]
    BY <1>0, <1>6, <2>2 DEF Refresh, TokenRows
  <2>4. req' \in [Requests -> RequestRecords]
    <3> DEFINE x == Arrives(r, "refresh", c, AfterLookup(t, c))
    <3>1. x \in RequestRecords
      BY <1>0, <1>1, <2>1, ArrivesType
    <3>2. tok[t].code \in Codes \cup {None}
      BY <2>2 DEF TokenRows
    <3>3. ASSUME NEW answer \in Answers
          PROVE  [x EXCEPT !.token = t, !.code = tok[t].code, !.family = tok[t].family,
                           !.answer = answer] \in RequestRecords
      <4> HIDE DEF x
      <4>1. QED
        BY <2>2, <3>1, <3>2 DEF RequestRecords
    <3>4. QED
      BY <1>0, <1>1, <1>6, <3>3 DEF Refresh
  <2>5. reused' \subseteq Families
    BY <1>0, <1>6, <2>2 DEF Refresh
  <2>6. QED
    BY <1>0, <1>6, <2>3, <2>4, <2>5 DEF Refresh
<1>7. ASSUME NEW r \in Requests, NEW c \in Clients, NEW t \in Tokens, Revoke(r, t, c)
      PROVE  TypeOK'
  <2>2. tok[t] \in TokenRows /\ tok[t].family \in Families
    BY <1>0, <1>7 DEF Revoke, IInv, TokenOK
  <2>4. req' \in [Requests -> RequestRecords]
    <3>1. /\ Arrives(r, "revoke", c, "revokeAsked") \in RequestRecords
          /\ Arrives(r, "revoke", c, "done") \in RequestRecords
      BY <1>0, <1>1, ArrivesType
    <3>2. [Arrives(r, "revoke", c, "revokeAsked") EXCEPT !.token = t, !.family = tok[t].family]
            \in RequestRecords
      BY <2>2, <3>1 DEF RequestRecords
    <3>3. [Arrives(r, "revoke", c, "done") EXCEPT !.token = t, !.answer = "refused"]
            \in RequestRecords
      BY <1>1, <3>1 DEF RequestRecords
    <3>4. QED
      BY <1>0, <1>7, <3>2, <3>3 DEF Revoke
  <2>5. ended' \subseteq Families
    BY <1>0, <1>7, <2>2 DEF Revoke
  <2>6. QED
    BY <1>0, <1>7, <2>4, <2>5 DEF Revoke
<1>8. ASSUME NEW r \in Requests, Step(r) PROVE TypeOK'
  <2>1. req[r] \in RequestRecords
    BY <1>0
  <2>2. CASE RecordConsent(r)
    <3>1. consenting' \subseteq Clients
      BY <1>0, <2>2 DEF RecordConsent, IInv, HandlerOK
    <3>2. QED
      BY <1>0, <1>1, <2>2, <3>1, GoesType DEF RecordConsent
  <2>3. ASSUME NEW k \in Codes, IssueCode(r, k) PROVE TypeOK'
    <3>1. [NoCode EXCEPT !.issued = TRUE, !.client = req[r].client, !.expiresAt = now + CodeTtl]
            \in CodeRows
      <4>1. NoCode \in CodeRows
        BY DEF NoCode, CodeRows
      <4>2. now + CodeTtl \in Nat /\ req[r].client \in Clients \cup {None}
        BY <1>0, <2>1, TimeAssumption DEF RequestRecords
      <4>3. QED
        BY <4>1, <4>2 DEF CodeRows
    <3>2. code' \in [Codes -> CodeRows]
      BY <1>0, <2>3, <3>1 DEF IssueCode
    <3>4. [req[r] EXCEPT !.at = "done", !.code = k, !.answer = "code"] \in RequestRecords
      BY <1>1, <2>1 DEF RequestRecords
    <3>5. req' \in [Requests -> RequestRecords]
      BY <1>0, <2>3, <3>4 DEF IssueCode
    <3>3. QED
      BY <1>0, <2>3, <3>2, <3>5 DEF IssueCode
  <2>4. CASE MarkUsed(r)
    <3>1. code' \in [Codes -> CodeRows]
      BY <1>0, <2>1, <2>4 DEF MarkUsed, CodeRows, RequestRecords
    <3>2. QED
      BY <1>0, <1>1, <2>4, <3>1, GoesType DEF MarkUsed
  <2>5. ASSUME NEW t \in Tokens, IssueToken(r, t) PROVE TypeOK'
    <3>1. [NoToken EXCEPT !.issued = TRUE, !.client = req[r].client, !.code = req[r].code,
                           !.family = req[r].family, !.expiresAt = now + RefreshTtl] \in TokenRows
      <4>1. NoToken \in TokenRows
        BY DEF NoToken, TokenRows
      <4>2. /\ now + RefreshTtl \in Nat /\ req[r].client \in Clients \cup {None}
            /\ req[r].code \in Codes \cup {None} /\ req[r].family \in Families \cup {None}
        BY <1>0, <2>1, TimeAssumption DEF RequestRecords
      <4>3. QED
        BY <4>1, <4>2 DEF TokenRows
    <3>2. tok' \in [Tokens -> TokenRows]
      BY <1>0, <2>5, <3>1 DEF IssueToken
    <3>4. [req[r] EXCEPT !.at = "answer", !.token = t, !.answer = "tokens"] \in RequestRecords
      BY <1>1, <2>1 DEF RequestRecords
    <3>5. req' \in [Requests -> RequestRecords]
      BY <1>0, <2>5, <3>4 DEF IssueToken
    <3>3. QED
      BY <1>0, <2>5, <3>2, <3>5 DEF IssueToken
  <2>6. CASE Answer(r)
    <3>1. req[r].token \in Tokens
      BY <2>6 DEF Answer, IInv, HandlerOK
    <3>2. QED
      BY <1>0, <1>1, <2>6, <3>1, GoesType DEF Answer
  <2>7. CASE Rotate(r)
    <3>0. req[r].token \in Tokens /\ req[r].ts \in Nat
      BY <2>1, <2>7 DEF Rotate, IInv, HandlerOK, HoldsToken, RequestRecords
    <3>3. tok[req[r].token] \in TokenRows
      BY <1>0, <3>0
    <3>4. [tok[req[r].token] EXCEPT !.rotated = TRUE, !.rotatedAt = req[r].ts] \in TokenRows
      BY <3>0, <3>3 DEF TokenRows
    <3>1. tok' \in [Tokens -> TokenRows]
      BY <1>0, <2>7, <3>4 DEF Rotate
    <3>2. QED
      BY <1>0, <1>1, <2>7, <3>1, GoesType DEF Rotate
  <2>8. ASSUME NEW S, tok' = Revoked(S) PROVE tok' \in [Tokens -> TokenRows]
    BY <1>0, <2>8 DEF Revoked, TokenRows
  <2>9. CASE RevokeReplayed(r)
    BY <1>0, <1>1, <2>8, <2>9, EndsType DEF RevokeReplayed
  <2>10. CASE RevokeAsked(r)
    BY <1>0, <1>1, <2>8, <2>10, EndsType DEF RevokeAsked
  <2>11. QED
    BY <1>8, <2>2, <2>3, <2>4, <2>5, <2>6, <2>7, <2>9, <2>10 DEF Step
<1>9. ASSUME NEW r \in Requests, Fail(r) PROVE TypeOK'
  BY <1>0, <1>1, <1>9, EndsType DEF Fail
<1>10. CASE Restart
  BY <1>0, <1>1, <1>10 DEF Restart, RequestRecords
<1>11. CASE UNCHANGED vars
  BY <1>0, <1>11 DEF vars
<1>12. QED
  BY <1>2, <1>3, <1>4, <1>5, <1>6, <1>7, <1>8, <1>9, <1>10, <1>11 DEF Next, Arrive

-------------------------------------------------------------------------------
(***************************************************************************)
(* What every step leaves alone, and what follows from that for the rows,  *)
(* the handlers and the families the step does not touch.                  *)
(***************************************************************************)
Grows ==
  /\ \A k \in Codes : code[k].issued =>
       /\ code'[k].issued
       /\ code'[k].client = code[k].client /\ code'[k].expiresAt = code[k].expiresAt
  /\ \A t \in Tokens : tok[t].issued =>
       /\ tok'[t].issued
       /\ tok'[t].client = tok[t].client /\ tok'[t].code = tok[t].code
       /\ tok'[t].family = tok[t].family /\ tok'[t].expiresAt = tok[t].expiresAt
       /\ tok[t].presented => tok'[t].presented
  /\ reused \subseteq reused' /\ ended \subseteq ended'

NoNewToken == \A t \in Tokens : tok'[t].issued => tok[t].issued

LEMMA CodeKeeps ==
  ASSUME IInv, NEW k \in Codes, code'[k] = code[k], k \in known' => k \in known
  PROVE  CodeOK(k)'
BY DEF IInv, CodeOK

LEMMA TokenKeeps ==
  ASSUME IInv, Grows, NEW t \in Tokens, tok'[t] = tok[t],
         t \in known' => t \in known \/ tok[t].issued
  PROVE  TokenOK(t)'
BY DEF IInv, TokenOK, Grows

LEMMA HandlerKeeps ==
  ASSUME IInv, Grows, NoNewToken, NEW q \in Requests, req'[q] = req[q]
  PROVE  HandlerOK(q)'
<1>1. HoldsToken(q) => HoldsToken(q)'
  BY DEF HoldsToken, Grows
<1>2. HoldsCode(q) => HoldsCode(q)'
  BY DEF HoldsCode, Grows
<1>3. ASSUME FamilyMembers(q) = {}
      PROVE  FamilyMembers(q)' = {}
  BY <1>3 DEF FamilyMembers, NoNewToken, Grows
<1>4. HandlerOK(q)
  BY DEF IInv
<1>5. /\ req[q].at = "markUsed" => HoldsCode(q)' /\ req'[q].ts <= code'[req'[q].code].expiresAt
      /\ req[q].at = "rotate" => /\ HoldsToken(q)' /\ tok'[req'[q].token].presented
                                 /\ req'[q].ts <= tok'[req'[q].token].expiresAt
      /\ req[q].at = "revokeAsked" =>
           /\ tok'[req'[q].token].issued
           /\ tok'[req'[q].token].client = req'[q].client
           /\ tok'[req'[q].token].family = req'[q].family
           /\ req'[q].family \in ended'
      /\ req[q].at = "revokeReplayed" => req'[q].family \in reused'
      /\ req[q].at = "answer" => tok'[req'[q].token].issued
  BY <1>1, <1>2, <1>4 DEF HandlerOK, Grows, HoldsCode, HoldsToken
<1>6. QED
  BY <1>1, <1>2, <1>3, <1>4, <1>5 DEF HandlerOK

LEMMA HandlerEnds ==
  ASSUME NEW q \in Requests, req'[q].at \in {"done", "consent", "code"}, req'[q].client \in Clients
  PROVE  HandlerOK(q)'
BY DEF HandlerOK

LEMMA FamilyKeeps ==
  ASSUME IInv, Grows, NoNewToken, NEW f \in Families,
         \A t \in Tokens : Active(t)' => Active(t),
         \A r \in Requests : Exchanging(r, f)' =>
           /\ Exchanging(r, f)
           /\ \A u \in ActiveIn(f)' : req'[r].at = "rotate" /\ u = req'[r].token
  PROVE  FamilyOK(f)'
<1>1. FamilyOK(f)
  BY DEF IInv
<1>2. \A t \in FamilyMembers(f)' : t \in FamilyMembers(f) /\ tok'[t].client = tok[t].client
  BY DEF FamilyMembers, NoNewToken, Grows
<1>3. ActiveIn(f)' \subseteq ActiveIn(f)
  BY <1>2 DEF ActiveIn, FamilyMembers
<1>4. f \notin reused' => f \notin reused
  BY DEF Grows
<1>5. QED
  BY <1>1, <1>2, <1>3, <1>4 DEF FamilyOK

\* No request starts or goes on with an exchange.
LEMMA FamilyRests ==
  ASSUME IInv, Grows, NoNewToken, NEW f \in Families,
         \A t \in Tokens : Active(t)' => Active(t),
         \A r \in Requests : \/ req'[r] = req[r]
                             \/ req'[r].at \notin {"markUsed", "rotate", "issue"}
  PROVE  FamilyOK(f)'
<1>1. ActiveIn(f)' \subseteq ActiveIn(f) \/ f \in reused
  BY DEF ActiveIn, FamilyMembers, NoNewToken, Grows
<1>2. FamilyOK(f)
  BY DEF IInv
<1>3. ASSUME f \notin reused, NEW r \in Requests, Exchanging(r, f)'
      PROVE  Exchanging(r, f) /\ \A u \in ActiveIn(f)' : req'[r].at = "rotate" /\ u = req'[r].token
  BY <1>1, <1>2, <1>3 DEF Exchanging, FamilyOK
<1>4. CASE f \in reused
  <2>1. f \in reused'
    BY <1>4 DEF Grows
  <2>2. \A t \in FamilyMembers(f)' : t \in FamilyMembers(f) /\ tok'[t].client = tok[t].client
    BY DEF FamilyMembers, NoNewToken, Grows
  <2>3. QED
    BY <1>2, <2>1, <2>2 DEF FamilyOK
<1>5. CASE f \notin reused
  BY <1>3, <1>5, FamilyKeeps
<1>6. QED
  BY <1>4, <1>5

\* Steps that change no row and no history and start nothing that relies on a row.
LEMMA Quiet ==
  ASSUME IInv, TypeOK', UNCHANGED <<code, tok, known, reused, ended>>,
         \A q \in Requests :
           \/ req'[q] = req[q]
           \/ req'[q].at \in {"done", "consent", "code"} /\ req'[q].client \in Clients
  PROVE  IInv'
<1>1. Grows /\ NoNewToken
  BY DEF Grows, NoNewToken
<1>2. \A k \in Codes : CodeOK(k)'
  BY CodeKeeps
<1>3. \A t \in Tokens : TokenOK(t)'
  BY <1>1, TokenKeeps
<1>4. \A q \in Requests : HandlerOK(q)'
  BY <1>1, HandlerKeeps, HandlerEnds
<1>5. \A t \in Tokens : Active(t)' => Active(t)
  BY DEF Active
<1>6. \A f \in Families : FamilyOK(f)'
  BY <1>1, <1>5, FamilyRests
<1>7. QED
  BY <1>2, <1>3, <1>4, <1>6 DEF IInv

-------------------------------------------------------------------------------
(***************************************************************************)
(* The steps that touch rows, one lemma per action.                        *)
(***************************************************************************)
LEMMA IssueCodeStep ==
  ASSUME IInv, TypeOK', NEW r \in Requests, NEW k \in Codes, IssueCode(r, k)
  PROVE  IInv'
<1>1. req[r].at = "code" /\ req[r].client \in Clients
  BY DEF IssueCode, IInv, HandlerOK
<1>2. /\ req'[r].at = "done" /\ req'[r].client = req[r].client
      /\ \A q \in Requests \ {r} : req'[q] = req[q]
  BY DEF IssueCode, IInv, TypeOK, RequestRecords
<1>3. /\ ~code[k].issued /\ \A l \in Codes \ {k} : code'[l] = code[l]
      /\ code'[k].issued /\ ~code'[k].used
  BY DEF IssueCode, IInv, TypeOK, NoCode
<1>4. Grows /\ NoNewToken
  BY <1>3 DEF Grows, NoNewToken, IssueCode
<1>5. \A l \in Codes : CodeOK(l)'
  <2>1. \A l \in Codes \ {k} : CodeOK(l)'
    BY <1>3, CodeKeeps DEF IssueCode
  <2>2. CodeOK(k)'
    BY <1>3 DEF CodeOK
  <2>3. QED
    BY <2>1, <2>2
<1>6. \A t \in Tokens : TokenOK(t)'
  BY <1>4, TokenKeeps, DisjointAssumption DEF IssueCode
<1>7. \A q \in Requests : HandlerOK(q)'
  <2>1. \A q \in Requests \ {r} : HandlerOK(q)'
    BY <1>2, <1>4, HandlerKeeps
  <2>2. HandlerOK(r)'
    BY <1>1, <1>2, HandlerEnds
  <2>3. QED
    BY <2>1, <2>2
<1>8. \A t \in Tokens : Active(t)' => Active(t)
  BY DEF Active, IssueCode
<1>9. \A f \in Families : FamilyOK(f)'
  BY <1>2, <1>4, <1>8, FamilyRests
<1>10. QED
  BY <1>5, <1>6, <1>7, <1>9 DEF IInv

LEMMA AnswerStep ==
  ASSUME IInv, TypeOK', NEW r \in Requests, Answer(r)
  PROVE  IInv'
<1>1. /\ req[r].client \in Clients /\ req[r].token \in Tokens /\ tok[req[r].token].issued
  BY DEF Answer, IInv, HandlerOK
<1>2. /\ req'[r].at = "done" /\ req'[r].client = req[r].client
      /\ \A q \in Requests \ {r} : req'[q] = req[q]
  BY DEF Answer, Goes, IInv, TypeOK, RequestRecords
<1>3. Grows /\ NoNewToken
  BY DEF Grows, NoNewToken, Answer
<1>4. \A k \in Codes : CodeOK(k)'
  BY <1>1, CodeKeeps, DisjointAssumption DEF Answer
<1>5. \A t \in Tokens : TokenOK(t)'
  BY <1>1, <1>3, TokenKeeps DEF Answer
<1>6. \A q \in Requests : HandlerOK(q)'
  <2>1. \A q \in Requests \ {r} : HandlerOK(q)'
    BY <1>2, <1>3, HandlerKeeps
  <2>2. HandlerOK(r)'
    BY <1>1, <1>2, HandlerEnds
  <2>3. QED
    BY <2>1, <2>2
<1>7. \A t \in Tokens : Active(t)' => Active(t)
  BY DEF Active, Answer
<1>8. \A f \in Families : FamilyOK(f)'
  BY <1>2, <1>3, <1>7, FamilyRests
<1>9. QED
  BY <1>4, <1>5, <1>6, <1>8 DEF IInv

\* The statement of both kinds of revocation.
LEMMA RevocationStep ==
  ASSUME IInv, TypeOK', NEW r \in Requests, NEW answer,
         req[r].at # "idle", req[r].family \in reused \cup ended,
         tok' = Revoked(FamilyMembers(req[r].family)), Ends(r, answer),
         UNCHANGED <<code, known, reused, ended>>
  PROVE  IInv'
<1>1. req[r].client \in Clients
  BY DEF IInv, HandlerOK
<1>2. /\ req'[r].at = "done" /\ req'[r].client = req[r].client
      /\ \A q \in Requests \ {r} : req'[q] = req[q]
  BY DEF Ends, IInv, TypeOK, RequestRecords
<1>3. \A t \in Tokens :
        IF t \in FamilyMembers(req[r].family)
        THEN tok'[t] = [tok[t] EXCEPT !.revoked = TRUE] ELSE tok'[t] = tok[t]
  BY DEF Revoked
<1>4. \A t \in Tokens :
        /\ tok'[t].issued = tok[t].issued /\ tok'[t].client = tok[t].client
        /\ tok'[t].code = tok[t].code /\ tok'[t].family = tok[t].family
        /\ tok'[t].expiresAt = tok[t].expiresAt /\ tok'[t].presented = tok[t].presented
        /\ tok'[t].rotated = tok[t].rotated /\ tok'[t].rotatedAt = tok[t].rotatedAt
        /\ tok[t].revoked => tok'[t].revoked
        /\ tok'[t].revoked => tok[t].revoked \/ tok[t].family \in reused \cup ended
  BY <1>3 DEF IInv, TypeOK, TokenRows, FamilyMembers
<1>5. Grows /\ NoNewToken
  BY <1>4 DEF Grows, NoNewToken
<1>6. \A k \in Codes : CodeOK(k)'
  BY CodeKeeps
<1>7. ASSUME NEW t \in Tokens PROVE TokenOK(t)'
  <2>1. CASE ~tok[t].issued
    <3>1. tok'[t] = tok[t]
      BY <1>3, <2>1 DEF FamilyMembers
    <3>2. QED
      BY <1>5, <3>1, TokenKeeps
  <2>2. CASE tok[t].issued
    BY <1>4, <2>2 DEF IInv, TokenOK
  <2>3. QED
    BY <2>1, <2>2
<1>8. \A q \in Requests : HandlerOK(q)'
  <2>1. \A q \in Requests \ {r} : HandlerOK(q)'
    BY <1>2, <1>5, HandlerKeeps
  <2>2. HandlerOK(r)'
    BY <1>1, <1>2, HandlerEnds
  <2>3. QED
    BY <2>1, <2>2
<1>9. \A t \in Tokens : Active(t)' => Active(t)
  BY <1>4 DEF Active
<1>10. \A f \in Families : FamilyOK(f)'
  BY <1>2, <1>5, <1>9, FamilyRests
<1>11. QED
  BY <1>6, <1>7, <1>8, <1>10 DEF IInv

LEMMA RevokeStep ==
  ASSUME IInv, TypeOK', NEW r \in Requests, NEW t \in Tokens, NEW c \in Clients, Revoke(r, t, c)
  PROVE  IInv'
<1>1. tok[t].issued
  BY DEF Revoke, IInv, TokenOK
<1>2. \A q \in Requests \ {r} : req'[q] = req[q]
  BY DEF Revoke, IInv, TypeOK
<1>3. /\ req'[r].client = c
      /\ \/ req'[r].at = "done"
         \/ /\ req'[r].at = "revokeAsked" /\ req'[r].token = t
            /\ req'[r].family = tok[t].family /\ tok[t].client = c
            /\ tok[t].family \in ended'
  BY DEF Revoke, IInv, TypeOK, Arrives, NewRequest
<1>4. Grows /\ NoNewToken
  BY DEF Grows, NoNewToken, Revoke
<1>5. \A k \in Codes : CodeOK(k)'
  BY CodeKeeps DEF Revoke
<1>6. \A u \in Tokens : TokenOK(u)'
  BY <1>4, TokenKeeps DEF Revoke
<1>7. \A q \in Requests : HandlerOK(q)'
  <2>1. \A q \in Requests \ {r} : HandlerOK(q)'
    BY <1>2, <1>4, HandlerKeeps
  <2>2. HandlerOK(r)'
    BY <1>1, <1>3 DEF HandlerOK, Revoke
  <2>3. QED
    BY <2>1, <2>2
<1>8. \A u \in Tokens : Active(u)' => Active(u)
  BY DEF Active, Revoke
<1>9. \A f \in Families : FamilyOK(f)'
  BY <1>2, <1>3, <1>4, <1>8, FamilyRests
<1>10. QED
  BY <1>5, <1>6, <1>7, <1>9 DEF IInv

\* No request that is half way through an exchange holds the family of a
\* request that has not arrived yet.
LEMMA FreshFamily ==
  ASSUME IInv, NEW r \in Requests, req[r].at = "idle"
  PROVE  /\ FamilyMembers(r) = {}
         /\ \A q \in Requests : ~Exchanging(q, r)
<1>1. FamilyMembers(r) = {}
  BY DEF IInv, HandlerOK
<1>2. ASSUME NEW q \in Requests, Exchanging(q, r) PROVE FALSE
  <2>1. q # r
    BY <1>2 DEF Exchanging
  <2>2. HoldsCode(q) \/ HoldsToken(q)
    BY <1>2 DEF Exchanging, IInv, HandlerOK
  <2>3. CASE HoldsCode(q)
    BY <1>2, <2>1, <2>3 DEF Exchanging, HoldsCode
  <2>4. CASE HoldsToken(q)
    BY <1>1, <1>2, <2>4 DEF Exchanging, HoldsToken, FamilyMembers
  <2>5. QED
    BY <2>2, <2>3, <2>4
<1>3. QED
  BY <1>1, <1>2

LEMMA RedeemStep ==
  ASSUME IInv, TypeOK', NEW r \in Requests, NEW c \in Clients, NEW k \in Codes,
         NEW verifies \in BOOLEAN, Redeem(r, k, c, verifies)
  PROVE  IInv'
<1>1. req[r].at = "idle" /\ code[k].issued
  BY DEF Redeem, IInv, CodeOK
<1>2. /\ UNCHANGED <<code, tok, known, reused, ended>>
      /\ \A q \in Requests \ {r} : req'[q] = req[q]
  BY DEF Redeem, IInv, TypeOK
<1>3. /\ req'[r].client = c
      /\ \/ req'[r].at = "done"
         \/ /\ req'[r].at = "markUsed" /\ req'[r].code = k /\ req'[r].family = r
            /\ req'[r].kind = "redeem" /\ req'[r].ts = now
            /\ code[k].client = c /\ code[k].expiresAt >= now
  BY DEF Redeem, IInv, TypeOK, Arrives, NewRequest, Redeemable
<1>4. CASE req'[r].at = "done"
  BY <1>2, <1>3, <1>4, Quiet
<1>5. CASE req'[r].at = "markUsed"
  <2>1. Grows /\ NoNewToken
    BY <1>2 DEF Grows, NoNewToken
  <2>2. \A l \in Codes : CodeOK(l)'
    BY <1>2, CodeKeeps
  <2>3. \A t \in Tokens : TokenOK(t)'
    BY <1>2, <2>1, TokenKeeps
  <2>4. HandlerOK(r)'
    <3>1. FamilyMembers(r)' = {}
      BY <1>1, <1>2, FreshFamily DEF FamilyMembers
    <3>2. HoldsCode(r)'
      BY <1>1, <1>2, <1>3, <1>5 DEF HoldsCode
    <3>3. req'[r].ts <= code'[req'[r].code].expiresAt
      BY <1>2, <1>3, <1>5 DEF IInv, TypeOK, CodeRows
    <3>4. QED
      BY <1>3, <1>5, <3>1, <3>2, <3>3 DEF HandlerOK
  <2>5. \A q \in Requests : HandlerOK(q)'
    BY <1>2, <2>1, <2>4, HandlerKeeps
  <2>6. ASSUME NEW f \in Families PROVE FamilyOK(f)'
    <3>1. CASE f = r
      <4>1. FamilyMembers(r)' = {}
        BY <1>1, <1>2, FreshFamily DEF FamilyMembers
      <4>2. \A q \in Requests : Exchanging(q, r)' => q = r
        BY <1>1, <1>2, FreshFamily DEF Exchanging
      <4>3. QED
        BY <3>1, <4>1, <4>2 DEF FamilyOK, ActiveIn
    <3>2. CASE f # r
      <4>1. \A t \in Tokens : Active(t)' => Active(t)
        BY <1>2 DEF Active
      <4>2. \A q \in Requests : Exchanging(q, f)' => req'[q] = req[q]
        BY <1>2, <1>3, <1>5, <3>2 DEF Exchanging
      <4>3. FamilyOK(f)
        BY DEF IInv
      <4>4. FamilyMembers(f)' = FamilyMembers(f) /\ ActiveIn(f)' = ActiveIn(f)
        BY <1>2 DEF FamilyMembers, ActiveIn, Active
      <4>5. QED
        BY <1>2, <4>2, <4>3, <4>4 DEF FamilyOK, Exchanging
    <3>3. QED
      BY <3>1, <3>2
  <2>7. QED
    BY <2>2, <2>3, <2>5, <2>6 DEF IInv
<1>6. QED
  BY <1>3, <1>4, <1>5

LEMMA MarkUsedStep ==
  ASSUME IInv, TypeOK', NEW r \in Requests, MarkUsed(r)
  PROVE  IInv'
<1>1. /\ req[r].at = "markUsed" /\ HoldsCode(r) /\ req[r].kind = "redeem"
      /\ req[r].ts <= code[req[r].code].expiresAt /\ req[r].client \in Clients
      /\ FamilyMembers(r) = {}
  BY DEF MarkUsed, IInv, HandlerOK
<1>2. /\ UNCHANGED <<tok, known, reused, ended>>
      /\ \A q \in Requests \ {r} : req'[q] = req[q]
      /\ req'[r] = [req[r] EXCEPT !.at = "issue"]
  BY DEF MarkUsed, Goes, IInv, TypeOK
<1>3. /\ req'[r].at = "issue" /\ req'[r].kind = "redeem" /\ req'[r].client = req[r].client
      /\ req'[r].code = req[r].code /\ req'[r].family = req[r].family
  BY <1>1, <1>2 DEF IInv, TypeOK, RequestRecords
<1>4. /\ \A k \in Codes \ {req[r].code} : code'[k] = code[k]
      /\ code'[req[r].code] = [code[req[r].code] EXCEPT !.used = TRUE, !.usedAt = req[r].ts]
  BY <1>1 DEF MarkUsed, IInv, TypeOK, HoldsCode
<1>5. /\ code'[req[r].code].issued /\ code'[req[r].code].client = code[req[r].code].client
      /\ code'[req[r].code].expiresAt = code[req[r].code].expiresAt
      /\ code'[req[r].code].usedAt = req[r].ts
  BY <1>1, <1>4 DEF IInv, TypeOK, CodeRows, HoldsCode
<1>6. Grows /\ NoNewToken
  <2>1. NoNewToken
    BY <1>2 DEF NoNewToken
  <2>2. Grows
    BY <1>2, <1>4, <1>5 DEF Grows
  <2>3. QED
    BY <2>1, <2>2
<1>7. \A k \in Codes : CodeOK(k)'
  <2>1. \A k \in Codes \ {req[r].code} : CodeOK(k)'
    BY <1>2, <1>4, CodeKeeps
  <2>2. ASSUME NEW k \in Codes, k = req[r].code PROVE CodeOK(k)'
    BY <1>1, <1>5, <2>2 DEF CodeOK
  <2>3. QED
    BY <2>1, <2>2
<1>8. \A t \in Tokens : TokenOK(t)'
  BY <1>2, <1>6, TokenKeeps
<1>9. \A q \in Requests : HandlerOK(q)'
  <2>1. HoldsCode(r)' /\ FamilyMembers(r)' = {}
    BY <1>1, <1>2, <1>3, <1>5 DEF HoldsCode, FamilyMembers
  <2>2. HandlerOK(r)'
    BY <1>1, <1>3, <2>1 DEF HandlerOK
  <2>3. QED
    BY <1>2, <1>6, <2>2, HandlerKeeps
<1>10. ASSUME NEW f \in Families PROVE FamilyOK(f)'
  <2>1. \A q \in Requests : Exchanging(q, f)' => Exchanging(q, f)
    BY <1>1, <1>2, <1>3 DEF Exchanging
  <2>2. FamilyMembers(f)' = FamilyMembers(f) /\ ActiveIn(f)' = ActiveIn(f)
    BY <1>2 DEF FamilyMembers, ActiveIn, Active
  <2>3. f = r => ActiveIn(f) = {}
    BY <1>1 DEF ActiveIn
  <2>4. Exchanging(r, f) => f = r
    BY <1>1 DEF Exchanging, HoldsCode
  <2>5. FamilyOK(f)
    BY DEF IInv
  <2>6. \A q \in Requests : Exchanging(q, f)' =>
          (q = r /\ ActiveIn(f)' = {}) \/ req'[q] = req[q]
    BY <1>2, <2>1, <2>2, <2>3, <2>4
  <2>7. QED
    BY <1>2, <2>1, <2>2, <2>5, <2>6 DEF FamilyOK
<1>11. QED
  BY <1>7, <1>8, <1>9, <1>10 DEF IInv

LEMMA RotateStep ==
  ASSUME IInv, TypeOK', NEW r \in Requests, Rotate(r)
  PROVE  IInv'
<1> DEFINE t == req[r].token
<1>1. /\ req[r].at = "rotate" /\ HoldsToken(r) /\ req[r].kind = "refresh"
      /\ tok[t].presented /\ req[r].ts <= tok[t].expiresAt /\ req[r].client \in Clients
  BY DEF Rotate, IInv, HandlerOK
<1>2. /\ UNCHANGED <<code, known, reused, ended>>
      /\ \A q \in Requests \ {r} : req'[q] = req[q]
      /\ req'[r] = [req[r] EXCEPT !.at = "issue"]
  BY DEF Rotate, Goes, IInv, TypeOK
<1>3. /\ req'[r].at = "issue" /\ req'[r].kind = "refresh" /\ req'[r].client = req[r].client
      /\ req'[r].code = req[r].code /\ req'[r].family = req[r].family
      /\ req'[r].token = t
  BY <1>1, <1>2 DEF IInv, TypeOK, RequestRecords
<1>4. /\ t \in Tokens /\ \A u \in Tokens \ {t} : tok'[u] = tok[u]
      /\ tok'[t] = [tok[t] EXCEPT !.rotated = TRUE, !.rotatedAt = req[r].ts]
  BY <1>1 DEF Rotate, IInv, TypeOK, HoldsToken
<1>5. /\ tok'[t].issued = tok[t].issued /\ tok'[t].client = tok[t].client
      /\ tok'[t].code = tok[t].code /\ tok'[t].family = tok[t].family
      /\ tok'[t].expiresAt = tok[t].expiresAt /\ tok'[t].presented = tok[t].presented
      /\ tok'[t].rotated /\ tok'[t].rotatedAt = req[r].ts /\ tok'[t].revoked = tok[t].revoked
  BY <1>4 DEF IInv, TypeOK, TokenRows
<1>6. Grows /\ NoNewToken
  <2>1. NoNewToken
    BY <1>4, <1>5 DEF NoNewToken
  <2>2. Grows
    BY <1>2, <1>4, <1>5 DEF Grows
  <2>3. QED
    BY <2>1, <2>2
<1>7. \A k \in Codes : CodeOK(k)'
  BY <1>2, CodeKeeps
<1>8. \A u \in Tokens : TokenOK(u)'
  <2>1. \A u \in Tokens \ {t} : TokenOK(u)'
    BY <1>2, <1>4, <1>6, TokenKeeps
  <2>2. ASSUME NEW u \in Tokens, u = t PROVE TokenOK(u)'
    <3>1. TokenOK(u)
      BY DEF IInv
    <3>2. QED
      BY <1>1, <1>2, <1>5, <2>2, <3>1 DEF TokenOK, HoldsToken
  <2>3. QED
    BY <2>1, <2>2
<1>9. \A q \in Requests : HandlerOK(q)'
  <2>1. HoldsToken(r)'
    BY <1>1, <1>3, <1>4, <1>5 DEF HoldsToken
  <2>2. HandlerOK(r)'
    BY <1>1, <1>3, <2>1 DEF HandlerOK
  <2>3. QED
    BY <1>2, <1>6, <2>2, HandlerKeeps
<1>10. ASSUME NEW f \in Families PROVE FamilyOK(f)'
  <2>1. \A q \in Requests : Exchanging(q, f)' => Exchanging(q, f)
    BY <1>1, <1>2, <1>3 DEF Exchanging
  <2>2. \A u \in Tokens : Active(u)' => Active(u) /\ u # t
    BY <1>4, <1>5 DEF Active
  <2>3. /\ FamilyMembers(f)' \subseteq FamilyMembers(f)
        /\ \A u \in Tokens : tok'[u].client = tok[u].client
    <3>1. \A u \in Tokens : /\ tok'[u].issued = tok[u].issued /\ tok'[u].family = tok[u].family
                            /\ tok'[u].client = tok[u].client
      BY <1>4, <1>5
    <3>2. QED
      BY <3>1 DEF FamilyMembers
  <2>4. ActiveIn(f)' \subseteq ActiveIn(f) \ {t}
    BY <2>2, <2>3 DEF ActiveIn, FamilyMembers
  <2>5. FamilyOK(f)
    BY DEF IInv
  <2>6. ASSUME f \notin reused, NEW q \in Requests, Exchanging(q, f)'
        PROVE  \A u \in ActiveIn(f)' : req'[q].at = "rotate" /\ u = req'[q].token
    BY <1>2, <2>1, <2>4, <2>5, <2>6 DEF FamilyOK
  <2>7. \A u, v \in FamilyMembers(f)' : tok'[u].client = tok'[v].client
    BY <2>3, <2>5 DEF FamilyOK, FamilyMembers
  <2>8. reused' = reused
    BY <1>2
  <2>9. QED
    BY <2>1, <2>4, <2>5, <2>6, <2>7, <2>8 DEF FamilyOK
<1>11. QED
  BY <1>7, <1>8, <1>9, <1>10 DEF IInv

LEMMA RefreshStep ==
  ASSUME IInv, TypeOK', NEW r \in Requests, NEW t \in Tokens, NEW c \in Clients, Refresh(r, t, c)
  PROVE  IInv'
<1>1. req[r].at = "idle" /\ tok[t].issued /\ tok[t].family \in Families
  BY DEF Refresh, IInv, TokenOK
<1>2. /\ UNCHANGED <<code, known, ended>>
      /\ \A q \in Requests \ {r} : req'[q] = req[q]
      /\ \A u \in Tokens \ {t} : tok'[u] = tok[u]
      /\ tok'[t] = [tok[t] EXCEPT !.presented = @ \/ tok[t].client = c]
  BY DEF Refresh, IInv, TypeOK
<1>3. /\ tok'[t].issued = tok[t].issued /\ tok'[t].client = tok[t].client
      /\ tok'[t].code = tok[t].code /\ tok'[t].family = tok[t].family
      /\ tok'[t].expiresAt = tok[t].expiresAt /\ tok'[t].rotatedAt = tok[t].rotatedAt
      /\ tok'[t].rotated = tok[t].rotated /\ tok'[t].revoked = tok[t].revoked
  BY <1>2 DEF IInv, TypeOK, TokenRows
<1>4. /\ tok[t].presented => tok'[t].presented
      /\ tok[t].client = c => tok'[t].presented
  BY <1>2, Zenon DEF IInv, TypeOK, TokenRows
<1>5. /\ req'[r].client = c /\ req'[r].kind = "refresh" /\ req'[r].token = t
      /\ req'[r].code = tok[t].code /\ req'[r].family = tok[t].family
      /\ req'[r].ts = now /\ req'[r].at = AfterLookup(t, c)
  BY DEF Refresh, IInv, TypeOK, Arrives, NewRequest
<1>6. /\ AfterLookup(t, c) \in {"done", "revokeReplayed", "rotate"}
      /\ AfterLookup(t, c) # "done" => tok[t].client = c
      /\ AfterLookup(t, c) = "rotate" => Active(t) /\ ~(tok[t].expiresAt < now)
      /\ AfterLookup(t, c) = "revokeReplayed" => tok[t].rotated
  BY <1>1 DEF AfterLookup, Active
<1>7. /\ reused \subseteq reused'
      /\ tok[t].client = c /\ tok[t].presented => tok[t].family \in reused'
  BY DEF Refresh
<1>8. Grows /\ NoNewToken
  <2>1. NoNewToken
    BY <1>2, <1>3 DEF NoNewToken
  <2>2. Grows
    BY <1>2, <1>3, <1>4, <1>7 DEF Grows
  <2>3. QED
    BY <2>1, <2>2
<1>9. \A k \in Codes : CodeOK(k)'
  BY <1>2, CodeKeeps
<1>10. \A u \in Tokens : TokenOK(u)'
  <2>1. \A u \in Tokens \ {t} : TokenOK(u)'
    BY <1>2, <1>8, TokenKeeps
  <2>2. TokenOK(t)'
    BY <1>1, <1>2, <1>3, <1>4, <1>7 DEF IInv, TokenOK
  <2>3. QED
    BY <2>1, <2>2
<1>11. \A q \in Requests : HandlerOK(q)'
  <2>1. CASE AfterLookup(t, c) = "done"
    BY <1>2, <1>5, <1>8, <2>1, HandlerKeeps, HandlerEnds
  <2>2. CASE AfterLookup(t, c) # "done"
    <3>1. HoldsToken(r)'
      BY <1>1, <1>3, <1>5, <1>6, <2>2 DEF HoldsToken
    <3>2. AfterLookup(t, c) = "revokeReplayed" => req'[r].family \in reused'
      BY <1>5, <1>6, <1>7 DEF IInv, TokenOK
    <3>3. AfterLookup(t, c) = "rotate" =>
            tok'[req'[r].token].presented /\ req'[r].ts <= tok'[req'[r].token].expiresAt
      BY <1>3, <1>4, <1>5, <1>6 DEF IInv, TypeOK, TokenRows
    <3>4. HandlerOK(r)'
      BY <1>5, <1>6, <2>2, <3>1, <3>2, <3>3 DEF HandlerOK
    <3>5. QED
      BY <1>2, <1>8, <3>4, HandlerKeeps
  <2>3. QED
    BY <2>1, <2>2
<1>12. \A u \in Tokens : Active(u)' => Active(u)
  BY <1>2, <1>3 DEF Active
<1>13. ASSUME NEW f \in Families PROVE FamilyOK(f)'
  <2>1. CASE AfterLookup(t, c) # "rotate" \/ f # tok[t].family \/ f \in reused'
    <3>1. CASE f \in reused'
      <4>1. \A u \in FamilyMembers(f)' : u \in FamilyMembers(f) /\ tok'[u].client = tok[u].client
        BY <1>2, <1>3 DEF FamilyMembers
      <4>2. FamilyOK(f)
        BY DEF IInv
      <4>3. QED
        BY <3>1, <4>1, <4>2 DEF FamilyOK
    <3>2. CASE f \notin reused'
      <4>1. \A q \in Requests : Exchanging(q, f)' => req'[q] = req[q]
        BY <1>2, <1>5, <1>6, <2>1, <3>2 DEF Exchanging
      <4>2. ActiveIn(f)' \subseteq ActiveIn(f)
        BY <1>2, <1>3, <1>12 DEF ActiveIn, FamilyMembers
      <4>3. FamilyOK(f) /\ f \notin reused
        BY <1>7, <3>2 DEF IInv
      <4>4. \A q \in Requests : Exchanging(q, f)' =>
              /\ Exchanging(q, f)
              /\ \A u \in ActiveIn(f)' : req'[q].at = "rotate" /\ u = req'[q].token
        BY <4>1, <4>2, <4>3 DEF Exchanging, FamilyOK
      <4>5. QED
        BY <1>8, <1>12, <4>4, FamilyKeeps
    <3>3. QED
      BY <3>1, <3>2
  <2>2. CASE AfterLookup(t, c) = "rotate" /\ f = tok[t].family /\ f \notin reused'
    <3>1. FamilyOK(f) /\ f \notin reused /\ ~tok[t].presented /\ t \in ActiveIn(f)
      BY <1>1, <1>6, <1>7, <2>2 DEF IInv, ActiveIn, FamilyMembers
    <3>2. \A u \in ActiveIn(f)' : u = t
      <4>1. ActiveIn(f)' \subseteq ActiveIn(f)
        BY <1>2, <1>3, <1>12 DEF ActiveIn, FamilyMembers
      <4>2. QED
        BY <3>1, <4>1 DEF FamilyOK
    <3>3. ASSUME NEW q \in Requests, Exchanging(q, f) PROVE FALSE
      <4>1. req[q].at = "rotate" /\ t = req[q].token
        BY <3>1, <3>3 DEF FamilyOK
      <4>2. tok[req[q].token].presented
        BY <4>1 DEF IInv, HandlerOK
      <4>3. QED
        BY <3>1, <4>1, <4>2
    <3>4. \A q \in Requests : Exchanging(q, f)' => q = r
      BY <1>2, <3>3 DEF Exchanging
    <3>5. \A u \in FamilyMembers(f)' : u \in FamilyMembers(f) /\ tok'[u].client = tok[u].client
      BY <1>2, <1>3 DEF FamilyMembers
    <3>6. \A u, v \in FamilyMembers(f)' : tok'[u].client = tok'[v].client
      BY <3>1, <3>5 DEF FamilyOK
    <3>7. QED
      BY <1>5, <2>2, <3>2, <3>4, <3>6 DEF FamilyOK
  <2>3. QED
    BY <2>1, <2>2
<1>14. QED
  BY <1>9, <1>10, <1>11, <1>13 DEF IInv

LEMMA IssueTokenStep ==
  ASSUME IInv, TypeOK', NEW r \in Requests, NEW t \in Tokens, IssueToken(r, t)
  PROVE  IInv'
<1> DEFINE f == req[r].family
<1>1. /\ req[r].at = "issue" /\ ~tok[t].issued /\ req[r].client \in Clients
      /\ \/ req[r].kind = "redeem" /\ HoldsCode(r) /\ FamilyMembers(r) = {}
         \/ req[r].kind = "refresh" /\ HoldsToken(r)
  BY DEF IssueToken, IInv, HandlerOK
<1>2. /\ UNCHANGED <<code, known, reused, ended>>
      /\ \A q \in Requests \ {r} : req'[q] = req[q]
      /\ \A u \in Tokens \ {t} : tok'[u] = tok[u]
      /\ req'[r] = [req[r] EXCEPT !.at = "answer", !.token = t, !.answer = "tokens"]
  BY DEF IssueToken, IInv, TypeOK
<1>3. /\ req'[r].at = "answer" /\ req'[r].client = req[r].client /\ req'[r].token = t
  BY <1>2 DEF IInv, TypeOK, RequestRecords
<1>4. /\ tok'[t].issued /\ tok'[t].client = req[r].client /\ tok'[t].code = req[r].code
      /\ tok'[t].family = f /\ ~tok'[t].rotated /\ ~tok'[t].revoked
  BY DEF IssueToken, IInv, TypeOK, NoToken
<1>5. /\ f \in Families /\ req[r].code \in Codes /\ code[req[r].code].issued
      /\ code[req[r].code].client = req[r].client
  <2>1. CASE HoldsCode(r)
    BY <2>1 DEF HoldsCode, Families
  <2>2. CASE HoldsToken(r)
    BY <2>2 DEF HoldsToken, IInv, TokenOK
  <2>3. QED
    BY <1>1, <2>1, <2>2
<1>6. Grows
  BY <1>1, <1>2 DEF Grows
<1>7. \A k \in Codes : CodeOK(k)'
  BY <1>2, CodeKeeps
<1>8. \A u \in Tokens : TokenOK(u)'
  <2>1. \A u \in Tokens \ {t} : TokenOK(u)'
    BY <1>2, <1>6, TokenKeeps
  <2>2. TokenOK(t)'
    BY <1>2, <1>4, <1>5 DEF TokenOK
  <2>3. QED
    BY <2>1, <2>2
<1>9. ASSUME NEW q \in Requests PROVE HandlerOK(q)'
  <2>1. CASE q = r
    BY <1>1, <1>3, <1>4, <2>1 DEF HandlerOK
  <2>2. CASE q # r
    <3>1. req'[q] = req[q] /\ HandlerOK(q)
      BY <1>2, <2>2 DEF IInv
    <3>2. HoldsToken(q) => HoldsToken(q)'
      BY <1>6, <3>1 DEF HoldsToken, Grows
    <3>3. HoldsCode(q) => HoldsCode(q)'
      BY <1>6, <3>1 DEF HoldsCode, Grows
    <3>4. FamilyMembers(q) = {} => FamilyMembers(q)' = {}
      <4>1. CASE HoldsCode(r)
        BY <1>2, <1>4, <2>2, <4>1 DEF FamilyMembers, HoldsCode
      <4>2. CASE HoldsToken(r)
        BY <1>2, <1>4, <2>2, <4>2 DEF FamilyMembers, HoldsToken
      <4>3. QED
        BY <1>1, <4>1, <4>2
    <3>5. /\ req[q].at = "markUsed" => req'[q].ts <= code'[req'[q].code].expiresAt
          /\ req[q].at = "rotate" => /\ tok'[req'[q].token].presented
                                     /\ req'[q].ts <= tok'[req'[q].token].expiresAt
          /\ req[q].at = "revokeAsked" =>
               /\ tok'[req'[q].token].issued
               /\ tok'[req'[q].token].client = req'[q].client
               /\ tok'[req'[q].token].family = req'[q].family
               /\ req'[q].family \in ended'
          /\ req[q].at = "revokeReplayed" => req'[q].family \in reused'
          /\ req[q].at = "answer" => tok'[req'[q].token].issued
      BY <1>6, <3>1 DEF HandlerOK, Grows, HoldsCode, HoldsToken
    <3>6. QED
      BY <3>1, <3>2, <3>3, <3>4, <3>5 DEF HandlerOK
  <2>3. QED
    BY <2>1, <2>2
<1>10. ASSUME NEW g \in Families PROVE FamilyOK(g)'
  <2>1. FamilyOK(g)
    BY DEF IInv
  <2>2. \A q \in Requests : Exchanging(q, g)' => q # r /\ req'[q] = req[q] /\ Exchanging(q, g)
    BY <1>2, <1>3 DEF Exchanging
  <2>3. CASE g # f
    <3>1. FamilyMembers(g)' \subseteq FamilyMembers(g) /\ ActiveIn(g)' \subseteq ActiveIn(g)
      BY <1>2, <1>4, <2>3 DEF FamilyMembers, ActiveIn, Active
    <3>2. \A u \in FamilyMembers(g)' : tok'[u] = tok[u]
      BY <1>2, <1>4, <2>3 DEF FamilyMembers
    <3>3. QED
      BY <1>2, <2>1, <2>2, <3>1, <3>2 DEF FamilyOK
  <2>4. CASE g = f
    <3>1. \A u \in FamilyMembers(g)' : u # t => u \in FamilyMembers(g) /\ tok'[u] = tok[u]
      BY <1>2 DEF FamilyMembers
    <3>2. \A u \in FamilyMembers(g) : tok[u].client = req[r].client
      <4>1. CASE HoldsCode(r) /\ FamilyMembers(r) = {}
        BY <2>4, <4>1 DEF HoldsCode
      <4>2. CASE HoldsToken(r)
        BY <2>1, <2>4, <4>2 DEF HoldsToken, FamilyMembers, FamilyOK
      <4>3. QED
        BY <1>1, <4>1, <4>2
    <3>3. \A u, v \in FamilyMembers(g)' : tok'[u].client = tok'[v].client
      BY <1>4, <3>1, <3>2
    <3>4. Exchanging(r, g)
      BY <1>1, <2>4 DEF Exchanging
    <3>5. g \notin reused => ActiveIn(g) = {}
      BY <1>1, <2>1, <3>4 DEF FamilyOK
    <3>6. \A u \in ActiveIn(g)' : u = t \/ u \in ActiveIn(g)
      BY <1>2 DEF ActiveIn, FamilyMembers, Active
    <3>7. g \notin reused => \A q \in Requests : ~Exchanging(q, g)'
      BY <2>1, <2>2, <3>4 DEF FamilyOK
    <3>8. reused' = reused
      BY <1>2
    <3>9. QED
      BY <3>3, <3>5, <3>6, <3>7, <3>8 DEF FamilyOK
  <2>5. QED
    BY <2>3, <2>4
<1>11. QED
  BY <1>7, <1>8, <1>9, <1>10 DEF IInv

-------------------------------------------------------------------------------
LEMMA InitIInv == Init => IInv
<1> SUFFICES ASSUME Init PROVE IInv
  OBVIOUS
<1>1. TypeOK
  BY TypeInit
<1>2. /\ \A k \in Codes : code[k] = NoCode
      /\ \A t \in Tokens : tok[t] = NoToken
      /\ \A r \in Requests : req[r] = NewRequest
      /\ known = {}
  BY DEF Init
<1>3. \A k \in Codes : CodeOK(k)
  <2>1. ~NoCode.used
    BY DEF NoCode
  <2>2. QED
    BY <1>2, <2>1 DEF CodeOK
<1>4. \A t \in Tokens : TokenOK(t)
  <2>1. ~NoToken.issued /\ ~NoToken.rotated /\ ~NoToken.revoked
    BY DEF NoToken
  <2>2. QED
    BY <1>2, <2>1 DEF TokenOK
<1>5. \A f \in Families : FamilyMembers(f) = {}
  BY <1>2 DEF FamilyMembers, NoToken
<1>6. \A r \in Requests : HandlerOK(r)
  BY <1>2, <1>5 DEF HandlerOK, NewRequest, Families
<1>7. \A f \in Families : FamilyOK(f)
  BY <1>2, <1>5 DEF FamilyOK, ActiveIn, Exchanging, NewRequest
<1>8. QED
  BY <1>1, <1>3, <1>4, <1>6, <1>7 DEF IInv

LEMMA StepIInv == IInv /\ [Next]_vars => IInv'
<1> SUFFICES ASSUME IInv, [Next]_vars PROVE IInv'
  OBVIOUS
<1>1. TypeOK'
  BY TypeStep
<1>2. ASSUME NEW r \in Requests, NEW c \in Clients, Authorize(r, c) \/ Allow(r, c) PROVE IInv'
  <2>1. /\ \A q \in Requests \ {r} : req'[q] = req[q]
        /\ req'[r].client = c /\ req'[r].at \in {"done", "consent", "code"}
    BY <1>2 DEF Authorize, Allow, IInv, TypeOK, Arrives, NewRequest
  <2>2. QED
    BY <1>1, <1>2, <2>1, Quiet DEF Authorize, Allow
<1>3. ASSUME NEW r \in Requests, RecordConsent(r) \/ Fail(r) PROVE IInv'
  <2>1. req[r].at # "idle" /\ req[r].client \in Clients
    BY <1>3 DEF RecordConsent, Fail, IInv, HandlerOK
  <2>2. /\ \A q \in Requests \ {r} : req'[q] = req[q]
        /\ req'[r].client = req[r].client /\ req'[r].at \in {"done", "code"}
    BY <1>3 DEF RecordConsent, Fail, Goes, Ends, IInv, TypeOK, RequestRecords
  <2>3. QED
    BY <1>1, <1>3, <2>1, <2>2, Quiet DEF RecordConsent, Fail
<1>4. CASE Tick
  BY <1>1, <1>4, Quiet DEF Tick
<1>5. CASE Restart
  <2>1. ASSUME NEW q \in Requests
        PROVE  req'[q] = req[q] \/ (req'[q].at = "done" /\ req'[q].client \in Clients)
    <3>1. CASE req[q].at \in {"idle", "done"}
      BY <1>5, <3>1 DEF Restart
    <3>2. CASE req[q].at \notin {"idle", "done"}
      <4>1. req[q] \in RequestRecords /\ req[q].client \in Clients
        BY <3>2 DEF IInv, TypeOK, HandlerOK
      <4>2. req'[q] = [req[q] EXCEPT !.at = "done", !.answer = "failed"]
        BY <1>5, <3>2 DEF Restart
      <4>3. QED
        BY <4>1, <4>2 DEF RequestRecords
    <3>3. QED
      BY <3>1, <3>2
  <2>2. QED
    BY <1>1, <1>5, <2>1, Quiet DEF Restart
<1>6. CASE UNCHANGED vars
  BY <1>1, <1>6, Quiet DEF vars
<1>7. ASSUME NEW r \in Requests, RevokeReplayed(r) PROVE IInv'
  BY <1>1, <1>7, RevocationStep DEF RevokeReplayed, IInv, HandlerOK
<1>8. ASSUME NEW r \in Requests, RevokeAsked(r) PROVE IInv'
  BY <1>1, <1>8, RevocationStep DEF RevokeAsked, IInv, HandlerOK
<1>9. ASSUME NEW r \in Requests, Step(r) PROVE IInv'
  BY <1>1, <1>3, <1>7, <1>8, <1>9, IssueCodeStep, MarkUsedStep, IssueTokenStep, AnswerStep,
     RotateStep DEF Step
<1>10. ASSUME NEW r \in Requests, Arrive(r) PROVE IInv'
  BY <1>1, <1>2, <1>10, RedeemStep, RefreshStep, RevokeStep DEF Arrive
<1>11. QED
  BY <1>3, <1>4, <1>5, <1>6, <1>9, <1>10 DEF Next

\* The inductive invariant of the token endpoint holds in every state.
THEOREM Invariance == Spec => []IInv
BY InitIInv, StepIInv, PTL DEF Spec

\* Every state of the authorization server is well typed.
THEOREM TypeCorrect == Spec => []TypeOK
<1>1. IInv => TypeOK
  BY DEF IInv
<1>2. QED
  BY <1>1, Invariance, PTL

\* Rotation never moves a refresh token to another client than the one its
\* authorization code was made for.
THEOREM ClientsKeepTheirTokens == Spec => []TokensStayWithClient
<1>1. IInv => TokensStayWithClient
  BY DEF IInv, TokenOK, TokensStayWithClient
<1>2. QED
  BY <1>1, Invariance, PTL

\* At most one token of a family is exchangeable until one is presented twice.
THEOREM OneActive == Spec => []OneActiveUnlessReused
<1>1. ASSUME IInv, NEW f \in Families \ reused PROVE Cardinality(ActiveIn(f)) <= 1
  <2>1. \A t, u \in ActiveIn(f) : t = u
    BY <1>1 DEF IInv, FamilyOK
  <2>2. CASE ActiveIn(f) = {}
    BY <2>2, FS_EmptySet
  <2>3. CASE ActiveIn(f) # {}
    <3>1. PICK t : ActiveIn(f) = {t}
      BY <2>1, <2>3
    <3>2. Cardinality({t}) = 1
      BY FS_Singleton
    <3>3. QED
      BY <3>1, <3>2
  <2>4. QED
    BY <2>2, <2>3
<1>2. IInv => OneActiveUnlessReused
  BY <1>1 DEF OneActiveUnlessReused
<1>3. QED
  BY <1>2, Invariance, PTL

\* Families are revoked only for a token presented twice or at the client's wish.
THEOREM RevokedForAReason == Spec => []NoFalseRevocation
<1>1. IInv => NoFalseRevocation
  BY DEF IInv, TokenOK, NoFalseRevocation
<1>2. QED
  BY <1>1, Invariance, PTL

\* No code is used and no token rotated by a request that came after its expiry.
THEOREM LivesAreKept == Spec => []ExchangedInLife
<1>1. IInv => ExchangedInLife
  BY DEF IInv, CodeOK, TokenOK, ExchangedInLife
<1>2. QED
  BY <1>1, Invariance, PTL

-------------------------------------------------------------------------------
(***************************************************************************)
(* Action properties.                                                      *)
(***************************************************************************)
\* Only a revocation of its family revokes a token.
LEMMA RevokedBy ==
  ASSUME IInv, [Next]_vars, NEW t \in Tokens, tok'[t].revoked, ~tok[t].revoked
  PROVE  \E r \in Requests : /\ RevokeReplayed(r) \/ RevokeAsked(r)
                             /\ t \in FamilyMembers(req[r].family)
<1>1. tok[t] \in TokenRows
  BY DEF IInv, TypeOK
<1>2. ASSUME NEW r \in Requests, NEW u \in Tokens, NEW c \in Clients, Refresh(r, u, c) PROVE FALSE
  BY <1>1, <1>2 DEF Refresh, IInv, TypeOK, TokenRows
<1>3. ASSUME NEW r \in Requests, NEW u \in Tokens, IssueToken(r, u) PROVE FALSE
  BY <1>1, <1>3 DEF IssueToken, IInv, TypeOK, NoToken
<1>4. ASSUME NEW r \in Requests, Rotate(r) PROVE FALSE
  BY <1>1, <1>4 DEF Rotate, IInv, TypeOK, TokenRows
<1>5. ASSUME NEW r \in Requests, RevokeReplayed(r) \/ RevokeAsked(r)
      PROVE  t \in FamilyMembers(req[r].family)
  BY <1>5 DEF RevokeReplayed, RevokeAsked, Revoked
<1>6. CASE UNCHANGED tok
  BY <1>6
<1>7. ASSUME NEW r \in Requests, Step(r)
      PROVE  UNCHANGED tok \/ RevokeReplayed(r) \/ RevokeAsked(r)
  BY <1>3, <1>4, <1>7 DEF Step, RecordConsent, IssueCode, MarkUsed, Answer
<1>8. ASSUME NEW r \in Requests, Arrive(r) \/ Fail(r)
      PROVE  UNCHANGED tok
  BY <1>2, <1>8 DEF Arrive, Authorize, Allow, Redeem, Revoke, Fail
<1>9. QED
  BY <1>5, <1>6, <1>7, <1>8 DEF Next, Tick, Restart, vars

\* A client revokes no token of another client, whatever families and tokens exist.
THEOREM OwnClientRevokes == Spec => OnlyOwnClientRevokes
<1> DEFINE Own ==
      \A t \in Tokens : tok'[t].revoked /\ ~tok[t].revoked =>
        \E r \in Requests : /\ req[r].at \in {"revokeReplayed", "revokeAsked"}
                            /\ req[r].client = tok[t].client /\ req'[r].at = "done"
<1>1. ASSUME IInv, [Next]_vars PROVE Own
  <2> SUFFICES ASSUME NEW t \in Tokens, tok'[t].revoked, ~tok[t].revoked
               PROVE  \E r \in Requests : /\ req[r].at \in {"revokeReplayed", "revokeAsked"}
                                          /\ req[r].client = tok[t].client /\ req'[r].at = "done"
    OBVIOUS
  <2>1. PICK r \in Requests : /\ RevokeReplayed(r) \/ RevokeAsked(r)
                              /\ t \in FamilyMembers(req[r].family)
    BY <1>1, RevokedBy
  <2>2. req[r].at \in {"revokeReplayed", "revokeAsked"}
    BY <2>1 DEF RevokeReplayed, RevokeAsked
  <2>3. /\ req[r].token \in Tokens /\ tok[req[r].token].issued
        /\ tok[req[r].token].client = req[r].client
        /\ tok[req[r].token].family = req[r].family
    BY <1>1, <2>2 DEF IInv, HandlerOK, HoldsToken
  <2>4. req[r].family \in Families
    BY <1>1, <2>3 DEF IInv, TokenOK
  <2>5. req[r].token \in FamilyMembers(req[r].family)
    BY <2>3 DEF FamilyMembers
  <2>6. tok[t].client = req[r].client
    BY <1>1, <2>1, <2>3, <2>4, <2>5 DEF IInv, FamilyOK
  <2>7. req'[r].at = "done"
    BY <1>1, <2>1 DEF RevokeReplayed, RevokeAsked, Ends, IInv, TypeOK, RequestRecords
  <2>8. QED
    BY <2>2, <2>6, <2>7
<1>2. QED
  BY <1>1, Invariance, PTL DEF Spec, OnlyOwnClientRevokes

\* What one step does to the tokens of a family and to the exchanges under way.
LEMMA TokensMove ==
  ASSUME IInv, [Next]_vars, NEW t \in Tokens
  PROVE  /\ tok[t].issued => tok'[t].issued /\ tok'[t].family = tok[t].family
         /\ Active(t)' => \/ Active(t) /\ tok'[t].family = tok[t].family
                          \/ \E r \in Requests : /\ req[r].at = "issue"
                                                 /\ tok'[t].family = req[r].family
<1>1. tok[t] \in TokenRows
  BY DEF IInv, TypeOK
<1> DEFINE Goal == /\ tok[t].issued => tok'[t].issued /\ tok'[t].family = tok[t].family
                   /\ Active(t)' => \/ Active(t) /\ tok'[t].family = tok[t].family
                                    \/ \E r \in Requests : /\ req[r].at = "issue"
                                                           /\ tok'[t].family = req[r].family
<1>2. ASSUME NEW r \in Requests, NEW u \in Tokens, NEW c \in Clients, Refresh(r, u, c) PROVE Goal
  <2>1. /\ tok'[t].issued = tok[t].issued /\ tok'[t].family = tok[t].family
        /\ tok'[t].rotated = tok[t].rotated /\ tok'[t].revoked = tok[t].revoked
    BY <1>1, <1>2 DEF Refresh, IInv, TypeOK, TokenRows
  <2>2. QED
    BY <2>1 DEF Active
<1>3. ASSUME NEW r \in Requests, NEW u \in Tokens, IssueToken(r, u) PROVE Goal
  <2>1. CASE t = u
    BY <1>3, <2>1 DEF IssueToken, IInv, TypeOK, NoToken
  <2>2. CASE t # u
    BY <1>3, <2>2 DEF IssueToken, IInv, TypeOK, Active
  <2>3. QED
    BY <2>1, <2>2
<1>4. ASSUME NEW r \in Requests, Rotate(r) PROVE Goal
  <2>1. /\ tok'[t].issued = tok[t].issued /\ tok'[t].family = tok[t].family
        /\ tok[t].rotated => tok'[t].rotated
        /\ tok'[t].revoked = tok[t].revoked
    BY <1>1, <1>4 DEF Rotate, IInv, TypeOK, TokenRows
  <2>2. QED
    BY <2>1 DEF Active
<1>5. ASSUME NEW S, tok' = Revoked(S) PROVE Goal
  <2>1. /\ tok'[t].issued = tok[t].issued /\ tok'[t].family = tok[t].family
        /\ tok'[t].rotated = tok[t].rotated
        /\ tok[t].revoked => tok'[t].revoked
    BY <1>1, <1>5 DEF Revoked, TokenRows
  <2>2. QED
    BY <2>1 DEF Active
<1>6. CASE UNCHANGED tok
  BY <1>6 DEF Active
<1>7. ASSUME NEW r \in Requests, Step(r) PROVE Goal
  BY <1>3, <1>4, <1>5, <1>6, <1>7
     DEF Step, RecordConsent, IssueCode, MarkUsed, Answer, RevokeReplayed, RevokeAsked
<1>8. ASSUME NEW r \in Requests, Arrive(r) \/ Fail(r) PROVE Goal
  BY <1>2, <1>6, <1>8 DEF Arrive, Authorize, Allow, Redeem, Revoke, Fail
<1>9. QED
  BY <1>6, <1>7, <1>8 DEF Next, Tick, Restart, vars

LEMMA ExchangesMove ==
  ASSUME IInv, [Next]_vars, NEW q \in Requests, req'[q].at \in {"rotate", "issue"}
  PROVE  \/ req'[q] = req[q]
         \/ \E t \in Tokens : Active(t) /\ req'[q].family = tok[t].family
         \/ req[q].at = "rotate" /\ req'[q].family = req[q].family
         \/ FamilyMembers(req'[q].family) = {}
<1> DEFINE Goal == \/ req'[q] = req[q]
                   \/ \E t \in Tokens : Active(t) /\ req'[q].family = tok[t].family
                   \/ req[q].at = "rotate" /\ req'[q].family = req[q].family
                   \/ FamilyMembers(req'[q].family) = {}
<1>1. req[q] \in RequestRecords
  BY DEF IInv, TypeOK
<1>2. ASSUME NEW r \in Requests, NEW t \in Tokens, NEW c \in Clients, Refresh(r, t, c) PROVE Goal
  <2>1. CASE q = r
    <3>1. tok[t].issued
      BY <1>2 DEF Refresh, IInv, TokenOK
    <3>2. req'[q].at = AfterLookup(t, c) /\ req'[q].family = tok[t].family
      BY <1>2, <2>1 DEF Refresh, IInv, TypeOK, Arrives, NewRequest
    <3>3. AfterLookup(t, c) \in {"done", "revokeReplayed"} \/ Active(t)
      BY <3>1 DEF AfterLookup, Active
    <3>4. QED
      BY <3>2, <3>3
  <2>2. CASE q # r
    BY <1>2, <2>2 DEF Refresh, IInv, TypeOK
  <2>3. QED
    BY <2>1, <2>2
<1>3. ASSUME NEW r \in Requests, MarkUsed(r) PROVE Goal
  <2>1. req[r].family = r /\ FamilyMembers(r) = {}
    BY <1>3 DEF MarkUsed, IInv, HandlerOK, HoldsCode
  <2>2. QED
    BY <1>1, <1>3, <2>1 DEF MarkUsed, Goes, IInv, TypeOK, RequestRecords
<1>4. ASSUME NEW r \in Requests, Rotate(r) PROVE Goal
  BY <1>1, <1>4 DEF Rotate, Goes, IInv, TypeOK, RequestRecords
<1>5. ASSUME NEW r \in Requests,
             \A s \in Requests \ {r} : req'[s] = req[s], req'[r].at \notin {"rotate", "issue"}
      PROVE  Goal
  BY <1>5
<1>6. ASSUME NEW r \in Requests, NEW stage, stage \notin {"rotate", "issue"}, Goes(r, stage)
      PROVE  Goal
  BY <1>1, <1>5, <1>6 DEF Goes, IInv, TypeOK, RequestRecords
<1>7. ASSUME NEW r \in Requests, NEW answer, Ends(r, answer)
      PROVE  Goal
  BY <1>1, <1>5, <1>7 DEF Ends, IInv, TypeOK, RequestRecords
<1>8. ASSUME NEW r \in Requests, NEW k \in Codes, IssueCode(r, k) PROVE Goal
  BY <1>1, <1>5, <1>8 DEF IssueCode, IInv, TypeOK, RequestRecords
<1>9. ASSUME NEW r \in Requests, NEW t \in Tokens, IssueToken(r, t) PROVE Goal
  BY <1>1, <1>5, <1>9 DEF IssueToken, IInv, TypeOK, RequestRecords
<1>10. ASSUME NEW r \in Requests, NEW c \in Clients,
              \/ Authorize(r, c) \/ Allow(r, c)
              \/ \E k \in Codes, verifies \in BOOLEAN : Redeem(r, k, c, verifies)
              \/ \E t \in Tokens : Revoke(r, t, c)
       PROVE  Goal
  <2>1. \A s \in Requests \ {r} : req'[s] = req[s]
    BY <1>10 DEF Authorize, Allow, Redeem, Revoke, IInv, TypeOK
  <2>2. ASSUME Authorize(r, c) \/ Allow(r, c) PROVE req'[r].at \notin {"rotate", "issue"}
    BY <2>2 DEF Authorize, Allow, Arrives, NewRequest, IInv, TypeOK
  <2>3. ASSUME NEW k \in Codes, NEW verifies \in BOOLEAN, Redeem(r, k, c, verifies)
        PROVE  req'[r].at \notin {"rotate", "issue"}
    BY <2>3 DEF Redeem, Arrives, NewRequest, IInv, TypeOK
  <2>4. ASSUME NEW t \in Tokens, Revoke(r, t, c)
        PROVE  req'[r].at \notin {"rotate", "issue"}
    BY <2>4 DEF Revoke, Arrives, NewRequest, IInv, TypeOK
  <2>5. req'[r].at \notin {"rotate", "issue"}
    BY <1>10, <2>2, <2>3, <2>4
  <2>6. QED
    BY <1>5, <2>1, <2>5
<1>11. CASE UNCHANGED req
  BY <1>11
<1>12. CASE Restart
  <2>1. CASE req[q].at \in {"idle", "done"}
    BY <1>12, <2>1 DEF Restart
  <2>2. CASE req[q].at \notin {"idle", "done"}
    <3>1. req'[q] = [req[q] EXCEPT !.at = "done", !.answer = "failed"]
      BY <1>12, <2>2 DEF Restart
    <3>2. QED
      BY <1>1, <3>1 DEF RequestRecords
  <2>3. QED
    BY <2>1, <2>2
<1>13. ASSUME NEW r \in Requests, Step(r) PROVE Goal
  BY <1>3, <1>4, <1>6, <1>7, <1>8, <1>9, <1>13
     DEF Step, RecordConsent, Answer, RevokeReplayed, RevokeAsked
<1>14. ASSUME NEW r \in Requests, Arrive(r) \/ Fail(r) PROVE Goal
  BY <1>2, <1>7, <1>10, <1>14 DEF Arrive, Fail
<1>15. QED
  BY <1>11, <1>12, <1>13, <1>14 DEF Next, Tick, vars

\* A family with no token left to exchange and no exchange under way stays so.
THEOREM NoResurrection == Spec => BuriedStaysDead
<1>1. ASSUME IInv, [Next]_vars, NEW f \in Families, Buried(f) PROVE Buried(f)'
  <2>1. /\ FamilyMembers(f) # {} /\ ActiveIn(f) = {}
        /\ \A r \in Requests : req[r].family = f => req[r].at \notin {"rotate", "issue"}
    BY <1>1 DEF Buried
  <2>2. FamilyMembers(f)' # {}
    BY <1>1, <2>1, TokensMove DEF FamilyMembers
  <2>3. \A t \in Tokens : Active(t) => tok[t].family # f
    BY <2>1 DEF ActiveIn, FamilyMembers, Active
  <2>4. \A t \in Tokens : Active(t)' => tok'[t].family # f
    BY <1>1, <2>1, <2>3, TokensMove
  <2>5. ActiveIn(f)' = {}
    BY <2>4 DEF ActiveIn, FamilyMembers
  <2>6. ASSUME NEW q \in Requests, req'[q].at \in {"rotate", "issue"}
        PROVE  req'[q].family # f
    BY <1>1, <2>1, <2>3, <2>6, ExchangesMove
  <2>7. QED
    BY <2>2, <2>5, <2>6 DEF Buried
<1> DEFINE Stays == \A f \in Families : Buried(f) => Buried(f)'
<1>2. ASSUME IInv, [Next]_vars PROVE Stays
  BY <1>1, <1>2
<1>3. QED
  BY <1>2, Invariance, PTL DEF Spec, BuriedStaysDead
================================================================================
