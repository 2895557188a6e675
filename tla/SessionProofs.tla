----------------------------- MODULE SessionProofs -----------------------------
(***************************************************************************)
(* Proofs about RefreshSessions for any sets of sessions, tokens and       *)
(* requests and any time to live, and about WebClient, whose server it is. *)
(***************************************************************************)
EXTENDS WebClient, FiniteSetTheorems, TLAPS

LEMMA TypeInit == Init => TypeOK
<1> SUFFICES ASSUME Init PROVE TypeOK
  OBVIOUS
<1>1. NoToken \in TokenRows /\ NewRequest \in RequestRecords
  BY DEF NoToken, TokenRows, NewRequest, RequestRecords, Stages, Answers
<1>2. QED
  BY <1>1 DEF Init, TypeOK

\* A request that moves on, ends or arrives is a request.
LEMMA GoesType ==
  ASSUME TypeOK, NEW r \in Requests, NEW stage \in Stages, Goes(r, stage)
  PROVE  req' \in [Requests -> RequestRecords]
<1>1. [req[r] EXCEPT !.at = stage] \in RequestRecords
  BY DEF TypeOK, RequestRecords
<1>2. QED
  BY <1>1 DEF TypeOK, Goes

LEMMA EndsType ==
  ASSUME TypeOK, NEW r \in Requests, NEW answer \in Answers, Ends(r, answer)
  PROVE  req' \in [Requests -> RequestRecords]
<1>1. [NewRequest EXCEPT !.at = "done", !.answer = answer] \in RequestRecords
  BY DEF NewRequest, RequestRecords, Stages, Answers
<1>2. QED
  BY <1>1 DEF TypeOK, Ends

LEMMA AuditsType ==
  ASSUME TypeOK, NEW r \in Requests, NEW answer \in Answers, Audits(r, answer)
  PROVE  req' \in [Requests -> RequestRecords]
<1>1. [[req[r] EXCEPT !.at = "audit"] EXCEPT !.answer = answer] \in RequestRecords
  BY DEF TypeOK, RequestRecords, Stages
<1>2. QED
  BY <1>1 DEF TypeOK, Audits

LEMMA NewTokenType ==
  ASSUME NEW s \in Sessions \cup {None}, NEW p \in Tokens \cup {None}, NEW ts \in Nat
  PROVE  NewToken(s, p, ts) \in TokenRows
<1>1. /\ NoToken \in TokenRows
      /\ ts + RefreshTtl \in Nat
  BY TtlAssumption DEF NoToken, TokenRows
<1>2. QED
  BY <1>1 DEF NewToken, TokenRows

LEMMA RevokedType ==
  ASSUME TypeOK, NEW S
  PROVE  Revoked(S) \in [Tokens -> TokenRows]
<1>1. \A t \in Tokens : [tok[t] EXCEPT !.state = "revoked"] \in TokenRows
  BY DEF TypeOK, TokenRows
<1>2. QED
  BY <1>1 DEF TypeOK, Revoked

LEMMA TypeStep == IInv /\ [Next]_vars => TypeOK'
<1> SUFFICES ASSUME IInv, [Next]_vars PROVE TypeOK'
  OBVIOUS
<1> USE DEF TypeOK
<1>0. TypeOK
  BY DEF IInv
<1>1. /\ {"idle", "token", "rotate", "answer", "replayTokens", "replaySession",
          "logoutTokens", "logoutSession", "audit", "done"} \subseteq Stages
      /\ {"none", "tokens", "expired", "replay", "loggedOut", "accepted", "failed"} \subseteq Answers
      /\ NewRequest \in RequestRecords
  BY DEF Stages, Answers, NewRequest, RequestRecords
<1>2. ASSUME NEW r \in Requests, NEW s \in Sessions, NEW stage \in Stages
      PROVE  [NewRequest EXCEPT !.at = stage, !.session = s] \in RequestRecords
  BY <1>1 DEF NewRequest, RequestRecords
<1>3. CASE Tick
  BY <1>0, <1>3 DEF Tick
<1>4. ASSUME NEW r \in Requests, NEW s \in Sessions, CreateSession(r, s) PROVE TypeOK'
  BY <1>0, <1>1, <1>2, <1>4 DEF CreateSession
<1>5. ASSUME NEW r \in Requests, NEW s \in Sessions, Logout(r, s) PROVE TypeOK'
  BY <1>0, <1>1, <1>2, <1>5 DEF Logout
<1>6. ASSUME NEW r \in Requests, NEW s \in Sessions, Access(r, s) PROVE TypeOK'
  BY <1>0, <1>1, <1>6, EndsType DEF Access
<1>7. ASSUME NEW r \in Requests, NEW t \in Tokens, RefreshSelect(r, t) PROVE TypeOK'
  <2>1. tok[t] \in TokenRows /\ tok[t].session \in Sessions
    BY <1>0, <1>7 DEF RefreshSelect, IInv, TokenOK
  <2>2. tok' \in [Tokens -> TokenRows]
    BY <1>0, <1>7, <2>1 DEF RefreshSelect, TokenRows
  <2>3. req' \in [Requests -> RequestRecords]
    <3>1. CASE AfterSelect(t) = "done"
      BY <1>0, <1>1, <1>7, <3>1, EndsType DEF RefreshSelect
    <3>2. CASE AfterSelect(t) # "done"
      <4>1. AfterSelect(t) \in Stages
        BY <1>1 DEF AfterSelect
      <4>2. [at |-> AfterSelect(t), session |-> tok[t].session, token |-> t, ts |-> now,
             answer |-> "none"] \in RequestRecords
        BY <1>0, <1>1, <2>1, <4>1 DEF TokenRows, RequestRecords
      <4>3. QED
        BY <1>0, <1>7, <3>2, <4>2 DEF RefreshSelect
    <3>3. QED
      BY <3>1, <3>2
  <2>4. reused' \subseteq Sessions
    BY <1>0, <1>7, <2>1 DEF RefreshSelect, TokenRows
  <2>5. QED
    BY <1>0, <1>7, <2>2, <2>3, <2>4 DEF RefreshSelect
<1>8. ASSUME NEW r \in Requests, NEW t \in Tokens, IssueInitialRefresh(r, t) \/ Rotate(r, t)
      PROVE  TypeOK'
  <2>1. req[r] \in RequestRecords
    BY <1>0
  <2>2. /\ req[r].session \in Sessions \cup {None} /\ req[r].token \in Tokens \cup {None}
        /\ req[r].ts \in Nat
    BY <2>1 DEF RequestRecords
  <2>3. [[req[r] EXCEPT !.at = "answer"] EXCEPT !.token = t] \in RequestRecords
    BY <1>1, <2>1 DEF RequestRecords
  <2>4. CASE IssueInitialRefresh(r, t)
    <3>1. NewToken(req[r].session, None, now) \in TokenRows
      BY <1>0, <2>2, NewTokenType
    <3>2. QED
      BY <1>0, <2>3, <2>4, <3>1 DEF IssueInitialRefresh
  <2>5. CASE Rotate(r, t)
    <3>1. NewToken(req[r].session, req[r].token, req[r].ts) \in TokenRows
      BY <2>2, NewTokenType
    <3> DEFINE made == [tok EXCEPT ![t] = NewToken(req[r].session, req[r].token, req[r].ts)]
    <3>2. made \in [Tokens -> TokenRows]
      BY <1>0, <3>1
    <3>3. tok' = [made EXCEPT ![req[r].token].state = "revoked"]
      BY <2>5 DEF Rotate
    <3>4. \A u \in Tokens : [made[u] EXCEPT !.state = "revoked"] \in TokenRows
      <4> HIDE DEF made
      <4>1. QED
        BY <3>2 DEF TokenRows
    <3>5. tok' \in [Tokens -> TokenRows]
      <4> HIDE DEF made
      <4>1. QED
        BY <3>2, <3>3, <3>4
    <3>6. QED
      BY <1>0, <2>3, <2>5, <3>5 DEF Rotate
  <2>6. QED
    BY <1>8, <2>4, <2>5
<1>9. ASSUME NEW r \in Requests, Answer(r) PROVE TypeOK'
  <2>1. req[r].token \in Tokens
    BY <1>9 DEF Answer, IInv, HandlerOK
  <2>2. QED
    BY <1>0, <1>1, <1>9, <2>1, EndsType DEF Answer
<1>10. ASSUME NEW r \in Requests, ReplayTokens(r) PROVE TypeOK'
  BY <1>0, <1>1, <1>10, GoesType, RevokedType DEF ReplayTokens
<1>11. ASSUME NEW r \in Requests, ReplaySession(r) PROVE TypeOK'
  BY <1>0, <1>1, <1>11, AuditsType DEF ReplaySession
<1>12. ASSUME NEW r \in Requests, LogoutTokens(r) PROVE TypeOK'
  <2>1. LiveOf(req[r].session) \subseteq Tokens
    BY DEF LiveOf, FamilyOf
  <2>2. QED
    BY <1>0, <1>1, <1>12, <2>1, GoesType DEF LogoutTokens
<1>13. ASSUME NEW r \in Requests, LogoutSession(r) PROVE TypeOK'
  <2>1. req[r].session \in Sessions
    BY <1>13 DEF LogoutSession, IInv, HandlerOK
  <2>2. QED
    BY <1>0, <1>1, <1>13, <2>1, AuditsType DEF LogoutSession
<1>14. ASSUME NEW r \in Requests, Fail(r) \/ Audit(r) \/ WaitForRow(r) PROVE TypeOK'
  <2>1. req[r].answer \in Answers
    BY <1>0 DEF RequestRecords
  <2>2. CASE Fail(r)
    BY <1>0, <1>1, <2>2, EndsType DEF Fail
  <2>3. CASE Audit(r)
    BY <1>0, <2>1, <2>3, EndsType DEF Audit
  <2>4. CASE WaitForRow(r)
    BY <1>0, <2>4 DEF WaitForRow
  <2>5. QED
    BY <1>14, <2>2, <2>3, <2>4
<1>15. CASE Restart
  <2>1. [NewRequest EXCEPT !.at = "done", !.answer = "failed"] \in RequestRecords
    BY <1>1 DEF NewRequest, RequestRecords
  <2>2. QED
    BY <1>0, <1>15, <2>1 DEF Restart
<1>16. CASE UNCHANGED vars
  BY <1>0, <1>16 DEF vars
<1>17. QED
  BY <1>3, <1>4, <1>5, <1>6, <1>7, <1>8, <1>9, <1>10, <1>11, <1>12, <1>13, <1>14, <1>15, <1>16
     DEF Next, Arrive, Step

\* What no step undoes.
Grows ==
  /\ reused \subseteq reused'
  /\ \A s \in Sessions : session[s] # "absent" => session'[s] # "absent"
  /\ \A t \in Tokens : tok[t].state # "absent" =>
       /\ tok'[t].state # "absent" /\ tok'[t].session = tok[t].session
       /\ tok[t].presented => tok'[t].presented

\* A row that no step touches stays right, and so does a handler that rests.
LEMMA TokenKeeps ==
  ASSUME IInv, Grows, NEW t \in Tokens, tok'[t] = tok[t],
         t \in known' => t \in known \/ tok[t].state # "absent"
  PROVE  TokenOK(t)'
<1>1. TokenOK(t) /\ TypeOK
  BY DEF IInv
<1>2. tok[t].parent # None => tok[t].parent \in Tokens
  BY <1>1 DEF TypeOK, TokenRows
<1>3. tok[t].parent # None => TokenOK(tok[t].parent)
  BY <1>2 DEF IInv
<1>4. tok[t].parent # None => tok'[tok[t].parent].presented
  BY <1>1, <1>2, <1>3 DEF Grows, TokenOK
<1>5. QED
  BY <1>1, <1>4 DEF Grows, TokenOK

LEMMA HandlerKeeps ==
  ASSUME IInv, Grows, NEW q \in Requests, req'[q] = req[q]
  PROVE  HandlerOK(q)'
<1>1. HandlerOK(q) /\ TypeOK /\ \A t \in Tokens : TokenOK(t)
  BY DEF IInv
<1>2. req[q].at = "rotate" => tok[req[q].token].state # "absent"
  BY <1>1 DEF HandlerOK, TokenOK
<1>3. QED
  BY <1>1, <1>2 DEF HandlerOK, Grows

\* A chain whose rows and requests rest stays a chain.
LEMMA ChainKeeps ==
  ASSUME IInv, NEW s \in Sessions \ reused, session'[s] # "revoked",
         FamilyOf(s)' = FamilyOf(s),
         \A t \in FamilyOf(s) : tok'[t].state = tok[t].state,
         \A t \in Tokens : tok[t].parent # None => tok'[t].parent = tok[t].parent,
         \A r \in Requests : Exchanging(r, s)' => req'[r] = req[r]
  PROVE  ChainOK(s)'
<1>1. ChainOK(s) /\ TypeOK
  BY DEF IInv
<1>2. LiveOf(s)' = LiveOf(s)
  BY DEF LiveOf
<1>3. \A t \in FamilyOf(s)' : tok'[t].state = "revoked" => \E c \in Tokens : tok'[c].parent = t
  <2>1. ASSUME NEW t \in FamilyOf(s)', tok'[t].state = "revoked"
        PROVE  \E c \in Tokens : tok'[c].parent = t
    <3>1. PICK c \in Tokens : tok[c].parent = t
      BY <1>1, <2>1 DEF ChainOK
    <3>2. t # None
      BY NoneAssumption DEF FamilyOf
    <3>3. QED
      BY <3>1, <3>2
  <2>2. QED
    BY <2>1
<1>4. \A r \in Requests : Exchanging(r, s)' => Exchanging(r, s)
  BY DEF Exchanging
<1>5. QED
  BY <1>1, <1>2, <1>3, <1>4 DEF ChainOK

\* A step that leaves the tables alone and starts no exchange.
LEMMA Quiet ==
  ASSUME IInv, TypeOK', UNCHANGED <<session, tok, reused>>,
         \A t \in known' : t \in known \/ tok[t].state # "absent",
         \A q \in Requests : \/ req'[q] = req[q]
                             \/ HandlerOK(q)' /\ req'[q].at \notin {"token", "rotate"}
  PROVE  IInv'
<1>1. Grows
  BY DEF Grows
<1>2. HandoverAtomic' /\ \A t \in Tokens : TokenOK(t)'
  BY <1>1, TokenKeeps DEF IInv, HandoverAtomic
<1>3. \A q \in Requests : HandlerOK(q)'
  BY <1>1, HandlerKeeps
<1>4. ASSUME NEW s \in Sessions \ reused PROVE ChainOK(s)'
  <2>1. \A r \in Requests : Exchanging(r, s)' => req'[r] = req[r]
    BY DEF Exchanging
  <2>2. FamilyOf(s)' = FamilyOf(s)
    BY DEF FamilyOf
  <2>3. session[s] # "revoked"
    BY DEF IInv, ChainOK
  <2>4. QED
    BY <2>1, <2>2, <2>3, ChainKeeps
<1>5. QED
  BY <1>2, <1>3, <1>4 DEF IInv

\* An answered request knows nothing any more.
LEMMA EndsOK ==
  ASSUME TypeOK, NEW r \in Requests, NEW answer, Ends(r, answer)
  PROVE  /\ \A q \in Requests \ {r} : req'[q] = req[q]
         /\ HandlerOK(r)'
         /\ req'[r].at = "done" /\ req'[r].session = None
<1>1. /\ \A q \in Requests \ {r} : req'[q] = req[q]
      /\ req'[r] = [NewRequest EXCEPT !.at = "done", !.answer = answer]
  BY DEF TypeOK, Ends
<1>2. req'[r].at = "done" /\ req'[r].session = None
  BY <1>1 DEF NewRequest
<1>3. QED
  BY <1>1, <1>2 DEF HandlerOK

\* A request that has done its work still knows its session.
LEMMA AuditsOK ==
  ASSUME TypeOK, NEW r \in Requests, NEW answer, Audits(r, answer)
  PROVE  /\ \A q \in Requests \ {r} : req'[q] = req[q]
         /\ req'[r].at = "audit" /\ req'[r].session = req[r].session
BY DEF TypeOK, Audits, RequestRecords

LEMMA CreateSessionStep ==
  ASSUME IInv, TypeOK', NEW r \in Requests, NEW s \in Sessions, CreateSession(r, s)
  PROVE  IInv'
<1>1. /\ session[s] = "absent" /\ session' = [session EXCEPT ![s] = "open"]
      /\ UNCHANGED <<tok, known, reused>>
      /\ \A q \in Requests \ {r} : req'[q] = req[q]
      /\ req'[r] = [NewRequest EXCEPT !.at = "token", !.session = s]
  BY DEF CreateSession, IInv, TypeOK
<1>2. req'[r].at = "token" /\ req'[r].session = s
  BY <1>1 DEF NewRequest
<1>3. Grows
  BY <1>1 DEF Grows, IInv, TypeOK
<1>4. HandoverAtomic' /\ \A t \in Tokens : TokenOK(t)'
  BY <1>1, <1>3, TokenKeeps DEF IInv, HandoverAtomic
<1>5. HandlerOK(r)'
  BY <1>1, <1>2 DEF HandlerOK, IInv, TypeOK
<1>6. \A q \in Requests : HandlerOK(q)'
  BY <1>1, <1>3, <1>5, HandlerKeeps
<1>7. ASSUME NEW x \in Sessions \ reused PROVE ChainOK(x)'
  <2>1. FamilyOf(x)' = FamilyOf(x)
    BY <1>1 DEF FamilyOf
  <2>2. CASE x # s
    <3>1. \A q \in Requests : Exchanging(q, x)' => req'[q] = req[q]
      BY <1>1, <1>2, <2>2 DEF Exchanging
    <3>2. session'[x] # "revoked"
      BY <1>1, <2>2 DEF IInv, ChainOK, TypeOK
    <3>3. QED
      BY <1>1, <2>1, <3>1, <3>2, ChainKeeps
  <2>3. CASE x = s
    <3>1. FamilyOf(s) = {}
      <4>1. \A t \in Tokens : tok[t].session # s
        <5>1. ASSUME NEW t \in Tokens, tok[t].session = s PROVE FALSE
          <6>1. TokenOK(t)
            BY DEF IInv
          <6>2. tok[t] = NoToken
            BY <1>1, <5>1, <6>1 DEF TokenOK
          <6>3. QED
            BY <5>1, <6>2, NoneAssumption DEF NoToken
        <5>2. QED
          BY <5>1
      <4>2. QED
        BY <4>1 DEF FamilyOf
    <3>2. \A q \in Requests : ~Exchanging(q, s)
      BY <1>1 DEF Exchanging, IInv, HandlerOK
    <3>3. \A q \in Requests : Exchanging(q, s)' => q = r
      BY <1>1, <3>2 DEF Exchanging
    <3>4. LiveOf(s)' = {}
      BY <2>1, <2>3, <3>1 DEF LiveOf
    <3>5. session'[s] = "open"
      BY <1>1 DEF IInv, TypeOK
    <3>6. \A q \in Requests : Exchanging(q, s)' => req'[q].at = "token"
      BY <1>2, <3>3
    <3>7. QED
      BY <2>1, <2>3, <3>1, <3>3, <3>4, <3>5, <3>6 DEF ChainOK
  <2>4. QED
    BY <2>2, <2>3
<1>8. QED
  BY <1>1, <1>4, <1>6, <1>7 DEF IInv

\* A row that is about to be inserted was never used nor replaced.
LEMMA FreshRow ==
  ASSUME IInv, NEW t \in Tokens, NextUnused(t)
  PROVE  /\ tok[t] = NoToken /\ tok[t].state = "absent"
         /\ \A u \in Tokens : tok[u].parent # t
         /\ t \notin known
<1>1. tok[t].state = "absent"
  BY DEF NextUnused, Unused
<1>2. tok[t] = NoToken /\ t \notin known /\ ~tok[t].presented
  BY <1>1 DEF IInv, TokenOK, NoToken
<1>3. t # None
  BY NoneAssumption
<1>4. QED
  BY <1>1, <1>2, <1>3 DEF IInv, TokenOK

LEMMA IssueInitialStep ==
  ASSUME IInv, TypeOK', NEW r \in Requests, NEW t \in Tokens, IssueInitialRefresh(r, t)
  PROVE  IInv'
<1> DEFINE s == req[r].session
<1>1. /\ req[r].at = "token" /\ NextUnused(t) /\ s \in Sessions /\ session[s] # "absent"
      /\ UNCHANGED <<session, known, reused>>
      /\ tok'[t] = NewToken(s, None, now) /\ \A u \in Tokens \ {t} : tok'[u] = tok[u]
      /\ \A q \in Requests \ {r} : req'[q] = req[q]
      /\ req'[r] = [[req[r] EXCEPT !.at = "answer"] EXCEPT !.token = t]
  BY DEF IssueInitialRefresh, IInv, TypeOK, HandlerOK
<1>2. /\ tok'[t].state = "live" /\ tok'[t].session = s /\ tok'[t].parent = None
      /\ tok'[t].presented = FALSE
  BY <1>1 DEF NewToken, NoToken
<1>3. req'[r].at = "answer" /\ req'[r].token = t /\ req'[r].session = s
  BY <1>1 DEF IInv, TypeOK, RequestRecords
<1>4. /\ tok[t] = NoToken /\ tok[t].state = "absent" /\ tok[t].parent = None
      /\ tok[t].session = None /\ t \notin known
      /\ \A u \in Tokens : tok[u].parent # t
  <2>1. /\ tok[t] = NoToken /\ t \notin known
        /\ \A u \in Tokens : tok[u].parent # t
    BY <1>1, FreshRow
  <2>2. QED
    BY <2>1 DEF NoToken
<1>5. Grows
  BY <1>1, <1>4 DEF Grows
<1>6. \A u \in Tokens : TokenOK(u)'
  <2>1. TokenOK(t)'
    BY <1>1, <1>2, <1>4 DEF TokenOK
  <2>2. QED
    BY <1>1, <1>5, <2>1, TokenKeeps
<1>7. HandoverAtomic'
  <2>1. ASSUME NEW u \in Tokens, tok'[u].parent # None
        PROVE  tok'[tok'[u].parent].state = "revoked"
    <3>1. tok'[u] = tok[u]
      BY <1>1, <1>2, <2>1
    <3>2. tok[u].parent \in Tokens \ {t}
      BY <1>4, <2>1, <3>1 DEF IInv, TypeOK, TokenRows
    <3>3. QED
      BY <1>1, <2>1, <3>1, <3>2 DEF IInv, HandoverAtomic
  <2>2. QED
    BY <2>1 DEF HandoverAtomic
<1>8. \A q \in Requests : HandlerOK(q)'
  <2>1. HandlerOK(r)'
    BY <1>1, <1>2, <1>3 DEF HandlerOK
  <2>2. QED
    BY <1>1, <1>5, <2>1, HandlerKeeps
<1>9. ASSUME NEW x \in Sessions \ reused PROVE ChainOK(x)'
  <2>1. \A q \in Requests : Exchanging(q, x)' => q # r /\ Exchanging(q, x) /\ req'[q] = req[q]
    BY <1>1, <1>3 DEF Exchanging
  <2>2. ChainOK(x)
    BY DEF IInv
  <2>3. CASE x # s
    <3>1. FamilyOf(x)' = FamilyOf(x)
      BY <1>1, <1>2, <1>4, <2>3, NoneAssumption DEF FamilyOf
    <3>2. \A u \in FamilyOf(x) : tok'[u].state = tok[u].state
      BY <1>1, <1>4, NoneAssumption DEF FamilyOf
    <3>3. \A u \in Tokens : tok[u].parent # None => tok'[u].parent = tok[u].parent
      BY <1>1, <1>4
    <3>4. QED
      BY <1>1, <2>1, <2>2, <3>1, <3>2, <3>3, ChainKeeps DEF ChainOK
  <2>4. CASE x = s
    <3>1. FamilyOf(s) = {} /\ \A q \in Requests : Exchanging(q, s) => q = r
      BY <1>1, <2>2, <2>4 DEF ChainOK, Exchanging
    <3>2. FamilyOf(s)' = {t}
      BY <1>1, <1>2, <3>1 DEF FamilyOf
    <3>3. LiveOf(s)' = {t}
      BY <1>2, <3>2 DEF LiveOf
    <3>4. \A q \in Requests : ~Exchanging(q, x)'
      BY <2>1, <2>4, <3>1
    <3>5. QED
      BY <1>1, <1>2, <2>2, <2>4, <3>2, <3>3, <3>4 DEF ChainOK
  <2>5. QED
    BY <2>3, <2>4
<1>10. QED
  BY <1>1, <1>6, <1>7, <1>8, <1>9 DEF IInv

\* The SELECT of a refresh: the first presentation of a token of an intact
\* session finds it valid, and no other exchange of the session under way.
LEMMA RefreshSelectStep ==
  ASSUME IInv, TypeOK', NEW r \in Requests, NEW t \in Tokens, RefreshSelect(r, t)
  PROVE  IInv'
<1> DEFINE s == tok[t].session
<1>1. /\ tok[t].state # "absent" /\ s \in Sessions /\ session[s] # "absent"
      /\ UNCHANGED <<session, known>>
      /\ tok' = [tok EXCEPT ![t].presented = TRUE]
      /\ reused' = IF tok[t].presented THEN reused \cup {s} ELSE reused
      /\ \A q \in Requests \ {r} : req'[q] = req[q]
  BY DEF RefreshSelect, Ends, IInv, TypeOK, TokenOK
<1>2. /\ \A u \in Tokens \ {t} : tok'[u] = tok[u]
      /\ tok'[t] = [tok[t] EXCEPT !.presented = TRUE]
      /\ tok[t] \in TokenRows
  BY <1>1 DEF IInv, TypeOK
<1>3. /\ tok'[t].presented /\ tok'[t].state = tok[t].state /\ tok'[t].session = s
      /\ tok'[t].parent = tok[t].parent
  BY <1>2 DEF TokenRows
<1>4. \/ req'[r].at = "done" /\ req'[r].session = None
      \/ /\ req'[r].at \in {"replayTokens", "rotate"}
         /\ req'[r].at = "replayTokens" <=> tok[t].state = "revoked"
         /\ req'[r].session = s /\ req'[r].token = t
  <2>1. CASE AfterSelect(t) = "done"
    <3>1. Ends(r, "expired")
      BY <2>1 DEF RefreshSelect
    <3>2. QED
      BY <3>1, EndsOK DEF IInv
  <2>2. CASE AfterSelect(t) # "done"
    <3>1. req'[r] = [at |-> AfterSelect(t), session |-> s, token |-> t, ts |-> now,
                     answer |-> "none"]
      BY <2>2 DEF RefreshSelect, IInv, TypeOK
    <3>2. \/ AfterSelect(t) = "replayTokens" /\ tok[t].state = "revoked"
          \/ AfterSelect(t) = "rotate" /\ tok[t].state # "revoked"
      BY <2>2 DEF AfterSelect
    <3>3. QED
      BY <3>1, <3>2
  <2>3. QED
    BY <2>1, <2>2
<1>5. Grows
  BY <1>1, <1>2, <1>3 DEF Grows
\* A revoked token of an intact session was replaced, hence presented before.
<1>6. tok[t].state = "revoked" => s \in reused'
  <2>1. ASSUME tok[t].state = "revoked", s \notin reused PROVE tok[t].presented
    <3>1. PICK c \in Tokens : tok[c].parent = t
      BY <1>1, <2>1 DEF IInv, ChainOK, FamilyOf
    <3>2. t # None
      BY NoneAssumption
    <3>3. QED
      BY <3>1, <3>2 DEF IInv, TokenOK
  <2>2. QED
    BY <1>1, <2>1
<1>7. \A u \in Tokens : TokenOK(u)'
  <2>1. ASSUME NEW u \in Tokens PROVE TokenOK(u)'
    <3>1. TokenOK(u)
      BY DEF IInv
    <3>2. tok'[u].parent = tok[u].parent
      BY <1>2, <1>3
    <3>3. tok'[u].parent # None => tok'[tok'[u].parent].presented
      BY <1>2, <1>3, <3>1, <3>2 DEF TokenOK, TokenRows, IInv, TypeOK
    <3>4. QED
      BY <1>1, <1>2, <1>3, <3>1, <3>3 DEF TokenOK
  <2>2. QED
    BY <2>1
<1>8. HandoverAtomic'
  <2>1. \A u \in Tokens : tok'[u].parent = tok[u].parent /\ tok'[u].state = tok[u].state
    BY <1>2, <1>3
  <2>2. \A u \in Tokens : tok[u].parent # None => tok[u].parent \in Tokens
    BY DEF IInv, TypeOK, TokenRows
  <2>3. QED
    BY <2>1, <2>2 DEF IInv, HandoverAtomic
<1>9. \A q \in Requests : HandlerOK(q)'
  <2>1. HandlerOK(r)'
    BY <1>1, <1>3, <1>4, <1>6 DEF HandlerOK
  <2>2. QED
    BY <1>1, <1>5, <2>1, HandlerKeeps
<1>10. ASSUME NEW x \in Sessions \ reused' PROVE ChainOK(x)'
  <2>1. x \notin reused /\ ChainOK(x)
    BY <1>5 DEF Grows, IInv
  <2>2. \A u \in Tokens : /\ tok'[u].session = tok[u].session /\ tok'[u].state = tok[u].state
                          /\ tok'[u].parent = tok[u].parent
    BY <1>2, <1>3
  <2>3. FamilyOf(x)' = FamilyOf(x) /\ LiveOf(x)' = LiveOf(x)
    BY <2>2 DEF FamilyOf, LiveOf
  <2>4. CASE ~Exchanging(r, x)'
    <3>1. \A q \in Requests : Exchanging(q, x)' => req'[q] = req[q]
      BY <1>1, <2>4
    <3>2. session'[x] # "revoked"
      BY <1>1, <2>1 DEF ChainOK
    <3>3. \A u \in FamilyOf(x) : tok'[u].state = tok[u].state
      BY <2>2 DEF FamilyOf
    <3>4. QED
      BY <2>1, <2>2, <2>3, <3>1, <3>2, <3>3, ChainKeeps
  <2>5. CASE Exchanging(r, x)'
    <3>1. /\ x = s /\ req'[r].at = "rotate" /\ tok[t].state = "live" /\ req'[r].token = t
          /\ ~tok[t].presented
      BY <1>1, <1>2, <1>4, <2>1, <2>5, NoneAssumption DEF Exchanging, TokenRows
    <3>2. t \in LiveOf(x)
      BY <3>1 DEF LiveOf, FamilyOf
    <3>3. ASSUME NEW q \in Requests \ {r}, Exchanging(q, x)' PROVE FALSE
      <4>1. Exchanging(q, x) /\ HandlerOK(q)
        BY <1>1, <3>3 DEF Exchanging, IInv
      <4>2. req[q].at = "rotate" /\ req[q].token \in LiveOf(x)
        BY <2>1, <3>2, <4>1 DEF ChainOK, LiveOf
      <4>3. req[q].token = t
        BY <2>1, <3>2, <4>2 DEF ChainOK
      <4>4. QED
        BY <3>1, <4>1, <4>2, <4>3 DEF HandlerOK
    <3>4. \A q \in Requests : Exchanging(q, x)' => q = r
      BY <3>3
    <3>5. \A u \in FamilyOf(x)' : tok'[u].state = "revoked" =>
            \E c \in Tokens : tok'[c].parent = u
      BY <2>1, <2>2, <2>3 DEF ChainOK, FamilyOf
    <3>6. session'[x] # "revoked" /\ \A u, v \in LiveOf(x)' : u = v
      BY <1>1, <2>1, <2>3 DEF ChainOK
    <3>7. QED
      BY <2>3, <3>1, <3>2, <3>4, <3>5, <3>6 DEF ChainOK
  <2>6. QED
    BY <2>4, <2>5
<1>11. QED
  BY <1>7, <1>8, <1>9, <1>10 DEF IInv

\* The exchange itself: the handler's token is the end of the chain.
LEMMA RotateStep ==
  ASSUME IInv, TypeOK', NEW r \in Requests, NEW c \in Tokens, Rotate(r, c)
  PROVE  IInv'
<1>1. PICK t \in Tokens : t = req[r].token
  BY DEF Rotate, IInv, HandlerOK
<1>2. PICK s \in Sessions : s = req[r].session
  BY DEF Rotate, IInv, HandlerOK
<1>3. /\ req[r].at = "rotate" /\ NextUnused(c) /\ s \in Sessions /\ session[s] # "absent"
      /\ t \in Tokens /\ tok[t].session = s /\ tok[t].presented
      /\ UNCHANGED <<session, known, reused>>
      /\ \A q \in Requests \ {r} : req'[q] = req[q]
      /\ req'[r] = [[req[r] EXCEPT !.at = "answer"] EXCEPT !.token = c]
  BY <1>1, <1>2 DEF Rotate, IInv, TypeOK, HandlerOK
<1>4. req'[r].at = "answer" /\ req'[r].token = c /\ req'[r].session = s
  BY <1>3, <1>2 DEF IInv, TypeOK, RequestRecords
<1>5. /\ tok[c] = NoToken /\ c \notin known
      /\ \A u \in Tokens : tok[u].parent # c
  BY <1>3, FreshRow
<1>6. /\ tok[c].state = "absent" /\ tok[c].parent = None /\ tok[c].session = None
      /\ ~tok[c].presented
  BY <1>5 DEF NoToken
<1>7. c # t /\ tok[t].state # "absent"
  BY <1>3, <1>6 DEF IInv, TokenOK
<1>8. /\ tok'[c] = NewToken(s, t, req[r].ts)
      /\ tok'[t] = [tok[t] EXCEPT !.state = "revoked"]
      /\ \A u \in Tokens \ {t, c} : tok'[u] = tok[u]
  BY <1>3, <1>1, <1>2, <1>7 DEF Rotate, IInv, TypeOK
<1>9. /\ tok'[c].state = "live" /\ tok'[c].session = s /\ tok'[c].parent = t
      /\ ~tok'[c].presented
  BY <1>8 DEF NewToken, NoToken
<1>10. /\ tok'[t].state = "revoked" /\ tok'[t].session = s /\ tok'[t].presented
       /\ tok'[t].parent = tok[t].parent
  BY <1>3, <1>8 DEF IInv, TypeOK, TokenRows
<1>11. \A u \in Tokens : u = t \/ u = c \/ tok'[u] = tok[u]
  BY <1>8
<1>12. Grows
  <2>1. ASSUME NEW u \in Tokens, tok[u].state # "absent"
        PROVE  /\ tok'[u].state # "absent" /\ tok'[u].session = tok[u].session
               /\ tok[u].presented => tok'[u].presented
    <3>1. u = t \/ tok'[u] = tok[u]
      BY <1>11, <1>6, <2>1
    <3>2. QED
      BY <1>3, <1>10, <2>1, <3>1
  <2>2. QED
    BY <1>3, <2>1 DEF Grows
<1>13. \A u \in Tokens : TokenOK(u)'
  <2>1. TokenOK(c)'
    BY <1>3, <1>5, <1>9, <1>10 DEF TokenOK
  <2>2. TokenOK(t)'
    <3>1. tok[t].parent # None => tok[t].parent \in Tokens \ {c}
      BY <1>3, <1>5 DEF IInv, TypeOK, TokenRows
    <3>2. tok[t].parent # None => tok'[tok[t].parent].presented
      BY <1>11, <1>3, <1>10, <3>1 DEF IInv, TokenOK
    <3>3. QED
      BY <1>3, <1>10, <3>2 DEF TokenOK
  <2>3. \A u \in Tokens : u = t \/ u = c \/ TokenOK(u)'
    BY <1>11, <1>3, <1>12, TokenKeeps
  <2>4. QED
    BY <2>1, <2>2, <2>3
<1>14. HandoverAtomic'
  <2>1. ASSUME NEW u \in Tokens \ {c}, tok'[u].parent # None
        PROVE  tok'[tok'[u].parent].state = "revoked"
    <3>1. tok'[u].parent = tok[u].parent
      BY <1>11, <1>10
    <3>2. tok[u].parent \in Tokens \ {c}
      BY <1>5, <2>1, <3>1 DEF IInv, TypeOK, TokenRows
    <3>3. QED
      BY <1>11, <1>10, <2>1, <3>1, <3>2 DEF IInv, HandoverAtomic
  <2>2. QED
    BY <1>9, <1>10, <2>1 DEF HandoverAtomic
<1>15. \A q \in Requests : HandlerOK(q)'
  <2>1. HandlerOK(r)'
    BY <1>3, <1>4, <1>9 DEF HandlerOK
  <2>2. QED
    BY <1>3, <1>12, <2>1, HandlerKeeps
<1>16. ASSUME NEW x \in Sessions \ reused PROVE ChainOK(x)'
  <2>1. \A q \in Requests : Exchanging(q, x)' => q # r /\ Exchanging(q, x) /\ req'[q] = req[q]
    BY <1>3, <1>2, <1>4 DEF Exchanging
  <2>2. ChainOK(x)
    BY DEF IInv
  <2>3. \A u \in Tokens : tok[u].parent # None => tok'[u].parent = tok[u].parent
    BY <1>11, <1>6, <1>10
  <2>4. CASE x # s
    <3>1. FamilyOf(x)' = FamilyOf(x)
      <4>1. \A u \in Tokens : tok'[u].session = x <=> tok[u].session = x
        BY <1>11, <1>3, <1>6, <1>9, <1>10, <2>4, NoneAssumption
      <4>2. QED
        BY <4>1 DEF FamilyOf
    <3>2. \A u \in FamilyOf(x) : tok'[u].state = tok[u].state
      BY <1>11, <1>3, <1>6, <2>4, NoneAssumption DEF FamilyOf
    <3>3. session'[x] # "revoked"
      BY <1>3, <2>2 DEF ChainOK
    <3>4. \A q \in Requests : Exchanging(q, x)' => req'[q] = req[q]
      BY <2>1
    <3>5. QED
      BY <2>3, <3>1, <3>2, <3>3, <3>4, ChainKeeps
  <2>5. CASE x = s
    <3>1. Exchanging(r, x)
      BY <1>3, <1>2, <2>5 DEF Exchanging
    <3>2. /\ \A q \in Requests : Exchanging(q, x) => q = r
          /\ \A u \in LiveOf(x) : u = t
      BY <1>3, <1>1, <2>2, <3>1 DEF ChainOK
    <3>3. FamilyOf(x)' = FamilyOf(x) \cup {c}
      BY <1>11, <1>3, <1>6, <1>9, <1>10, <2>5 DEF FamilyOf
    <3>4. LiveOf(x)' = {c}
      <4>1. \A u \in FamilyOf(x) : tok'[u].state = "live" => u = c
        BY <1>11, <1>10, <3>2 DEF LiveOf, FamilyOf
      <4>2. QED
        BY <1>9, <3>3, <4>1 DEF LiveOf
    <3>5. \A u \in FamilyOf(x)' : tok'[u].state = "revoked" =>
            \E d \in Tokens : tok'[d].parent = u
      <4>1. ASSUME NEW u \in FamilyOf(x), tok'[u].state = "revoked", u # t
            PROVE  \E d \in Tokens : tok'[d].parent = u
        <5>1. u # None /\ u # c /\ u \in Tokens
          BY <1>3, <1>6, <2>5, NoneAssumption DEF FamilyOf
        <5>2. tok[u].state = "revoked"
          BY <1>11, <4>1, <5>1
        <5>3. PICK d \in Tokens : tok[d].parent = u
          BY <2>2, <5>2 DEF ChainOK
        <5>4. QED
          BY <2>3, <5>1, <5>3
      <4>2. QED
        BY <1>9, <3>3, <4>1
    <3>6. \A q \in Requests : ~Exchanging(q, x)'
      BY <2>1, <3>2
    <3>7. session'[x] # "revoked"
      BY <1>3, <2>2 DEF ChainOK
    <3>8. QED
      BY <3>4, <3>5, <3>6, <3>7 DEF ChainOK
  <2>6. QED
    BY <2>4, <2>5
<1>17. QED
  BY <1>3, <1>13, <1>14, <1>15, <1>16 DEF IInv

\* What a replay ends is a session of which a token was presented twice.
LEMMA ReplayTokensStep ==
  ASSUME IInv, TypeOK', NEW r \in Requests, ReplayTokens(r)
  PROVE  IInv'
<1> DEFINE s == req[r].session
<1>1. /\ req[r].at = "replayTokens" /\ s \in reused /\ s \in Sessions /\ session[s] # "absent"
      /\ UNCHANGED <<session, known, reused>>
      /\ \A q \in Requests \ {r} : req'[q] = req[q]
      /\ req'[r] = [req[r] EXCEPT !.at = "replaySession"]
      /\ tok' = Revoked(LiveOf(s))
  BY DEF ReplayTokens, Goes, IInv, TypeOK, HandlerOK
<1>2. req'[r].at = "replaySession" /\ req'[r].session = s
  BY <1>1 DEF IInv, TypeOK, RequestRecords
<1>3. /\ \A u \in Tokens : u \notin LiveOf(s) => tok'[u] = tok[u]
      /\ \A u \in LiveOf(s) : /\ tok'[u].state = "revoked" /\ tok[u].state = "live"
                              /\ tok'[u].session = tok[u].session
                              /\ tok'[u].parent = tok[u].parent
                              /\ tok'[u].presented = tok[u].presented
  BY <1>1 DEF Revoked, LiveOf, FamilyOf, IInv, TypeOK, TokenRows
<1>4. /\ \A u \in Tokens : /\ tok'[u].session = tok[u].session
                           /\ tok'[u].parent = tok[u].parent
                           /\ tok'[u].presented = tok[u].presented
                           /\ tok[u].state # "absent" => tok'[u].state # "absent"
                           /\ tok[u].state = "revoked" => tok'[u].state = "revoked"
  BY <1>3
<1>5. Grows
  BY <1>1, <1>4 DEF Grows
<1>6. ASSUME NEW u \in Tokens PROVE TokenOK(u)'
  <2>1. TokenOK(u) /\ (tok[u].parent # None => tok[u].parent \in Tokens)
    BY DEF IInv, TypeOK, TokenRows
  <2>2. u \in LiveOf(s) \/ tok'[u] = tok[u]
    BY <1>3
  <2>3. QED
    BY <1>1, <1>3, <1>4, <2>1, <2>2 DEF TokenOK
<1>7. HandoverAtomic'
  <2>1. \A u \in Tokens : tok[u].parent # None => tok[u].parent \in Tokens
    BY DEF IInv, TypeOK, TokenRows
  <2>2. QED
    BY <1>4, <2>1 DEF IInv, HandoverAtomic
<1>8. \A q \in Requests : HandlerOK(q)'
  <2>1. HandlerOK(r)'
    BY <1>1, <1>2 DEF HandlerOK
  <2>2. QED
    BY <1>1, <1>5, <2>1, HandlerKeeps
<1>9. ASSUME NEW x \in Sessions \ reused PROVE ChainOK(x)'
  <2>1. FamilyOf(x)' = FamilyOf(x)
    BY <1>4 DEF FamilyOf
  <2>2. \A u \in FamilyOf(x) : tok'[u].state = tok[u].state
    BY <1>1, <1>3 DEF LiveOf, FamilyOf
  <2>3. \A q \in Requests : Exchanging(q, x)' => req'[q] = req[q]
    BY <1>1, <1>2 DEF Exchanging
  <2>4. session'[x] # "revoked"
    BY <1>1 DEF IInv, ChainOK
  <2>5. QED
    BY <1>4, <2>1, <2>2, <2>3, <2>4, ChainKeeps
<1>10. QED
  BY <1>1, <1>6, <1>7, <1>8, <1>9 DEF IInv

LEMMA ReplaySessionStep ==
  ASSUME IInv, TypeOK', NEW r \in Requests, ReplaySession(r)
  PROVE  IInv'
<1> DEFINE s == req[r].session
<1>1. /\ req[r].at = "replaySession" /\ s \in reused /\ s \in Sessions
      /\ UNCHANGED <<tok, known, reused>>
      /\ session' = [session EXCEPT ![s] = "revoked"]
      /\ Audits(r, "replay")
  BY DEF ReplaySession, IInv, HandlerOK
<1>2. /\ \A q \in Requests \ {r} : req'[q] = req[q]
      /\ HandlerOK(r)' /\ req'[r].at = "audit"
  <2>1. /\ \A q \in Requests \ {r} : req'[q] = req[q]
        /\ req'[r].at = "audit" /\ req'[r].session = s
    BY <1>1, AuditsOK DEF IInv
  <2>2. session'[s] = "revoked"
    BY <1>1 DEF IInv, TypeOK
  <2>3. QED
    BY <1>1, <2>1, <2>2 DEF HandlerOK
<1>3. Grows
  BY <1>1 DEF Grows, IInv, TypeOK
<1>4. HandoverAtomic' /\ \A u \in Tokens : TokenOK(u)'
  BY <1>1, <1>3, TokenKeeps DEF IInv, HandoverAtomic
<1>5. \A q \in Requests : HandlerOK(q)'
  BY <1>2, <1>3, HandlerKeeps
<1>6. ASSUME NEW x \in Sessions \ reused PROVE ChainOK(x)'
  <2>1. FamilyOf(x)' = FamilyOf(x)
    BY <1>1 DEF FamilyOf
  <2>2. \A q \in Requests : Exchanging(q, x)' => req'[q] = req[q]
    BY <1>2 DEF Exchanging
  <2>3. session'[x] # "revoked"
    BY <1>1 DEF IInv, ChainOK, TypeOK
  <2>4. QED
    BY <1>1, <2>1, <2>2, <2>3, ChainKeeps
<1>7. QED
  BY <1>1, <1>4, <1>5, <1>6 DEF IInv

LEMMA InitIInv == Init => IInv
<1> SUFFICES ASSUME Init PROVE IInv
  OBVIOUS
<1>1. /\ \A t \in Tokens : tok[t] = NoToken
      /\ \A r \in Requests : req[r] = NewRequest
      /\ \A s \in Sessions : session[s] = "absent"
      /\ known = {}
  BY DEF Init
<1>2. /\ \A t \in Tokens : /\ tok[t].state = "absent" /\ tok[t].parent = None
                           /\ tok[t].session = None /\ ~tok[t].presented
      /\ \A r \in Requests : req[r].at = "idle"
  BY <1>1 DEF NoToken, NewRequest
<1>3. \A t \in Tokens : TokenOK(t)
  BY <1>1, <1>2 DEF TokenOK
<1>4. \A r \in Requests : HandlerOK(r)
  BY <1>2 DEF HandlerOK
<1>5. \A s \in Sessions \ reused : ChainOK(s)
  <2>1. \A s \in Sessions : FamilyOf(s) = {} /\ LiveOf(s) = {}
    BY <1>2, NoneAssumption DEF FamilyOf, LiveOf
  <2>2. \A s \in Sessions, r \in Requests : ~Exchanging(r, s)
    BY <1>2 DEF Exchanging
  <2>3. QED
    BY <1>1, <2>1, <2>2 DEF ChainOK
<1>6. QED
  BY <1>2, <1>3, <1>4, <1>5, TypeInit DEF IInv, HandoverAtomic

LEMMA StepIInv == IInv /\ [Next]_vars => IInv'
<1> SUFFICES ASSUME IInv, [Next]_vars PROVE IInv'
  OBVIOUS
<1>1. TypeOK' /\ TypeOK
  BY TypeStep DEF IInv
<1>2. ASSUME NEW r \in Requests, Fail(r) \/ Audit(r) \/ \E s \in Sessions : Access(r, s)
      PROVE  IInv'
  <2>1. PICK answer : Ends(r, answer)
    BY <1>2 DEF Fail, Audit, Access
  <2>2. \A q \in Requests : \/ req'[q] = req[q]
                            \/ HandlerOK(q)' /\ req'[q].at \notin {"token", "rotate"}
    BY <1>1, <2>1, EndsOK
  <2>3. UNCHANGED <<session, tok, reused, known>>
    BY <1>2 DEF Fail, Audit, Access
  <2>4. QED
    BY <1>1, <2>2, <2>3, Quiet
<1>3. ASSUME NEW r \in Requests, Answer(r) PROVE IInv'
  <2>1. /\ Ends(r, "tokens") /\ UNCHANGED <<session, tok, reused>>
        /\ known' = known \cup {req[r].token}
        /\ tok[req[r].token].state # "absent"
    BY <1>3 DEF Answer, IInv, HandlerOK
  <2>2. \A q \in Requests : \/ req'[q] = req[q]
                            \/ HandlerOK(q)' /\ req'[q].at \notin {"token", "rotate"}
    BY <1>1, <2>1, EndsOK
  <2>3. QED
    BY <1>1, <2>1, <2>2, Quiet
<1>4. ASSUME NEW r \in Requests, NEW s \in Sessions, Logout(r, s) PROVE IInv'
  <2>1. /\ session[s] # "absent" /\ UNCHANGED <<session, tok, reused, known>>
        /\ \A q \in Requests \ {r} : req'[q] = req[q]
        /\ req'[r] = [NewRequest EXCEPT !.at = "logoutTokens", !.session = s]
    BY <1>1, <1>4 DEF Logout, TypeOK
  <2>2. req'[r].at = "logoutTokens" /\ req'[r].session = s
    BY <2>1 DEF NewRequest
  <2>3. HandlerOK(r)'
    BY <2>1, <2>2 DEF HandlerOK
  <2>4. QED
    BY <1>1, <2>1, <2>2, <2>3, Quiet
<1>5. ASSUME NEW r \in Requests, LogoutTokens(r) PROVE IInv'
  <2>1. /\ req[r].at = "logoutTokens" /\ UNCHANGED <<session, tok, reused, known>>
        /\ \A q \in Requests \ {r} : req'[q] = req[q]
        /\ req'[r] = [req[r] EXCEPT !.at = "logoutSession"]
    BY <1>1, <1>5 DEF LogoutTokens, Goes, TypeOK
  <2>2. req'[r].at = "logoutSession" /\ req'[r].session = req[r].session
    BY <1>1, <2>1 DEF TypeOK, RequestRecords
  <2>3. HandlerOK(r)'
    BY <2>1, <2>2 DEF HandlerOK, IInv
  <2>4. QED
    BY <1>1, <2>1, <2>2, <2>3, Quiet
<1>6. ASSUME NEW r \in Requests, LogoutSession(r) PROVE IInv'
  <2>1. /\ Audits(r, "loggedOut") /\ UNCHANGED <<session, tok, reused, known>>
        /\ req[r].at = "logoutSession"
    BY <1>6 DEF LogoutSession
  <2>2. /\ \A q \in Requests \ {r} : req'[q] = req[q]
        /\ req'[r].at = "audit" /\ req'[r].session = req[r].session
    BY <1>1, <2>1, AuditsOK
  <2>3. HandlerOK(r)'
    BY <2>1, <2>2 DEF HandlerOK, IInv
  <2>4. QED
    BY <1>1, <2>1, <2>2, <2>3, Quiet
<1>7. CASE Restart
  <2>1. UNCHANGED <<session, tok, reused, known>>
    BY <1>7 DEF Restart
  <2>2. ASSUME NEW q \in Requests, req'[q] # req[q]
        PROVE  HandlerOK(q)' /\ req'[q].at \notin {"token", "rotate"}
    <3>1. req'[q] = [NewRequest EXCEPT !.at = "done", !.answer = "failed"]
      BY <1>7, <2>2 DEF Restart
    <3>2. req'[q].at = "done"
      BY <3>1 DEF NewRequest
    <3>3. QED
      BY <3>2 DEF HandlerOK
  <2>3. QED
    BY <1>1, <2>1, <2>2, Quiet
<1>8. ASSUME Tick \/ UNCHANGED vars \/ \E r \in Requests : WaitForRow(r) PROVE IInv'
  BY <1>1, <1>8, Quiet DEF Tick, WaitForRow, vars
<1>9. QED
  BY <1>1, <1>2, <1>3, <1>4, <1>5, <1>6, <1>7, <1>8, CreateSessionStep, IssueInitialStep,
     RefreshSelectStep, RotateStep, ReplayTokensStep, ReplaySessionStep
     DEF Next, Arrive, Step

\* The inductive invariant of the refresh endpoint.
THEOREM Invariance == Spec => []IInv
BY InitIInv, StepIInv, PTL DEF Spec

\* Type correctness for any number of sessions, tokens and requests.
THEOREM TypeCorrect == Spec => []TypeOK
<1>1. IInv => TypeOK
  BY DEF IInv
<1>2. QED
  BY <1>1, Invariance, PTL

\* No token is valid together with the token it replaced.
THEOREM Handover == Spec => []HandoverAtomic
<1>1. IInv => HandoverAtomic
  BY DEF IInv
<1>2. QED
  BY <1>1, Invariance, PTL

\* A session of which no token was presented twice has at most one valid token.
THEOREM OneLive == Spec => []OneLiveUnlessReused
<1>1. IInv => OneLiveUnlessReused
  <2>1. ASSUME IInv, NEW s \in Sessions \ reused PROVE Cardinality(LiveOf(s)) <= 1
    <3>1. \A t, u \in LiveOf(s) : t = u
      BY <2>1 DEF IInv, ChainOK
    <3>2. CASE LiveOf(s) = {}
      BY <3>2, FS_EmptySet
    <3>3. ASSUME NEW t \in LiveOf(s) PROVE Cardinality(LiveOf(s)) <= 1
      <4>1. LiveOf(s) = {t}
        BY <3>1, <3>3
      <4>2. QED
        BY <4>1, FS_Singleton
    <3>4. QED
      BY <3>2, <3>3
  <2>2. QED
    BY <2>1 DEF OneLiveUnlessReused
<1>2. QED
  BY <1>1, Invariance, PTL

\* A client that presents every token once is never taken for a replay.
THEOREM OnlyReuseEnds == Spec => []NoFalseReplay
<1>1. IInv => NoFalseReplay
  BY DEF IInv, ChainOK, NoFalseReplay
<1>2. QED
  BY <1>1, Invariance, PTL

\* What a step may do to a row: insert it for a session with an exchange under
\* way, revoke it, or mark it as presented.
LEMMA TokensMove ==
  ASSUME IInv, [Next]_vars, NEW t \in Tokens
  PROVE  \/ /\ tok'[t].session = tok[t].session
            /\ tok'[t].state = tok[t].state \/ tok'[t].state = "revoked"
         \/ /\ tok[t].session = None
            /\ \E r \in Requests : Exchanging(r, tok'[t].session)
<1> DEFINE Goal == \/ /\ tok'[t].session = tok[t].session
                      /\ tok'[t].state = tok[t].state \/ tok'[t].state = "revoked"
                   \/ /\ tok[t].session = None
                      /\ \E r \in Requests : Exchanging(r, tok'[t].session)
<1>1. TypeOK /\ tok[t] \in TokenRows
  BY DEF IInv, TypeOK
<1>2. ASSUME NEW r \in Requests, NEW u \in Tokens, IssueInitialRefresh(r, u) PROVE Goal
  <2>1. CASE u # t
    BY <1>1, <1>2, <2>1 DEF IssueInitialRefresh, TypeOK
  <2>2. CASE u = t
    <3>1. tok'[t] = NewToken(req[r].session, None, now)
      BY <1>1, <1>2, <2>2 DEF IssueInitialRefresh, TypeOK
    <3>2. tok'[t].session = req[r].session
      BY <3>1 DEF NewToken, NoToken
    <3>3. tok[t] = NoToken
      BY <1>2, <2>2, FreshRow DEF IssueInitialRefresh
    <3>4. QED
      BY <1>2, <3>2, <3>3 DEF NoToken, Exchanging, IssueInitialRefresh
  <2>3. QED
    BY <2>1, <2>2
<1>3. ASSUME NEW r \in Requests, NEW u \in Tokens, Rotate(r, u) PROVE Goal
  <2>1. tok[u] = NoToken
    BY <1>3, FreshRow DEF Rotate
  <2>2. req[r].token \in Tokens /\ req[r].token # u
    BY <1>3, <2>1 DEF Rotate, IInv, HandlerOK, NoToken
  <2>3. CASE u = t
    <3>1. tok'[t] = NewToken(req[r].session, req[r].token, req[r].ts)
      BY <1>1, <1>3, <2>2, <2>3 DEF Rotate, TypeOK
    <3>2. tok'[t].session = req[r].session
      BY <3>1 DEF NewToken, NoToken
    <3>3. tok[t].session = None
      BY <2>1, <2>3 DEF NoToken
    <3>4. Exchanging(r, tok'[t].session)
      BY <1>3, <3>2 DEF Exchanging, Rotate
    <3>5. QED
      BY <3>3, <3>4
  <2>4. CASE t = req[r].token
    <3>1. tok'[t] = [tok[t] EXCEPT !.state = "revoked"]
      BY <1>1, <1>3, <2>2, <2>4 DEF Rotate, TypeOK
    <3>2. QED
      BY <1>1, <3>1 DEF TokenRows
  <2>5. CASE t \notin {u, req[r].token}
    BY <1>1, <1>3, <2>5 DEF Rotate, TypeOK
  <2>6. QED
    BY <2>3, <2>4, <2>5
<1>4. ASSUME NEW r \in Requests, NEW u \in Tokens, RefreshSelect(r, u) PROVE Goal
  <2>1. tok' = [tok EXCEPT ![u].presented = TRUE]
    BY <1>4 DEF RefreshSelect
  <2>2. tok'[t] = tok[t] \/ tok'[t] = [tok[t] EXCEPT !.presented = TRUE]
    BY <1>1, <2>1 DEF TypeOK
  <2>3. QED
    BY <1>1, <2>2 DEF TokenRows
<1>5. ASSUME NEW r \in Requests, ReplayTokens(r) PROVE Goal
  <2>1. tok'[t] = tok[t] \/ tok'[t] = [tok[t] EXCEPT !.state = "revoked"]
    BY <1>5 DEF ReplayTokens, Revoked
  <2>2. QED
    BY <1>1, <2>1 DEF TokenRows
<1>6. CASE UNCHANGED tok
  BY <1>6
<1>7. QED
  BY <1>2, <1>3, <1>4, <1>5, <1>6
     DEF Next, Arrive, Step, Tick, Restart, Fail, CreateSession, Logout, Access, Answer,
         ReplaySession, LogoutTokens, LogoutSession, Audit, WaitForRow, vars

\* An exchange under way was under way before, or starts: with the session, or
\* with the SELECT of a token that was valid.
LEMMA ExchangesMove ==
  ASSUME IInv, [Next]_vars, NEW s \in Sessions, session[s] # "absent",
         NEW q \in Requests, Exchanging(q, s)'
  PROVE  Exchanging(q, s) \/ LiveOf(s) # {}
<1>1. TypeOK
  BY DEF IInv
<1>2. CASE req'[q] = req[q]
  BY <1>2 DEF Exchanging
<1>3. ASSUME NEW r \in Requests, NEW answer, Ends(r, answer)
      PROVE  req'[q] = req[q] \/ ~Exchanging(q, s)'
  BY <1>1, <1>3, EndsOK DEF Exchanging
<1>4. ASSUME NEW r \in Requests, NEW x \in Sessions, CreateSession(r, x)
      PROVE  req'[q] = req[q] \/ ~Exchanging(q, s)'
  <2>1. req'[r].session = x /\ x # s /\ (q # r => req'[q] = req[q])
    BY <1>1, <1>4 DEF CreateSession, TypeOK, NewRequest
  <2>2. QED
    BY <2>1 DEF Exchanging
<1>5. ASSUME NEW r \in Requests, NEW t \in Tokens, RefreshSelect(r, t)
      PROVE  req'[q] = req[q] \/ ~Exchanging(q, s)' \/ LiveOf(s) # {}
  <2>1. CASE AfterSelect(t) = "done"
    BY <1>3, <1>5, <2>1 DEF RefreshSelect
  <2>2. CASE AfterSelect(t) # "done" /\ q = r
    <3>1. req'[r] = [at |-> AfterSelect(t), session |-> tok[t].session, token |-> t,
                     ts |-> now, answer |-> "none"]
      BY <1>1, <1>5, <2>2 DEF RefreshSelect, TypeOK
    <3>2. AfterSelect(t) = "replayTokens" \/ tok[t].state # "revoked"
      BY DEF AfterSelect
    <3>3. tok[t].state \in {"live", "revoked"}
      BY <1>1, <1>5 DEF RefreshSelect, IInv, TokenOK, TypeOK, TokenRows
    <3>4. Exchanging(q, s)' => tok[t].session = s /\ tok[t].state = "live"
      BY <2>2, <3>1, <3>2, <3>3 DEF Exchanging
    <3>5. QED
      BY <3>4 DEF LiveOf, FamilyOf
  <2>3. CASE AfterSelect(t) # "done" /\ q # r
    BY <1>1, <1>5, <2>3 DEF RefreshSelect, TypeOK
  <2>4. QED
    BY <2>1, <2>2, <2>3
<1>6. ASSUME NEW r \in Requests,
             \/ \E t \in Tokens : IssueInitialRefresh(r, t) \/ Rotate(r, t)
             \/ ReplayTokens(r) \/ LogoutTokens(r) \/ \E x \in Sessions : Logout(r, x)
      PROVE  req'[q] = req[q] \/ ~Exchanging(q, s)'
  <2>1. CASE q # r
    BY <1>1, <1>6, <2>1
       DEF IssueInitialRefresh, Rotate, ReplayTokens, LogoutTokens, Logout, Goes, TypeOK
  <2>2. CASE q = r
    <3>1. req[r] \in RequestRecords
      BY <1>1 DEF TypeOK
    <3>2. \/ \E t \in Tokens : req'[r] = [[req[r] EXCEPT !.at = "answer"] EXCEPT !.token = t]
          \/ \E stage \in {"replaySession", "logoutSession"} :
               req'[r] = [req[r] EXCEPT !.at = stage]
          \/ \E x \in Sessions : req'[r] = [NewRequest EXCEPT !.at = "logoutTokens", !.session = x]
      BY <1>1, <1>6 DEF IssueInitialRefresh, Rotate, ReplayTokens, LogoutTokens, Logout, Goes,
                        TypeOK
    <3>3. req'[r].at \notin {"token", "rotate"}
      BY <3>1, <3>2 DEF RequestRecords, NewRequest
    <3>4. QED
      BY <2>2, <3>3 DEF Exchanging
  <2>3. QED
    BY <2>1, <2>2
<1>7. CASE Restart
  <2>1. req'[q] = req[q] \/ req'[q] = [NewRequest EXCEPT !.at = "done", !.answer = "failed"]
    BY <1>7 DEF Restart
  <2>2. req'[q] = req[q] \/ req'[q].at = "done"
    BY <2>1 DEF NewRequest
  <2>3. QED
    BY <1>2, <2>2 DEF Exchanging
<1>8. ASSUME NEW r \in Requests, NEW answer, Audits(r, answer)
      PROVE  req'[q] = req[q] \/ ~Exchanging(q, s)'
  BY <1>1, <1>8, AuditsOK DEF Exchanging
<1>9. CASE UNCHANGED req
  BY <1>2, <1>9
<1>10. QED
  BY <1>2, <1>3, <1>4, <1>5, <1>6, <1>7, <1>8, <1>9
     DEF Next, Arrive, Step, Tick, Fail, Access, Answer, ReplaySession, LogoutSession, Audit,
         WaitForRow, vars

\* A session whose tokens are all revoked and that no exchange is extending
\* never gets a valid token again.
THEOREM NoResurrection == Spec => BuriedStaysDead
<1>1. ASSUME IInv, [Next]_vars, NEW s \in Sessions, Buried(s) PROVE Buried(s)'
  <2>1. /\ session[s] # "absent" /\ FamilyOf(s) # {} /\ LiveOf(s) = {}
        /\ \A r \in Requests : ~Exchanging(r, s)
    BY <1>1 DEF Buried, Exchanging
  <2>2. session'[s] # "absent"
    BY <1>1, <2>1 DEF IInv, TypeOK, Next, Arrive, Step, Tick, Restart, Fail, CreateSession,
       RefreshSelect, Logout, Access, IssueInitialRefresh, Rotate, Answer, ReplayTokens,
       ReplaySession, LogoutTokens, LogoutSession, Audit, WaitForRow, vars
  <2>3. ASSUME NEW t \in Tokens PROVE /\ tok[t].session = s => tok'[t].session = s
                                      /\ tok'[t].session = s => tok[t].session = s
                                      /\ tok'[t].session = s => tok'[t].state # "live"
    <3>1. tok[t].session = s => tok[t].state # "live"
      BY <2>1 DEF LiveOf, FamilyOf
    <3>2. s # None
      BY NoneAssumption
    <3>3. QED
      BY <1>1, <2>1, <3>1, <3>2, TokensMove
  <2>4. FamilyOf(s)' # {} /\ LiveOf(s)' = {}
    BY <2>1, <2>3 DEF FamilyOf, LiveOf
  <2>5. \A q \in Requests : ~Exchanging(q, s)'
    BY <1>1, <2>1, ExchangesMove
  <2>6. QED
    BY <2>2, <2>4, <2>5 DEF Buried, Exchanging
<1> DEFINE Stays == \A s \in Sessions : Buried(s) => Buried(s)'
<1>2. ASSUME IInv, [Next]_vars PROVE Stays
  BY <1>1, <1>2
<1>3. QED
  BY <1>2, Invariance, PTL DEF Spec, BuriedStaysDead

-------------------------------------------------------------------------------
(***************************************************************************)
(* WebClient.  What the client makes the server do are steps of            *)
(* RefreshSessions, so that its invariant holds there as well.             *)
(***************************************************************************)
LEMMA ServerSteps ==
  ASSUME IInv, [ClientNext]_clientVars
  PROVE  [Next]_vars /\ now' = now
<1> USE DEF server
<1>1. CASE UNCHANGED clientVars
  BY <1>1 DEF clientVars, vars
<1>2. ASSUME NEW c \in Calls, NEW k \in Stores, Call(c, k) PROVE UNCHANGED vars
  BY <1>2 DEF Call
<1>3. ASSUME NEW c \in Calls, Answered(c) PROVE UNCHANGED vars
  BY <1>3 DEF Answered, CallAccepted, CallRejected, RetryRejected
<1>4. ASSUME NEW c \in Callers, NEW r \in Requests, RefreshArrives(c, r)
      PROVE  Next /\ now' = now
  <2>1. RefreshSelect(r, call[c].cookie) /\ call[c].cookie \in Tokens
    BY <1>4 DEF RefreshArrives, RefreshSelect, IInv, TypeOK
  <2>2. QED
    BY <2>1 DEF Next, Arrive, RefreshSelect
<1>5. ASSUME NEW c \in Callers, NEW r \in Requests,
             RefreshSucceeds(c, r) \/ BodyLost(c, r) \/ RefreshRefused(c, r) \/ RefreshFails(c, r)
      PROVE  (Next /\ now' = now) \/ UNCHANGED vars
  <2>1. Answer(r) \/ Fail(r) \/ UNCHANGED vars
    BY <1>5 DEF RefreshSucceeds, BodyLost, RefreshRefused, RefreshFails
  <2>2. QED
    BY <2>1 DEF Next, Step, Answer, Fail
<1>6. ASSUME NEW r \in Requests, ServerStep(r) \/ LeftoverAnswer(r)
      PROVE  Next /\ now' = now
  <2>1. \/ \E t \in Tokens : Rotate(r, t)
        \/ ReplayTokens(r) \/ ReplaySession(r) \/ Audit(r) \/ Answer(r) \/ Fail(r)
    BY <1>6 DEF ServerStep, LeftoverAnswer
  <2>2. Next
    BY <2>1 DEF Next, Step
  <2>3. now' = now
    BY <2>1 DEF Rotate, ReplayTokens, ReplaySession, Audit, Answer, Fail
  <2>4. QED
    BY <2>2, <2>3
<1>7. ASSUME NEW t \in Tokens, Expire(t) PROVE UNCHANGED vars
  BY <1>7 DEF Expire
<1>8. ASSUME Reload PROVE UNCHANGED vars
  BY <1>8 DEF Reload
<1>9. UNCHANGED vars => now' = now
  BY DEF vars
<1>10. QED
  BY <1>1, <1>2, <1>3, <1>4, <1>5, <1>6, <1>7, <1>8, <1>9 DEF ClientNext, RefreshGoesOn

LEMMA ServerStays ==
  ASSUME IInv, [ClientNext]_clientVars
  PROVE  IInv' /\ now' = now
BY ServerSteps, StepIInv

\* The server's tables after a login.
LEMMA ClientInitIInv == ClientInit => IInv
<1> SUFFICES ASSUME ClientInit PROVE IInv
  OBVIOUS
<1>1. PICK s : s = CHOOSE x \in Sessions : TRUE
  OBVIOUS
<1>2. s \in Sessions
  <2>1. Sessions # {}
    BY ClientAssumption, FS_EmptySet
  <2>2. QED
    BY <1>1, <2>1
<1>3. PICK first : first = NewToken(s, None, 0)
  OBVIOUS
<1>4. /\ first.state = "live" /\ first.session = s /\ first.parent = None
      /\ first.presented = FALSE /\ first \in TokenRows
  <2>1. first \in TokenRows
    BY <1>2, <1>3, NewTokenType
  <2>2. QED
    BY <1>3, <2>1 DEF NewToken, NoToken
<1>5. /\ 1 \in Tokens /\ tok[1] = first /\ \A t \in Tokens \ {1} : tok[t] = NoToken
      /\ tok \in [Tokens -> TokenRows]
  BY <1>1, <1>3, <1>4, ClientAssumption DEF ClientInit, NoToken, TokenRows
<1>6. /\ NoToken.state = "absent" /\ NoToken.session = None /\ NoToken.parent = None
      /\ NoToken.presented = FALSE
  BY DEF NoToken
<1>7. NewRequest \in RequestRecords /\ NewRequest.at = "idle"
  BY DEF NewRequest, RequestRecords, Stages, Answers
<1>8. /\ \A x \in Sessions : session[x] = "open"
      /\ \A r \in Requests : req[r] = NewRequest
      /\ known = {1} /\ reused = {} /\ locks = {} /\ pool = {} /\ now = 0
  BY DEF ClientInit
<1>9. TypeOK
  BY <1>5, <1>7, <1>8 DEF TypeOK, ClientInit
<1>10. \A t \in Tokens : tok[t].parent = None /\ ~tok[t].presented
  BY <1>4, <1>5, <1>6
<1>11. HandoverAtomic
  BY <1>10 DEF HandoverAtomic
<1>12. \A t \in Tokens : TokenOK(t)
  BY <1>2, <1>4, <1>5, <1>6, <1>8, <1>10 DEF TokenOK
<1>13. \A r \in Requests : HandlerOK(r)
  BY <1>7, <1>8 DEF HandlerOK
<1>14. ASSUME NEW x \in Sessions PROVE ChainOK(x)
  <2>1. FamilyOf(x) \subseteq {1}
    BY <1>5, <1>6, NoneAssumption DEF FamilyOf
  <2>2. \A t \in FamilyOf(x) : tok[t].state # "revoked"
    BY <1>4, <1>5, <2>1
  <2>3. \A t, u \in LiveOf(x) : t = u
    BY <2>1 DEF LiveOf
  <2>4. \A r \in Requests : ~Exchanging(r, x)
    BY <1>7, <1>8 DEF Exchanging
  <2>5. session[x] # "revoked"
    BY <1>8
  <2>6. QED
    BY <2>2, <2>3, <2>4, <2>5 DEF ChainOK
<1>15. QED
  BY <1>9, <1>11, <1>12, <1>13, <1>14 DEF IInv

-------------------------------------------------------------------------------
\* The records of the calls.
LEMMA CallParts ==
  /\ \A at : Ended(at).at = at /\ Ended(at).req = None
  /\ \A k, t : /\ Refreshing(k, t).at = "refreshing" /\ Refreshing(k, t).store = k
               /\ Refreshing(k, t).cookie = t /\ Refreshing(k, t).req = None
  /\ Idle.at = "idle"
BY DEF Ended, Refreshing, Idle

LEMMA CallTypes ==
  /\ Idle \in CallRecords
  /\ \A at \in {"ok", "unauthorized", "gone"} : Ended(at) \in CallRecords
  /\ \A k \in Stores : [Ended("waiting") EXCEPT !.store = k] \in CallRecords
  /\ \A k \in Stores, t \in Tokens : Refreshing(k, t) \in CallRecords
  /\ \A at \in {"sent", "resent"}, k \in Stores, t \in Tokens \cup {None} :
       [Idle EXCEPT !.at = at, !.store = k, !.token = t] \in CallRecords
<1>1. Idle \in CallRecords
  BY DEF Idle, CallRecords, Stores
<1>2. QED
  BY <1>1 DEF Ended, Refreshing, CallRecords

\* A settled promise: whom it wakes, and with what.
LEMMA ResumedOthers ==
  ASSUME NEW k, NEW t, NEW c \in Callers,
         ~Awaits(c, k)
  PROVE  Resumed(k, t)[c] = call[c]
BY Zenon DEF Resumed

LEMMA ResumedWithout ==
  ASSUME NEW k, NEW t, t = None, NEW c \in Callers,
         Awaits(c, k)
  PROVE  Resumed(k, t)[c] = Ended("unauthorized")
BY Zenon DEF Resumed

LEMMA ResumedWith ==
  ASSUME NEW k, NEW t, t # None, NEW c \in Callers,
         Awaits(c, k)
  PROVE  Resumed(k, t)[c] =
           IF c = Boot THEN Ended("ok")
           ELSE [Idle EXCEPT !.at = "resent", !.store = k, !.token = t]
BY Zenon DEF Resumed

LEMMA ResumedType ==
  ASSUME ClientTypeOK, NEW k \in Stores, NEW t \in Tokens \cup {None}
  PROVE  Resumed(k, t) \in [Callers -> CallRecords]
<1>1. DOMAIN Resumed(k, t) = Callers /\ Resumed(k, t) = [c \in Callers |-> Resumed(k, t)[c]]
  BY Zenon DEF Resumed
<1>2. ASSUME NEW c \in Callers PROVE Resumed(k, t)[c] \in CallRecords
  <2>1. CASE ~Awaits(c, k)
    BY <2>1, ResumedOthers DEF ClientTypeOK
  <2>2. CASE Awaits(c, k)
    <3>1. \/ Resumed(k, t)[c] = Ended("unauthorized")
          \/ Resumed(k, t)[c] = Ended("ok")
          \/ Resumed(k, t)[c] = [Idle EXCEPT !.at = "resent", !.store = k, !.token = t]
      <4>1. CASE t = None
        BY <2>2, <4>1, ResumedWithout
      <4>2. CASE t # None
        <5>1. Resumed(k, t)[c] =
                IF c = Boot THEN Ended("ok")
                ELSE [Idle EXCEPT !.at = "resent", !.store = k, !.token = t]
          BY <2>2, <4>2, ResumedWith
        <5>2. QED
          BY <5>1, Zenon
      <4>3. QED
        BY <4>1, <4>2
    <3>2. Ended("unauthorized") \in CallRecords /\ Ended("ok") \in CallRecords
      BY CallTypes
    <3>3. [Idle EXCEPT !.at = "resent", !.store = k, !.token = t] \in CallRecords
      BY CallTypes
    <3>4. QED
      BY <3>1, <3>2, <3>3
  <2>3. QED
    BY <2>1, <2>2
<1>3. QED
  BY <1>1, <1>2

LEMMA ClientInitType == ClientInit => ClientTypeOK
<1> SUFFICES ASSUME ClientInit PROVE ClientTypeOK
  OBVIOUS
<1>1. 1 \in Tokens /\ Core \in Stores
  BY ClientAssumption DEF Stores
<1>2. Refreshing(Core, 1) \in CallRecords /\ Idle \in CallRecords
  BY <1>1, CallTypes
<1>3. QED
  BY <1>1, <1>2 DEF ClientInit, ClientTypeOK

\* What an answered refresh hands to the page.
LEMMA AnswerToken ==
  ASSUME IInv, NEW r \in Requests, Answer(r)
  PROVE  req[r].token \in Tokens /\ req[r].token # None
BY NoneAssumption DEF Answer, IInv, HandlerOK

LEMMA SettledType ==
  ASSUME ClientTypeOK, NEW c \in Callers, NEW t \in Tokens \cup {None}, Settles(call[c].store, t)
  PROVE  store' \in [Stores -> Tokens \cup {None}] /\ call' \in [Callers -> CallRecords]
<1>1. call[c].store \in Stores
  BY DEF ClientTypeOK, CallRecords
<1>2. QED
  BY <1>1, ResumedType DEF Settles, ClientTypeOK

LEMMA ClientTypeStep ==
  ASSUME IInv, ClientTypeOK, [ClientNext]_clientVars
  PROVE  ClientTypeOK'
<1> USE DEF ClientTypeOK
<1>1. CASE UNCHANGED clientVars
  BY <1>1 DEF clientVars, client
<1>2. ASSUME NEW c \in Calls, NEW k \in Stores, Call(c, k) PROVE ClientTypeOK'
  <2>1. [Idle EXCEPT !.at = "sent", !.store = k, !.token = store[k]] \in CallRecords
    BY CallTypes
  <2>2. QED
    BY <1>2, <2>1 DEF Call
<1>3. ASSUME NEW c \in Callers, NEW record \in CallRecords, call' = [call EXCEPT ![c] = record]
      PROVE  call' \in [Callers -> CallRecords]
  BY <1>3
<1>4. ASSUME NEW c \in Calls, Answered(c) PROVE ClientTypeOK'
  <2>1. Ended("ok") \in CallRecords /\ Ended("unauthorized") \in CallRecords /\ c \in Callers
    BY CallTypes DEF Callers
  <2>2. CASE CallAccepted(c)
    BY <1>3, <2>1, <2>2 DEF CallAccepted
  <2>3. CASE RetryRejected(c)
    <3>1. [Ended("unauthorized") EXCEPT !.token = call[c].token] \in CallRecords
      BY <2>1 DEF CallRecords
    <3>2. QED
      BY <1>3, <2>1, <2>3, <3>1 DEF RetryRejected
  <2>4. CASE CallRejected(c)
    <3>1. call[c].store \in Stores
      BY <2>1 DEF CallRecords
    <3>2. /\ Refreshing(call[c].store, cookie) \in CallRecords
          /\ [Ended("waiting") EXCEPT !.store = call[c].store] \in CallRecords
      BY <3>1, CallTypes
    <3>3. \/ call' = [call EXCEPT ![c] = Refreshing(call[c].store, cookie)]
          \/ call' = [call EXCEPT ![c] = [Ended("waiting") EXCEPT !.store = call[c].store]]
          \/ call' = [call EXCEPT ![c] = Ended("unauthorized")]
      BY <2>4 DEF CallRejected, RefreshAfter
    <3>4. call' \in [Callers -> CallRecords]
      BY <1>3, <2>1, <3>2, <3>3
    <3>5. mishaps' \subseteq Mishaps
      BY <2>4 DEF CallRejected, RefreshAfter, Mishaps
    <3>6. QED
      BY <2>4, <3>4, <3>5 DEF CallRejected
  <2>5. QED
    BY <1>4, <2>2, <2>3, <2>4 DEF Answered
<1>5. ASSUME NEW c \in Callers, NEW r \in Requests, RefreshArrives(c, r) PROVE ClientTypeOK'
  <2>1. [call[c] EXCEPT !.req = r] \in CallRecords
    BY DEF CallRecords
  <2>2. QED
    BY <1>3, <1>5, <2>1 DEF RefreshArrives
<1>6. ASSUME NEW c \in Callers, NEW r \in Requests, RefreshSucceeds(c, r) \/ BodyLost(c, r)
      PROVE  ClientTypeOK'
  <2>1. req[r].token \in Tokens
    BY <1>6, AnswerToken DEF RefreshSucceeds, BodyLost
  <2>2. Settles(call[c].store, req[r].token) \/ Settles(call[c].store, None)
    BY <1>6 DEF RefreshSucceeds, BodyLost
  <2>3. store' \in [Stores -> Tokens \cup {None}] /\ call' \in [Callers -> CallRecords]
    BY <2>1, <2>2, SettledType
  <2>4. QED
    BY <1>6, <2>1, <2>3 DEF RefreshSucceeds, BodyLost, TakeCookie, Mishaps
<1>7. ASSUME NEW c \in Callers, NEW r \in Requests, RefreshRefused(c, r) \/ RefreshFails(c, r)
      PROVE  ClientTypeOK'
  <2>1. store' \in [Stores -> Tokens \cup {None}] /\ call' \in [Callers -> CallRecords]
    BY <1>7, SettledType DEF RefreshRefused, RefreshFails
  <2>2. QED
    BY <1>7, <2>1 DEF RefreshRefused, RefreshFails, Mishaps
<1>8. ASSUME NEW r \in Requests, ServerStep(r) \/ LeftoverAnswer(r) PROVE ClientTypeOK'
  <2>1. CASE ServerStep(r)
    BY <2>1 DEF ServerStep, client
  <2>2. CASE LeftoverAnswer(r)
    <3>1. cookie' \in Tokens
      BY <2>2, AnswerToken DEF LeftoverAnswer, TakeCookie
    <3>2. QED
      BY <2>2, <3>1 DEF LeftoverAnswer
  <2>3. QED
    BY <1>8, <2>1, <2>2
<1>9. ASSUME NEW t \in Tokens, Expire(t) PROVE ClientTypeOK'
  BY <1>9 DEF Expire
<1>10. CASE Reload
  <2>1. Refreshing(Core, cookie) \in CallRecords /\ Ended("gone") \in CallRecords
    BY CallTypes DEF Stores
  <2>2. call' \in [Callers -> CallRecords]
    BY <1>10, <2>1 DEF Reload
  <2>3. QED
    BY <1>10, <2>2 DEF Reload, Mishaps
<1>11. QED
  BY <1>1, <1>2, <1>4, <1>5, <1>6, <1>7, <1>8, <1>9, <1>10 DEF ClientNext, RefreshGoesOn

\* What settling a promise does to one call.
LEMMA SettledCall ==
  ASSUME ClientTypeOK, NEW k \in Stores, NEW t \in Tokens \cup {None}, Settles(k, t),
         NEW c \in Callers
  PROVE  /\ call'[c].at \in {"refreshing", "sent"} => call'[c] = call[c]
         /\ call'[c].at = "refreshing" => call[c].store # k
         /\ call'[c].at \in {"idle", "waiting"} => call'[c] = call[c]
         /\ ~Awaits(c, k) => call'[c] = call[c]
         /\ Awaits(c, k) /\ call'[c].at = "resent" => call'[c].token = t /\ t # None
         /\ Awaits(c, k) => call'[c].at \in {"resent", "ok", "unauthorized"}
         /\ call'[c].at = "unauthorized" => call'[c] = call[c] \/ t = None
         /\ c = Boot /\ call'[c] # call[c] =>
              /\ call[c].store = k /\ call'[c].at \in {"ok", "unauthorized"}
              /\ call'[c].at = "ok" => t # None
<1>1. call'[c] = Resumed(k, t)[c]
  BY DEF Settles
<1>2. CASE ~Awaits(c, k)
  BY <1>1, <1>2, ResumedOthers DEF Awaits
<1>3. CASE Awaits(c, k)
  <2>1. CASE t = None
    <3>1. call'[c] = Ended("unauthorized")
      BY <1>1, <1>3, <2>1, ResumedWithout
    <3>2. call'[c].at = "unauthorized"
      BY <3>1, CallParts
    <3>3. QED
      BY <1>3, <2>1, <3>2 DEF Awaits
  <2>2. CASE t # None /\ c = Boot
    <3>1. call'[c] = Ended("ok")
      <4>1. t # None
        BY <2>2
      <4>2. Resumed(k, t)[c] = IF c = Boot THEN Ended("ok")
                               ELSE [Idle EXCEPT !.at = "resent", !.store = k, !.token = t]
        BY <1>3, <4>1, ResumedWith
      <4>3. QED
        BY <1>1, <2>2, <4>2, Zenon
    <3>2. call'[c].at = "ok"
      BY <3>1, CallParts
    <3>3. QED
      BY <1>3, <2>2, <3>2 DEF Awaits
  <2>3. CASE t # None /\ c # Boot
    <3>1. call'[c] = [Idle EXCEPT !.at = "resent", !.store = k, !.token = t]
      BY <1>1, <1>3, <2>3, ResumedWith
    <3>2. call'[c].at = "resent" /\ call'[c].token = t
      BY <3>1 DEF Idle
    <3>3. QED
      BY <1>3, <2>3, <3>2 DEF Awaits
  <2>4. QED
    BY <2>1, <2>2, <2>3
<1>4. QED
  BY <1>2, <1>3

-------------------------------------------------------------------------------
Undisturbed == mishaps \cap {"overlap", "lost", "reload"} = {}

\* A step of the page that starts and ends no refresh.
LEMMA RefreshesRest ==
  ASSUME OneRefresh, UNCHANGED <<vars, cookie>>, mishaps \subseteq mishaps',
         \A c \in Callers : call[c].at = "refreshing" \/ call'[c].at = "refreshing" =>
           call'[c] = call[c]
  PROVE  OneRefresh'
<1> SUFFICES ASSUME Undisturbed' PROVE OneRefresh'
  BY DEF OneRefresh, Undisturbed
<1>1. Undisturbed
  BY DEF Undisturbed
<1>2. UNCHANGED <<tok, req, known, reused, cookie>>
  BY DEF vars
<1>3. \A c \in Callers : call[c].at = "refreshing" <=> call'[c].at = "refreshing"
  OBVIOUS
<1>4. \A c \in Callers, r \in Requests : RefreshOf(c, r) <=> RefreshOf(c, r)'
  BY <1>2, <1>3 DEF RefreshOf
<1>5. \A c, d \in Callers : call'[c].at = "refreshing" /\ call'[d].at = "refreshing" => c = d
  BY <1>1, <1>3 DEF OneRefresh, Undisturbed
<1>6. (\A c \in Callers : call'[c].at = "refreshing" => call'[c].req = None) =>
        cookie' \in known' /\ ~tok'[cookie'].presented
  BY <1>1, <1>2, <1>3 DEF OneRefresh, Undisturbed
<1>7. \A c \in Callers : call'[c].at = "refreshing" =>
         \/ call'[c].req = None /\ call'[c].cookie = cookie'
         \/ call'[c].req # None /\ req'[call'[c].req].at = "rotate"
         \/ /\ call'[c].req # None /\ req'[call'[c].req].at = "answer"
            /\ ~tok'[req'[call'[c].req].token].presented
  BY <1>1, <1>2, <1>3 DEF OneRefresh, Undisturbed
<1>8. \A r \in Requests : req'[r].at \notin {"idle", "done"} => \E c \in Callers : RefreshOf(c, r)'
  BY <1>1, <1>2, <1>4 DEF OneRefresh, Undisturbed
<1>9. QED
  BY <1>1, <1>2, <1>5, <1>6, <1>7, <1>8 DEF OneRefresh, Undisturbed

\* No refresh is under way: the cookie was never presented, the server is idle.
LEMMA NoneUnderWay ==
  ASSUME OneRefresh, Undisturbed, \A c \in Callers : call[c].at # "refreshing"
  PROVE  /\ reused = {} /\ cookie \in known /\ ~tok[cookie].presented
         /\ \A r \in Requests : req[r].at \in {"idle", "done"}
BY DEF OneRefresh, Undisturbed, RefreshOf

\* A refresh starts while no other is under way.
LEMMA RefreshStarts ==
  ASSUME OneRefresh, Undisturbed, \A c \in Callers : call[c].at # "refreshing",
         UNCHANGED <<vars, cookie>>, NEW c \in Callers, NEW k,
         call'[c] = Refreshing(k, cookie),
         \A d \in Callers \ {c} : call'[d].at # "refreshing"
  PROVE  OneRefresh'
<1>1. UNCHANGED <<tok, req, known, reused, cookie>>
  BY DEF vars
<1>2. /\ reused = {} /\ cookie \in known /\ ~tok[cookie].presented
      /\ \A r \in Requests : req[r].at \in {"idle", "done"}
  BY NoneUnderWay
<1>3. call'[c].at = "refreshing" /\ call'[c].cookie = cookie /\ call'[c].req = None
  BY CallParts
<1>4. \A d \in Callers : call'[d].at = "refreshing" => d = c
  OBVIOUS
<1>5. QED
  BY <1>1, <1>2, <1>3, <1>4 DEF OneRefresh

LEMMA CallRejectedOne ==
  ASSUME IInv, ClientTypeOK, OneRefresh, NEW c \in Calls, CallRejected(c)
  PROVE  OneRefresh'
<1>1. /\ c \in Callers /\ call[c].at = "sent" /\ call[c].store \in Stores
      /\ UNCHANGED <<vars, cookie>>
  BY DEF CallRejected, ClientTypeOK, CallRecords, Callers, server
<1>2. PICK k : k = call[c].store
  OBVIOUS
<1>3. CASE \/ call' = [call EXCEPT ![c] = Ended("unauthorized")]
           \/ call' = [call EXCEPT ![c] = [Ended("waiting") EXCEPT !.store = k]]
  <2>1. /\ call'[c].at # "refreshing" /\ \A d \in Callers \ {c} : call'[d] = call[d]
    <3>1. Ended("unauthorized").at # "refreshing"
          /\ [Ended("waiting") EXCEPT !.store = k].at # "refreshing"
      BY DEF Ended, Idle
    <3>2. QED
      BY <1>1, <1>3, <3>1 DEF ClientTypeOK
  <2>2. mishaps \subseteq mishaps'
    BY DEF CallRejected, RefreshAfter
  <2>3. QED
    BY <1>1, <2>1, <2>2, RefreshesRest
<1>4. CASE /\ ~InFlight(k)
           /\ call' = [call EXCEPT ![c] = Refreshing(k, cookie)]
           /\ mishaps' = IF Overlaps(k) THEN mishaps \cup {"overlap"} ELSE mishaps
  <2>1. CASE Overlaps(k)
    BY <1>4, <2>1 DEF OneRefresh
  <2>2. CASE ~Overlaps(k)
    <3>1. \A d \in Callers : call[d].at # "refreshing"
      BY <1>4, <2>2 DEF InFlight, Overlaps, ClientTypeOK, CallRecords
    <3>2. /\ call'[c] = Refreshing(k, cookie)
          /\ \A d \in Callers \ {c} : call'[d].at # "refreshing"
      BY <1>1, <1>4, <3>1 DEF ClientTypeOK
    <3>3. CASE Undisturbed
      BY <1>1, <3>1, <3>2, <3>3, RefreshStarts
    <3>4. CASE ~Undisturbed
      BY <1>4, <2>2, <3>4 DEF OneRefresh, Undisturbed
    <3>5. QED
      BY <3>3, <3>4
  <2>3. QED
    BY <2>1, <2>2
<1>5. QED
  BY <1>2, <1>3, <1>4 DEF CallRejected, RefreshAfter

LEMMA ReloadOne ==
  ASSUME IInv, ClientTypeOK, OneRefresh, Reload
  PROVE  OneRefresh'
<1>1. UNCHANGED <<vars, cookie>> /\ Boot \in Callers
  BY DEF Reload, Callers, server
<1>2. CASE \E k \in Stores : InFlight(k)
  BY <1>2 DEF Reload, OneRefresh
<1>3. CASE ~\E k \in Stores : InFlight(k)
  <2>1. mishaps' = mishaps
    BY <1>3 DEF Reload
  <2>2. \A d \in Callers : call[d].at # "refreshing"
    BY <1>3 DEF InFlight, ClientTypeOK, CallRecords
  <2>3. /\ call'[Boot] = Refreshing(Core, cookie)
        /\ \A d \in Callers \ {Boot} : call'[d] = call[d] \/ call'[d] = Ended("gone")
    BY <1>1 DEF Reload
  <2>4. \A d \in Callers \ {Boot} : call'[d].at # "refreshing"
    BY <2>2, <2>3, CallParts
  <2>5. CASE Undisturbed
    BY <1>1, <2>2, <2>3, <2>4, <2>5, RefreshStarts
  <2>6. CASE ~Undisturbed
    BY <2>1, <2>6 DEF OneRefresh, Undisturbed
  <2>7. QED
    BY <2>5, <2>6
<1>4. QED
  BY <1>2, <1>3

\* A token that is known and was never presented is valid, as long as no
\* session's token was presented twice.
LEMMA FreshIsLive ==
  ASSUME IInv, reused = {}, now = 0, NEW t \in known, ~tok[t].presented
  PROVE  t \in Tokens /\ AfterSelect(t) = "rotate"
<1>1. /\ t \in Tokens /\ tok[t] \in TokenRows /\ tok[t].state # "absent"
      /\ tok[t].session \in Sessions
  BY DEF IInv, TypeOK, TokenOK
<1>2. tok[t].state # "revoked"
  <2>1. ASSUME tok[t].state = "revoked" PROVE FALSE
    <3>1. ChainOK(tok[t].session) /\ t \in FamilyOf(tok[t].session)
      BY <1>1 DEF IInv, FamilyOf
    <3>2. PICK c \in Tokens : tok[c].parent = t
      BY <2>1, <3>1 DEF ChainOK
    <3>3. tok[c].parent # None
      BY <1>1, <3>2, NoneAssumption
    <3>4. TokenOK(c)
      BY DEF IInv
    <3>5. QED
      BY <3>2, <3>3, <3>4 DEF TokenOK
  <2>2. QED
    BY <2>1
<1>3. ~(tok[t].expiresAt < now)
  BY <1>1 DEF TokenRows
<1>4. QED
  BY <1>1, <1>2, <1>3 DEF AfterSelect

\* The one refresh under way, and the one request the server works on.
LEMMA TheRefresh ==
  ASSUME OneRefresh, Undisturbed, NEW c \in Callers, call[c].at = "refreshing"
  PROVE  /\ reused = {}
         /\ \A d \in Callers : call[d].at = "refreshing" => d = c
         /\ \A r \in Requests : req[r].at \notin {"idle", "done"} => call[c].req = r
         /\ call[c].req = None => cookie \in known /\ ~tok[cookie].presented
                                  /\ call[c].cookie = cookie
         /\ call[c].req # None =>
              \/ req[call[c].req].at = "rotate"
              \/ req[call[c].req].at = "answer" /\ ~tok[req[call[c].req].token].presented
BY DEF OneRefresh, Undisturbed, RefreshOf

LEMMA RefreshArrivesOne ==
  ASSUME IInv, now = 0, ClientTypeOK, OneRefresh,
         NEW c \in Callers, NEW r \in Requests, RefreshArrives(c, r)
  PROVE  OneRefresh'
<1> SUFFICES ASSUME Undisturbed PROVE OneRefresh'
  BY DEF RefreshArrives, OneRefresh, Undisturbed
<1>1. /\ call[c].at = "refreshing" /\ call[c].req = None /\ RefreshSelect(r, call[c].cookie)
      /\ call' = [call EXCEPT ![c].req = r] /\ UNCHANGED <<cookie, mishaps>>
  BY DEF RefreshArrives
<1>2. /\ reused = {} /\ \A d \in Callers : call[d].at = "refreshing" => d = c
      /\ \A x \in Requests : req[x].at \notin {"idle", "done"} => call[c].req = x
      /\ cookie \in known /\ ~tok[cookie].presented /\ call[c].cookie = cookie
  BY <1>1, TheRefresh
<1>3. cookie \in Tokens /\ AfterSelect(cookie) = "rotate"
  BY <1>2, FreshIsLive
<1>4. /\ req' = [req EXCEPT ![r] = [at |-> "rotate", session |-> tok[cookie].session,
                                    token |-> cookie, ts |-> now, answer |-> "none"]]
      /\ reused' = {}
  BY <1>1, <1>2, <1>3 DEF RefreshSelect
<1>5. req'[r].at = "rotate" /\ \A x \in Requests \ {r} : req'[x].at \in {"idle", "done"}
  BY <1>1, <1>2, <1>4, ClientAssumption DEF IInv, TypeOK
<1>6. /\ call'[c].at = "refreshing" /\ call'[c].req = r
      /\ \A d \in Callers \ {c} : call'[d] = call[d]
  BY <1>1 DEF ClientTypeOK, CallRecords
<1>7. r # None
  BY ClientAssumption
<1>8. \A d \in Callers : call'[d].at = "refreshing" => d = c
  BY <1>2, <1>6
<1>9. \A x \in Requests : req'[x].at \notin {"idle", "done"} => RefreshOf(c, x)'
  BY <1>5, <1>6 DEF RefreshOf
<1>10. ~\A d \in Callers : call'[d].at = "refreshing" => call'[d].req = None
  BY <1>6, <1>7
<1>11. \A d \in Callers : call'[d].at = "refreshing" =>
         call'[d].req # None /\ req'[call'[d].req].at = "rotate"
  BY <1>5, <1>6, <1>7, <1>8
<1>12. QED
  BY <1>4, <1>8, <1>9, <1>10, <1>11 DEF OneRefresh

LEMMA ServerStepOne ==
  ASSUME IInv, ClientTypeOK, OneRefresh, NEW r \in Requests, ServerStep(r)
  PROVE  OneRefresh'
<1> SUFFICES ASSUME Undisturbed PROVE OneRefresh'
  BY DEF ServerStep, client, OneRefresh, Undisturbed
<1>1. UNCHANGED <<cookie, call, mishaps>>
  BY DEF ServerStep, client
<1>2. req[r].at \in {"rotate", "replayTokens", "replaySession", "audit"}
  BY DEF ServerStep, Rotate, ReplayTokens, ReplaySession, Audit
<1>3. PICK c \in Callers : RefreshOf(c, r)
  BY <1>2 DEF OneRefresh, Undisturbed
<1>4. /\ reused = {} /\ \A d \in Callers : call[d].at = "refreshing" => d = c
      /\ \A x \in Requests : req[x].at \notin {"idle", "done"} => x = r
      /\ call[c].req = r /\ r # None /\ call[c].at = "refreshing"
      /\ req[r].at \in {"rotate", "answer"}
  BY <1>3, TheRefresh, ClientAssumption DEF RefreshOf
<1>5. PICK t \in Tokens : Rotate(r, t)
  BY <1>4 DEF ServerStep, ReplayTokens, ReplaySession, Audit
<1>6. req'[r].at = "answer" /\ req'[r].token = t /\ \A x \in Requests \ {r} : req'[x] = req[x]
  BY <1>5 DEF Rotate, IInv, TypeOK, RequestRecords
<1>7. ~tok'[t].presented
  <2>1. PICK new : new = NewToken(req[r].session, req[r].token, req[r].ts)
    OBVIOUS
  <2>2. new.presented = FALSE
    BY <2>1 DEF NewToken, NoToken
  <2>3. tok' = [tok EXCEPT ![t] = new, ![req[r].token].state = "revoked"]
    BY <1>5, <2>1 DEF Rotate
  <2>4. req[r].token # t
    <3>1. tok[req[r].token].presented /\ ~tok[t].presented
      BY <1>4, <1>5, FreshRow DEF Rotate, IInv, HandlerOK, NoToken
    <3>2. QED
      BY <3>1
  <2>5. tok'[t] = new
    BY <2>3, <2>4 DEF IInv, TypeOK
  <2>6. QED
    BY <2>2, <2>5
<1>8. reused' = {}
  BY <1>4, <1>5 DEF Rotate
<1>9. \A x \in Requests : req'[x].at \notin {"idle", "done"} => RefreshOf(c, x)'
  BY <1>1, <1>4, <1>6 DEF RefreshOf
<1>10. ~\A d \in Callers : call'[d].at = "refreshing" => call'[d].req = None
  BY <1>1, <1>4
<1>11. \A d \in Callers : call'[d].at = "refreshing" =>
         /\ call'[d].req # None /\ req'[call'[d].req].at = "answer"
         /\ ~tok'[req'[call'[d].req].token].presented
  BY <1>1, <1>4, <1>6, <1>7
<1>12. \A d, e \in Callers : call'[d].at = "refreshing" /\ call'[e].at = "refreshing" => d = e
  BY <1>1, <1>4
<1>13. QED
  BY <1>8, <1>9, <1>10, <1>11, <1>12 DEF OneRefresh

\* The answer arrives: its token is the new cookie, and no refresh is left.
LEMMA AnsweredOne ==
  ASSUME IInv, ClientTypeOK, OneRefresh, NEW c \in Callers, NEW r \in Requests,
         RefreshSucceeds(c, r) \/ BodyLost(c, r)
  PROVE  OneRefresh'
<1> SUFFICES ASSUME Undisturbed PROVE OneRefresh'
  BY DEF RefreshSucceeds, BodyLost, OneRefresh, Undisturbed
<1>1. /\ RefreshOf(c, r) /\ Answer(r) /\ cookie' = req[r].token
      /\ Settles(call[c].store, req[r].token) \/ Settles(call[c].store, None)
  BY DEF RefreshSucceeds, BodyLost, TakeCookie
<1>2. /\ reused = {} /\ \A d \in Callers : call[d].at = "refreshing" => d = c
      /\ \A x \in Requests : req[x].at \notin {"idle", "done"} => x = r
      /\ ~tok[req[r].token].presented
  BY <1>1, TheRefresh, ClientAssumption DEF RefreshOf, Answer
<1>3. \A d \in Callers : call'[d].at # "refreshing"
  <2>1. call[c].store \in Stores /\ req[r].token \in Tokens
    BY <1>1, AnswerToken DEF ClientTypeOK, CallRecords
  <2>2. ASSUME NEW d \in Callers, call'[d].at = "refreshing" PROVE FALSE
    <3>1. call'[d] = call[d] /\ call[d].store # call[c].store
      BY <1>1, <2>1, <2>2, SettledCall
    <3>2. QED
      BY <1>2, <2>2, <3>1
  <2>3. QED
    BY <2>2
<1>4. cookie' \in known' /\ ~tok'[cookie'].presented /\ reused' = {}
  BY <1>1, <1>2 DEF Answer
<1>5. \A x \in Requests : req'[x].at \in {"idle", "done"}
  BY <1>1, <1>2, EndsOK DEF Answer, IInv
<1>6. QED
  BY <1>3, <1>4, <1>5 DEF OneRefresh

LEMMA OneRefreshStep ==
  ASSUME IInv, now = 0, ClientTypeOK, OneRefresh, [ClientNext]_clientVars
  PROVE  OneRefresh'
<1>1. CASE UNCHANGED clientVars
  <2>1. UNCHANGED <<vars, cookie, call, mishaps>>
    BY <1>1 DEF clientVars, client, server
  <2>2. QED
    BY <2>1, RefreshesRest
<1>2. ASSUME NEW c \in Calls, NEW k \in Stores, Call(c, k) PROVE OneRefresh'
  <2>1. [Idle EXCEPT !.at = "sent", !.store = k, !.token = store[k]].at = "sent" /\ c \in Callers
    BY DEF Idle, Callers
  <2>2. /\ UNCHANGED <<vars, cookie, mishaps>> /\ call[c].at = "idle" /\ call'[c].at = "sent"
        /\ \A d \in Callers \ {c} : call'[d] = call[d]
    BY <1>2, <2>1 DEF Call, ClientTypeOK, server
  <2>3. QED
    BY <2>2, RefreshesRest
<1>3. ASSUME NEW c \in Calls, CallAccepted(c) \/ RetryRejected(c) PROVE OneRefresh'
  <2>1. /\ Ended("ok").at = "ok" /\ c \in Callers
        /\ [Ended("unauthorized") EXCEPT !.token = call[c].token].at = "unauthorized"
    BY DEF Callers, Ended, Idle
  <2>2. /\ UNCHANGED <<vars, cookie>> /\ mishaps \subseteq mishaps'
        /\ call[c].at # "refreshing" /\ call'[c].at # "refreshing"
        /\ \A d \in Callers \ {c} : call'[d] = call[d]
    BY <1>3, <2>1 DEF CallAccepted, RetryRejected, ClientTypeOK, server
  <2>3. QED
    BY <2>2, RefreshesRest
<1>4. ASSUME NEW c \in Callers, NEW r \in Requests, RefreshRefused(c, r) PROVE OneRefresh'
  <2>1. CASE Undisturbed
    <3>1. call[c].at = "refreshing" /\ call[c].req = r /\ req[r].at = "done" /\ r # None
      BY <1>4, ClientAssumption DEF RefreshRefused, RefreshOf
    <3>2. QED
      BY <2>1, <3>1, TheRefresh
  <2>2. CASE ~Undisturbed
    BY <1>4, <2>2 DEF RefreshRefused, OneRefresh, Undisturbed
  <2>3. QED
    BY <2>1, <2>2
<1>5. ASSUME NEW c \in Callers, NEW r \in Requests, RefreshFails(c, r) PROVE OneRefresh'
  BY <1>5 DEF RefreshFails, OneRefresh
<1>6. ASSUME NEW r \in Requests, LeftoverAnswer(r) PROVE OneRefresh'
  <2>1. req[r].at = "answer" /\ \A c \in Callers : ~RefreshOf(c, r)
    BY <1>6 DEF LeftoverAnswer, Answer
  <2>2. ~Undisturbed
    BY <2>1 DEF OneRefresh, Undisturbed
  <2>3. QED
    BY <1>6, <2>2 DEF LeftoverAnswer, OneRefresh, Undisturbed
<1>7. ASSUME NEW t \in Tokens, Expire(t) PROVE OneRefresh'
  <2>1. UNCHANGED <<vars, cookie, call, mishaps>>
    BY <1>7 DEF Expire, server
  <2>2. QED
    BY <2>1, RefreshesRest
<1>8. QED
  BY <1>1, <1>2, <1>3, <1>4, <1>5, <1>6, <1>7, CallRejectedOne, RefreshArrivesOne, ServerStepOne,
     AnsweredOne, ReloadOne DEF ClientNext, RefreshGoesOn, Answered

\* The other part: how a call can end unauthorized.
Failed == mishaps \cap {"lost", "body", "refused"} # {}

LEMMA CallsStepFine ==
  ASSUME IInv, ClientTypeOK, CallsFine, UnauthorizedForCause, [ClientNext]_clientVars
  PROVE  CallsFine' /\ UnauthorizedForCause'
<1>1. Boot \in Callers /\ Boot \notin Calls /\ \A c \in Calls : c \in Callers /\ c # Boot
  BY ClientAssumption DEF Callers
<1>2. ASSUME UNCHANGED <<store, call, given>>, mishaps \subseteq mishaps', expired \subseteq expired'
      PROVE  CallsFine' /\ UnauthorizedForCause'
  BY <1>2 DEF CallsFine, UnauthorizedForCause
<1>3. CASE UNCHANGED clientVars
  BY <1>2, <1>3 DEF clientVars, client
<1>4. ASSUME NEW c \in Calls, UNCHANGED <<store, expired>>, mishaps \subseteq mishaps',
             \A d \in Callers \ {c} : call'[d] = call[d],
             call'[c].at = "sent" => call[Boot].at = "ok",
             UNCHANGED given,
             call'[c].at # "resent",
             call'[c].at \in {"sent", "refreshing", "waiting"} => given[c] = None,
             call'[c].at # "idle",
             call'[c].at = "unauthorized" =>
               \/ given[c] = None /\ Failed'
               \/ given[c] # None /\ call'[c].token = given[c] /\ given[c] \in expired
      PROVE  CallsFine' /\ UnauthorizedForCause'
  <2>1. call'[Boot] = call[Boot]
    BY <1>1, <1>4
  <2>2. CallsFine'
    BY <1>1, <1>4, <2>1 DEF CallsFine
  <2>3. UnauthorizedForCause'
    BY <1>1, <1>4 DEF UnauthorizedForCause, Failed
  <2>4. QED
    BY <2>2, <2>3
<1>5. ASSUME NEW c \in Calls, NEW k \in Stores, Call(c, k)
      PROVE  CallsFine' /\ UnauthorizedForCause'
  <2>1. [Idle EXCEPT !.at = "sent", !.store = k, !.token = store[k]].at = "sent"
    BY DEF Idle
  <2>2. /\ UNCHANGED <<store, expired, mishaps, given>> /\ call[Boot].at = "ok"
        /\ call'[c].at = "sent" /\ given[c] = None
        /\ \A d \in Callers \ {c} : call'[d] = call[d]
    BY <1>1, <1>5, <2>1 DEF Call, ClientTypeOK, CallsFine
  <2>3. QED
    BY <1>4, <2>2
<1>6. ASSUME NEW c \in Calls, CallAccepted(c)
      PROVE  CallsFine' /\ UnauthorizedForCause'
  <2>1. Ended("ok").at = "ok"
    BY CallParts
  <2>2. /\ UNCHANGED <<store, expired, mishaps, given>> /\ call'[c].at = "ok"
        /\ \A d \in Callers \ {c} : call'[d] = call[d]
    BY <1>1, <1>6, <2>1 DEF CallAccepted, ClientTypeOK
  <2>3. QED
    BY <1>4, <2>2
<1>7. ASSUME NEW c \in Calls, RetryRejected(c)
      PROVE  CallsFine' /\ UnauthorizedForCause'
  <2>1. /\ [Ended("unauthorized") EXCEPT !.token = call[c].token].at = "unauthorized"
        /\ [Ended("unauthorized") EXCEPT !.token = call[c].token].token = call[c].token
    BY DEF Ended, Idle
  <2>2. /\ UNCHANGED <<store, expired, mishaps, given>> /\ call'[c].at = "unauthorized"
        /\ call'[c].token = call[c].token
        /\ \A d \in Callers \ {c} : call'[d] = call[d]
    BY <1>1, <1>7, <2>1 DEF RetryRejected, ClientTypeOK
  <2>3. call[c].token = given[c] /\ given[c] # None /\ given[c] \in expired
    BY <1>7 DEF RetryRejected, Accepted, CallsFine
  <2>4. QED
    BY <1>4, <2>2, <2>3
<1>8. ASSUME NEW c \in Calls, CallRejected(c)
      PROVE  CallsFine' /\ UnauthorizedForCause'
  <2>1. /\ Ended("unauthorized").at = "unauthorized"
        /\ [Ended("waiting") EXCEPT !.store = call[c].store].at = "waiting"
        /\ Refreshing(call[c].store, cookie).at = "refreshing"
    BY DEF Ended, Refreshing, Idle
  <2>2. /\ UNCHANGED <<store, expired, given>> /\ mishaps \subseteq mishaps'
        /\ call[c].at = "sent" /\ given[c] = None
    BY <1>8 DEF CallRejected, RefreshAfter, CallsFine
  <2>3. CASE MayRefresh(call[c].store)
    <3>1. /\ call'[c].at \in {"waiting", "refreshing"}
          /\ \A d \in Callers \ {c} : call'[d] = call[d]
      BY <1>1, <1>8, <2>1, <2>3 DEF CallRejected, RefreshAfter, ClientTypeOK
    <3>2. QED
      BY <1>4, <2>2, <3>1
  <2>4. CASE ~MayRefresh(call[c].store)
    <3>1. /\ call'[c].at = "unauthorized" /\ mishaps' = mishaps
          /\ \A d \in Callers \ {c} : call'[d] = call[d]
      BY <1>1, <1>8, <2>1, <2>4 DEF CallRejected, ClientTypeOK
    <3>2. call[c].store = Core /\ store[Core] = None
      BY <1>1, <2>4 DEF MayRefresh, ClientTypeOK, CallRecords, Stores
    <3>3. Failed'
      BY <2>2, <3>1, <3>2 DEF CallsFine, Failed
    <3>4. QED
      BY <1>4, <2>2, <3>1, <3>3
  <2>5. QED
    BY <2>3, <2>4
<1>9. ASSUME NEW c \in Callers, NEW r \in Requests, RefreshArrives(c, r)
      PROVE  CallsFine' /\ UnauthorizedForCause'
  <2>1. /\ UNCHANGED <<store, expired, mishaps, given>> /\ call' = [call EXCEPT ![c].req = r]
    BY <1>9 DEF RefreshArrives
  <2>2. \A d \in Callers : /\ call'[d].at = call[d].at /\ call'[d].store = call[d].store
                           /\ call'[d].token = call[d].token
    BY <2>1 DEF ClientTypeOK, CallRecords
  <2>3. QED
    BY <1>1, <2>1, <2>2 DEF CallsFine, UnauthorizedForCause
<1>10. ASSUME NEW c \in Callers, NEW t \in Tokens \cup {None}, Settles(call[c].store, t),
              mishaps \subseteq mishaps', UNCHANGED expired, t = None => Failed',
              \A d \in Calls : given'[d] = IF Awaits(d, call[c].store) /\ t # None THEN t
                                           ELSE given[d]
       PROVE  CallsFine' /\ UnauthorizedForCause'
  <2>1. PICK k \in Stores : k = call[c].store
    BY DEF ClientTypeOK, CallRecords
  <2>2. /\ store'[k] = t /\ \A j \in Stores \ {k} : store'[j] = store[j]
        /\ Settles(k, t)
    BY <1>10, <2>1 DEF Settles, ClientTypeOK
  <2>3. \A d \in Callers :
          /\ call'[d].at \in {"refreshing", "sent"} => call'[d] = call[d]
          /\ call'[d].at \in {"idle", "waiting"} => call'[d] = call[d]
          /\ ~Awaits(d, k) => call'[d] = call[d]
          /\ Awaits(d, k) /\ call'[d].at = "resent" => call'[d].token = t /\ t # None
          /\ Awaits(d, k) => call'[d].at \in {"resent", "ok", "unauthorized"}
          /\ call'[d].at = "unauthorized" => call'[d] = call[d] \/ t = None
    BY <2>2, SettledCall
  <2>4. call'[Boot] # call[Boot] =>
          /\ call[Boot].store = k /\ call'[Boot].at \in {"ok", "unauthorized"}
          /\ call'[Boot].at = "ok" => t # None
    BY <1>1, <2>2, SettledCall
  <2>5. call[Boot].at = "ok" => call'[Boot] = call[Boot]
    <3>1. call[Boot].at = "ok" => call'[Boot] = Resumed(k, t)[Boot] /\ Resumed(k, t)[Boot] = call[Boot]
      BY <1>1, <2>2, ResumedOthers DEF Settles, Awaits
    <3>2. QED
      BY <3>1
  <2>6. Core \in Stores
    BY DEF Stores
  <2>7. call'[Boot].at = "ok" => store'[Core] # None \/ Failed'
    <3>1. CASE call'[Boot] = call[Boot]
      <4>1. call[Boot].at = "ok" => store[Core] # None \/ Failed'
        BY <1>10 DEF CallsFine, Failed
      <4>2. store'[Core] = store[Core] \/ store'[Core] = t
        BY <2>2, <2>6
      <4>3. QED
        BY <1>10, <3>1, <4>1, <4>2
    <3>2. CASE call'[Boot] # call[Boot]
      <4>1. call[Boot].at = "refreshing" \/ call[Boot].at = "unauthorized"
        BY <2>5, <3>2 DEF CallsFine
      <4>2. call[Boot].at = "unauthorized" => call'[Boot] = call[Boot]
        <5>1. call[Boot].at = "unauthorized" =>
                call'[Boot] = Resumed(k, t)[Boot] /\ Resumed(k, t)[Boot] = call[Boot]
          BY <1>1, <2>2, ResumedOthers DEF Settles, Awaits
        <5>2. QED
          BY <5>1
      <4>3. k = Core
        BY <2>4, <3>2, <4>1, <4>2 DEF CallsFine
      <4>4. QED
        BY <2>2, <2>4, <3>2, <4>3
    <3>3. QED
      BY <3>1, <3>2
  <2>8. CallsFine'
    <3>1. call'[Boot].at \in {"refreshing", "ok", "unauthorized"}
      BY <2>4 DEF CallsFine
    <3>2. call'[Boot].at = "refreshing" => call'[Boot].store = Core
      BY <1>1, <2>3 DEF CallsFine
    <3>3. ASSUME NEW d \in Calls
          PROVE  /\ call'[d].at = "sent" => call'[Boot].at = "ok"
                 /\ call'[d].at = "resent" => given'[d] # None /\ call'[d].token = given'[d]
                 /\ call'[d].at \in {"idle", "sent", "refreshing", "waiting"} => given'[d] = None
      <4>1. CASE Awaits(d, k)
        BY <1>1, <1>10, <2>1, <2>3, <4>1
      <4>2. CASE ~Awaits(d, k)
        <5>1. call'[d] = call[d] /\ given'[d] = given[d]
          BY <1>1, <1>10, <2>1, <2>3, <4>2
        <5>2. QED
          BY <2>5, <5>1 DEF CallsFine
      <4>3. QED
        BY <4>1, <4>2
    <3>4. QED
      BY <2>7, <3>1, <3>2, <3>3 DEF CallsFine, Failed
  <2>9. UnauthorizedForCause'
    <3>1. ASSUME NEW d \in Calls, call'[d].at = "unauthorized"
          PROVE  \/ given'[d] = None /\ Failed'
                 \/ given'[d] # None /\ call'[d].token = given'[d] /\ given'[d] \in expired'
      <4>1. CASE Awaits(d, k)
        <5>1. t = None /\ given[d] = None
          BY <1>1, <2>3, <3>1, <4>1 DEF Awaits, CallsFine
        <5>2. QED
          BY <1>10, <5>1
      <4>2. CASE ~Awaits(d, k)
        <5>1. call'[d] = call[d] /\ given'[d] = given[d]
          BY <1>1, <1>10, <2>1, <2>3, <4>2
        <5>2. QED
          BY <1>10, <3>1, <5>1 DEF UnauthorizedForCause, Failed
      <4>3. QED
        BY <4>1, <4>2
    <3>2. QED
      BY <3>1 DEF UnauthorizedForCause, Failed
  <2>10. QED
    BY <2>8, <2>9
<1>11. ASSUME NEW c \in Callers, NEW r \in Requests,
              RefreshSucceeds(c, r) \/ BodyLost(c, r) \/ RefreshRefused(c, r) \/ RefreshFails(c, r)
       PROVE  CallsFine' /\ UnauthorizedForCause'
  <2>1. CASE RefreshSucceeds(c, r)
    <3>1. /\ req[r].token \in Tokens \cup {None} /\ req[r].token # None
          /\ Settles(call[c].store, req[r].token) /\ UNCHANGED <<expired, mishaps>>
          /\ \A d \in Calls : given'[d] = IF Awaits(d, call[c].store) THEN req[r].token
                                          ELSE given[d]
      BY <2>1, AnswerToken DEF RefreshSucceeds
    <3>2. QED
      BY <1>10, <3>1
  <2>2. CASE BodyLost(c, r) \/ RefreshRefused(c, r) \/ RefreshFails(c, r)
    <3>1. /\ None \in Tokens \cup {None} /\ Settles(call[c].store, None) /\ UNCHANGED <<expired, given>>
          /\ mishaps \subseteq mishaps' /\ Failed'
      BY <2>2 DEF BodyLost, RefreshRefused, RefreshFails, Failed
    <3>2. QED
      BY <1>10, <3>1
  <2>3. QED
    BY <1>11, <2>1, <2>2
<1>12. ASSUME NEW r \in Requests, ServerStep(r) \/ LeftoverAnswer(r)
       PROVE  CallsFine' /\ UnauthorizedForCause'
  <2>1. UNCHANGED <<store, call, expired, mishaps, given>>
    BY <1>12 DEF ServerStep, LeftoverAnswer, client
  <2>2. QED
    BY <1>2, <2>1
<1>13. ASSUME NEW t \in Tokens, Expire(t)
       PROVE  CallsFine' /\ UnauthorizedForCause'
  <2>1. UNCHANGED <<store, call, mishaps, given>> /\ expired \subseteq expired'
    BY <1>13 DEF Expire
  <2>2. QED
    BY <1>2, <2>1
<1>14. ASSUME Reload
       PROVE  CallsFine' /\ UnauthorizedForCause'
  <2>1. /\ call'[Boot].at = "refreshing" /\ call'[Boot].store = Core
        /\ mishaps \subseteq mishaps' /\ UNCHANGED <<expired, given>>
    BY <1>1, <1>14, CallParts DEF Reload
  <2>2. ASSUME NEW d \in Calls
        PROVE  call'[d].at = "gone" \/ (call'[d] = call[d] /\ call[d].at \in {"idle", "ok", "unauthorized"})
    BY <1>1, <1>14, CallParts DEF Reload
  <2>3. QED
    BY <2>1, <2>2 DEF CallsFine, UnauthorizedForCause
<1>15. QED
  BY <1>3, <1>5, <1>6, <1>7, <1>8, <1>9, <1>11, <1>12, <1>13, <1>14
     DEF ClientNext, RefreshGoesOn, Answered

LEMMA InitClient == ClientInit => ClientInv
<1> SUFFICES ASSUME ClientInit PROVE ClientInv
  OBVIOUS
<1>1. /\ call[Boot] = Refreshing(Core, 1) /\ \A c \in Calls : call[c] = Idle
      /\ \A c \in Callers : call[c].at = "refreshing" => c = Boot
      /\ Boot \in Callers
  BY ClientAssumption, CallParts DEF ClientInit, Callers
<1>2. /\ call[Boot].at = "refreshing" /\ call[Boot].store = Core /\ call[Boot].cookie = 1
      /\ call[Boot].req = None
  BY <1>1, CallParts
<1>3. \A r \in Requests : req[r].at = "idle"
  BY DEF ClientInit, NewRequest
<1>4. ~tok[1].presented
  BY ClientAssumption DEF ClientInit, NewToken, NoToken
<1>5. cookie = 1 /\ known = {1} /\ reused = {} /\ now = 0
  BY DEF ClientInit
<1>6. OneRefresh
  BY <1>1, <1>2, <1>3, <1>4, <1>5 DEF OneRefresh
<1>7. CallsFine /\ UnauthorizedForCause
  BY <1>1, <1>2, CallParts DEF ClientInit, CallsFine, UnauthorizedForCause
<1>8. QED
  BY <1>5, <1>6, <1>7, ClientInitIInv, ClientInitType DEF ClientInv

LEMMA StepClient == ClientInv /\ [ClientNext]_clientVars => ClientInv'
BY ServerStays, ClientTypeStep, OneRefreshStep, CallsStepFine DEF ClientInv

\* The inductive invariant of the browser's stores and the server together:
\* undisturbed, one refresh at a time and a cookie that was never presented.
THEOREM ClientInvariance == ClientSpec => []ClientInv
BY InitClient, StepClient, PTL DEF ClientSpec

\* The calls and stores of the page stay what they are declared to be.
THEOREM ClientTypeCorrect == ClientSpec => []ClientTypeOK
<1>1. ClientInv => ClientTypeOK
  BY DEF ClientInv
<1>2. QED
  BY <1>1, ClientInvariance, PTL

\* The server ends the session only after a token was presented twice, and
\* that takes an overlap of the two stores' refreshes, a lost answer or a
\* reload in the middle (doRefresh in api.ts, refreshSession in auth-token.ts).
THEOREM LogoutOnlyByMishap == ClientSpec => []LogoutNeedsMishap
<1>1. ClientInv => LogoutNeedsMishap
  <2> SUFFICES ASSUME ClientInv, NEW s \in Sessions, session[s] = "revoked", Undisturbed
               PROVE  FALSE
    BY DEF LogoutNeedsMishap, Undisturbed
  <2>1. reused = {}
    BY DEF ClientInv, OneRefresh, Undisturbed
  <2>2. ChainOK(s)
    BY <2>1 DEF ClientInv, IInv
  <2>3. QED
    BY <2>2 DEF ChainOK
<1>2. QED
  BY <1>1, ClientInvariance, PTL

\* A call of the page ends unauthorized only without a token, after a refresh
\* failed; or with the token that its own refresh returned, which has expired
\* (request in api.ts, authedFetch in auth-token.ts).
THEOREM UnauthorizedOnlyForCause == ClientSpec => []UnauthorizedForCause
<1>1. ClientInv => UnauthorizedForCause
  BY DEF ClientInv
<1>2. QED
  BY <1>1, ClientInvariance, PTL
===============================================================================
