---------------------------- MODULE PasskeysProofs ----------------------------
(***************************************************************************)
(* Proofs about Passkeys for any sets of passkeys, assertions, requests    *)
(* and durations, any skew and any time to live of a challenge.            *)
(***************************************************************************)
EXTENDS Passkeys, TLAPS

Using == {"select", "raise", "session", "open"}

LEMMA InitIInv == Init => IInv
<1> SUFFICES ASSUME Init PROVE IInv
  OBVIOUS
<1>1. TypeOK
  <2>1. NewRequest \in RequestRecords
    BY DEF NewRequest, RequestRecords, Stages
  <2>2. passkey \in [Passkeys -> PasskeyRows]
    BY DEF Init, PasskeyRows
  <2>3. signed \in [Assertions -> AssertionRecords]
    BY DEF Init, AssertionRecords, Kinds
  <2>4. QED
    BY <2>1, <2>2, <2>3 DEF Init, TypeOK
<1>2. \A r \in Requests : req[r].at = "idle"
  BY DEF Init, NewRequest
<1>3. \A a \in Assertions : signed[a].kind = "none" /\ accepted[a] = 0 /\ sessions[a] = 0
  BY DEF Init
<1>4. challenge = {} /\ window = {}
  BY DEF Init
<1>5. QED
  BY <1>1, <1>2, <1>3, <1>4 DEF IInv, SignedOK, TakenOnce, HandlerOK, Uses

\* A step after which every handler is as before, or holds no assertion.
LEMMA QuietStep ==
  ASSUME IInv, TypeOK', UNCHANGED <<signed, sessions>>, challenge' \subseteq challenge,
         \A a \in Assertions : /\ accepted'[a] >= accepted[a]
                               /\ accepted'[a] # accepted[a] => signed[a].kind # "none",
         \A w \in window' : w \in window /\ now' < w.expires,
         \A r \in Requests : \/ req'[r] = req[r]
                             \/ /\ req'[r].at \notin Using
                                /\ req'[r].at = "insert" => req'[r].for \in Passkeys
  PROVE  IInv'
<1>1. \A r \in Requests, a \in Assertions : Uses(r, a)' => Uses(r, a) /\ req'[r] = req[r]
  BY DEF Uses, Using
<1>2. \A a \in Assertions : accepted[a] \in Nat /\ accepted'[a] \in Nat
  BY DEF IInv, TypeOK
<1>3. \A a \in Assertions : SignedOK(a)' /\ TakenOnce(a)'
  BY <1>1, <1>2 DEF IInv, SignedOK, TakenOnce
<1>4. \A r \in Requests : HandlerOK(r)'
  BY <1>1, <1>2 DEF IInv, HandlerOK, Using
<1>5. \A w \in window' : WindowOK(w)'
  BY <1>2 DEF IInv, WindowOK, TypeOK, Windows
<1>6. QED
  BY <1>3, <1>4, <1>5 DEF IInv

\* A handler takes up an assertion.
LEMMA BeginsStep ==
  ASSUME IInv, NEW r \in Requests, NEW a \in Assertions, Begins(r, "select", a),
         signed[a].kind # "none",
         challenge' = challenge \ {a} \/ (challenge' = challenge /\ signed[a].kind # "login"),
         signed[a].kind = "login" => a \in challenge,
         signed[a].kind = "activate" => now <= signed[a].ts + Skew,
         UNCHANGED <<passkey, signed, window, recovery, now, history>>
  PROVE  IInv'
<1> USE DEF history
<1>1. /\ req'[r] = [at |-> "select", for |-> a, ts |-> now]
      /\ \A x \in Requests \ {r} : req'[x] = req[x]
      /\ req'[r] \in RequestRecords /\ TypeOK'
  BY DEF Begins, IInv, TypeOK, RequestRecords, Stages
<1>2. /\ Uses(r, a)' /\ \A b \in Assertions : Uses(r, b)' => b = a
      /\ \A x \in Requests \ {r}, b \in Assertions : Uses(x, b)' <=> Uses(x, b)
      /\ req'[r].at = "select" /\ req'[r].ts = now /\ req'[r].for = a
  BY <1>1 DEF Uses
<1>3. signed[a].kind = "login" => sessions[a] = 0 /\ \A x \in Requests : ~Uses(x, a)
  BY DEF IInv, TakenOnce
<1>4. \A b \in Assertions : SignedOK(b)'
  BY <1>2 DEF IInv, SignedOK
<1>5. \A b \in Assertions : TakenOnce(b)'
  <2>1. TakenOnce(a)'
    BY <1>2, <1>3 DEF TakenOnce
  <2>2. ASSUME NEW b \in Assertions \ {a} PROVE TakenOnce(b)'
    BY <1>2, <2>2 DEF IInv, TakenOnce
  <2>3. QED
    BY <2>1, <2>2
<1>6. \A x \in Requests : HandlerOK(x)'
  BY <1>1, <1>2 DEF IInv, HandlerOK
<1>7. \A w \in window : WindowOK(w)'
  BY DEF IInv, WindowOK
<1>8. QED
  BY <1>1, <1>4, <1>5, <1>6, <1>7 DEF IInv

\* A handler goes on with its assertion.
LEMMA AdvanceStep ==
  ASSUME IInv, TypeOK', NEW r \in Requests, NEW stage \in Using, req[r].at \in Using,
         req' = [req EXCEPT ![r].at = stage],
         \A a \in Assertions : accepted'[a] >= accepted[a]
                               /\ (accepted'[a] # accepted[a] => signed[a].kind # "none"),
         stage = "session" => signed[req[r].for].kind = "login",
         stage = "open" => signed[req[r].for].kind = "activate" /\ accepted'[req[r].for] > 0,
         UNCHANGED <<challenge, signed, window, now, sessions>>
  PROVE  IInv'
<1>1. /\ req'[r].at = stage /\ req'[r].for = req[r].for /\ req'[r].ts = req[r].ts
      /\ \A x \in Requests \ {r} : req'[x] = req[x]
      /\ req[r].for \in Assertions
  BY DEF IInv, TypeOK, RequestRecords, HandlerOK, Using
<1>2. \A x \in Requests, a \in Assertions : Uses(x, a)' <=> Uses(x, a)
  BY <1>1 DEF Uses, Using
<1>3. \A a \in Assertions : accepted[a] \in Nat /\ accepted'[a] \in Nat
  BY DEF IInv, TypeOK
<1>4. \A a \in Assertions : SignedOK(a)' /\ TakenOnce(a)'
  BY <1>2, <1>3 DEF IInv, SignedOK, TakenOnce
<1>5. \A x \in Requests : HandlerOK(x)'
  <2>1. HandlerOK(r)'
    BY <1>1, <1>2 DEF IInv, HandlerOK, Uses, Using
  <2>2. ASSUME NEW x \in Requests \ {r} PROVE HandlerOK(x)'
    BY <1>1, <1>2, <1>3, <2>2 DEF IInv, HandlerOK
  <2>3. QED
    BY <2>1, <2>2
<1>6. \A w \in window : WindowOK(w)'
  BY <1>3 DEF IInv, WindowOK, TypeOK, Windows
<1>7. QED
  BY <1>4, <1>5, <1>6 DEF IInv

\* A handler's way on or to its end, and what it means for the types.
LEMMA GoesEffect ==
  ASSUME TypeOK, NEW r \in Requests, NEW stage \in Stages, Goes(r, stage)
  PROVE  /\ \A x \in Requests \ {r} : req'[x] = req[x]
         /\ req'[r].at = stage
         /\ stage # "done" => req' = [req EXCEPT ![r].at = stage]
         /\ req' \in [Requests -> RequestRecords]
<1>1. req[r] \in RequestRecords
  BY DEF TypeOK
<1>2. /\ [NewRequest EXCEPT !.at = "done"] \in RequestRecords
      /\ [req[r] EXCEPT !.at = stage] \in RequestRecords
      /\ [NewRequest EXCEPT !.at = "done"].at = "done"
      /\ [req[r] EXCEPT !.at = stage].at = stage
  BY <1>1 DEF NewRequest, RequestRecords, Stages
<1>3. req'[r] = IF stage = "done" THEN [NewRequest EXCEPT !.at = "done"]
                ELSE [req[r] EXCEPT !.at = stage]
  BY DEF Goes, TypeOK
<1>4. QED
  BY <1>2, <1>3 DEF Goes, TypeOK

LEMMA TickStep == ASSUME IInv, Tick PROVE IInv'
<1>1. TypeOK'
  BY DEF Tick, IInv, TypeOK, history
<1>2. \A a \in Assertions : accepted'[a] >= accepted[a]
  BY DEF Tick, IInv, TypeOK, history
<1>3. \A w \in window' : w \in window /\ now' < w.expires
  BY DEF Tick, IInv, TypeOK, Windows
<1>4. QED
  BY <1>1, <1>2, <1>3, QuietStep DEF Tick, history

\* Steps that leave what was signed, the histories and the clock alone.
LEMMA CalmStep ==
  ASSUME IInv, TypeOK', UNCHANGED <<signed, now, accepted, sessions>>,
         challenge' \subseteq challenge, window' \subseteq window,
         \A r \in Requests : \/ req'[r] = req[r]
                             \/ /\ req'[r].at \notin Using
                                /\ req'[r].at = "insert" => req'[r].for \in Passkeys
  PROVE  IInv'
<1>1. \A a \in Assertions : accepted'[a] >= accepted[a] /\ accepted'[a] = accepted[a]
  BY DEF IInv, TypeOK
<1>2. \A w \in window' : w \in window /\ now' < w.expires
  BY DEF IInv, WindowOK
<1>3. QED
  BY <1>1, <1>2, QuietStep

LEMMA EnrolStep ==
  ASSUME IInv,
         \/ \E k \in Passkeys : EnrolBegin(k)
         \/ \E k \in Passkeys, r \in Requests : EnrolFinish(r, k)
         \/ \E r \in Requests : EnrolInsert(r)
  PROVE  IInv'
<1> USE DEF history
<1>1. ASSUME NEW k \in Passkeys, EnrolBegin(k) PROVE IInv'
  <2>1. [passkey[k] EXCEPT !.state = "challenged", !.since = now] \in PasskeyRows
    BY DEF IInv, TypeOK, PasskeyRows
  <2>2. TypeOK'
    BY <1>1, <2>1 DEF EnrolBegin, IInv, TypeOK
  <2>3. QED
    BY <1>1, <2>2, CalmStep DEF EnrolBegin
<1>2. ASSUME NEW k \in Passkeys, NEW r \in Requests, EnrolFinish(r, k) PROVE IInv'
  <2>1. [passkey[k] EXCEPT !.state = "taken", !.since = 0] \in PasskeyRows
    BY DEF IInv, TypeOK, PasskeyRows
  <2>2. /\ passkey' \in [Passkeys -> PasskeyRows]
        /\ UNCHANGED <<challenge, signed, window, recovery, now, accepted, sessions, crossed>>
    BY <1>2, <2>1 DEF EnrolFinish, IInv, TypeOK
  <2>3. CASE Begins(r, "insert", k)
    <3>1. /\ req'[r] = [at |-> "insert", for |-> k, ts |-> now]
          /\ \A x \in Requests \ {r} : req'[x] = req[x]
          /\ req' \in [Requests -> RequestRecords]
      BY <2>3 DEF Begins, IInv, TypeOK, RequestRecords, Stages
    <3>2. TypeOK'
      BY <2>2, <3>1 DEF IInv, TypeOK
    <3>3. req'[r].at \notin Using /\ req'[r].for \in Passkeys
      BY <3>1 DEF Using
    <3>4. QED
      BY <2>2, <3>1, <3>2, <3>3, CalmStep
  <2>4. CASE Goes(r, "done")
    <3>1. /\ \A x \in Requests \ {r} : req'[x] = req[x]
          /\ req'[r].at = "done" /\ req' \in [Requests -> RequestRecords]
      BY <2>4, GoesEffect DEF IInv, Stages
    <3>2. TypeOK'
      BY <2>2, <3>1 DEF IInv, TypeOK
    <3>3. QED
      BY <2>2, <3>1, <3>2, CalmStep DEF Using
  <2>5. QED
    BY <1>2, <2>3, <2>4 DEF EnrolFinish
<1>3. ASSUME NEW r \in Requests, EnrolInsert(r) PROVE IInv'
  <2>1. req[r].for \in Passkeys
    BY <1>3 DEF EnrolInsert, IInv, HandlerOK
  <2>2. PICK counting \in BOOLEAN :
          passkey' = [passkey EXCEPT ![req[r].for].state = "valid",
                                     ![req[r].for].counting = counting]
    BY <1>3 DEF EnrolInsert
  <2>3. [passkey[req[r].for] EXCEPT !.state = "valid", !.counting = counting] \in PasskeyRows
    BY <2>1 DEF IInv, TypeOK, PasskeyRows
  <2>4. passkey' \in [Passkeys -> PasskeyRows]
    BY <2>1, <2>2, <2>3 DEF IInv, TypeOK
  <2>5. /\ \A x \in Requests \ {r} : req'[x] = req[x]
        /\ req'[r].at = "done" /\ req' \in [Requests -> RequestRecords]
    BY <1>3, GoesEffect DEF EnrolInsert, IInv, Stages
  <2>6. TypeOK'
    BY <1>3, <2>4, <2>5 DEF EnrolInsert, IInv, TypeOK
  <2>7. QED
    BY <1>3, <2>5, <2>6, CalmStep DEF EnrolInsert, Using
<1>4. QED
  BY <1>1, <1>2, <1>3

\* A new assertion is used by nobody yet.
LEMMA SignStep ==
  ASSUME IInv, NEW a \in Assertions, NEW k \in Passkeys, NEW kind \in Kinds,
         NEW ts \in Nat, NEW duration \in Nat, Sign(a, k, kind, ts, duration)
  PROVE  IInv'
<1> USE DEF history
<1>1. /\ UNCHANGED <<window, recovery, req, now, accepted, sessions, crossed>>
      /\ challenge' = IF kind = "login" THEN challenge \cup {a} ELSE challenge
      /\ signed[a].kind = "none" /\ kind # "none"
  BY DEF Sign, Kinds
<1>2. passkey' \in [Passkeys -> PasskeyRows] /\ passkey'[k].made \in Nat
  <2>1. /\ [passkey[k] EXCEPT !.made = passkey[k].made + 1] \in PasskeyRows
        /\ [passkey[k] EXCEPT !.made = 0] \in PasskeyRows
        /\ passkey[k].made + 1 \in Nat
    BY DEF IInv, TypeOK, PasskeyRows
  <2>2. \/ passkey' = [passkey EXCEPT ![k].made = passkey[k].made + 1]
        \/ passkey' = [passkey EXCEPT ![k].made = 0]
    BY DEF Sign
  <2>3. passkey' \in [Passkeys -> PasskeyRows]
    BY <2>1, <2>2 DEF IInv, TypeOK
  <2>4. QED
    BY <2>3 DEF PasskeyRows
<1>3. /\ \A b \in Assertions \ {a} : signed'[b] = signed[b]
      /\ signed'[a] = [kind |-> kind, passkey |-> k, count |-> passkey'[k].made,
                       ts |-> ts, duration |-> duration]
      /\ signed' \in [Assertions -> AssertionRecords]
  BY <1>2 DEF Sign, IInv, TypeOK, AssertionRecords
<1>4. TypeOK'
  BY <1>1, <1>2, <1>3 DEF IInv, TypeOK
<1>5. /\ a \notin challenge /\ accepted[a] = 0 /\ sessions[a] = 0
      /\ \A r \in Requests : ~Uses(r, a)
  BY <1>1 DEF IInv, SignedOK
<1>6. /\ signed'[a].kind = kind /\ signed'[a].passkey = k
      /\ \A b \in Assertions, r \in Requests : Uses(r, b)' <=> Uses(r, b)
      /\ \A b \in Assertions \ {a} : b \in challenge' <=> b \in challenge
  BY <1>1, <1>3 DEF Uses
<1>7. \A b \in Assertions : SignedOK(b)'
  <2>1. SignedOK(a)'
    BY <1>1, <1>6 DEF SignedOK
  <2>2. ASSUME NEW b \in Assertions \ {a} PROVE SignedOK(b)'
    BY <1>1, <1>3, <1>6, <2>2 DEF IInv, SignedOK
  <2>3. QED
    BY <2>1, <2>2
<1>8. \A b \in Assertions : TakenOnce(b)'
  <2>1. TakenOnce(a)'
    BY <1>1, <1>5, <1>6 DEF TakenOnce
  <2>2. ASSUME NEW b \in Assertions \ {a} PROVE TakenOnce(b)'
    BY <1>1, <1>3, <1>6, <2>2 DEF IInv, TakenOnce
  <2>3. QED
    BY <2>1, <2>2
<1>9. \A r \in Requests : HandlerOK(r)'
  BY <1>1, <1>3, <1>5, <1>6 DEF IInv, HandlerOK
<1>10. \A w \in window' : WindowOK(w)'
  <2>1. \A w \in window : w.of \in Assertions /\ w.of # a
    BY <1>5 DEF IInv, TypeOK, Windows, WindowOK
  <2>2. QED
    BY <1>1, <1>3, <2>1 DEF IInv, WindowOK
<1>11. /\ \A b \in Assertions : (sessions[b] <= 1)'
       /\ \A b \in Assertions : (signed[b].kind # "login" => sessions[b] = 0)'
  BY <1>1, <1>3, <1>5 DEF IInv
<1>12. QED
  BY <1>4, <1>7, <1>8, <1>9, <1>10, <1>11 DEF IInv

\* A handler that ends leaves the types alone.
LEMMA DoneStep ==
  ASSUME IInv, NEW r \in Requests, Goes(r, "done"),
         passkey' \in [Passkeys -> PasskeyRows], window' \subseteq window,
         challenge' \subseteq challenge,
         UNCHANGED <<signed, recovery, now, accepted, sessions, crossed>>
  PROVE  IInv'
<1>1. /\ \A x \in Requests \ {r} : req'[x] = req[x]
      /\ req'[r].at = "done" /\ req' \in [Requests -> RequestRecords]
  BY GoesEffect DEF IInv, Stages
<1>2. TypeOK'
  BY <1>1 DEF IInv, TypeOK
<1>3. QED
  BY <1>1, <1>2, CalmStep DEF Using

LEMMA PresentsStep ==
  ASSUME IInv, NEW r \in Requests, NEW a \in Assertions, Presents(r, a)
  PROVE  IInv'
<1> USE DEF history
<1>1. passkey \in [Passkeys -> PasskeyRows]
  BY DEF IInv, TypeOK
<1>2. CASE LoginTake(r, a)
  <2>1. CASE Goes(r, "done")
    BY <1>1, <1>2, <2>1, DoneStep DEF LoginTake
  <2>2. CASE Begins(r, "select", a) /\ a \in challenge
    BY <1>2, <2>2, BeginsStep DEF LoginTake
  <2>3. QED
    BY <1>2, <2>1, <2>2 DEF LoginTake
<1>3. CASE Approve(r, a)
  BY <1>3, BeginsStep DEF Approve
<1>4. CASE Activate(r, a)
  <2>1. CASE Goes(r, "done")
    BY <1>1, <1>4, <2>1, DoneStep DEF Activate
  <2>2. CASE Begins(r, "select", a) /\ Fresh(a)
    BY <1>4, <2>2, BeginsStep DEF Activate, Fresh
  <2>3. QED
    BY <1>4, <2>1, <2>2 DEF Activate
<1>5. QED
  BY <1>2, <1>3, <1>4 DEF Presents

\* The verifier compares the counters, then writes the new one.
LEMMA VerifyStep ==
  ASSUME IInv, NEW r \in Requests, Select(r) \/ Raise(r)
  PROVE  IInv'
<1>1. CASE Select(r)
  <2>1. req[r].for \in Assertions /\ signed[req[r].for].passkey \in Passkeys
    BY <1>1 DEF Select, IInv, HandlerOK, SignedOK, Uses
  <2>2. CASE Goes(r, "done") /\ UNCHANGED crossed
    BY <1>1, <2>2, DoneStep DEF Select, IInv, TypeOK
  <2>3. CASE Goes(r, "raise") /\ crossed' \subseteq Passkeys
    <3>1. req' = [req EXCEPT ![r].at = "raise"] /\ req' \in [Requests -> RequestRecords]
      BY <2>3, GoesEffect DEF IInv, Stages
    <3>2. TypeOK'
      BY <1>1, <2>3, <3>1 DEF Select, IInv, TypeOK
    <3>3. \A a \in Assertions : accepted'[a] >= accepted[a]
      BY <1>1 DEF Select, IInv, TypeOK
    <3>4. /\ req[r].at \in Using /\ "raise" \in Using
          /\ UNCHANGED <<challenge, signed, window, now, accepted, sessions>>
      BY <1>1 DEF Select, Using
    <3>5. QED
      BY <3>1, <3>2, <3>3, <3>4, AdvanceStep
  <2>4. crossed \subseteq Passkeys
    BY DEF IInv, TypeOK
  <2>5. QED
    BY <1>1, <2>1, <2>2, <2>3, <2>4 DEF Select
<1>2. CASE Raise(r)
  <2> DEFINE a == req[r].for
             k == signed[a].passkey
             stage == After(signed[a].kind)
  <2>1. a \in Assertions /\ signed[a] \in AssertionRecords /\ signed[a].kind # "none"
    BY <1>2 DEF Raise, IInv, TypeOK, HandlerOK, SignedOK, Uses
  <2>2. k \in Passkeys /\ signed[a].count \in Nat
    BY <2>1 DEF IInv, SignedOK, AssertionRecords
  <2>3. /\ stage \in {"session", "open", "done"} /\ stage \in Stages
        /\ stage = "session" => signed[a].kind = "login"
        /\ stage = "open" => signed[a].kind = "activate"
    BY DEF After, Stages
  <2>4. /\ passkey' = [passkey EXCEPT ![k].counter = signed[a].count]
        /\ accepted' = [accepted EXCEPT ![a] = accepted[a] + 1]
        /\ Goes(r, stage)
        /\ UNCHANGED <<challenge, signed, window, recovery, now, sessions, crossed>>
        /\ req[r].at \in Using
    BY <1>2 DEF Raise, Using
  <2> HIDE DEF a, k, stage
  <2>5. /\ \A x \in Requests \ {r} : req'[x] = req[x]
        /\ req'[r].at = stage /\ req' \in [Requests -> RequestRecords]
        /\ stage # "done" => req' = [req EXCEPT ![r].at = stage]
    BY <2>3, <2>4, GoesEffect DEF IInv
  <2>6. [passkey[k] EXCEPT !.counter = signed[a].count] \in PasskeyRows
    BY <2>2 DEF IInv, TypeOK, PasskeyRows
  <2>7. TypeOK'
    BY <2>1, <2>2, <2>4, <2>5, <2>6 DEF IInv, TypeOK
  <2>8. /\ \A b \in Assertions : /\ accepted'[b] >= accepted[b]
                                 /\ accepted'[b] # accepted[b] => signed[b].kind # "none"
        /\ accepted'[a] > 0
    BY <2>1, <2>4 DEF IInv, TypeOK
  <2>9. CASE stage = "done"
    <3>1. \A w \in window' : w \in window /\ now' < w.expires
      BY <2>4 DEF IInv, WindowOK
    <3>2. req'[r].at \notin Using /\ req'[r].at # "insert"
      BY <2>5, <2>9 DEF Using
    <3>3. QED
      BY <2>4, <2>5, <2>7, <2>8, <3>1, <3>2, QuietStep
  <2>10. CASE stage # "done"
    <3>1. stage \in Using
      BY <2>3, <2>10 DEF Using
    <3>2. /\ stage = "session" => signed[req[r].for].kind = "login"
          /\ stage = "open" => /\ signed[req[r].for].kind = "activate"
                               /\ accepted'[req[r].for] > 0
      BY <2>3, <2>8 DEF a
    <3>3. QED
      BY <2>4, <2>5, <2>7, <2>8, <2>10, <3>1, <3>2, AdvanceStep
  <2>11. QED
    BY <2>9, <2>10
<1>3. QED
  BY <1>1, <1>2

\* The one handler of a login's challenge starts the session and is done.
LEMMA SessionStep ==
  ASSUME IInv, NEW r \in Requests, StartSession(r)
  PROVE  IInv'
<1>a. PICK a \in Assertions : a = req[r].for
  BY DEF StartSession, IInv, HandlerOK
<1>1. a \in Assertions /\ Uses(r, a) /\ signed[a].kind = "login"
  BY <1>a DEF StartSession, IInv, HandlerOK, Uses
<1>2. /\ sessions[a] = 0 /\ a \notin challenge
      /\ \A x \in Requests : Uses(x, a) => x = r
  BY <1>1 DEF IInv, TakenOnce
<1>3. /\ sessions' = [sessions EXCEPT ![a] = sessions[a] + 1] /\ Goes(r, "done")
      /\ UNCHANGED <<passkey, challenge, signed, window, recovery, now, accepted, crossed>>
  BY <1>a DEF StartSession
<1>4. /\ \A x \in Requests \ {r} : req'[x] = req[x]
      /\ req'[r].at = "done" /\ req' \in [Requests -> RequestRecords]
  BY <1>3, GoesEffect DEF IInv, Stages
<1>5. /\ sessions'[a] = 1 /\ sessions' \in [Assertions -> Nat]
      /\ \A b \in Assertions \ {a} : sessions'[b] = sessions[b]
  BY <1>1, <1>2, <1>3 DEF IInv, TypeOK
<1>6. TypeOK'
  BY <1>3, <1>4, <1>5 DEF IInv, TypeOK
<1>7. /\ \A b \in Assertions : ~Uses(r, b)'
      /\ \A x \in Requests \ {r}, b \in Assertions : Uses(x, b)' <=> Uses(x, b)
  BY <1>4 DEF Uses
<1>8. \A b \in Assertions : SignedOK(b)'
  BY <1>1, <1>3, <1>5, <1>7 DEF IInv, SignedOK
<1>9. \A b \in Assertions : TakenOnce(b)'
  <2>1. TakenOnce(a)'
    BY <1>2, <1>3, <1>7 DEF TakenOnce
  <2>2. ASSUME NEW b \in Assertions \ {a} PROVE TakenOnce(b)'
    BY <1>3, <1>5, <1>7, <2>2 DEF IInv, TakenOnce
  <2>3. QED
    BY <2>1, <2>2
<1>10. \A x \in Requests : HandlerOK(x)'
  <2>1. HandlerOK(r)'
    BY <1>4, <1>7 DEF HandlerOK
  <2>2. ASSUME NEW x \in Requests \ {r} PROVE HandlerOK(x)'
    BY <1>3, <1>4, <1>7, <2>2 DEF IInv, HandlerOK
  <2>3. QED
    BY <2>1, <2>2
<1>11. \A w \in window' : WindowOK(w)'
  BY <1>3 DEF IInv, WindowOK
<1>12. /\ \A b \in Assertions : (sessions[b] <= 1)'
       /\ \A b \in Assertions : (signed[b].kind # "login" => sessions[b] = 0)'
  BY <1>1, <1>3, <1>5 DEF IInv
<1>13. QED
  BY <1>6, <1>8, <1>9, <1>10, <1>11, <1>12 DEF IInv

\* The window begins when the request was looked at, which is fresh.
LEMMA OpenStep ==
  ASSUME IInv, NEW r \in Requests, Open(r)
  PROVE  IInv'
<1> USE DEF history
<1> DEFINE a == req[r].for
           end == req[r].ts + signed[a].duration
<1>1. a \in Assertions /\ Uses(r, a) /\ signed[a].kind = "activate" /\ accepted[a] > 0
  BY DEF Open, IInv, HandlerOK, Uses
<1>2. /\ signed[a].ts \in Nat /\ signed[a].duration \in Nat /\ req[r].ts \in Nat
      /\ req[r].ts <= signed[a].ts + Skew
  BY <1>1 DEF IInv, HandlerOK, TypeOK, AssertionRecords, RequestRecords
<1>3. /\ Goes(r, "done") /\ window' = window \cup Row(a, req[r].ts)
      /\ UNCHANGED <<passkey, challenge, signed, recovery, now, accepted, sessions, crossed>>
  BY DEF Open
<1>4. \A w \in Row(a, req[r].ts) : w = [of |-> a, expires |-> end] /\ end > now
  BY DEF Row
<1>5. \A w \in Row(a, req[r].ts) : w \in Windows /\ w.of = a /\ w.expires = end
  BY <1>1, <1>2, <1>4 DEF Windows
<1>6. now \in Nat /\ end \in Nat /\ end <= signed[a].ts + Skew + signed[a].duration
  BY <1>2, TimeAssumption DEF IInv, TypeOK
<1> HIDE DEF a, end
<1>7. /\ \A x \in Requests \ {r} : req'[x] = req[x]
      /\ req'[r].at = "done" /\ req' \in [Requests -> RequestRecords]
  BY <1>3, GoesEffect DEF IInv, Stages
<1>8. TypeOK'
  BY <1>3, <1>5, <1>7 DEF IInv, TypeOK
<1>9. /\ \A b \in Assertions : ~Uses(r, b)'
      /\ \A x \in Requests \ {r}, b \in Assertions : Uses(x, b)' <=> Uses(x, b)
  BY <1>7 DEF Uses
<1>10. \A b \in Assertions : SignedOK(b)' /\ TakenOnce(b)'
  BY <1>3, <1>9 DEF IInv, SignedOK, TakenOnce
<1>11. \A x \in Requests : HandlerOK(x)'
  <2>1. HandlerOK(r)'
    BY <1>7, <1>9 DEF HandlerOK
  <2>2. ASSUME NEW x \in Requests \ {r} PROVE HandlerOK(x)'
    BY <1>3, <1>7, <1>9, <2>2 DEF IInv, HandlerOK
  <2>3. QED
    BY <2>1, <2>2
<1>12. \A w \in window' : WindowOK(w)'
  <2>1. \A w \in Row(a, req[r].ts) : WindowOK(w)'
    BY <1>1, <1>3, <1>4, <1>5, <1>6 DEF WindowOK
  <2>2. \A w \in window : WindowOK(w)'
    BY <1>3 DEF IInv, WindowOK
  <2>3. QED
    BY <1>3, <2>1, <2>2
<1>13. QED
  BY <1>3, <1>8, <1>10, <1>11, <1>12 DEF IInv

\* The other steps hold no assertion afterwards.
LEMMA OtherStep ==
  ASSUME IInv, NEW r \in Requests,
         \/ Deactivate(r) \/ VerifyRecovery(r) \/ MarkVerified(r) \/ Invalidate(r)
         \/ Fail(r)
  PROVE  IInv'
<1> USE DEF history
<1>1. passkey \in [Passkeys -> PasskeyRows]
  BY DEF IInv, TypeOK
<1>2. CASE Deactivate(r)
  BY <1>1, <1>2, DoneStep DEF Deactivate
<1>3. CASE VerifyRecovery(r)
  <2>1. /\ req'[r] = [at |-> "mark", for |-> 0, ts |-> now]
        /\ \A x \in Requests \ {r} : req'[x] = req[x]
        /\ req' \in [Requests -> RequestRecords]
    BY <1>3 DEF VerifyRecovery, Begins, IInv, TypeOK, RequestRecords, Stages
  <2>2. TypeOK'
    BY <1>3, <2>1 DEF VerifyRecovery, IInv, TypeOK
  <2>3. req'[r].at \notin Using /\ req'[r].at # "insert"
    BY <2>1 DEF Using
  <2>4. QED
    BY <1>3, <2>1, <2>2, <2>3, CalmStep DEF VerifyRecovery
<1>4. CASE MarkVerified(r)
  <2>1. /\ \A x \in Requests \ {r} : req'[x] = req[x]
        /\ req'[r].at = "invalidate" /\ req' \in [Requests -> RequestRecords]
    BY <1>4, GoesEffect DEF MarkVerified, IInv, Stages
  <2>2. TypeOK'
    BY <1>4, <2>1 DEF MarkVerified, IInv, TypeOK
  <2>3. QED
    BY <1>4, <2>1, <2>2, CalmStep DEF MarkVerified, Using
<1>5. CASE Invalidate(r)
  <2>1. ASSUME NEW row \in PasskeyRows PROVE [row EXCEPT !.state = "invalid"] \in PasskeyRows
    BY DEF PasskeyRows
  <2>2. passkey' \in [Passkeys -> PasskeyRows]
    BY <1>1, <1>5, <2>1 DEF Invalidate
  <2>3. /\ Goes(r, "done")
        /\ UNCHANGED <<challenge, signed, window, recovery, now, accepted, sessions, crossed>>
    BY <1>5 DEF Invalidate
  <2>4. QED
    BY <2>2, <2>3, DoneStep
<1>6. CASE Fail(r)
  BY <1>1, <1>6, DoneStep DEF Fail
<1>7. QED
  BY <1>2, <1>3, <1>4, <1>5, <1>6

LEMMA StepIInv == IInv /\ [Next]_vars => IInv'
<1> SUFFICES ASSUME IInv, [Next]_vars PROVE IInv'
  OBVIOUS
<1>1. CASE Tick
  BY <1>1, TickStep
<1>2. CASE \/ \E k \in Passkeys : EnrolBegin(k)
           \/ \E k \in Passkeys, r \in Requests : EnrolFinish(r, k)
  BY <1>2, EnrolStep
<1>3. ASSUME NEW a \in Assertions, NEW k \in Passkeys, Signs(a, k) PROVE IInv'
  <2>1. now \in Nat /\ Skew \in Nat /\ {"login", "approve", "activate"} = Kinds
    BY TimeAssumption DEF IInv, TypeOK, Kinds
  <2>2. ASSUME NEW ts \in (now - Skew)..(now + Skew), NEW d \in Durations, ts >= 0,
               Sign(a, k, "activate", ts, d)
        PROVE  IInv'
    BY <2>1, <2>2, SignStep, TimeAssumption
  <2>3. QED
    BY <1>3, <2>1, <2>2, SignStep DEF Signs
<1>4. CASE \E a \in Assertions, r \in Requests : Presents(r, a)
  BY <1>4, PresentsStep
<1>5. ASSUME NEW r \in Requests, Steps(r) \/ Deactivate(r) \/ VerifyRecovery(r) PROVE IInv'
  BY <1>5, EnrolStep, VerifyStep, SessionStep, OpenStep, OtherStep DEF Steps
<1>6. CASE RequestRecovery
  <2>1. TypeOK'
    BY <1>6 DEF RequestRecovery, IInv, TypeOK, history
  <2>2. QED
    BY <1>6, <2>1, CalmStep DEF RequestRecovery, history
<1>7. CASE UNCHANGED vars
  <2>1. TypeOK'
    BY <1>7 DEF vars, IInv, TypeOK
  <2>2. QED
    BY <1>7, <2>1, CalmStep DEF vars
<1>8. QED
  BY <1>1, <1>2, <1>3, <1>4, <1>5, <1>6, <1>7 DEF Next

\* The inductive invariant of the passkeys, their challenges and the windows of
\* write mode (auth/webauthn, services/writemode.ts) holds in every state.
THEOREM Invariance == Spec => []IInv
BY InitIInv, StepIInv, PTL DEF Spec

\* The tables and handlers stay what they are declared to be.
THEOREM TypeCorrect == Spec => []TypeOK
<1>1. IInv => TypeOK
  BY DEF IInv
<1>2. QED
  BY <1>1, Invariance, PTL

\* A login challenge starts one session at most: takeChallenge deletes the row it
\* reads in one statement, and the handler that got it starts one session.
THEOREM OneSession == Spec => []OneSessionPerChallenge
<1>1. IInv => OneSessionPerChallenge
  BY DEF IInv, OneSessionPerChallenge
<1>2. QED
  BY <1>1, Invariance, PTL

\* While write mode is on, an accepted assertion names its duration and is no
\* older than that duration and the skew (POST /v1/writemode/activate).
THEOREM WriteModeSigned == Spec => []WriteModeIsSigned
<1>1. ASSUME IInv PROVE WriteModeIsSigned
  <2>1. ASSUME NEW w \in window
        PROVE  /\ signed[w.of].kind = "activate" /\ accepted[w.of] > 0
               /\ now < signed[w.of].ts + Skew + signed[w.of].duration
    <3>1. WindowOK(w) /\ w.of \in Assertions /\ w.expires \in Nat /\ now \in Nat
      BY <1>1 DEF IInv, TypeOK, Windows
    <3>2. signed[w.of].ts \in Nat /\ signed[w.of].duration \in Nat
      BY <1>1, <3>1 DEF IInv, TypeOK, AssertionRecords
    <3>3. QED
      BY <3>1, <3>2, TimeAssumption DEF WindowOK
  <2>2. QED
    BY <2>1 DEF WriteModeIsSigned
<1>2. QED
  BY <1>1, Invariance, PTL

(***************************************************************************)
(* The counter.  What is written down as verified is above the stored      *)
(* counter as long as one verification of a passkey follows another.       *)
(***************************************************************************)
LEMMA InitCInv == Init => CInv
<1> SUFFICES ASSUME Init PROVE CInv
  OBVIOUS
<1>1. IInv
  BY InitIInv
<1>2. \A r \in Requests : req[r].at = "idle"
  BY DEF Init, NewRequest
<1>3. \A k \in Passkeys : SignedBy(k) = {} /\ Verifying(k) = {}
  BY <1>2 DEF Init, SignedBy, Verifying
<1>4. QED
  BY <1>1, <1>2, <1>3 DEF CInv, EnrolledOnce, CounterOK

\* Which passkeys count is told by their rows.
LEMMA SameCounting ==
  /\ UNCHANGED passkey => Counting' = Counting
  /\ \A k \in Passkeys : passkey'[k].counting = passkey[k].counting =>
       (k \in Counting' <=> k \in Counting)
BY DEF Counting

\* CounterOK, for one assertion and for one verifier.
LEMMA Counted ==
  ASSUME CInv, NEW k \in Passkeys, k \in Counting \ crossed
  PROVE  /\ \A a \in SignedBy(k) : /\ signed[a].count > 0
                                   /\ accepted[a] <= 1
                                   /\ accepted[a] = 1 => signed[a].count <= passkey[k].counter
         /\ \A r \in Verifying(k) : /\ signed[req[r].for].count > passkey[k].counter
                                    /\ \A x \in Verifying(k) : x = r
<1>1. CounterOK(k)
  BY DEF CInv
<1>2. QED
  BY <1>1 DEF CounterOK

\* A step that accepts nothing and brings no handler before the counter, or
\* before the table of passkeys.
LEMMA KeepsCounter ==
  ASSUME CInv, UNCHANGED <<signed, accepted>>, crossed \subseteq crossed',
         NEW k \in Passkeys,
         k \in Counting' <=> k \in Counting,
         passkey'[k].counter = passkey[k].counter,
         passkey[k].state \in {"valid", "invalid"} => passkey'[k].state \in {"valid", "invalid"},
         passkey[k].state = "taken" => passkey'[k].state = "taken",
         \A r \in Requests : req'[r] = req[r] \/ req'[r].at \notin {"insert", "raise"}
  PROVE  EnrolledOnce(k)' /\ CounterOK(k)'
<1>1. SignedBy(k)' = SignedBy(k)
  BY DEF SignedBy
<1>2. Verifying(k)' \subseteq Verifying(k) /\ \A r \in Verifying(k)' : req'[r] = req[r]
  BY DEF Verifying
<1>3. EnrolledOnce(k)'
  BY <1>1 DEF CInv, EnrolledOnce
<1>4. CounterOK(k)'
  BY <1>1, <1>2 DEF CInv, CounterOK
<1>5. QED
  BY <1>3, <1>4

LEMMA EnrolKeepsCounter ==
  ASSUME CInv, NEW j \in Passkeys,
         \/ EnrolBegin(j)
         \/ \E r \in Requests : EnrolFinish(r, j)
         \/ \E r \in Requests : EnrolInsert(r) /\ req[r].for = j
  PROVE  \A k \in Passkeys : EnrolledOnce(k)' /\ CounterOK(k)'
<1> USE DEF history
<1>0. passkey[j] \in PasskeyRows /\ passkey \in [Passkeys -> PasskeyRows]
  BY DEF CInv, IInv, TypeOK
<1>1. CASE EnrolBegin(j)
  <2>1. /\ UNCHANGED <<signed, accepted, req, crossed>> /\ passkey[j].state = "absent"
        /\ passkey' = [passkey EXCEPT ![j].state = "challenged", ![j].since = now]
    BY <1>1 DEF EnrolBegin
  <2>2. ASSUME NEW k \in Passkeys
        PROVE  /\ k \in Counting' <=> k \in Counting
               /\ passkey'[k].counter = passkey[k].counter
               /\ k # j => passkey'[k].state = passkey[k].state
    <3>1. passkey'[k].counting = passkey[k].counting
      BY <1>0, <2>1 DEF PasskeyRows
    <3>2. QED
      BY <1>0, <2>1, <3>1, SameCounting DEF PasskeyRows
  <2>3. QED
    BY <2>1, <2>2, KeepsCounter
<1>2. ASSUME NEW r \in Requests, EnrolFinish(r, j)
      PROVE  \A k \in Passkeys : EnrolledOnce(k)' /\ CounterOK(k)'
  <2>1. /\ UNCHANGED <<signed, accepted, crossed>> /\ passkey[j].state \in {"challenged", "taken"}
        /\ passkey' = [passkey EXCEPT ![j].state = "taken", ![j].since = 0]
    BY <1>2 DEF EnrolFinish
  <2>2. ASSUME NEW k \in Passkeys
        PROVE  /\ k \in Counting' <=> k \in Counting
               /\ passkey'[k].counter = passkey[k].counter
               /\ passkey'[k].state = IF k = j THEN "taken" ELSE passkey[k].state
    <3>1. passkey'[k].counting = passkey[k].counting
      BY <1>0, <2>1 DEF PasskeyRows
    <3>2. QED
      BY <1>0, <2>1, <3>1, SameCounting DEF PasskeyRows
  <2>3. CASE Goes(r, "done")
    <3>1. /\ \A x \in Requests \ {r} : req'[x] = req[x]
          /\ req'[r].at = "done"
      BY <2>3, GoesEffect DEF CInv, IInv, Stages
    <3>2. QED
      BY <2>1, <2>2, <3>1, KeepsCounter
  <2>4. CASE Begins(r, "insert", j) /\ passkey[j].state = "challenged"
    <3>1. /\ \A x \in Requests \ {r} : req'[x] = req[x]
          /\ req'[r].at = "insert" /\ req'[r].for = j
      BY <2>4 DEF Begins, CInv, IInv, TypeOK
    <3>2. \A k \in Passkeys : SignedBy(k)' = SignedBy(k)
      BY <2>1 DEF SignedBy
    <3>3. \A k \in Passkeys : /\ Verifying(k)' \subseteq Verifying(k)
                              /\ \A x \in Verifying(k)' : req'[x] = req[x]
      BY <2>1, <3>1 DEF Verifying
    <3>4. \A k \in Passkeys : EnrolledOnce(k)'
      BY <2>2, <2>4, <3>1, <3>2 DEF CInv, EnrolledOnce
    <3>5. \A k \in Passkeys : CounterOK(k)'
      BY <2>1, <2>2, <3>2, <3>3 DEF CInv, CounterOK
    <3>6. QED
      BY <3>4, <3>5
  <2>5. QED
    BY <1>2, <2>3, <2>4 DEF EnrolFinish
<1>3. ASSUME NEW r \in Requests, EnrolInsert(r), req[r].for = j
      PROVE  \A k \in Passkeys : EnrolledOnce(k)' /\ CounterOK(k)'
  <2>1. PICK counting \in BOOLEAN :
          passkey' = [passkey EXCEPT ![req[r].for].state = "valid",
                                     ![req[r].for].counting = counting]
    BY <1>3 DEF EnrolInsert
  <2>2. \A k \in Passkeys : passkey'[k] =
          IF k = j THEN [passkey[j] EXCEPT !.state = "valid", !.counting = counting] ELSE passkey[k]
    BY <1>0, <1>3, <2>1
  <2>3. passkey'[j].state = "valid" /\ passkey'[j].counter = passkey[j].counter
    BY <1>0, <2>2 DEF PasskeyRows
  <2>4. /\ UNCHANGED <<signed, accepted, crossed>> /\ Goes(r, "done") /\ req[r].at = "insert"
    BY <1>3 DEF EnrolInsert
  <2>5. /\ \A x \in Requests \ {r} : req'[x] = req[x]
        /\ req'[r].at = "done"
    BY <2>4, GoesEffect DEF CInv, IInv, Stages
  <2>6. ASSUME NEW k \in Passkeys \ {j} PROVE EnrolledOnce(k)' /\ CounterOK(k)'
    BY <2>2, <2>4, <2>5, KeepsCounter, SameCounting
  <2>7. SignedBy(j)' = {}
    <3>1. passkey[j].state = "taken"
      BY <1>3, <2>4 DEF CInv, EnrolledOnce
    <3>2. SignedBy(j) = {} /\ SignedBy(j)' = SignedBy(j)
      BY <2>4, <3>1 DEF CInv, EnrolledOnce, SignedBy
    <3>3. QED
      BY <3>2
  <2>8. EnrolledOnce(j)'
    <3>1. ASSUME NEW x \in Requests, req'[x].at = "insert", req'[x].for = j PROVE FALSE
      <4>1. req'[x] = req[x] /\ x # r
        BY <2>5, <3>1
      <4>2. QED
        BY <1>3, <2>4, <3>1, <4>1 DEF CInv, EnrolledOnce
    <3>2. QED
      BY <2>3, <3>1 DEF EnrolledOnce
  <2>9. CounterOK(j)'
    <3>1. ASSUME NEW x \in Verifying(j)' PROVE FALSE
      <4>1. x \in Requests /\ req'[x] = req[x] /\ req[x].at = "raise" /\ signed[req[x].for].passkey = j
        BY <2>4, <2>5, <3>1 DEF Verifying
      <4>2. req[x].for \in Assertions /\ signed[req[x].for].kind # "none"
        BY <4>1 DEF CInv, IInv, HandlerOK, SignedOK, Uses
      <4>3. req[x].for \in SignedBy(j)'
        BY <2>4, <4>1, <4>2 DEF SignedBy
      <4>4. QED
        BY <2>7, <4>3
    <3>2. QED
      BY <2>7, <3>1 DEF CounterOK
  <2>10. QED
    BY <2>6, <2>8, <2>9
<1>4. QED
  BY <1>1, <1>2, <1>3

\* What an authenticator that counts signs is numbered above 0.
LEMMA SignKeepsCounter ==
  ASSUME CInv, NEW a \in Assertions, NEW j \in Passkeys, NEW kind \in Kinds,
         NEW ts, NEW duration, Sign(a, j, kind, ts, duration)
  PROVE  \A k \in Passkeys : EnrolledOnce(k)' /\ CounterOK(k)'
<1> USE DEF history
<1>1. /\ signed[a].kind = "none" /\ passkey[j].state \in {"valid", "invalid"}
      /\ passkey' = [passkey EXCEPT ![j].made = IF passkey[j].counting THEN @ + 1 ELSE 0]
      /\ signed' = [signed EXCEPT ![a] = [kind |-> kind, passkey |-> j, count |-> passkey'[j].made,
                                          ts |-> ts, duration |-> duration]]
      /\ UNCHANGED <<req, accepted, crossed>>
  BY DEF Sign
<1>2. ASSUME NEW k \in Passkeys
      PROVE  /\ passkey'[k].state = passkey[k].state
             /\ passkey'[k].counter = passkey[k].counter
             /\ k \in Counting' <=> k \in Counting
  <2>1. passkey'[k].counting = passkey[k].counting
    BY <1>1 DEF CInv, IInv, TypeOK, PasskeyRows
  <2>2. QED
    BY <1>1, <2>1, SameCounting DEF CInv, IInv, TypeOK, PasskeyRows
<1>3. j \in Counting => passkey'[j].made > 0
  <2>1. j \in Counting => passkey'[j] = [passkey[j] EXCEPT !.made = @ + 1]
    BY <1>1 DEF Counting, CInv, IInv, TypeOK
  <2>2. QED
    BY <2>1 DEF CInv, IInv, TypeOK, PasskeyRows
<1>4. /\ \A b \in Assertions \ {a} : signed'[b] = signed[b]
      /\ signed'[a].passkey = j /\ signed'[a].count = passkey'[j].made
      /\ accepted[a] = 0 /\ \A r \in Requests : ~Uses(r, a)
  BY <1>1 DEF CInv, IInv, TypeOK, SignedOK
<1>5. ASSUME NEW r \in Requests, req[r].at = "raise"
      PROVE  req[r].for \in Assertions \ {a}
  BY <1>4, <1>5 DEF CInv, IInv, HandlerOK, Uses
<1>6. ASSUME NEW k \in Passkeys PROVE EnrolledOnce(k)' /\ CounterOK(k)'
  <2>1. SignedBy(k)' \subseteq SignedBy(k) \cup (IF k = j THEN {a} ELSE {})
    BY <1>1, <1>4 DEF SignedBy
  <2>2. Verifying(k)' = Verifying(k)
    BY <1>1, <1>4, <1>5 DEF Verifying
  <2>3. EnrolledOnce(k)'
    BY <1>1, <1>2, <2>1 DEF CInv, EnrolledOnce
  <2>4. CounterOK(k)'
    <3>1. SUFFICES ASSUME k \in Counting \ crossed
                   PROVE  CounterOK(k)'
      BY <1>1, <1>2 DEF CounterOK
    <3>2. ASSUME NEW b \in SignedBy(k)'
          PROVE  /\ signed'[b].count > 0 /\ accepted'[b] <= 1
                 /\ accepted'[b] = 1 => signed'[b].count <= passkey'[k].counter
      <4>1. CASE b = a
        BY <1>1, <1>3, <1>4, <2>1, <3>1, <3>2, <4>1 DEF SignedBy
      <4>2. CASE b # a
        <5>1. b \in SignedBy(k) /\ signed'[b] = signed[b]
          BY <1>4, <2>1, <3>2, <4>2 DEF SignedBy
        <5>2. QED
          BY <1>1, <1>2, <3>1, <5>1, Counted
      <4>3. QED
        BY <4>1, <4>2
    <3>3. ASSUME NEW r \in Verifying(k)'
          PROVE  /\ signed'[req'[r].for].count > passkey'[k].counter
                 /\ \A x \in Verifying(k)' : x = r
      <4>1. r \in Verifying(k) /\ req'[r] = req[r] /\ req[r].for \in Assertions \ {a}
        BY <1>1, <1>5, <2>2, <3>3 DEF Verifying
      <4>2. QED
        BY <1>2, <1>4, <2>2, <3>1, <4>1 DEF CInv, CounterOK
    <3>4. QED
      BY <3>2, <3>3 DEF CounterOK
  <2>5. QED
    BY <2>3, <2>4
<1>7. QED
  BY <1>6

\* A verifier that has compared is the only one, or the passkey is crossed.
LEMMA SelectKeepsCounter ==
  ASSUME CInv, NEW r \in Requests, Select(r)
  PROVE  \A k \in Passkeys : EnrolledOnce(k)' /\ CounterOK(k)'
<1>a. PICK a \in Assertions : a = req[r].for
  BY DEF Select, CInv, IInv, HandlerOK
<1>b. PICK j \in Passkeys : j = signed[a].passkey
  BY <1>a DEF Select, CInv, IInv, HandlerOK, SignedOK, Uses
<1>1. /\ a \in Assertions /\ signed[a].kind # "none" /\ j \in Passkeys
      /\ req[r].at = "select"
  BY <1>a DEF Select, CInv, IInv, HandlerOK, SignedOK, Uses
<1>2. /\ UNCHANGED <<passkey, signed, accepted>> /\ crossed \subseteq crossed'
  BY DEF Select
<1>3. CASE Goes(r, "done")
  <2>1. /\ \A x \in Requests \ {r} : req'[x] = req[x]
        /\ req'[r].at = "done"
    BY <1>3, GoesEffect DEF CInv, IInv, Stages
  <2>2. QED
    BY <1>2, <2>1, KeepsCounter, SameCounting
<1>4. CASE /\ Verifies(a) /\ Goes(r, "raise")
           /\ crossed' = IF Verifying(j) = {} THEN crossed ELSE crossed \cup {j}
  <2>1. /\ \A x \in Requests \ {r} : req'[x] = req[x]
        /\ req'[r] = [req[r] EXCEPT !.at = "raise"]
        /\ req'[r].at = "raise" /\ req'[r].for = a
    BY <1>a, <1>4 DEF Goes, CInv, IInv, TypeOK, RequestRecords
  <2>2. signed[a].count > passkey[j].counter \/ signed[a].count = 0
    BY <1>b, <1>4 DEF Verifies
  <2>3. \A k \in Passkeys : SignedBy(k)' = SignedBy(k)
    BY <1>2 DEF SignedBy
  <2>4. a \in SignedBy(j)
    BY <1>1, <1>b DEF SignedBy
  <2>5. \A k \in Passkeys : EnrolledOnce(k)'
    <3>1. \A x \in Requests : req'[x].at = "insert" => req'[x] = req[x]
      BY <2>1
    <3>2. \A k \in Passkeys : EnrolledOnce(k)
      BY DEF CInv
    <3>3. QED
      BY <1>2, <2>3, <3>1, <3>2 DEF EnrolledOnce
  <2>6. ASSUME NEW k \in Passkeys PROVE CounterOK(k)'
    <3>1. CASE k # j
      <4>1. Verifying(k)' = Verifying(k) /\ r \notin Verifying(k)
        BY <1>1, <1>2, <2>1, <3>1, <1>b DEF Verifying
      <4>2. \A x \in Verifying(k) : req'[x] = req[x]
        BY <2>1, <4>1 DEF Verifying
      <4>3. QED
        BY <1>2, <2>3, <4>1, <4>2, SameCounting DEF CInv, CounterOK
    <3>2. CASE k = j
      <4>1. SUFFICES ASSUME j \in Counting \ crossed' PROVE CounterOK(j)'
        BY <1>2, <3>2, SameCounting DEF CounterOK
      <4>2. Verifying(j) = {} /\ j \notin crossed
        BY <1>4, <4>1
      <4>3. Verifying(j)' \subseteq {r}
        <5>1. ASSUME NEW x \in Verifying(j)', x # r PROVE x \in Verifying(j)
          BY <1>2, <2>1, <5>1 DEF Verifying
        <5>2. QED
          BY <4>2, <5>1
      <4>4. signed[a].count > 0
        BY <2>4, <3>2, <4>1, <4>2, Counted
      <4>5. signed[a].count \in Nat
        BY <1>1 DEF CInv, IInv, TypeOK, AssertionRecords
      <4>6. signed[a].count > passkey[j].counter
        BY <2>2, <4>4, <4>5
      <4>7. QED
        <5>1. \A b \in SignedBy(j)' :
                /\ signed'[b].count > 0
                /\ accepted'[b] <= 1
                /\ accepted'[b] = 1 => signed'[b].count <= passkey'[j].counter
          BY <1>2, <2>3, <3>2, <4>1, <4>2, Counted
        <5>2. \A x \in Verifying(j)' : signed'[req'[x].for].count > passkey'[j].counter
          BY <1>2, <2>1, <4>3, <4>6
        <5>3. QED
          BY <4>3, <5>1, <5>2 DEF CounterOK
    <3>3. QED
      BY <3>1, <3>2
  <2>7. QED
    BY <2>5, <2>6
<1>5. QED
  BY <1>a, <1>b, <1>3, <1>4 DEF Select

\* The counter is raised to what is verified, which was above it.
LEMMA RaiseKeepsCounter ==
  ASSUME CInv, NEW r \in Requests, Raise(r)
  PROVE  \A k \in Passkeys : EnrolledOnce(k)' /\ CounterOK(k)'
<1>a. PICK a \in Assertions : a = req[r].for
  BY DEF Raise, CInv, IInv, HandlerOK
<1>b. PICK j \in Passkeys : j = signed[a].passkey
  BY <1>a DEF Raise, CInv, IInv, HandlerOK, SignedOK, Uses
<1>1. /\ req[r].at = "raise" /\ Goes(r, After(signed[a].kind))
      /\ passkey' = [passkey EXCEPT ![j].counter = signed[a].count]
      /\ accepted' = [accepted EXCEPT ![a] = @ + 1]
      /\ UNCHANGED <<signed, crossed>>
  BY <1>a, <1>b DEF Raise
<1>2. signed[a].kind # "none" /\ a \in SignedBy(j) /\ r \in Verifying(j)
  BY <1>a, <1>b, <1>1 DEF CInv, IInv, HandlerOK, SignedOK, Uses, SignedBy, Verifying
<1>3. /\ \A x \in Requests \ {r} : req'[x] = req[x]
      /\ req'[r].at \notin {"insert", "raise"}
  <2>1. After(signed[a].kind) \in {"session", "open", "done"}
    BY DEF After
  <2>2. After(signed[a].kind) \in Stages
    BY <2>1 DEF Stages
  <2>3. QED
    BY <1>1, <2>1, <2>2, GoesEffect DEF CInv, IInv
<1>4. ASSUME NEW k \in Passkeys
      PROVE  /\ passkey'[k].state = passkey[k].state
             /\ k \in Counting' <=> k \in Counting
             /\ k # j => passkey'[k].counter = passkey[k].counter
             /\ k = j => passkey'[k].counter = signed[a].count
             /\ passkey[k].counter \in Nat
  <2>1. passkey'[k].counting = passkey[k].counting
    BY <1>1 DEF CInv, IInv, TypeOK, PasskeyRows
  <2>2. QED
    BY <1>1, <2>1, SameCounting DEF CInv, IInv, TypeOK, PasskeyRows
<1>5. /\ accepted'[a] = accepted[a] + 1 /\ \A b \in Assertions \ {a} : accepted'[b] = accepted[b]
      /\ \A b \in Assertions : accepted[b] \in Nat /\ signed[b].count \in Nat
  BY <1>1 DEF CInv, IInv, TypeOK, AssertionRecords
<1>6. ASSUME NEW k \in Passkeys
      PROVE  /\ SignedBy(k)' = SignedBy(k)
             /\ Verifying(k)' = Verifying(k) \ {r}
             /\ \A x \in Verifying(k)' : req'[x] = req[x]
  BY <1>1, <1>3 DEF SignedBy, Verifying
<1>7. ASSUME NEW k \in Passkeys PROVE EnrolledOnce(k)'
  BY <1>3, <1>4, <1>6 DEF CInv, EnrolledOnce
<1>8. ASSUME NEW k \in Passkeys \ {j} PROVE CounterOK(k)'
  <2>1. a \notin SignedBy(k)
    BY <1>b, <1>8 DEF SignedBy
  <2>2. \A b \in SignedBy(k) : accepted'[b] = accepted[b]
    BY <1>5, <2>1 DEF SignedBy
  <2>3. QED
    BY <1>1, <1>4, <1>6, <2>2 DEF CInv, CounterOK
<1>9. CounterOK(j)'
  <2>1. SUFFICES ASSUME j \in Counting \ crossed PROVE CounterOK(j)'
    BY <1>1, <1>4 DEF CounterOK
  <2>2. signed[a].count > passkey[j].counter /\ Verifying(j)' = {}
    BY <1>a, <1>2, <1>6, <2>1 DEF CInv, CounterOK
  <2>3. ASSUME NEW b \in SignedBy(j)
        PROVE  /\ signed[b].count > 0 /\ accepted'[b] <= 1
               /\ accepted'[b] = 1 => signed[b].count <= signed[a].count
    <3>1. /\ b \in Assertions /\ signed[b].count > 0 /\ accepted[b] <= 1
          /\ accepted[b] = 1 => signed[b].count <= passkey[j].counter
      BY <2>1, <2>3, Counted DEF SignedBy
    <3>2. QED
      BY <1>4, <1>5, <2>2, <3>1
  <2>4. QED
    BY <1>1, <1>4, <1>6, <2>2, <2>3 DEF CounterOK
<1>10. QED
  BY <1>7, <1>8, <1>9

LEMMA StepCInv == CInv /\ [Next]_vars => CInv'
<1> SUFFICES ASSUME CInv, [Next]_vars PROVE CInv'
  OBVIOUS
<1> USE DEF history
<1>1. IInv /\ IInv'
  BY StepIInv DEF CInv
<1>2. SUFFICES \A k \in Passkeys : EnrolledOnce(k)' /\ CounterOK(k)'
  BY <1>1 DEF CInv
<1>3. CASE UNCHANGED <<passkey, signed, req, accepted, crossed>>
  BY <1>3, KeepsCounter, SameCounting
<1>4. ASSUME NEW r \in Requests,
             \/ Goes(r, "done") \/ Goes(r, "session") \/ Goes(r, "open") \/ Goes(r, "invalidate")
             \/ \E x : Begins(r, "select", x) \/ Begins(r, "mark", x),
             UNCHANGED <<passkey, signed, accepted, crossed>>
      PROVE  \A k \in Passkeys : EnrolledOnce(k)' /\ CounterOK(k)'
  <2>1. \A x \in Requests \ {r} : req'[x] = req[x]
    BY <1>1, <1>4 DEF Goes, Begins, IInv, TypeOK
  <2>2. req'[r].at \notin {"insert", "raise"}
    BY <1>1, <1>4, GoesEffect DEF Begins, IInv, TypeOK, Stages
  <2>3. QED
    BY <1>4, <2>1, <2>2, KeepsCounter, SameCounting
<1>5. ASSUME NEW a \in Assertions, NEW k \in Passkeys, Signs(a, k)
      PROVE  \A x \in Passkeys : EnrolledOnce(x)' /\ CounterOK(x)'
  BY <1>5, SignKeepsCounter DEF Signs, Kinds
<1>6. ASSUME NEW r \in Requests, NEW a \in Assertions, Presents(r, a)
      PROVE  \A k \in Passkeys : EnrolledOnce(k)' /\ CounterOK(k)'
  BY <1>4, <1>6 DEF Presents, LoginTake, Approve, Activate
<1>7. ASSUME NEW r \in Requests, Invalidate(r)
      PROVE  \A k \in Passkeys : EnrolledOnce(k)' /\ CounterOK(k)'
  <2>1. ASSUME NEW k \in Passkeys
        PROVE  /\ k \in Counting' <=> k \in Counting
               /\ passkey'[k].counter = passkey[k].counter
               /\ passkey'[k].state = IF passkey[k].state = "valid" THEN "invalid"
                                      ELSE passkey[k].state
    <3>1. passkey'[k].counting = passkey[k].counting
      BY <1>1, <1>7 DEF Invalidate, IInv, TypeOK, PasskeyRows
    <3>2. QED
      BY <1>1, <1>7, <3>1, SameCounting DEF Invalidate, IInv, TypeOK, PasskeyRows
  <2>2. /\ \A x \in Requests \ {r} : req'[x] = req[x]
        /\ req'[r].at = "done"
    BY <1>1, <1>7, GoesEffect DEF Invalidate, IInv, Stages
  <2>3. UNCHANGED <<signed, accepted, crossed>>
    BY <1>7 DEF Invalidate
  <2>4. QED
    BY <2>1, <2>2, <2>3, KeepsCounter
<1>8. ASSUME NEW r \in Requests, EnrolInsert(r)
      PROVE  \A k \in Passkeys : EnrolledOnce(k)' /\ CounterOK(k)'
  <2>1. req[r].for \in Passkeys
    BY <1>1, <1>8 DEF EnrolInsert, IInv, HandlerOK
  <2>2. QED
    BY <1>8, <2>1, EnrolKeepsCounter
<1>9. ASSUME NEW r \in Requests, Steps(r) \/ Deactivate(r) \/ VerifyRecovery(r)
      PROVE  \A k \in Passkeys : EnrolledOnce(k)' /\ CounterOK(k)'
  <2>1. CASE StartSession(r) \/ Open(r) \/ MarkVerified(r) \/ Fail(r) \/ Deactivate(r)
             \/ VerifyRecovery(r)
    BY <1>4, <2>1 DEF StartSession, Open, MarkVerified, Fail, Deactivate, VerifyRecovery
  <2>2. QED
    BY <1>7, <1>8, <1>9, <2>1, SelectKeepsCounter, RaiseKeepsCounter DEF Steps
<1>10. QED
  <2>1. CASE Tick \/ RequestRecovery \/ UNCHANGED vars
    BY <1>3, <2>1 DEF Tick, RequestRecovery, vars
  <2>2. CASE \/ \E k \in Passkeys : EnrolBegin(k)
             \/ \E k \in Passkeys, r \in Requests : EnrolFinish(r, k)
    <3>1. ASSUME NEW j \in Passkeys, EnrolBegin(j)
          PROVE  \A k \in Passkeys : EnrolledOnce(k)' /\ CounterOK(k)'
      BY <3>1, EnrolKeepsCounter
    <3>2. ASSUME NEW j \in Passkeys, NEW r \in Requests, EnrolFinish(r, j)
          PROVE  \A k \in Passkeys : EnrolledOnce(k)' /\ CounterOK(k)'
      BY <3>2, EnrolKeepsCounter
    <3>3. QED
      BY <2>2, <3>1, <3>2
  <2>3. QED
    BY <1>5, <1>6, <1>9, <2>1, <2>2 DEF Next

\* An assertion is accepted twice only of a passkey whose verifications have
\* overlapped, or that does not count: the counter is read, compared and written
\* in two statements (auth/webauthn/approval-verify.ts and its siblings).
THEOREM ReplayOnlyByOverlap == Spec => []ReplayNeedsOverlap
<1>1. ASSUME CInv PROVE ReplayNeedsOverlap
  <2>1. ASSUME NEW a \in Assertions, accepted[a] > 1,
               signed[a].passkey \in Counting \ crossed
        PROVE  FALSE
    <3>1. accepted[a] \in Nat
      BY <1>1 DEF CInv, IInv, TypeOK
    <3>2. signed[a].kind # "none" /\ signed[a].passkey \in Passkeys
      BY <1>1, <2>1, <3>1 DEF CInv, IInv, SignedOK
    <3>3. accepted[a] <= 1
      BY <1>1, <2>1, <3>2, Counted DEF SignedBy
    <3>4. QED
      BY <2>1, <3>1, <3>3
  <2>2. ASSUME NEW a \in Assertions, accepted[a] > 1 PROVE signed[a].passkey \in Passkeys
    BY <1>1, <2>2 DEF CInv, IInv, SignedOK
  <2>3. QED
    BY <2>1, <2>2 DEF ReplayNeedsOverlap, Counting
<1>2. QED
  BY <1>1, InitCInv, StepCInv, PTL DEF Spec
===============================================================================
