------------------------------- MODULE Passkeys -------------------------------
(***************************************************************************)
(* The passkeys of a user: enrolment and login with a stored challenge     *)
(* (routes/auth/webauthn.ts), the signature counter that three verifiers   *)
(* read and write (auth/webauthn), the recovery that invalidates passkeys  *)
(* (auth/recovery/email.ts), and write mode, which an assertion opens and  *)
(* which lets write tools run without approval (routes/writemode.ts,       *)
(* services/writemode.ts, the gate of mcp/protocol/registry.ts).           *)
(*                                                                         *)
(* A handler walks from one committed statement to the next.  The          *)
(* signature itself is taken to be genuine; what a client may do with an   *)
(* assertion is to present it, again, and late.                            *)
(***************************************************************************)
EXTENDS Naturals, FiniteSets

CONSTANTS
  Passkeys,     \* authenticators of the user, numbered as they are enrolled
  Assertions,   \* what they sign, numbered as they sign
  Requests,     \* HTTP requests, numbered as they arrive
  Durations,    \* VALID_DURATIONS
  Skew,         \* ACTIVATE_TS_SKEW_MS
  ChallengeTtl, \* how long webauthn_challenges keeps a challenge
  MaxTime       \* bound: the clock stops here

ASSUME NumberAssumption == /\ Passkeys \subseteq Nat /\ Requests \subseteq Nat
                           /\ Assertions \subseteq Nat \ {0}
ASSUME TimeAssumption == /\ Durations \subseteq Nat \ {0}
                         /\ Skew \in Nat /\ ChallengeTtl \in Nat /\ MaxTime \in Nat

VARIABLES
  passkey,   \* table webauthn_credentials, and what each authenticator counts
  challenge, \* table webauthn_challenges: the logins whose row is there
  signed,    \* the assertions the authenticators made
  window,    \* table write_mode: the rows that have not expired; the gate of the
             \* registry runs a write tool without approval while there is one
  recovery,  \* the row of password_recovery_requests
  req,       \* the request handlers
  now,       \* Date.now()
  accepted,  \* per assertion, how often a verifier accepted it (history)
  sessions,  \* per assertion, how many sessions it started (history)
  crossed    \* passkeys of which two verifications overlapped (history)

vars == <<passkey, challenge, signed, window, recovery, req, now, accepted, sessions, crossed>>

Kinds == {"login", "approve", "activate"}
Stages == {"idle", "select", "raise", "session", "open", "insert", "mark", "invalidate", "done"}

\* `counting`: a synced passkey always signs with counter 0.  `made` counts the
\* signatures of the authenticator, `since` is when its enrolment began.
PasskeyRows == [state : {"absent", "challenged", "taken", "valid", "invalid"},
                counter : Nat, counting : BOOLEAN, made : Nat, since : Nat]
AssertionRecords == [kind : Kinds \cup {"none"}, passkey : Passkeys \cup {0},
                     count : Nat, ts : Nat, duration : Nat]
RequestRecords == [at : Stages, for : Assertions \cup Passkeys \cup {0}, ts : Nat]
Windows == [of : Assertions, expires : Nat]

NewRequest == [at |-> "idle", for |-> 0, ts |-> 0]

TypeOK ==
  /\ passkey \in [Passkeys -> PasskeyRows]
  /\ challenge \subseteq Assertions
  /\ signed \in [Assertions -> AssertionRecords]
  /\ window \subseteq Windows
  /\ recovery \in {"none", "pending", "verified"}
  /\ req \in [Requests -> RequestRecords]
  /\ now \in Nat
  /\ accepted \in [Assertions -> Nat] /\ sessions \in [Assertions -> Nat]
  /\ crossed \subseteq Passkeys

Init ==
  /\ passkey = [k \in Passkeys |-> [state |-> "absent", counter |-> 0, counting |-> TRUE,
                                    made |-> 0, since |-> 0]]
  /\ signed = [a \in Assertions |-> [kind |-> "none", passkey |-> 0, count |-> 0,
                                     ts |-> 0, duration |-> 0]]
  /\ challenge = {} /\ window = {} /\ recovery = "none" /\ crossed = {}
  /\ req = [r \in Requests |-> NewRequest]
  /\ now = 0
  /\ accepted = [a \in Assertions |-> 0] /\ sessions = [a \in Assertions |-> 0]

history == <<accepted, sessions, crossed>>

Tick ==
  /\ now < MaxTime
  /\ now' = now + 1
  /\ window' = {w \in window : w.expires > now'}
  /\ UNCHANGED <<passkey, challenge, signed, recovery, req, history>>

Arrives(r) == req[r].at = "idle" /\ \A x \in Requests : x < r => req[x].at # "idle"
Begins(r, stage, x) == req' = [req EXCEPT ![r] = [at |-> stage, for |-> x, ts |-> now]]
Goes(r, stage) ==
  req' = [req EXCEPT ![r] = IF stage = "done" THEN [NewRequest EXCEPT !.at = "done"]
                            ELSE [@ EXCEPT !.at = stage]]

(***************************************************************************)
(* Enrolment                                                               *)
(***************************************************************************)
EnrolBegin(k) ==
  /\ passkey[k].state = "absent" /\ \A j \in Passkeys : j < k => passkey[j].state # "absent"
  /\ passkey' = [passkey EXCEPT ![k].state = "challenged", ![k].since = now]
  /\ UNCHANGED <<challenge, signed, window, recovery, req, now, history>>

\* takeChallenge deletes the row and then looks at its expiry.
EnrolFinish(r, k) ==
  /\ Arrives(r)
  /\ passkey[k].state \in {"challenged", "taken"}
  /\ passkey' = [passkey EXCEPT ![k].state = "taken", ![k].since = 0]
  /\ IF passkey[k].state = "challenged" /\ passkey[k].since + ChallengeTtl >= now
     THEN Begins(r, "insert", k) ELSE Goes(r, "done")
  /\ UNCHANGED <<challenge, signed, window, recovery, now, history>>

EnrolInsert(r) ==
  /\ req[r].at = "insert"
  /\ \E counting \in BOOLEAN :
       passkey' = [passkey EXCEPT ![req[r].for].state = "valid", ![req[r].for].counting = counting]
  /\ Goes(r, "done")
  /\ UNCHANGED <<challenge, signed, window, recovery, now, history>>

(***************************************************************************)
(* The authenticator signs a login's challenge, an approval's, or {action, *)
(* duration, ts} with the clock of the browser.                            *)
(***************************************************************************)
Sign(a, k, kind, ts, duration) ==
  /\ signed[a].kind = "none" /\ \A b \in Assertions : b < a => signed[b].kind # "none"
  /\ passkey[k].state \in {"valid", "invalid"}
  /\ passkey' = [passkey EXCEPT ![k].made = IF passkey[k].counting THEN @ + 1 ELSE 0]
  /\ signed' = [signed EXCEPT ![a] = [kind |-> kind, passkey |-> k, count |-> passkey'[k].made,
                                      ts |-> ts, duration |-> duration]]
  /\ challenge' = IF kind = "login" THEN challenge \cup {a} ELSE challenge
  /\ UNCHANGED <<window, recovery, req, now, history>>

(***************************************************************************)
(* The handlers that present an assertion                                  *)
(***************************************************************************)
\* Mutant: the challenge is read and not deleted.
LoginTakeRead(r, a) ==
  /\ Arrives(r) /\ signed[a].kind = "login"
  /\ IF a \in challenge /\ signed[a].ts + ChallengeTtl >= now
     THEN Begins(r, "select", a) ELSE Goes(r, "done")
  /\ UNCHANGED <<passkey, challenge, signed, window, recovery, now, history>>

LoginTake(r, a) ==
  /\ Arrives(r) /\ signed[a].kind = "login"
  /\ challenge' = challenge \ {a}
  /\ IF a \in challenge /\ signed[a].ts + ChallengeTtl >= now
     THEN Begins(r, "select", a) ELSE Goes(r, "done")
  /\ UNCHANGED <<passkey, signed, window, recovery, now, history>>

\* The decision on the approval itself is in ApprovalFlow.
Approve(r, a) ==
  /\ Arrives(r) /\ signed[a].kind = "approve"
  /\ Begins(r, "select", a)
  /\ UNCHANGED <<passkey, challenge, signed, window, recovery, now, history>>

Fresh(a) == now <= signed[a].ts + Skew /\ signed[a].ts <= now + Skew

Activate(r, a) ==
  /\ Arrives(r) /\ signed[a].kind = "activate"
  /\ IF Fresh(a) THEN Begins(r, "select", a) ELSE Goes(r, "done")
  /\ UNCHANGED <<passkey, challenge, signed, window, recovery, now, history>>

\* verifyAuthenticationResponse compares the counters unless both are 0.
Verifies(a) ==
  LET k == signed[a].passkey IN
  /\ passkey[k].state = "valid"
  /\ signed[a].count > passkey[k].counter \/ (signed[a].count = 0 /\ passkey[k].counter = 0)

Verifying(k) == {x \in Requests : req[x].at = "raise" /\ signed[req[x].for].passkey = k}

Select(r) ==
  /\ req[r].at = "select"
  /\ LET k == signed[req[r].for].passkey IN
     IF Verifies(req[r].for)
     THEN /\ Goes(r, "raise")
          /\ crossed' = IF Verifying(k) = {} THEN crossed ELSE crossed \cup {k}
     ELSE Goes(r, "done") /\ UNCHANGED crossed
  /\ UNCHANGED <<passkey, challenge, signed, window, recovery, now, accepted, sessions>>

After(kind) == CASE kind = "login" -> "session" [] kind = "activate" -> "open" [] OTHER -> "done"

\* Mutant: an activation leaves the counter as it is.
RaiseNotForActivation(r) ==
  /\ req[r].at = "raise"
  /\ LET a == req[r].for IN
     /\ passkey' = IF signed[a].kind = "activate" THEN passkey
                   ELSE [passkey EXCEPT ![signed[a].passkey].counter = signed[a].count]
     /\ accepted' = [accepted EXCEPT ![a] = @ + 1]
     /\ Goes(r, After(signed[a].kind))
  /\ UNCHANGED <<challenge, signed, window, recovery, now, sessions, crossed>>

\* The UPDATE asks neither for the old counter nor whether the new one is higher.
Raise(r) ==
  /\ req[r].at = "raise"
  /\ LET a == req[r].for IN
     /\ passkey' = [passkey EXCEPT ![signed[a].passkey].counter = signed[a].count]
     /\ accepted' = [accepted EXCEPT ![a] = @ + 1]
     /\ Goes(r, After(signed[a].kind))
  /\ UNCHANGED <<challenge, signed, window, recovery, now, sessions, crossed>>

StartSession(r) ==
  /\ req[r].at = "session"
  /\ sessions' = [sessions EXCEPT ![req[r].for] = @ + 1]
  /\ Goes(r, "done")
  /\ UNCHANGED <<passkey, challenge, signed, window, recovery, now, accepted, crossed>>

(***************************************************************************)
(* Write mode                                                              *)
(***************************************************************************)
Row(a, from) ==
  IF from + signed[a].duration > now THEN {[of |-> a, expires |-> from + signed[a].duration]} ELSE {}

\* Mutant: the window begins when its row is inserted.
OpenFromInsert(r) ==
  /\ req[r].at = "open"
  /\ window' = window \cup Row(req[r].for, now)
  /\ Goes(r, "done")
  /\ UNCHANGED <<passkey, challenge, signed, recovery, now, history>>

\* activate() is handed the time at which the request was looked at.
Open(r) ==
  /\ req[r].at = "open"
  /\ window' = window \cup Row(req[r].for, req[r].ts)
  /\ Goes(r, "done")
  /\ UNCHANGED <<passkey, challenge, signed, recovery, now, history>>

\* The rows that have not expired expire now.
Deactivate(r) ==
  /\ Arrives(r)
  /\ window' = {}
  /\ Goes(r, "done")
  /\ UNCHANGED <<passkey, challenge, signed, recovery, now, history>>

(***************************************************************************)
(* Recovery, and handlers that break off                                   *)
(***************************************************************************)
RequestRecovery ==
  /\ recovery = "none"
  /\ recovery' = "pending"
  /\ UNCHANGED <<passkey, challenge, signed, window, req, now, history>>

VerifyRecovery(r) ==
  /\ Arrives(r)
  /\ recovery = "pending"
  /\ Begins(r, "mark", 0)
  /\ UNCHANGED <<passkey, challenge, signed, window, recovery, now, history>>

MarkVerified(r) ==
  /\ req[r].at = "mark"
  /\ recovery' = "verified"
  /\ Goes(r, "invalidate")
  /\ UNCHANGED <<passkey, challenge, signed, window, now, history>>

Invalidate(r) ==
  /\ req[r].at = "invalidate"
  /\ passkey' = [k \in Passkeys |-> IF passkey[k].state = "valid"
                   THEN [passkey[k] EXCEPT !.state = "invalid"] ELSE passkey[k]]
  /\ Goes(r, "done")
  /\ UNCHANGED <<challenge, signed, window, recovery, now, history>>

\* A statement fails, or the process dies.
Fail(r) ==
  /\ req[r].at \notin {"idle", "done"}
  /\ Goes(r, "done")
  /\ UNCHANGED <<passkey, challenge, signed, window, recovery, now, history>>

Presents(r, a) == LoginTake(r, a) \/ Approve(r, a) \/ Activate(r, a)
Steps(r) ==
  \/ EnrolInsert(r) \/ Select(r) \/ Raise(r) \/ StartSession(r) \/ Open(r)
  \/ MarkVerified(r) \/ Invalidate(r) \/ Fail(r)

Signs(a, k) ==
  \/ Sign(a, k, "login", now, 0) \/ Sign(a, k, "approve", now, 0)
  \/ \E ts \in (now - Skew)..(now + Skew), d \in Durations :
       ts >= 0 /\ Sign(a, k, "activate", ts, d)

Next ==
  \/ Tick
  \/ \E k \in Passkeys : EnrolBegin(k)
  \/ \E k \in Passkeys, r \in Requests : EnrolFinish(r, k)
  \/ \E a \in Assertions, k \in Passkeys : Signs(a, k)
  \/ \E a \in Assertions, r \in Requests : Presents(r, a)
  \/ \E r \in Requests : Steps(r) \/ Deactivate(r) \/ VerifyRecovery(r)
  \/ RequestRecovery

Spec == Init /\ [][Next]_vars

(***************************************************************************)
(* Properties                                                              *)
(***************************************************************************)
\* An assertion of an authenticator that counts is accepted twice only if two
\* verifications of that passkey overlapped, its own or others': an overlap can
\* set the stored counter back, which opens what was used up before.
ReplayNeedsOverlap ==
  \A a \in Assertions :
    accepted[a] > 1 => \/ signed[a].passkey \in crossed
                       \/ ~passkey[signed[a].passkey].counting

\* While the gate lets write tools run, an assertion that names the duration was
\* accepted and is no older than that duration and the permitted skew, however
\* long its handler took and whatever other windows came and went.
WriteModeIsSigned ==
  \A w \in window :
    /\ signed[w.of].kind = "activate"
    /\ accepted[w.of] > 0
    /\ now < signed[w.of].ts + Skew + signed[w.of].duration

\* A login challenge starts one session at most, whoever answers it how often.
OneSessionPerChallenge == \A a \in Assertions : sessions[a] <= 1

Uses(r, a) == req[r].at \in {"select", "raise", "session", "open"} /\ req[r].for = a

\* An assertion is signed before it is used, with a passkey that is enrolled.
SignedOK(a) ==
  /\ signed[a].kind = "none" =>
       a \notin challenge /\ accepted[a] = 0 /\ sessions[a] = 0 /\ \A r \in Requests : ~Uses(r, a)
  /\ signed[a].kind # "none" => signed[a].passkey \in Passkeys

\* What a handler holds.
HandlerOK(r) ==
  /\ req[r].at = "insert" => req[r].for \in Passkeys
  /\ req[r].at \in {"select", "raise", "session", "open"} => req[r].for \in Assertions
  /\ \A a \in Assertions : Uses(r, a) =>
       /\ req[r].at = "session" => signed[a].kind = "login"
       /\ req[r].at = "open" => signed[a].kind = "activate" /\ accepted[a] > 0
       /\ signed[a].kind = "activate" => req[r].ts <= signed[a].ts + Skew

\* A login's challenge is in its row, or with one handler, or used up.
TakenOnce(a) ==
  signed[a].kind = "login" =>
    /\ a \in challenge => sessions[a] = 0 /\ \A r \in Requests : ~Uses(r, a)
    /\ \A r \in Requests : Uses(r, a) =>
         sessions[a] = 0 /\ \A x \in Requests : Uses(x, a) => x = r

\* A window is one its assertion asks for.
WindowOK(w) ==
  /\ signed[w.of].kind = "activate" /\ accepted[w.of] > 0
  /\ now < w.expires /\ w.expires <= signed[w.of].ts + Skew + signed[w.of].duration

\* The inductive invariant.
IInv ==
  /\ TypeOK
  /\ \A a \in Assertions : SignedOK(a) /\ TakenOnce(a) /\ sessions[a] <= 1
  /\ \A a \in Assertions : signed[a].kind # "login" => sessions[a] = 0
  /\ \A r \in Requests : HandlerOK(r)
  /\ \A w \in window : WindowOK(w)

Counting == {k \in Passkeys : passkey[k].counting}
SignedBy(k) == {a \in Assertions : signed[a].kind # "none" /\ signed[a].passkey = k}

\* A passkey signs once it is enrolled, and one handler enrols it.
EnrolledOnce(k) ==
  /\ passkey[k].state \notin {"valid", "invalid"} => SignedBy(k) = {}
  /\ \A r \in Requests : req[r].at = "insert" /\ req[r].for = k =>
       /\ passkey[k].state = "taken"
       /\ \A x \in Requests : req[x].at = "insert" /\ req[x].for = k => x = r

\* Of a passkey that counts, and whose verifications have not overlapped, the
\* counter is as high as all that was accepted, and lower than what is about to be.
CounterOK(k) ==
  k \in Counting \ crossed =>
    /\ \A a \in SignedBy(k) :
         /\ signed[a].count > 0
         /\ accepted[a] <= 1
         /\ accepted[a] = 1 => signed[a].count <= passkey[k].counter
    /\ \A r \in Verifying(k) : /\ signed[req[r].for].count > passkey[k].counter
                               /\ \A x \in Verifying(k) : x = r

\* The inductive invariant of ReplayNeedsOverlap.
CInv == IInv /\ \A k \in Passkeys : EnrolledOnce(k) /\ CounterOK(k)
================================================================================
