------------------------------- MODULE WebClient -------------------------------
(***************************************************************************)
(* The browser client's side of the refresh (apps/web/src): two stores of  *)
(* access tokens, each with a promise of its own for the refresh in        *)
(* flight.  createApiClient (api.ts) keeps one in a closure; authedFetch   *)
(* (auth-token.ts) keeps another in its module for every sub-client.  Both *)
(* use the one refresh cookie of the browser, and the server they call is  *)
(* RefreshSessions.                                                        *)
(*                                                                         *)
(* An answer is handled with all continuations that wait for it in one     *)
(* step: they are microtasks of one task.                                  *)
(***************************************************************************)
EXTENDS RefreshSessions

CONSTANTS
  Core,    \* the store of createApiClient
  Shared,  \* the store of auth-token.ts
  Boot,    \* the probe of boot()
  Calls    \* later calls of the page, numbered as they are made

VARIABLES
  cookie,    \* refresh_token in the browser's cookie jar
  store,     \* currentAccessToken of each store
  call,      \* the probe and the calls of the page
  expired,   \* access tokens that have expired
  reloaded,  \* the page was reloaded (bound: once)
  mishaps,   \* what disturbed the refreshes so far (history)
  given      \* the access token that a call's refresh returned (history)

\* An access token is named by the refresh token it was issued with.
server == vars
client == <<cookie, store, call, expired, reloaded, mishaps, given>>
clientVars == <<server, client>>

ASSUME ClientAssumption ==
  /\ Core # Shared /\ Calls \subseteq Nat /\ Boot \notin Calls
  /\ 1 \in Tokens /\ Cardinality(Sessions) = 1 /\ None \notin Requests

Stores == {Core, Shared}
Callers == {Boot} \cup Calls
Mishaps == {"overlap", "lost", "body", "reload", "refused"}

\* sent, resent: the first and the second attempt are on their way;
\* refreshing: this call sent POST /auth/refresh, with `cookie`, and the server
\* handles it as `req` once it has arrived; waiting: for another call's refresh
CallRecords == [at: {"idle", "sent", "refreshing", "waiting", "resent", "ok", "unauthorized", "gone"},
                store: Stores, token: Tokens \cup {None},
                cookie: Tokens \cup {None}, req: Requests \cup {None}]

Idle == [at |-> "idle", store |-> Core, token |-> None, cookie |-> None, req |-> None]
Ended(at) == [Idle EXCEPT !.at = at]
Refreshing(k, t) == [Idle EXCEPT !.at = "refreshing", !.store = k, !.cookie = t]

ClientTypeOK ==
  /\ cookie \in Tokens
  /\ store \in [Stores -> Tokens \cup {None}]
  /\ call \in [Callers -> CallRecords]
  /\ expired \subseteq Tokens
  /\ reloaded \in BOOLEAN
  /\ mishaps \subseteq Mishaps
  /\ given \in [Calls -> Tokens \cup {None}]

\* The page is loaded after a login, whose session has one refresh token.
ClientInit ==
  /\ session = [s \in Sessions |-> "open"]
  /\ tok = [t \in Tokens |->
       IF t = 1 THEN NewToken(CHOOSE s \in Sessions : TRUE, None, 0) ELSE NoToken]
  /\ req = [r \in Requests |-> NewRequest]
  /\ locks = {} /\ pool = {} /\ now = 0 /\ known = {1} /\ reused = {}
  /\ cookie = 1
  /\ store = [k \in Stores |-> None]
  /\ call = [c \in Callers |-> IF c = Boot THEN Refreshing(Core, 1) ELSE Idle]
  /\ expired = {}
  /\ reloaded = FALSE
  /\ mishaps = {}
  /\ given = [c \in Calls |-> None]

InFlight(k) == \E c \in Callers : call[c].at = "refreshing" /\ call[c].store = k

Overlaps(k) == \E j \in Stores \ {k} : InFlight(j)

(***************************************************************************)
(* Calls of the page                                                       *)
(***************************************************************************)
Call(c, k) ==
  /\ call[Boot].at = "ok"
  /\ call[c].at = "idle" /\ \A d \in Calls : d < c => call[d].at # "idle"
  /\ call' = [call EXCEPT ![c] = [Idle EXCEPT !.at = "sent", !.store = k, !.token = store[k]]]
  /\ UNCHANGED <<server, cookie, store, expired, reloaded, mishaps, given>>

\* middleware/auth.ts: signature and expiry of the bearer token, no table.
Accepted(t) == t # None /\ t \notin expired

CallAccepted(c) ==
  /\ call[c].at \in {"sent", "resent"} /\ Accepted(call[c].token)
  /\ call' = [call EXCEPT ![c] = Ended("ok")]
  /\ UNCHANGED <<server, cookie, store, expired, reloaded, mishaps, given>>

\* request() refreshes only while it has a token; authedFetch always does.
MayRefresh(k) == k = Shared \/ store[k] # None

\* Mutant: the promise in flight is not looked at.
RefreshAfterAlone(c, k) ==
  /\ call' = [call EXCEPT ![c] = Refreshing(k, cookie)]
  /\ mishaps' = IF Overlaps(k) THEN mishaps \cup {"overlap"} ELSE mishaps

\* doRefresh and refreshSession: join the refresh that the same store has in
\* flight, or start one with the cookie of this moment.
RefreshAfter(c, k) ==
  IF InFlight(k)
  THEN call' = [call EXCEPT ![c] = [Ended("waiting") EXCEPT !.store = k]] /\ UNCHANGED mishaps
  ELSE /\ call' = [call EXCEPT ![c] = Refreshing(k, cookie)]
       /\ mishaps' = IF Overlaps(k) THEN mishaps \cup {"overlap"} ELSE mishaps

CallRejected(c) ==
  /\ call[c].at = "sent" /\ ~Accepted(call[c].token)
  /\ IF MayRefresh(call[c].store) THEN RefreshAfter(c, call[c].store)
     ELSE call' = [call EXCEPT ![c] = Ended("unauthorized")] /\ UNCHANGED mishaps
  /\ UNCHANGED <<server, cookie, store, expired, reloaded, given>>

\* The second attempt is the last one; the record keeps the token it carried.
RetryRejected(c) ==
  /\ call[c].at = "resent" /\ ~Accepted(call[c].token)
  /\ call' = [call EXCEPT ![c] = [Ended("unauthorized") EXCEPT !.token = call[c].token]]
  /\ UNCHANGED <<server, cookie, store, expired, reloaded, mishaps, given>>

(***************************************************************************)
(* POST /auth/refresh                                                      *)
(***************************************************************************)
RefreshArrives(c, r) ==
  /\ call[c].at = "refreshing" /\ call[c].req = None
  /\ RefreshSelect(r, call[c].cookie)
  /\ call' = [call EXCEPT ![c].req = r]
  /\ UNCHANGED <<cookie, store, expired, reloaded, mishaps, given>>

ServerStep(r) ==
  /\ \/ \E t \in Tokens : Rotate(r, t)
     \/ ReplayTokens(r)
     \/ ReplaySession(r) \/ Audit(r)
  /\ UNCHANGED client

RefreshOf(c, r) == call[c].at = "refreshing" /\ call[c].req = r

Awaits(c, k) == call[c].at \in {"refreshing", "waiting"} /\ call[c].store = k

\* Mutant: the calls that waited are sent again with the token they had.
ResumedStale(k, t) ==
  [c \in Callers |->
     CASE Awaits(c, k) /\ t # None /\ c # Boot ->
            [Idle EXCEPT !.at = "resent", !.store = k,
                         !.token = IF call[c].at = "waiting" THEN store[k] ELSE t]
       [] Awaits(c, k) /\ t # None /\ c = Boot ->
            Ended("ok")
       [] Awaits(c, k) /\ t = None ->
            Ended("unauthorized")
       [] OTHER -> call[c]]

\* Mutant: a failed refresh does not settle the promise others wait for.
ResumedOnlyOwner(k, t) ==
  [c \in Callers |->
     CASE Awaits(c, k) /\ t # None ->
            IF c = Boot THEN Ended("ok")
            ELSE [Idle EXCEPT !.at = "resent", !.store = k, !.token = t]
       [] call[c].at = "refreshing" /\ call[c].store = k /\ t = None -> Ended("unauthorized")
       [] OTHER -> call[c]]

\* The promise of store k settles with access token t, or with none: every
\* call that waits for it is sent again, or gives up.
Resumed(k, t) ==
  [c \in Callers |->
     CASE Awaits(c, k) /\ t # None ->
            IF c = Boot THEN Ended("ok")
            ELSE [Idle EXCEPT !.at = "resent", !.store = k, !.token = t]
       [] Awaits(c, k) /\ t = None ->
            Ended("unauthorized")
       [] OTHER -> call[c]]

Settles(k, t) ==
  /\ store' = [store EXCEPT ![k] = t]
  /\ call' = Resumed(k, t)

\* Mutant: the answer's cookie is not taken.
KeepCookie(t) == cookie

\* The browser takes the cookie with the head of the answer.
TakeCookie(t) == t

RefreshSucceeds(c, r) ==
  /\ RefreshOf(c, r)
  /\ Answer(r)
  /\ cookie' = TakeCookie(req[r].token)
  /\ Settles(call[c].store, req[r].token)
  /\ given' = [d \in Calls |->
       IF Awaits(d, call[c].store) THEN req[r].token ELSE given[d]]
  /\ UNCHANGED <<expired, reloaded, mishaps>>

\* The head of the answer arrives, its body does not: res.json() throws.
BodyLost(c, r) ==
  /\ RefreshOf(c, r)
  /\ Answer(r)
  /\ cookie' = TakeCookie(req[r].token)
  /\ Settles(call[c].store, None)
  /\ mishaps' = mishaps \cup {"body"}
  /\ UNCHANGED <<expired, reloaded, given>>

\* Not ok: the token was taken for a replay.
RefreshRefused(c, r) ==
  /\ RefreshOf(c, r)
  /\ req[r].at = "done" /\ req[r].answer # "failed"
  /\ Settles(call[c].store, None)
  /\ mishaps' = mishaps \cup {"refused"}
  /\ UNCHANGED <<server, cookie, expired, reloaded, given>>

\* A statement fails, or the answer is lost, whatever the server has done.
RefreshFails(c, r) ==
  /\ RefreshOf(c, r)
  /\ Fail(r)
  /\ Settles(call[c].store, None)
  /\ mishaps' = mishaps \cup {"lost"}
  /\ UNCHANGED <<cookie, expired, reloaded, given>>

(***************************************************************************)
(* Reloading the page loses the stores and the promises, not the cookie;   *)
(* the server goes on with what it was asked.                              *)
(***************************************************************************)
Reload ==
  /\ ~reloaded
  /\ reloaded' = TRUE
  /\ mishaps' = IF \E k \in Stores : InFlight(k) THEN mishaps \cup {"reload"} ELSE mishaps
  /\ store' = [k \in Stores |-> None]
  /\ call' = [c \in Callers |->
       IF c = Boot THEN Refreshing(Core, cookie)
       ELSE IF call[c].at \in {"idle", "ok", "unauthorized"} THEN call[c] ELSE Ended("gone")]
  /\ UNCHANGED <<server, cookie, expired, given>>

\* The answer to a request of the page that is gone: only its cookie counts.
LeftoverAnswer(r) ==
  /\ \A c \in Callers : ~RefreshOf(c, r)
  /\ \/ Answer(r) /\ cookie' = TakeCookie(req[r].token)
     \/ req[r].at = "answer" /\ Fail(r) /\ UNCHANGED cookie
  /\ UNCHANGED <<store, call, expired, reloaded, mishaps, given>>

\* SESSION_TTL_SEC of an access token that is still in use passes.  (The clock
\* of the server stands still: a refresh token lives far longer.)
Expire(t) ==
  /\ t \notin expired
  /\ (\E k \in Stores : store[k] = t) \/ (\E c \in Calls : call[c].token = t)
  /\ expired' = expired \cup {t}
  /\ UNCHANGED <<server, cookie, store, call, reloaded, mishaps, given>>

Answered(c) == CallAccepted(c) \/ CallRejected(c) \/ RetryRejected(c)

RefreshGoesOn(c) ==
  \E r \in Requests :
    RefreshArrives(c, r) \/ RefreshSucceeds(c, r) \/ BodyLost(c, r)
      \/ RefreshRefused(c, r) \/ RefreshFails(c, r)

ClientNext ==
  \/ \E c \in Calls, k \in Stores : Call(c, k)
  \/ \E c \in Calls : Answered(c)
  \/ \E c \in Callers : RefreshGoesOn(c)
  \/ \E r \in Requests : ServerStep(r) \/ LeftoverAnswer(r)
  \/ \E t \in Tokens : Expire(t)
  \/ Reload

ClientSpec == ClientInit /\ [][ClientNext]_clientVars

\* The server answers what reaches it and the network delivers or fails.
ClientFairSpec ==
  /\ ClientSpec
  /\ \A c \in Callers : WF_clientVars(RefreshGoesOn(c))
  /\ \A c \in Calls : WF_clientVars(Answered(c))
  /\ \A r \in Requests : WF_clientVars(ServerStep(r))

-------------------------------------------------------------------------------
(***************************************************************************)
(* Properties                                                              *)
(***************************************************************************)

\* The user is never logged out by the page itself: the server takes a refresh
\* for a replay only after the refreshes of the two stores overlapped, an
\* answer was lost, or the page was reloaded during a refresh.  (Within one
\* store, refreshInflight keeps any number of calls to one refresh.)
LogoutNeedsMishap ==
  (\E s \in Sessions : session[s] = "revoked") =>
    mishaps \cap {"overlap", "lost", "reload"} # {}

\* A call ends unauthorized only if it got no token because some refresh was
\* refused or failed; or its refresh returned a token, the second attempt carried
\* that very token, and it had expired on the way.  A token that expires between
\* two calls is never the user's concern, whoever sent the refresh.
UnauthorizedForCause ==
  \A c \in Calls : call[c].at = "unauthorized" =>
    \/ given[c] = None /\ mishaps \cap {"lost", "body", "refused"} # {}
    \/ given[c] # None /\ call[c].token = given[c] /\ given[c] \in expired

\* While nothing has disturbed the refreshes at most one is under way.  Until it
\* reaches the server its cookie is one that was never presented; from then on
\* the server works on it only, and holds a fresh token for it or makes one.
OneRefresh ==
  mishaps \cap {"overlap", "lost", "reload"} = {} =>
    /\ reused = {}
    /\ \A c, d \in Callers : call[c].at = "refreshing" /\ call[d].at = "refreshing" => c = d
    /\ \A r \in Requests : req[r].at \notin {"idle", "done"} => \E c \in Callers : RefreshOf(c, r)
    /\ (\A c \in Callers : call[c].at = "refreshing" => call[c].req = None) =>
         cookie \in known /\ ~tok[cookie].presented
    /\ \A c \in Callers : call[c].at = "refreshing" =>
         \/ call[c].req = None /\ call[c].cookie = cookie
         \/ call[c].req # None /\ req[call[c].req].at = "rotate"
         \/ /\ call[c].req # None /\ req[call[c].req].at = "answer"
            /\ ~tok[req[call[c].req].token].presented

\* The probe is the Core store's; later calls start only once it went well, and
\* then Core has a token until a refresh fails; a second attempt carries the token
\* of the call's refresh, and no earlier attempt has one.
CallsFine ==
  /\ call[Boot].at \in {"refreshing", "ok", "unauthorized"}
  /\ call[Boot].at = "refreshing" => call[Boot].store = Core
  /\ call[Boot].at = "ok" => store[Core] # None \/ mishaps \cap {"lost", "body", "refused"} # {}
  /\ \A c \in Calls :
       /\ call[c].at = "sent" => call[Boot].at = "ok"
       /\ call[c].at = "resent" => given[c] # None /\ call[c].token = given[c]
       /\ call[c].at \in {"idle", "sent", "refreshing", "waiting"} => given[c] = None

\* The inductive invariant, on top of that of the server.
ClientInv ==
  IInv /\ now = 0 /\ ClientTypeOK /\ OneRefresh /\ CallsFine /\ UnauthorizedForCause

\* Every call of the page ends, whoever sends the refresh it waits for.
CallsEnd == \A c \in Calls : call[c].at = "sent" ~> call[c].at \in {"ok", "unauthorized", "gone"}

===============================================================================
