---------------------------- MODULE SubMcpAuth ----------------------------
(***************************************************************************)
(* How a user connects a sub-MCP server to an account of its own, and how  *)
(* the tokens of that account reach the calls that are forwarded:          *)
(* services/user-server-oauth.ts (start, callback, cleanupExpired),        *)
(* services/user-server-config.ts (one encrypted row per key) and          *)
(* services/sub-mcp-auth-enricher.ts (the token of a call: from the cache  *)
(* of the process, from the configuration, or by a refresh).               *)
(*                                                                         *)
(* One user and one server.  Every key of the configuration is a row of    *)
(* its own, every await is a point where another request can run, and no   *)
(* request holds a lock.  Requests are numbered in the order they arrive;  *)
(* the number also names what a request brings into being: the client a    *)
(* start registers, the grant (one consent at the provider) a callback     *)
(* obtains, the service-account key a put stores.  A number of a grant or  *)
(* of a key is the identity a token speaks for, 0 is "none".               *)
(***************************************************************************)
EXTENDS Integers

CONSTANTS
  NumRequests,     \* bound: how many requests arrive
  MaxTime,         \* bound: how far the clock runs
  Life,            \* how long the provider's access tokens live (expires_in)
  CacheLife,       \* OAUTH_BEARER_CACHE_MS = GOOGLE_TOKEN_CACHE_MS, 50 minutes
  Margin,          \* the 60 seconds a token must still be good for
  MaxRotations,    \* bound: refresh tokens the provider issues for one grant
  Confidential,    \* whether the provider's registration returns a client secret
  Deletable        \* the keys the user deletes in a run

ASSUME SubMcpAuthAssumption ==
  /\ NumRequests \in Nat /\ MaxTime \in Nat /\ MaxRotations \in Nat \ {0}
  /\ Life \in Nat /\ CacheLife \in Nat /\ Margin \in Nat
  /\ Confidential \in BOOLEAN
  /\ Deletable \subseteq {"client", "secret", "refresh", "access", "expires", "sa"}

VARIABLES
  strategy,   \* DEFAULT_AUTH_STRATEGIES of the server
  now,        \* the clock
  config,     \* user_sub_mcp_config: the rows of this user and server
  flows,      \* user_sub_mcp_oauth_state, by the request that inserted the row
  spent,      \* the codes the provider has exchanged
  grants,     \* the provider's refresh tokens, by grant
  cache,      \* tokenCache of the enricher
  req,        \* the requests
  arrived,    \* how many have arrived
  since,      \* history: when the configured identity last changed
  mishaps     \* history: what has disturbed the requests so far

authVars == <<strategy, now, config, flows, spent, grants, cache, req, arrived, since, mishaps>>

Requests == 1..NumRequests
Identities == 0..NumRequests
Time == 0..MaxTime
Instants == 0..(MaxTime + Life + CacheLife)
Codes == {1, 2}

Tokens == [id : Identities, until : Instants]
RefreshTokens == [grant : Identities, seq : 0..MaxRotations]
NoToken == [id |-> 0, until |-> 0]
NoRefresh == [grant |-> 0, seq |-> 0]

Configs == [client : Identities, secret : Identities, refresh : RefreshTokens,
            access : Tokens, expires : Instants, sa : Identities]
NoConfig == [client |-> 0, secret |-> 0, refresh |-> NoRefresh,
             access |-> NoToken, expires |-> 0, sa |-> 0]

RequestKinds == {"none", "start", "callback", "enrich"}
Steps == {"idle", "register", "setClient", "setSecret", "insert",
          "stated", "asked", "answered", "setAccess", "setExpires", "drop",
          "read", "persisted", "done"}
RequestRecords ==
  [kind : RequestKinds, pc : Steps, flow : Identities, code : {0} \cup Codes,
   read : Configs, refresh : RefreshTokens, token : Tokens, ts : Time]
Absent == [kind |-> "none", pc |-> "idle", flow |-> 0, code |-> 0, read |-> NoConfig,
           refresh |-> NoRefresh, token |-> NoToken, ts |-> 0]

(* A request that has answered keeps nothing.                              *)
Closed == [Absent EXCEPT !.pc = "done"]
Finish(i) == req' = [req EXCEPT ![i] = Closed]
Goto(i, pc) == req' = [req EXCEPT ![i].pc = pc]
At(i, kind, pc) == req[i].kind = kind /\ req[i].pc = pc

Lesser(a, b) == IF a < b THEN a ELSE b

-----------------------------------------------------------------------------
(* Who is in the middle of what.  A start is, from the client it does not  *)
(* find to the one it has stored; a callback holds what is not yet written *)
(* from its exchange to its last upsert, an enrich the successor of a      *)
(* refresh token until it has written it back; and an enrich uses the      *)
(* values it has read until its answer.                                    *)

Starting(i) == req[i].kind = "start" /\ req[i].pc \in {"register", "setClient", "setSecret"}
Holding(i) ==
  \/ req[i].kind = "callback" /\ req[i].pc \in {"answered", "setAccess", "setExpires"}
  \/ At(i, "enrich", "answered") /\ req[i].refresh # req[i].read.refresh
Using(i) == req[i].kind = "enrich" /\ req[i].pc \in {"read", "asked", "answered", "persisted"}

If(condition, cause) == IF condition THEN {cause} ELSE {}
AreMany(S) == \E i, j \in S : i # j
Overlaps ==
  LET starts  == {i \in Requests : Starting(i)}
      writers == {i \in Requests : Holding(i)}
      readers == {i \in Requests : Using(i)} \cup writers IN
  If(AreMany(starts), "starts") \cup If(AreMany(writers), "writers")
    \cup If(AreMany(readers), "readers")

Identity(c) == IF c.sa # 0 THEN c.sa ELSE c.refresh.grant

(* The history.  "starts", "writers", "readers": two of a kind overlapped  *)
(* (for "starts" also: one was cut off, or its client deleted); "lost": a  *)
(* write or an answer with a successor; "late": an expiry written later    *)
(* than the margin after the exchange; "user": a change of the             *)
(* configuration by hand while somebody was using or writing it.           *)
Mishaps == {"starts", "writers", "readers", "lost", "late", "user"}
ByHand == If(\E i \in Requests : Using(i) \/ Holding(i), "user")

Note(causes) ==
  /\ mishaps' = mishaps \cup causes \cup Overlaps'
  /\ since' = IF Identity(config') # Identity(config) THEN now ELSE since

AuthInit ==
  /\ strategy \in {"google-oauth-or-sa", "oauth-bearer"}
  /\ now = 0 /\ arrived = 0
  /\ config = NoConfig
  /\ flows = [f \in Requests |-> [client |-> 0, row |-> "none"]]
  /\ spent = {}
  /\ grants = [g \in Requests |-> [client |-> 0, newest |-> 0]]
  /\ cache = [token |-> NoToken, expires |-> 0]
  /\ req = [i \in Requests |-> Absent]
  /\ since = 0 /\ mishaps = {}

Tick ==
  /\ now < MaxTime
  /\ now' = now + 1
  /\ UNCHANGED <<strategy, config, flows, spent, grants, cache, req, arrived, since, mishaps>>

-----------------------------------------------------------------------------
(* One upsert of the configuration.  It commits or throws; a throw ends    *)
(* the request that made it.                                               *)

Set(i, key, value, pc) ==
  \/ /\ config' = [config EXCEPT ![key] = value]
     /\ Goto(i, pc)
     /\ Note({})
  \/ /\ Finish(i)
     /\ UNCHANGED config
     /\ Note({IF req[i].kind = "start" THEN "starts" ELSE "lost"})

(* PUT /v1/me/servers/:name/config stores a service-account key.           *)
Put ==
  /\ strategy = "google-oauth-or-sa"
  /\ arrived < NumRequests
  /\ arrived' = arrived + 1
  /\ config' = [config EXCEPT !.sa = arrived + 1]
  /\ req' = [req EXCEPT ![arrived + 1] = Closed]
  /\ UNCHANGED <<strategy, now, flows, spent, grants, cache>>
  /\ Note(ByHand)

(* DELETE /v1/me/servers/:name/config/:key.  Whoever deletes the client id *)
(* while an authorisation is under way gives that flow another client.     *)
Delete(key) ==
  /\ arrived < NumRequests
  /\ config[key] # NoConfig[key]
  /\ arrived' = arrived + 1
  /\ config' = [config EXCEPT ![key] = NoConfig[key]]
  /\ req' = [req EXCEPT ![arrived + 1] = Closed]
  /\ UNCHANGED <<strategy, now, flows, spent, grants, cache>>
  /\ Note(ByHand \cup If(key \in {"client", "secret"}, "starts"))

-----------------------------------------------------------------------------
(* start: the client id, registered if there is none (RFC 7591), then the  *)
(* state row, then the URL that carries the client id.                     *)

(* Mutant: a client is registered for every authorisation. *)
StartBeginAnew(i) ==
  /\ i = arrived + 1 /\ i <= NumRequests
  /\ arrived' = i
  /\ req' = [req EXCEPT ![i].kind = "start",
                        ![i].pc = IF strategy = "oauth-bearer"
                                    THEN "register" ELSE "insert",
                        ![i].read.client = config.client]
  /\ UNCHANGED <<strategy, now, config, flows, spent, grants, cache>>
  /\ Note({})

StartBegin(i) ==
  /\ i = arrived + 1 /\ i <= NumRequests
  /\ arrived' = i
  /\ req' = [req EXCEPT ![i].kind = "start",
                        ![i].pc = IF strategy = "oauth-bearer" /\ config.client = 0
                                    THEN "register" ELSE "insert",
                        ![i].read.client = config.client]
  /\ UNCHANGED <<strategy, now, config, flows, spent, grants, cache>>
  /\ Note({})

Register(i) ==
  /\ At(i, "start", "register")
  /\ \/ req' = [req EXCEPT ![i].pc = "setClient", ![i].read.client = i]
     \/ Finish(i)
  /\ UNCHANGED <<strategy, now, config, flows, spent, grants, cache, arrived>>
  /\ Note({})

SetClient(i) ==
  /\ At(i, "start", "setClient")
  /\ Set(i, "client", i, IF Confidential THEN "setSecret" ELSE "insert")
  /\ UNCHANGED <<strategy, now, flows, spent, grants, cache, arrived>>

SetSecret(i) ==
  /\ At(i, "start", "setSecret")
  /\ Set(i, "secret", i, "insert")
  /\ UNCHANGED <<strategy, now, flows, spent, grants, cache, arrived>>

InsertState(i) ==
  /\ At(i, "start", "insert")
  /\ flows' = [flows EXCEPT ![i] =
                 [client |-> req[i].read.client, row |-> "open"]]
  /\ Finish(i)
  /\ UNCHANGED <<strategy, now, config, spent, grants, cache, arrived>>
  /\ Note({})

-----------------------------------------------------------------------------
(* callback (the browser comes back with the state of a flow and a code;   *)
(* the user may consent twice, a reload presents a code again): the state  *)
(* row, the client of the configuration as it is now, the exchange, three  *)
(* upserts, and last the deletion of the state row.                        *)

Presented(f, code) ==
  <<f, code>> \in spent \/ \E j \in Requests : req[j].flow = f /\ req[j].code = code

(* STATE_TTL_MS may have run out: this callback, or the cron job before it *)
(* (cleanupExpired), deletes the row and nobody uses it.                   *)
ReadStateExpired(i, f) ==
  /\ i = arrived + 1 /\ i <= NumRequests
  /\ arrived' = i
  /\ flows[f].row = "open"
  /\ flows' = [flows EXCEPT ![f].row = "gone"]
  /\ req' = [req EXCEPT ![i] = Closed]
  /\ UNCHANGED <<strategy, now, config, spent, grants, cache>>
  /\ Note({})

ReadState(i, f, code) ==
  /\ i = arrived + 1 /\ i <= NumRequests
  /\ arrived' = i
  /\ flows[f].row # "none"
  /\ code = 2 => Presented(f, 1)   \* of two fresh codes it does not matter which
  /\ IF flows[f].row = "open"
       THEN req' = [req EXCEPT ![i].kind = "callback", ![i].pc = "stated",
                               ![i].flow = f, ![i].code = code]
       ELSE Finish(i)
  /\ UNCHANGED <<strategy, now, config, flows, spent, grants, cache>>
  /\ Note({})

ReadClient(i) ==
  /\ At(i, "callback", "stated")
  /\ \/ /\ strategy = "oauth-bearer" /\ config.client = 0
        /\ Finish(i)
     \/ /\ strategy = "oauth-bearer" => config.client # 0
        /\ req' = [req EXCEPT ![i].pc = "asked", ![i].read.client = config.client,
                              ![i].read.secret = config.secret]
  /\ UNCHANGED <<strategy, now, config, flows, spent, grants, cache, arrived>>
  /\ Note(If(\E j \in Requests : Starting(j), "starts"))

(* The provider exchanges a code once, for the client it was issued to and *)
(* with that client's secret.  An answer that is lost, an error or one     *)
(* without a refresh token ends the callback, the code may be spent.       *)
Secret(client) == IF Confidential THEN client ELSE 0
ClientAccepted(i, client) == req[i].read.client = client /\ req[i].read.secret = Secret(client)

Exchange(i) ==
  /\ At(i, "callback", "asked")
  /\ \/ /\ ClientAccepted(i, flows[req[i].flow].client)
        /\ <<req[i].flow, req[i].code>> \notin spent
        /\ spent' = spent \cup {<<req[i].flow, req[i].code>>}
        /\ grants' = [grants EXCEPT ![i] =
                        [client |-> req[i].read.client, newest |-> 1]]
        /\ req' = [req EXCEPT ![i].pc = "answered",
                              ![i].refresh = [grant |-> i, seq |-> 1],
                              ![i].token = [id |-> i, until |-> now + Life]]
     \/ /\ spent' \in {spent, spent \cup {<<req[i].flow, req[i].code>>}}
        /\ Finish(i) /\ UNCHANGED grants
  /\ UNCHANGED <<strategy, now, config, flows, cache, arrived>>
  /\ Note({})

SetRefresh(i) ==
  /\ At(i, "callback", "answered")
  /\ Set(i, "refresh", req[i].refresh, "setAccess")
  /\ UNCHANGED <<strategy, now, flows, spent, grants, cache, arrived>>

SetAccess(i) ==
  /\ At(i, "callback", "setAccess")
  /\ Set(i, "access", req[i].token, "setExpires")
  /\ UNCHANGED <<strategy, now, flows, spent, grants, cache, arrived>>

(* The expiry is counted from the moment it is written (now() after two    *)
(* upserts), not from the exchange: an answer older than the margin        *)
(* promises more life than the token has.  An answer without expires_in    *)
(* leaves the row as it is.                                                *)
SetExpires(i) ==
  /\ At(i, "callback", "setExpires")
  /\ \/ /\ config' = [config EXCEPT !.expires = now + Life]
        /\ Goto(i, "drop")
        /\ Note(If(now + Life > req[i].token.until + Margin, "late"))
     \/ /\ Goto(i, "drop")
        /\ UNCHANGED config
        /\ Note({})
     \/ /\ Finish(i)
        /\ UNCHANGED config
        /\ Note({"lost"})
  /\ UNCHANGED <<strategy, now, flows, spent, grants, cache, arrived>>

DropState(i) ==
  /\ At(i, "callback", "drop")
  /\ \/ flows' = [flows EXCEPT ![req[i].flow].row = "gone"]
     \/ UNCHANGED flows
  /\ Finish(i)
  /\ UNCHANGED <<strategy, now, config, spent, grants, cache, arrived>>
  /\ Note({})

-----------------------------------------------------------------------------
(* enrich: all values of the configuration in one read, then without an    *)
(* await the cache, the stored token, or the request to the provider.      *)

EnrichRead(i) ==
  /\ i = arrived + 1 /\ i <= NumRequests
  /\ arrived' = i
  /\ req' = [req EXCEPT ![i].kind = "enrich", ![i].pc = "read", ![i].read = config]
  /\ UNCHANGED <<strategy, now, config, flows, spent, grants, cache>>
  /\ Note({})

Complete(c) == /\ c.sa # 0 \/ c.refresh # NoRefresh
               /\ strategy = "oauth-bearer" => c.client # 0
Fresh(expires) == expires > now + Margin
StoredFresh(c) == strategy = "oauth-bearer" /\ c.access # NoToken /\ Fresh(c.expires)

(* What is served without asking the provider.                             *)
Serves(c) == Complete(c) /\ (Fresh(cache.expires) \/ StoredFresh(c))
Served(c) == IF Fresh(cache.expires) THEN cache.token ELSE c.access

(* Mutant: the stored token is cached as long as it lives. *)
DecideUncapped(i) ==
  /\ At(i, "enrich", "read")
  /\ LET c == req[i].read IN
     \/ /\ ~Complete(c)
        /\ Finish(i) /\ UNCHANGED cache
     \/ /\ Serves(c)
        /\ cache' = IF Fresh(cache.expires) THEN cache
                    ELSE [token |-> c.access, expires |-> c.expires]
        /\ Finish(i)
     \/ /\ Complete(c) /\ ~Serves(c)
        /\ req' = [req EXCEPT ![i].pc = "asked", ![i].ts = now,
                              ![i].read.access = NoToken, ![i].read.expires = 0]
        /\ UNCHANGED cache
  /\ UNCHANGED <<strategy, now, config, flows, spent, grants, arrived>>
  /\ Note({})

Decide(i) ==
  /\ At(i, "enrich", "read")
  /\ LET c == req[i].read IN
     \/ /\ ~Complete(c)
        /\ Finish(i) /\ UNCHANGED cache
     \/ /\ Serves(c)
        /\ cache' = IF Fresh(cache.expires) THEN cache
                    ELSE [token |-> c.access, expires |-> Lesser(c.expires, now + CacheLife)]
        /\ Finish(i)
     \/ /\ Complete(c) /\ ~Serves(c)
        /\ req' = [req EXCEPT ![i].pc = "asked", ![i].ts = now,
                              ![i].read.access = NoToken, ![i].read.expires = 0]
        /\ UNCHANGED cache
  /\ UNCHANGED <<strategy, now, config, flows, spent, grants, arrived>>
  /\ Note({})

(* A service account signs a grant of its own; a refresh token is accepted *)
(* from its client, one that has a successor perhaps, perhaps not (a       *)
(* provider may stop accepting it at any moment, RefreshFails).  The       *)
(* provider may answer with a successor (GitHub always does).              *)
Newest(r) == r.grant # 0 /\ r.seq = grants[r.grant].newest

SignGrant(i) ==
  /\ At(i, "enrich", "asked") /\ req[i].read.sa # 0
  /\ \/ req' = [req EXCEPT ![i].pc = "answered", ![i].refresh = req[i].read.refresh,
                           ![i].token = [id |-> req[i].read.sa, until |-> now + Life]]
     \/ Finish(i)
  /\ UNCHANGED <<strategy, now, config, flows, spent, grants, cache, arrived>>
  /\ Note({})

Refresh(i) ==
  /\ At(i, "enrich", "asked") /\ req[i].read.sa = 0
  /\ LET r == req[i].read.refresh IN
     /\ r.grant # 0 /\ ClientAccepted(i, grants[r.grant].client)
     /\ req' = [req EXCEPT ![i].pc = "answered", ![i].refresh = r,
                           ![i].token = [id |-> r.grant, until |-> now + Life]]
  /\ UNCHANGED <<strategy, now, config, flows, spent, grants, cache, arrived>>
  /\ Note({})

RefreshRotating(i) ==
  /\ At(i, "enrich", "asked") /\ strategy = "oauth-bearer"
  /\ LET r == req[i].read.refresh
         next == grants[r.grant].newest + 1 IN
     /\ r.grant # 0 /\ ClientAccepted(i, grants[r.grant].client)
     /\ next <= MaxRotations
     /\ grants' = [grants EXCEPT ![r.grant].newest = next]
     /\ \/ req' = [req EXCEPT ![i].pc = "answered",
                              ![i].refresh = [grant |-> r.grant, seq |-> next],
                              ![i].token = [id |-> r.grant, until |-> now + Life]]
        \/ Finish(i)            \* the answer is lost
  /\ UNCHANGED <<strategy, now, config, flows, spent, cache, arrived>>
  /\ Note(If(req'[i].pc = "done", "lost"))

RefreshFails(i) ==
  /\ At(i, "enrich", "asked")
  /\ Finish(i)
  /\ UNCHANGED <<strategy, now, config, flows, spent, grants, cache, arrived>>
  /\ Note({})

(* The successor is written back.  A failure is swallowed: the call gets   *)
(* its token, the next refresh fails.                                      *)
Rotated(i) == req[i].refresh # req[i].read.refresh

(* Mutant: the successor is not written back. *)
PersistNot(i) ==
  /\ At(i, "enrich", "answered") /\ Rotated(i)
  /\ Goto(i, "persisted")
  /\ UNCHANGED <<strategy, now, config, flows, spent, grants, cache, arrived>>
  /\ Note({})

Persist(i) ==
  /\ At(i, "enrich", "answered") /\ Rotated(i)
  /\ Goto(i, "persisted")
  /\ \/ /\ config' = [config EXCEPT !.refresh = req[i].refresh]
        /\ Note({})
     \/ /\ UNCHANGED config
        /\ Note({"lost"})
  /\ UNCHANGED <<strategy, now, flows, spent, grants, cache, arrived>>

(* Mutant: the expiry is counted from the end of the refresh. *)
RememberFromNow(i) ==
  /\ \/ At(i, "enrich", "persisted")
     \/ At(i, "enrich", "answered") /\ ~Rotated(i)
  /\ cache' = [token |-> req[i].token, expires |-> now + Lesser(Life, CacheLife)]
  /\ Finish(i)
  /\ UNCHANGED <<strategy, now, config, flows, spent, grants, arrived>>
  /\ Note({})

Remember(i) ==
  /\ \/ At(i, "enrich", "persisted")
     \/ At(i, "enrich", "answered") /\ ~Rotated(i)
  /\ cache' = [token |-> req[i].token, expires |-> req[i].ts + Lesser(Life, CacheLife)]
  /\ Finish(i)
  /\ UNCHANGED <<strategy, now, config, flows, spent, grants, arrived>>
  /\ Note({})

(* The process ends and starts again: the cache and every request are      *)
(* gone, the rows stay.                                                    *)
ProcessRestart ==
  /\ \E i \in Requests : req[i].pc \notin {"idle", "done"}
  /\ req' = [i \in Requests |-> IF req[i].pc \in {"idle", "done"} THEN req[i]
                                ELSE Closed]
  /\ cache' = [token |-> NoToken, expires |-> 0]
  /\ UNCHANGED <<strategy, now, config, flows, spent, grants, arrived>>
  /\ Note(If(\E i \in Requests : Starting(i), "starts")
          \cup If(\E i \in Requests : Holding(i), "lost"))

StartSteps(i) == StartBegin(i) \/ Register(i) \/ SetClient(i) \/ SetSecret(i) \/ InsertState(i)
CallbackSteps(i) == \/ ReadClient(i) \/ Exchange(i) \/ SetRefresh(i)
                    \/ SetAccess(i) \/ SetExpires(i) \/ DropState(i)
EnrichSteps(i) == \/ EnrichRead(i) \/ Decide(i) \/ SignGrant(i) \/ Refresh(i)
                  \/ RefreshRotating(i) \/ RefreshFails(i) \/ Persist(i) \/ Remember(i)

AuthNext ==
  \/ Tick \/ Put \/ ProcessRestart
  \/ \E key \in Deletable : Delete(key)
  \/ \E i, f \in Requests : ReadStateExpired(i, f) \/ \E c \in Codes : ReadState(i, f, c)
  \/ \E i \in Requests : StartSteps(i) \/ CallbackSteps(i) \/ EnrichSteps(i)

AuthSpec == AuthInit /\ [][AuthNext]_authVars

-----------------------------------------------------------------------------
(* Every variable has its type.                                            *)
AuthTypeOK ==
  /\ strategy \in {"google-oauth-or-sa", "oauth-bearer"}
  /\ now \in Time /\ arrived \in 0..NumRequests
  /\ config \in Configs
  /\ flows \in [Requests -> [client : Identities, row : {"none", "open", "gone"}]]
  /\ spent \subseteq Identities \X ({0} \cup Codes)
  /\ grants \in [Requests -> [client : Identities, newest : 0..MaxRotations]]
  /\ cache \in [token : Tokens, expires : Instants]
  /\ req \in [Requests -> RequestRecords]
  /\ since \in Time /\ mishaps \subseteq Mishaps

(* The refresh token in the configuration has no successor, so that the    *)
(* provider accepts it, however calls that use the old one overlap with    *)
(* those that have a new one: the successor of a rotating provider is      *)
(* written back before the next refresh needs it                           *)
(* (sub-mcp-auth-enricher.ts:439-463, "ohne Persistenz: erster Refresh     *)
(* klappt, zweiter failed"), and a new consent replaces it - unless two    *)
(* requests held new tokens at once, or one was lost.                      *)
RefreshTokenAccepted ==
  \/ config.refresh = NoRefresh \/ Newest(config.refresh)
  \/ mishaps \cap {"writers", "lost"} # {} \/ \E i \in Requests : Holding(i)

(* A code is presented with the client, and the secret of the client, that *)
(* the authorisation URL named, although callback reads the configuration  *)
(* again and the state row does not keep the client - unless two starts    *)
(* that both found no client overlapped, one was cut off between its two   *)
(* upserts, or the user deleted the client (user-server-oauth.ts:306-316,  *)
(* 404-427).                                                               *)
CodeGoesToItsClient ==
  \A i \in Requests :
    At(i, "callback", "asked") =>
      "starts" \in mishaps \/ ClientAccepted(i, flows[req[i].flow].client)

(* The token an enrich would be served from the cache or from the          *)
(* configuration has not expired at the provider, whatever was written,    *)
(* cut off or deleted when - unless two requests held new tokens at once   *)
(* (the expiry of one consent beside the token of another), or the expiry  *)
(* was written later than the margin after the exchange                    *)
(* (user-server-oauth.ts:471-477, sub-mcp-auth-enricher.ts:363-382).       *)
ServedTokenAlive ==
  Serves(config) => mishaps \cap {"writers", "late"} # {} \/ Served(config).until > now

(* That token belongs to the account or the service account that is        *)
(* configured; after a change (nothing empties the cache, invalidate has   *)
(* no caller) the old one is served for less than the lifetime of a cache  *)
(* entry - unless an enrich overlapped with another, with a callback or    *)
(* with the change.  Between the upserts of a callback nothing is          *)
(* promised, nor after one that was cut off there.                         *)
ServedIdentity ==
  Serves(config) => \/ mishaps \cap {"readers", "lost", "user"} # {}
                    \/ \E i \in Requests : Holding(i)
                    \/ Served(config).id = Identity(config)
                    \/ now + Margin < since + CacheLife
-----------------------------------------------------------------------------
(* The inductive invariant of the proofs in GatewayProofs.                 *)

(* Without the mishap that is named after it, nobody overlaps.             *)
AtMostOne(S) == \A i, j \in S : i = j
Starters == {i \in Requests : Starting(i)}
Writers == {i \in Requests : Holding(i)}
Readers == {i \in Requests : Using(i)} \cup Writers
OneByOne ==
  /\ "starts" \in mishaps \/ AtMostOne(Starters)
  /\ "writers" \in mishaps \/ AtMostOne(Writers)
  /\ "readers" \in mishaps \/ AtMostOne(Readers)

(* Who has not arrived has done nothing; a bearer server has no service    *)
(* account; a refresh token that is anywhere was issued by the provider,   *)
(* and a grant is the work of one callback, which is past its exchange.    *)
Unarrived == \A i \in Requests : i > arrived => req[i] = Absent
NoServiceAccount ==
  strategy = "oauth-bearer" =>
    config.sa = 0 /\ \A i \in Requests : req[i].read.sa = 0
Issued(r) ==
  \/ r = NoRefresh
  \/ r.grant # 0 /\ 1 <= r.seq /\ r.seq <= grants[r.grant].newest
AllIssued ==
  /\ Issued(config.refresh)
  /\ \A i \in Requests : Issued(req[i].read.refresh) /\ Issued(req[i].refresh)
  /\ \A g \in Requests : grants[g].newest # 0 =>
       \/ req[g].pc = "done"
       \/ req[g].kind = "callback"
            /\ req[g].pc \in {"answered", "setAccess", "setExpires", "drop"}

(* The client of the configuration is the client of every open flow.       *)
ClientKnown == strategy = "oauth-bearer" => config.client # 0
StartAgrees(i) ==
  /\ Starting(i) => strategy = "oauth-bearer"
  /\ At(i, "start", "register") => config.client = 0
  /\ At(i, "start", "setClient") => config.client = 0 /\ req[i].read.client = i
  /\ At(i, "start", "setSecret") =>
       Confidential /\ config.client = i /\ req[i].read.client = i
  /\ At(i, "start", "insert") => req[i].read.client = config.client /\ ClientKnown
CallbackAgrees(i) ==
  /\ req[i].kind = "callback" =>
       req[i].flow \in Requests /\ flows[req[i].flow].row # "none"
  /\ At(i, "callback", "asked") => ClientAccepted(i, config.client)
ClientsAgree ==
  \/ "starts" \in mishaps
  \/ /\ (\A i \in Requests : ~At(i, "start", "setSecret"))
          => config.secret = Secret(config.client)
     /\ \A i \in Requests : StartAgrees(i) /\ CallbackAgrees(i)
     /\ \A f \in Requests : flows[f].row # "none" =>
          flows[f].client = config.client /\ ClientKnown

(* A refresh token without a successor is with the one who holds it, or in *)
(* the configuration.                                                      *)
Carrying(i) == Holding(i) /\ req[i].pc = "answered"
NewestKept ==
  \/ mishaps \cap {"writers", "lost"} # {}
  \/ /\ \A i \in Requests : Carrying(i) => Newest(req[i].refresh)
     /\ (\A i \in Requests : ~Carrying(i)) =>
          config.refresh = NoRefresh \/ Newest(config.refresh)

(* No expiry promises more than the token has, but for the margin.         *)
Truthful(c) == c.access = NoToken \/ c.expires <= c.access.until + Margin
TimesPast ==
  /\ config.expires <= now + Life
  /\ cache.expires <= now + CacheLife
  /\ \A i \in Requests :
       /\ req[i].ts <= now
       /\ req[i].kind = "enrich" /\ req[i].pc \in {"answered", "persisted"}
            => req[i].ts + Life <= req[i].token.until
ExpiryAgrees(i) ==
  /\ At(i, "enrich", "read") => Truthful(req[i].read)
  /\ req[i].kind = "callback" /\ req[i].pc \in {"answered", "setAccess"}
       => config.expires <= req[i].token.until + Margin
  /\ At(i, "callback", "setExpires") => config.access \in {NoToken, req[i].token}
ExpiriesAgree ==
  \/ mishaps \cap {"writers", "late"} # {}
  \/ /\ Truthful(config)
     /\ cache.expires <= cache.token.until + Margin
     /\ \A i \in Requests : ExpiryAgrees(i)

(* The stored token is of the stored consent, the cached one of the        *)
(* configured identity, or so old that it soon leaves the cache.           *)
Belongs(c) == c.access = NoToken \/ c.refresh.grant = 0 \/ c.access.id = c.refresh.grant
Midway(i) == req[i].kind = "callback" /\ req[i].pc \in {"answered", "setAccess"}
IdentityAgrees(i) ==
  /\ Using(i) => /\ req[i].read.sa = config.sa
                 /\ req[i].read.refresh.grant = config.refresh.grant
  /\ At(i, "enrich", "read") => Belongs(req[i].read)
  /\ req[i].kind = "enrich" /\ req[i].pc \in {"answered", "persisted"}
       => /\ req[i].token.id = Identity(config)
          /\ req[i].refresh.grant = config.refresh.grant
  /\ At(i, "callback", "answered") => req[i].refresh.grant = req[i].token.id
  /\ At(i, "callback", "setAccess") => config.refresh.grant = req[i].token.id
IdentitiesAgree ==
  \/ mishaps \cap {"readers", "lost", "user"} # {}
  \/ /\ (\A i \in Requests : ~Midway(i)) => Belongs(config)
     /\ \A i \in Requests : IdentityAgrees(i)
     /\ cache.token.id = Identity(config) \/ cache.expires <= since + CacheLife

AuthInv ==
  /\ AuthTypeOK /\ OneByOne /\ Unarrived /\ NoServiceAccount /\ AllIssued
  /\ ClientsAgree /\ NewestKept /\ TimesPast /\ ExpiriesAgree /\ IdentitiesAgree
=============================================================================
