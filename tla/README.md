# Verification of mcp-approval2

`mcp-approval2` is a server that offers tools to MCP clients (language models) and lets a human approve the
calls that write. It is one Node.js process (or a few of them) over one PostgreSQL database, with a PWA for the
human, an OAuth server for the MCP clients, and a gateway to further MCP servers. This directory holds TLA+
modules of its concurrent parts, TLC configurations that check them, and proofs checked by TLAPS.

Paths without a prefix are below `apps/server/src/`. `PROJECT.json` lists every definition with the lines it
models, every run, every mutant, every known hazard and every proved theorem.

## 1. The system

The process is single-threaded: code runs without interruption from one `await` to the next, and any other
request, cron job or callback may run at each `await`. So the interesting interleavings are those of handlers
cut at their awaits, that is at database statements, WebAuthn checks and HTTP calls. Two or more instances on
one database add nothing to that for state in the database; state in memory is per instance.

The database adapter (`packages/adapters/src/db/postgres.ts`) offers three ways in:

| call | meaning | how it is modelled |
| --- | --- | --- |
| `unsafe(reason).query` | each statement commits on its own | one action per statement |
| `transaction(user, fn)` | READ COMMITTED; rolled back when `fn` throws | one action at COMMIT if nothing waits inside, else one per statement |
| `scoped(user)` | `BEGIN`; committed only by `release()` | no caller calls `release()`: writes stay invisible, their row locks and the connection held until the instance stops |

### Inventory

| component (sources) | state | operations | what is hard | what makes it correct | module |
| --- | --- | --- | --- | --- | --- |
| **approval queue** (`services/approvals.ts`, `routes/approvals.ts`, `mcp/protocol/approval-resume.ts`, part of `transport.ts`, `cron/sweep-executing-approvals.ts`) | `pending_approvals` rows: status, deadline, extensions, result | enqueue, read, list, approve (+ run the tool), reject, extend, resume by approval id, set result, sweep | status read, WebAuthn await, status read again, update; two paths run the tool; deadline passing in between; death after the tool ran | nothing runs unsigned; decisions final and on time; one approve wins; extensions bounded; every approval leaves the queue | `ApprovalRows`, `ApprovalFlow`, `ApprovalLifecycle`, `ApprovalProofs` |
| **login sessions** (`auth/session/`, `routes/auth/session.ts`, `middleware/auth.ts`) | `sessions`, `refresh_tokens`; row locks of open transactions | login, rotate, replay detection, logout, access check | rotation decides on a row read outside its transaction; lost answers; logout that never commits and keeps its connection | atomic handover; only reuse ends a session; a buried session stays dead | `RefreshSessions`, `SessionProofs` |
| **browser client's refresh** (`apps/web/src/auth-token.ts`, `api.ts`, `auth.ts`, `main.ts`) | two stores of access tokens, each with a promise for the refresh in flight; the refresh cookie | boot probe, call, refresh on 401, one retry, reload | the two stores share one rotating cookie and know nothing of each other | the page never logs its user out by itself; a 401 has a cause; every call ends | `WebClient` over `RefreshSessions`, `SessionProofs` |
| **OAuth authorization server** (`mcp/oauth/`) | `oauth_authz_codes`, `oauth_refresh_tokens`, consents | authorize, consent, redeem, refresh, revoke | one-shot codes and rotations in separate statements; consent that never commits | tokens stay with their client; only reuse or a revocation ends a family; it stays ended | `OAuthTokens`, `OAuthProofs` |
| **MCP transport, dispatch gate, gateway forwarder** (`mcp/protocol/transport.ts`, `registry.ts`, `mcp/gateway/wrapper_tools.ts`, `forwarder.ts`) | `CancelRegistry` keyed by JSON-RPC id | tools/call from arrival to answer, cancelled; gate by sensitivity and write mode; send, session handshake, retry, timer | ids of different sessions collide; a cancellation before, during or after the exchange; a timer that stops at the headers | a cancellation reaches its own call, is final, and a call hangs only where it has no timer | `ToolCalls`, `ToolCallsProofs` |
| **sub-MCP gateway, live refresh** (`mcp/gateway/refresh.ts`, `registry.ts`, `discovery.ts`, `tools/gateway-mgmt-tools.ts`) | `sub_mcp_servers` rows, the in-memory slot over them, registered wrappers, tracker of wrapper names | discover, store tools and schema, drop and re-register wrappers, add/toggle/remove, lookup | refreshes started from four places overlap at every await; slot refilled by a load in flight | tracker sound, exact without overlap; a broken server costs no other its tools | `GatewayRefresh`, `GatewayProofs` |
| **passkeys, write mode, recovery** (`auth/webauthn/`, `routes/auth/webauthn.ts`, `routes/writemode.ts`, `services/writemode.ts`, `auth/recovery/email.ts`) | credentials with signature counters, login challenges, `write_mode` rows, recovery requests | enrol, log in, approve, activate, deactivate, recover | counter read, compared and written without a condition; an assertion presented late or again; a window that opens late | a counted assertion is accepted once unless verifications overlap; one session per challenge; write mode never outlives what was signed | `Passkeys`, `PasskeysProofs` |
| **user administration, GDPR erasure** (`services/admin.ts`, `services/gdpr.ts`, `routes/admin.ts`, `routes/gdpr.ts`) | `users.status` and `role`, `gdpr_erase_queue`, per-user rows | suspend, unsuspend, change role, soft delete; request, cancel, hard erase | a dozen autocommitted statements, each of which may fail; cancellation and logins meanwhile; what one operation revokes the other does not check | an erasure recorded as completed is complete, and is not done twice at once | `Accounts`, `AccountsProofs` |
| **logins, invites, bootstrap** (`routes/auth/google.ts`, `routes/auth/webauthn.ts`, `auth/invite/`, `auth/bootstrap.ts`) | `users`, `invites`, `sessions` | Google and passkey login, accept an invite, first administrator | status and role are read statements before the session is made; users counted in one statement, administrator inserted in another; invite used up before the account is accepted | sessions only for active users, tokens with a true role | `Accounts` (creating invites not modelled) |
| **sub-MCP user OAuth, auth enricher** (`services/user-server-oauth.ts`, `user-server-config.ts`, `sub-mcp-auth-enricher.ts`) | `user_sub_mcp_oauth_state`, encrypted configuration, token cache | start with dynamic registration, callback, enrich, disconnect, cleanup | state row deleted after the exchange; one upsert per key; two refreshes with one rotating token; a cache nothing empties | the stored refresh token is one the provider accepts; a code goes to its client; what is served is alive and of the configured account | `SubMcpAuth`, `GatewayProofs` |
| **apps, composable layouts** (`apps/`) | layouts with versions in the knowledge service | create, invoke an action of a block, replace, delete | version conflict and one retry; lost answers; arithmetic of the blocks | calls take effect one at a time; accepted actions keep a block valid; streaks and timers right | `AppBlocks`, `Apps`, `SerialApp`, `AppsProofs` |
| database adapter (`packages/adapters/src/db/postgres.ts`) | ten pool connections | see the table above | `scoped()` keeps a connection for ever | a request waits only for what logouts hold | its effects on the handlers in all modules; the pool in `RefreshSessions` |
| credential vault, data keys (`services/credentials.ts`, `dek.ts`, `prf-session.ts`) | sealed secrets, wrapped data keys, PRF sessions in memory | create, read, update, delete, rotate, destroy | sealing under a key that is being replaced | every stored secret can be opened | not modelled: rotation and destruction of a data key have no caller, the rest is single rows |
| rate limit, cost gate (`middleware/`, `services/cost-tracker.ts`) | token buckets in memory; `cost_ledger` | consume; check before, record after | overlap between check and record | - | not modelled: nothing calls `record`, and a bucket is changed without an await |
| e-mail outbox, push, reminders (`services/email-outbox.ts`, `push.ts`, `cron/reminders.ts`) | `email_outbox`, `push_subscriptions` | send, resend, mark; subscribe, send, drop gone | sent before it is recorded | - | not modelled: one send and one INSERT each; the reminder job does nothing |
| tool defaults, profiles, preferences, hints (`services/tool-default*.ts`, `prefs.ts`) | per-user rows, one active profile | set, activate, delete | switch of the active profile | at most one active | not modelled: single rows, and the switch is one transaction |
| user tool cache, subscriptions (`services/user-sub-mcp-tool-cache.ts`, `user-subscriptions.ts`) | a table each | upsert, read | - | - | the check of a subscription is in `ToolCalls` |
| audit log and sinks (`services/audit*.ts`) | append-only rows | emit, fan out | sink failure | - | not modelled |
| output references, IPI filter (`services/output-refs.ts`, `mcp/protocol/ipi-filter.ts`) | rows with a time to live | store, resolve, sweep | text matching | - | not modelled |
| identity provider, knowledge client and proxies (`auth/idp/`, `services/knowledge.ts`, `routes/kc-proxy.ts`) | none | signed HTTP calls | external | - | not modelled; what the apps ask of the knowledge service is in `Apps` |
| cron dispatcher (`cron/index.ts`) | none | a switch over jobs | - | jobs are actions of their components | - |
| native tools (`tools/`), Cloudflare variant (`cf/`), views of the web application (`apps/web`), core and adapters (`packages/`), deployment | - | wrappers, an alternative deployment, rendering, primitives | - | - | not modelled |

How they interact. An MCP client gets a token from the OAuth server, which trusts the login session of the user;
it calls a tool through the transport; the registry asks write mode or raises `ApprovalRequiredError`; the
transport then enqueues an approval; the PWA, authenticated by the login session and a WebAuthn assertion,
decides it and runs the tool, or the client resumes it by its id; forwarded tools are wrappers that the gateway
registered. Cron jobs sweep approvals and refresh the gateway. In the models this interaction shows as requests
that come in any order: who may send one is a guard of its first action.

## 2. Plan

| order | module | content | abstract specification or composition | status |
| --- | --- | --- | --- | --- |
| 1 | `ApprovalRows` | the row and its SQL statements as operators | used by `ApprovalFlow` | done |
| 2 | `ApprovalFlow` | all handlers and the sweep, cut at their awaits | implements `ApprovalLifecycle` (checked and proved) | done, proved |
| 3 | `RefreshSessions` | login sessions | server of `WebClient` | done, proved |
| 4 | `OAuthTokens` | authorization server | - | done, proved |
| 5 | `GatewayRefresh` | live refresh | - | done, proved |
| 6 | `Accounts` | logins, invites, bootstrap, administration, erasure | - | done, proved |
| 7 | `AppBlocks`, `Apps` | blocks of an app, versioned writes | implements `SerialApp` (checked and proved) | done; the refinement proved for any blocks, the blocks for any lists and limits |
| 8 | `ToolCalls` | transport, gate and forwarder | - | done, proved |
| 9 | `Passkeys` | passkeys, write mode, recovery | - | done, proved |
| 10 | `SubMcpAuth` | rotating provider tokens of a user | - | done, proved |
| 11 | `WebClient` | the browser's token stores | composed with `RefreshSessions` | done, proved but for `CallsEnd` |
| 12 | proofs of the blocks' arithmetic and lists | `TimerNeverGains`, `ConformingAccepted`, `StreaksRight` | - | done |
| 13 | `ToolCalls` with `ApprovalFlow` | one call from arrival to its approval | composition | open |

## 3. Modules and code

Conventions. A request handler is a record in `req` (or `job`): `at` names the database access or call it makes
next, so each `await` of the handler is a place where others can run; `ts` is the `Date.now()` the handler read and
keeps using. An action does everything the code does up to the next await. A request that dies (`Crash`, `Fail`,
`Restart`) leaves committed rows and nothing else. History variables, marked so where they are declared, record
what a client presented or asked for; no guard reads them. Definitions that begin with a comment "Mutant:" are
deliberate errors that are part of no specification: `PROJECT.json` names which property each of them breaks.

### Approval queue
`ApprovalRows` has one operator per SQL statement on a row (`InsertRow`, `ExpireIfOverdue`, `DecideIfPending`,
`ExtendIfAllowed`, `SetResultOnce`). In `ApprovalFlow` a request walks through

    approve:  begun -> verify -> select -> update -> dispatch -> publish -> published/unpublished
    resume:   begun -> dispatch -> done          reject, extend, read, list: begun (-> select -> update) -> done

`begun` is the first read, which expires an overdue row; `verify` the WebAuthn check; `select` and `update` the
two statements of `approve()`; `dispatch` the tool; `publish` the `setResult` after it. The update of `approve()`
asks for `status = 'pending'` again, which is what makes one approve win. `sweep` is the cron job, `signed` and
`runs` are histories. All requests carry the owner's user id: for another user no statement matches a row.
`ApprovalLifecycle` is what a client may rely on: absent, pending, then exactly one of the final decisions, the
tool only while approved, a result set once.

### Login sessions
`RefreshSessions` has rows of `sessions` and `refresh_tokens`. Rotation is a SELECT (`RefreshSelect`), then one
transaction that inserts the new token and revokes the old (`Rotate`; it waits for locked rows). A token found
revoked is a replay: `ReplayTokens`, `ReplaySession`, two autocommitted statements. Logout runs on `scoped()`:
`LogoutTokens` and `LogoutSession` only add to `locks`. `Audit` is the row in the audit log, the last statement of a
refresh and of a logout; `Access` reads no table, as `auth()` does when it is given no `isJtiRevoked`.

`pool` names the requests that hold a connection of the pool from one step to the next: a logout from `LogoutTokens`
until the instance stops, and a handler that waits for a row a logout has locked (`WaitForRow`). A statement of anybody
else takes a connection and gives it back in its step, and needs one to be left (`ConnectionLeft`); `postgres.js` waits
for one without a limit.

### OAuth authorization server
`OAuthTokens`: `Authorize`/`Allow`/`RecordConsent`/`IssueCode` for the consent page, `Redeem`/`MarkUsed`/
`IssueToken`/`Answer` for a code, `Refresh`/`Rotate`/`IssueToken`/`Answer` or `RevokeReplayed` for a refresh
token, `Revoke`/`RevokeAsked` for a revocation. Every statement commits on its own except the consent's INSERT,
which stays in `consenting`. A family is named by the request that redeemed its code, as `randomUUID()` names it.
The PKCE and redirect checks are one boolean, `verifies`.

### Gateway refresh
`GatewayRefresh`: a refresh lists the enabled servers through the slot, asks each (`Fetch`), stores tools and
schema, invalidates the slot, then drops the wrappers of the servers that answered and registers them from the
table. Where the slot is held the whole second half is one step (`DeregisterAndRebuild`), else the table read
splits it (`Deregister`, `SelectRows`, `FillSlotAndRebuild`); for a user the registration waits after each server
(`RebuildMore`).

### Accounts
`Accounts` has the rows of `users` (status, role, and whether the row holds the Google id, the name and the address),
the persons with a pending invite, and per session its row and its newest refresh token; the races inside one
session are the subject of `RefreshSessions`. A request walks

    Google login:  idle -> byEmail -> (link | count -> insertAdmin | findInvite -> accept -> byInvitedEmail ->
                   (insertMember | reactivate)) -> session -> refreshToken -> answer
    passkey login: idle -> session -> ...              refresh: idle -> rotate -> readRole -> answer
    suspend, soft delete: idle -> endSessions          cancel:  idle -> cancel -> restore
    erase:         idle -> markDeleted -> enqueue -> revokeSessions -> revokeRefresh
    purge:         idle -> claim -> destroyKey -> ... -> pseudonymise -> complete, or fail

`Unsuspend` and `ChangeRole` are one statement each. `Update` is an UPDATE of a row under the index
`one_active_admin`; where the index refuses, the statement throws. `softDeleteUser` also sends an UPDATE of
`refresh_tokens`, but with the column `revoke_reason`, which neither `migrations/` nor `schema/postgres/sessions.ts`
gives that table: the statement fails, and `SoftDelete` ends after the sessions. `seen` is a history of the status
and role of the user while a request is handled.

`HasKnowledge` says whether the server has an adapter for mcp-knowledge2; without one the purge passes that step over
and completes. `hardEraseUser` locks nobody out, and what its statements have deleted can come back before the last:
a login that has read the row writes status, Google id and name over the pseudonym (`Reactivate`; the address it does
not write), a refresh under way ends in an access token, its holder stores something (`Stores`). `around` is a history
of the users to whom this may have happened: somebody was `Acting` for them while a purge was at work.
`CompletedMeansErased` promises these users no more than that the row has lost the address, and all others everything:
no data, session, token, link or name is left, and no later request brings one back. What it does not speak of, because
the code does not touch it: the address in rows of `invites` and in the audit log, and tokens of MCP clients
(`OAuthTokens`), which an erasure does not revoke.

Two callers are taken as given. Nothing in the repository calls `listDuePurges` and `hardEraseUser`; `Purge` is the
cron job the migration speaks of. And `createInvite` writes on `scoped()`, which is never committed, so `Accounts`
starts with the invites there are and makes no new ones.

### Tool calls
`ToolCalls` follows one `tools/call` of any session:

    lookup (resume) | defaults -> gate -> native | enqueue | subscribe -> enrich -> fetch
    fetch -> body | probe -> body | initialize -> retry -> body

`entry` is the map of the `CancelRegistry`, which all sessions share: `Start` replaces what an id led to, `Finish`
deletes whatever it leads to, and an exception before the dispatch (`Throws`) does not come by `finish()`. `aborted`
remembers whether the cancellation came before the request to the sub-MCP, during the exchange that the signal covers
(`Timed`), or after it. `TimesOut` is the 30 s timer, the abort that makes `fetch` reject, and the failing connection;
headers stop the timer, so `Body` has none. What a call does to the approval queue is in `ApprovalFlow`, and
the write mode its gate asks for in `Passkeys`.

### Passkeys and write mode
`Passkeys` has the rows of one user's credentials with their counters, the login challenges, the rows of
`write_mode` that have not expired, and one recovery request. The three verifiers are the same two statements,
`Select` and `Raise`, with the WebAuthn check between them; they differ in what begins (`LoginTake`, `Approve`,
`Activate`) and what follows (`StartSession`, nothing, `Open`). Signatures are genuine; a client may present an
assertion again and late, and a synced passkey signs with counter 0 for ever (`counting`).

### Sub-MCP user OAuth
`SubMcpAuth` has the configuration of one user for one server, one row per key; each upsert (`Set`) is an action that
commits or throws. `start` walks register -> setClient -> setSecret -> insert, `callback` stated -> asked -> answered ->
setAccess -> setExpires -> drop, `enrich` read -> asked -> answered -> persisted. Requests are numbered as they arrive
and the number names the client, the grant or the key a request brings into being. The provider may answer a refresh
with a successor of the refresh token, and may or may not accept the old one afterwards. A state row that has expired is
the same as one that is gone, so the cron job's deletion is part of `ReadStateExpired`, the callback that would see it.
`mishaps` is a history of what has disturbed the requests, by kind: two starts
that both found no client (`starts`), two requests holding tokens not yet written (`writers`), an enrich beside another
or beside a writer (`readers`), a token or a write lost (`lost`), an expiry written late (`late`), a change by hand under
a running request (`user`). Each property names the kinds it does not survive and holds through and after all the others.

### Apps
`AppBlocks` has every action of every block that has any, as an operator from a slot and a call to the fields the
handler patches, `validate` of the blocks, and the router (`RouteAction`, `ApplyPatches`). `Apps` is the service: `Prepare`
reads the layout and runs the action, `Check` reads it a second time and validates, `Write` is the compare-and-set in
the knowledge service, whose answer may be lost, `Conflict` and `Retry` the one further attempt. A new item gets a
fresh id, but for exercises and their sets, whose ids a client may choose (`NewIds`, `NewSets`). `SerialApp` is what
clients may rely on: a call looks at the app, takes effect at one instant or not at all, and the answer says which.
The blocks are parameters of `SerialApp`, so the refinement says nothing of what actions compute.

Things in the code that the model keeps and no property calls wrong: while a slot is absent a handler is given the
initial state but its patches are laid on nothing (`action_router.ts:60` and `122-130`), so that the first action of
several blocks is rejected by `validate`; toggles are not idempotent, so that a user who repeats a call after a
lost answer undoes it; and the schema of `addExercise` lets two sets have one id (`workout_split.ts:334-339`), the
handler does not look, and `validate` rejects the result (690-693): `ConformingAccepted` excepts this call by name
(`RepeatsSetId`).

### Browser client
`WebClient` extends `RefreshSessions` and runs its actions beside its own: a call that gets a 401 joins the refresh of its
store or starts one with the cookie of the moment, `Settles` resolves the promise for all who wait and sends them
again, `Reload` loses stores and promises but not the cookie. `createApiClient` in `api.ts` and `authedFetch` in
`auth-token.ts` are the two stores; `MayRefresh` is their one difference.

## 4. Runs

Passing runs:

| run | instance | shows |
| --- | --- | --- |
| `approvals_race` | 1 approval, 2 requests, time to 3, fair | `RunsOnlySigned`, `DecidedOnTime`, `OneApproveWins`, `NoOverdueShownPending`; `EventuallyDecided`, `WinnerPublishes`; `ImplementsLifecycle`, the refinement |
| `sessions_race` | 2 sessions, 4 tokens, 4 requests, a pool of 2, time to 2, fair | `OneLiveUnlessReused`, `NoFalseReplay`, `BuriedStaysDead`, `EndsUnlessBlocked` |
| `oauth_race` | 2 clients, 1 code, 3 tokens, 4 requests, time to 2 | `TokensStayWithClient`, `OneActiveUnlessReused`, `NoFalseRevocation`, `BuriedStaysDead`, `OnlyOwnClientRevokes` |
| `gateway_refresh` | 2 servers, 2 tools, 2 requests | `TrackerSound`, `ExactUnlessOverlap`, `OnlyAnsweredServersChange` |
| `accounts_race` | 2 persons, 3 requests | `SessionsForActive`, `TokensTellTrueRole`, `CompletedMeansErased`, `OneEraser` |
| `apps_race` | 2 callers, every kind of block, 5 versions (3 with overlap), time to 2 | `ImplementsSerial`, the refinement; `ConformingAccepted`, `StreaksRight`, `TimerNeverGains` of the blocks |
| `tool_calls` | 3 calls, 2 request ids, 2 tools, fair | `CancelExact`, `AbortIsFinal`, `EndsUnlessUntimed` |
| `passkeys_race` | 1 passkey, 2 assertions, 4 requests, time to 2 | `ReplayNeedsOverlap`, `WriteModeIsSigned`, `OneSessionPerChallenge` |
| `sub_mcp_auth` | 4 requests, 3 refresh tokens a grant, time to 3 | `RefreshTokenAccepted`, `CodeGoesToItsClient`, `ServedTokenAlive`, `ServedIdentity` |
| `web_client` | 1 session, 5 tokens, the boot probe and 2 calls, 1 reload, fair | `LogoutNeedsMishap`, `UnauthorizedForCause`, `CallsEnd` |

Violation runs, each against a sentence of the repository (quoted in `PROJECT.json` under `findings`):

| run | sentence | what happens |
| --- | --- | --- |
| `approvals_dispatch_twice` | a dispatched approval is blocked | PWA and resume path both run the call, or resume runs it again after the PWA handler died |
| `sessions_logout` | a logout revokes the session | its transaction is never committed |

Further sentences the code does not keep, and oddities met while modelling. They follow from reading single actions
or from a counterexample TLC gave on the way, and have no run of their own:

- Authorization codes are called one-shot; two redemptions that overlap both pass the check (`Redeem`, `MarkUsed`).
- The tracker is said to name the registered tools; after two overlapping refreshes it does not (`ExactUnlessOverlap`
  has the overlap as its premise).
- Suspending a user is said to revoke all refresh tokens; only `sessions` is written, and a refresh checks neither the
  session nor the user.
- Every logout keeps one of the ten connections of the pool, and every later refresh of its session another one:
  after a few of them all requests wait (`GoneForGood`).
- An instance that dies between marking an OAuth token and inserting its successor leaves the family without a token
  that can be used; the client has to ask its user again.
- `approve()` flips an overdue row to expired and then throws in the same transaction: the flip is rolled back.
- A replay "revokes the whole family" of a login session, and a revocation that of an OAuth token; a rotation that
  has passed its check inserts a valid token afterwards (`Rotate`, `IssueToken`).
- `auth()` can check revoked token ids; no caller gives it the check (`Access` has no guard).
- A consent is stored on `scoped()` and never committed: it is asked for again, and a second one waits for the first.
- The gateway slot can be refilled by a load that began before its invalidation (`FillSlot`), wrappers are missing
  while the table is read (`Deregister`), and a refresh by cron builds wrappers without the subscription check
  (`BuiltBy`).
- A user who comes back by an invite during the grace period keeps the entry in the erasure queue; migration 0004
  calls such an entry cancelled. When it falls due, `DestroyKey` destroys the key of an active user.
- `acceptInvite` refuses suspended users (SEC-010), but reads the status before an unconditional UPDATE
  (`Reactivate`): a suspension in between is undone.
- `hardEraseUser` sets `external_id` to NULL so that no login maps to an erased user (`gdpr.ts` lines 282-284); a
  login that has read the row before writes it back (`Reactivate`, and `around` in `CompletedMeansErased`).
- `services/admin.ts` lines 40-42 expect the index `one_active_admin` to refuse the demotion of the last
  administrator; it only refuses a second one (`FitsIndex`).
- The answer to an erasure promises that it can be cancelled until the purge date; sessions are revoked and logins
  refused, so only the access token at hand can (`CancelErase`, `GracePasses`).
- `auth-token.ts` lines 16-17 promise one `POST /auth/refresh` for parallel 401s, and `api-apps.ts` line 150 says the
  shared store is filled by `api.ts`; `setAccessToken` has no caller and `createApiClient` keeps a second store. The
  first call after the boot is refused and refreshes again, and refreshes of both stores at once end the session
  (`LogoutNeedsMishap` names the overlap).
- The cancel registry has one key space for all sessions and users, and an entry whose call threw is never removed
  (`Throws`). The body of an answer is read without a timer (`Body`).
- `forwarder.ts` lines 87-96 drop a header `authorization` that the enricher has set by that name.
- Nothing calls `invalidate()` of the enricher: after a reconnect the token of the old account is served for up to the
  lifetime of a cache entry (`ServedIdentity` has it as its bound).
- A synced passkey signs with counter 0, for which the check never fails: its assertion is accepted again within the
  permitted skew or lifetime (`ReplayNeedsOverlap` excludes it).
- `timer.complete` from a pause at 0 seconds stores a last run of 0, for which the schema asks at least 1.
- The rate limiter is mounted before authentication (`app-factory.ts:343-351`) and skips requests without a user.
- Nothing calls `costTracker.record`: the sum the cost gate checks stays zero.

Bounds. Rows, tokens and requests are model values or numbers; each request is handled once, so the number of
requests is the number of overlapping or successive operations. Where requests are numbered in the order of arrival the
number replaces a symmetry. Two requests on an approval are enough for a race of any two handlers, to which sweep,
clock and crash come as actions of their own; the theorems cover any number. Four session or token requests allow two
rotations, a replay of the older token and a revocation; three requests an erasure, a login or cancellation, and a
purge. Three calls and two ids give an id that is shared and one that is not. Four sub-MCP requests are a start, a
callback and two others. Five versions of an app let two calls conflict and the retry conflict again.
Times to live are 1 and the clock stops after the last deadline (`MaxTime`), so before, at and after a deadline all
occur. `EnqueueApproval` stops where the deadline with all extensions would lie beyond `MaxTime`; `RowLeft`,
`CodeLeft` and `TokenLeft` admit a request only while a row is left for it; a removed server name is not reused.
`GatewayRefresh` has no clock: the slot may expire at any time. Neither has `Accounts`: `GracePasses` lets the 30 days go
by, when no request is under way, and ends the access tokens; that one ends earlier changes nothing that is checked, as
its holder may just as well not use it. An erased person does not come back (it would be as another row). Two persons
are enough there: the operator and one who becomes administrator, is suspended or erased. In `WebClient` the clock of the
server stands still, because a refresh token lives far longer than a page needs; access tokens expire at any time.
`sub_mcp_auth` has a state constraint, `Explored`: what follows one kind of mishap is explored to the end, what follows a
second kind is not, and nothing after a start that went wrong, which can only make later exchanges and refreshes be
refused, as they may be anyway; two codes of one flow are named in the order they are presented; the keys a user
deletes and whether the provider gives client secrets are constants. In `Apps` values,
lists and dates are small sets, and a client makes the calls of `Calls`: every name with ids it has seen, one it has
not, and values at both ends; a new exercise has an id of the client's choice or none, and no sets, two with different
ids or with one id, or more sets than the limit. A pool of two connections is used up by two logouts, or by one and a
request that waits for its row; the theorems have any pool. `accounts_race` has the adapter for mcp-knowledge2; that there
may be none is part of the theorems. Deadlock checking is off in all runs because requests end.

Fairness. `FairSpec` gives each handler weak fairness on its own next step: the event loop and PostgreSQL serve
every request that can proceed. Arrivals, crashes and failures are never fair. The sweep is fair because cron
calls it periodically, and the clock because time passes. Neither locks nor connections that a `scoped()` transaction
holds are released by fairness: `EndsUnlessBlocked` excepts a request that waits for a row of a logout, and the
state in which logouts and those who wait for their rows hold the whole pool. Only `RefreshSessions` has the pool; the
other liveness properties presume that a connection is left.

What awaits HTTP without a timer may hang, and no fairness makes it return. So a dispatched tool (`RunTool`) is not fair:
nothing in `registry.ts` or `approval-resume.ts` ends it, the controller there is never aborted, and `WinnerPublishes`
excepts a tool that stays in `dispatch` for ever. In `ToolCalls` the exchange up to the headers has its timer, which is
fair, and the sub-MCP owes no answer; the stages without a timer are `Untimed`: native tools (among them the
rediscovery, which reads a body after its timer is cleared), the enricher's token endpoint, and the body.
`EndsUnlessUntimed` promises the end of a call or one of these stages. In `WebClient` the server answers what reaches it and
the network delivers or fails; a page logs nobody out, so its pool of ten is not used up.

## 5. Proofs

| module | proves, for any values of the constants | assumptions |
| --- | --- | --- |
| `ApprovalProofs` | type correctness, `RunsOnlySigned`, `DecidedOnTime`, `OneApproveWins`, `NoOverdueShownPending`, `WithinExtensionBudget`, `DecisionAndResultFinal`, `ImplementsLifecycle` | `MaxTimeAssumption`, those of `ApprovalRows` |
| `SessionProofs` | type correctness, `HandoverAtomic`, `OneLiveUnlessReused`, `NoFalseReplay`, `BuriedStaysDead`; of the browser client `LogoutNeedsMishap`, `UnauthorizedForCause` | times are natural numbers, tokens and requests are numbers, `None` names nothing, the pool has a connection |
| `OAuthProofs` | type correctness, `TokensStayWithClient`, `OneActiveUnlessReused`, `NoFalseRevocation`, `ExchangedInLife`, `OnlyOwnClientRevokes`, `BuriedStaysDead` | times are natural numbers, the DCR clients are clients, codes and tokens have different names |
| `GatewayProofs` | type correctness, `TrackerSound`, `ExactUnlessOverlap`, `OnlyAnsweredServersChange`; of the sub-MCP user OAuth type correctness, `RefreshTokenAccepted`, `CodeGoesToItsClient`, `ServedTokenAlive`, `ServedIdentity` | `None` is no server; numbers and times are natural, a provider rotates at least once (`SubMcpAuthAssumption`) |
| `AccountsProofs` | type correctness, `SessionsForActive`, `TokensTellTrueRole`, `CompletedMeansErased`, `OneEraser` | the operator is a user, `NoUser` is none, users and requests have different names, `HasKnowledge` is a truth value |
| `ToolCallsProofs` | type correctness, `CancelExact`, `AbortIsFinal` | calls and ids are numbers, `None` is none |
| `PasskeysProofs` | type correctness, `WriteModeIsSigned`, `OneSessionPerChallenge`, `ReplayNeedsOverlap` | numbers and times are natural, assertions and durations positive |
| `AppsProofs` | type correctness, `ImplementsSerial`, `TimerNeverGains`, `ConformingAccepted`, `StreaksRight` | `BoundsAssumption`; for the timer `PerSecondAssumption`; for the other blocks `ValuesAssumption`: `Null` is no number, the limits are natural, dates are integers |

In each module `IInv` (`ClientInv` in `WebClient`, `AuthInv` in `SubMcpAuth`, `TimerInv` and `BlockInv` in `Apps`) is
the inductive invariant; one lemma per action, or per action and part of it, shows that the
action keeps it, and `Invariance` puts them together. Why the invariants have to be stronger than what they prove:

- **Approvals.** `RowOK` is what a row satisfies by itself (a deadline fits its extensions, an approved row was decided
  no later than its deadline and is signed, an expired one later), `HandlerOK` what a handler knows at its stage.
  `RunsOnlySigned` alone is not inductive: a step to `dispatch` needs to know that the row the handler had seen is
  still approved, and that follows only from decisions being final. Each SQL operator has a lemma that it keeps
  `RowOK`; the refinement follows from one lemma per operator on a single row and `StepImplements` for each action.
- **Login sessions.** `ChainOK`: until a token is presented twice the tokens of a session form one chain, whose end is
  valid or not yet made, and at most one request extends it. `OneLiveUnlessReused` alone does not survive `Rotate`,
  because the handler that has selected the live token carries the right to replace it.
- **OAuth.** `FamilyOK` counts, as long as nothing was presented twice, active tokens and exchanges under way together:
  at most one of both, because a handler that has marked the old token and not yet inserted the new one carries the
  family's one active token with it.
- **Gateway.** `OneRefresh` and `DroppedFirst`: without overlap at most one refresh is past its listing, and between
  dropping and registering the tracker of the affected servers is empty. `TrackerSound` needs no such premise: a
  refresh only drops what the tracker names.
- **Accounts.** `RowsInv` says for every stage of a handler which status and role its user has had since it began
  (`seen`), and that an erasure that is due has one run until it is asked for anew (`OneRun`); `OwnersKnown` ties
  sessions and refresh tokens to users there are. A handler's stage is all that remembers which statements have
  committed: `Undisturbed` says what each stage of a purge has left, as long as nobody acts for the user. For the time
  after the purge `CompletedMeansErased` needs that nobody can begin to act (`NobodyActs`): no login finds the row, no
  passkey, no refresh token and no access token is left to begin with.
- **Tool calls.** Two unfinished calls with one id are both `shared`, and an entry leads to an unfinished call with that
  id or to one that threw: this is what makes `CancelExact` inductive although `Finish` deletes without looking.
- **Passkeys.** `TakenOnce`: the challenge of a login is in its row, or with exactly one handler, or used up. `WindowOK`
  bounds a window by what its assertion signed, and `HandlerOK` the time a slow handler still holds. For
  `ReplayNeedsOverlap`, `CInv` adds `CounterOK`: as long as the verifications of a passkey that counts have not
  overlapped, its row's counter is as high as everything accepted and lower than what the one handler past its SELECT
  is about to accept; and `EnrolledOnce`, because an enrolment that wrote its row late would set the counter back.
- **Apps.** `RequestOK`: a call whose version is the current one holds exactly the layout its action makes of the current
  layout. A write increments the version, so it falsifies the premise for all other calls. Invocation, retry and
  replacement map to `Look`, the write to `Act` or `Replace`, ends without effect to `GiveUp`. `InvokedCalls` is the
  one fact about the blocks: no invocation is named "replace". `TimerNeverGains` needs the timer itself: `TimerInv`
  ties the slot to the history of what was run (a paused timer shows no more than `ran.total`, a running one started
  no earlier than that total before it was last set going), and says of a call in flight whose version is current that
  its `Date.now()` is no earlier than `ran.since` - the start a resumption computes is otherwise too early.
- **Blocks.** `ConformingAccepted` speaks of the next action only, and what it needs of the slot is more than that
  `validate` accepts it. `Typed` has what `validate` does not ask: what the lists hold, that tags and exercises are
  finitely many, and that every id was drawn before the version the next one is drawn from, without which a new item
  could double an old id. A layout under way need not be valid before `Check`, but if it is, it must be fit to be
  stored as the next version: `LayoutOK`. One lemma per block shows that its handler keeps `Valid` and `Typed`
  together; for a new exercise with sets of the client's, `AddedFits` is what the schema and `~RepeatsSetId` give. `StreaksRight` rests on the ticks being strictly ascending; `StreaksLoop` is the loop's invariant.
- **Browser client.** The server's steps keep the server's `IInv` whether a page or anyone else asks for them, so
  `ClientInv` puts three parts on top. `OneRefresh`: while no two refreshes overlapped, none was lost and the page not
  reloaded, at most one is under way and its cookie has never been presented, or is in the one rotation that consumes
  it, or its successor is in the answer on its way; a replay, the only way the server ends a session here, is then
  impossible. `CallsFine`: a second attempt has a token, because `Settles` sends only those again whose refresh gave
  one, and it is the token `given` remembers, written with the answer. `UnauthorizedForCause` is then inductive.
- **Sub-MCP user OAuth.** `AuthInv` has one part per property, each under the kinds of mishap the property excepts.
  `OneByOne` turns the history into a fact about the present: without the mishap of that name at most one request
  starts, writes or reads. `NewestKept`: the refresh token without a successor is with the request that holds it, or,
  if none does, in the configuration. `ClientsAgree`: the client of the configuration is that of every open flow
  and of every start past its registration - which needs `StartAgrees` for a start at each of its upserts.
  `ExpiriesAgree`: no stored expiry promises more than its token has, but for the margin; between the upserts of a
  callback that is what the expiry of the token before must not do to the new one. `IdentitiesAgree`: the stored token
  is of the stored consent unless a callback is between the two (`Midway`), an enrich holds what the configuration
  says, and the cached token is of the configured identity or older than the change. `AllIssued` (a refresh token that
  is anywhere has been issued, and a grant belongs to one callback past its exchange) serves the last two.

What proving found in the models. `RanAfter` and `Tick` had CASE arms that overlapped, where TLC takes the first and
the logic any: they are nested conditions now, as the code's are. The timer's division needs `PerSecond` to be
positive. In `SubMcpAuth` the types failed for a provider that never rotates (`MaxRotations` = 0), and the invariant
had to say that only a bearer server has starts, which TLC had not shown because a service account has no client.

The proofs about lists need induction over data. The library's induction theorems take an operator, which the provers
cannot instantiate, so `AppsProofs` starts from well-foundedness instead: a set of natural numbers that has 0 and with
every number its successor has them all (`SetInduction`), and from it that a function defined by recursion up to a
length satisfies its equation (`Recursion`). This is why `Filtered` and `ComputeStreaks` are recursive functions,
one step of the loop each, and why the sorted dates (`Sorted`) are chosen by what sorting guarantees.

Only model-checked: all liveness, since fairness and ENABLED are out of reach of the prover. No module uses
RECURSIVE operators.

## 6. Not modelled

Inside modelled components: the text of approvals and displays, audit records, cookies and JWT contents, dynamic
registration of MCP clients, the sync of users to mcp-knowledge2, merging of config schemas, seeding of
the server catalogue; sub-MCP servers with a client id typed by hand, discovery of a provider's endpoints; `initialize`,
`tools/list` and `ping` of the transport, which keep no state; query and listing of apps, display texts and layout
constraints, templates, and the jobs that archive and purge apps, which do nothing; the
signature of an assertion and the PRF extension. A comment in `routes/approvals.ts` (line 454) speaks of three
extensions as 15 minutes; the code admits three of 15 minutes each, and `WithinExtensionBudget` states the bound
the code has. SEC-013 in `docs/security/SECURITY_ISSUES.md` already names the non-atomic rotation.

Other components: as the inventory says. The Cloudflare variant runs the same services on another database, so its
races are those of the modelled handlers; the views of the web application, the HTTP clients and the cryptographic
primitives have no state that outlives a call. Three hazards in `PROJECT.json` have no property, each with the reason.
