------------------------------- MODULE Accounts -------------------------------
(***************************************************************************)
(* The accounts of mcp-approval2: logins with Google or a passkey          *)
(* (routes/auth), invites and the bootstrap of the first administrator     *)
(* (auth/invite, auth/bootstrap.ts), the administrator's operations on     *)
(* users (services/admin.ts) and erasure under the GDPR (services/gdpr.ts).*)
(*                                                                         *)
(* Every statement of these handlers is committed on its own.  A handler   *)
(* is a record in `req` that walks from one statement to the next; between *)
(* two statements anything may happen.  A session stands for its row, its  *)
(* refresh-token family and the access token that goes with them (their    *)
(* own races are in RefreshSessions).                                      *)
(***************************************************************************)
EXTENDS Naturals, FiniteSets

CONSTANTS
  Users,     \* persons, each with at most one row in the table users
  Operator,  \* the person of BOOTSTRAP_ADMIN_EMAIL
  Requests,  \* HTTP requests and runs of the purge; each is handled once
  NoUser,    \* the user of a request that has not arrived
  HasKnowledge \* whether the server has an adapter for mcp-knowledge2

ASSUME OperatorAssumption == Operator \in Users
ASSUME NoUserAssumption == NoUser \notin Users
ASSUME DisjointAssumption == Users \cap Requests = {}
ASSUME KnowledgeAssumption == HasKnowledge \in BOOLEAN

VARIABLES
  user,     \* table users
  invited,  \* persons with a pending row in the table invites
  sess,     \* table sessions
  refresh,  \* table refresh_tokens: the newest token of each session
  access,   \* the role in the access token a person holds
  queue,    \* table gdpr_erase_queue
  due,      \* users whose entry in the queue has outlived its grace period
  data,     \* what is left of a user's data, here and in mcp-knowledge2
  req,      \* the request handlers
  seen,     \* statuses and roles of the user while the request was handled (history)
  around    \* users for whom somebody acted while a purge was erasing them (history)

vars == <<user, invited, sess, refresh, access, queue, due, data, req, seen, around>>

\* A session is named by the login that made it; each user has an old one.
Sessions == Users \cup Requests
Owner(x) == IF x \in Users THEN x ELSE req[x].user

Roles == {"member", "admin"}
\* linked: holds the Google id; named: holds the name; erased: no longer the address.
UserRows == [status: {"absent", "active", "suspended", "deleted"}, role: Roles,
             linked: BOOLEAN, named: BOOLEAN, erased: BOOLEAN]
RowStates == {"none", "live", "revoked", "deleted"}
QueueStates == {"none", "pending", "processing", "completed", "failed", "cancelled"}
Parts == {"key", "knowledge", "credentials", "passkeys"}
\* What the purge passes over.
Unreached == IF HasKnowledge THEN {} ELSE {"knowledge"}

LoginStages == {"byEmail", "link", "count", "insertAdmin", "findInvite", "accept",
                "byInvitedEmail", "insertMember", "reactivate", "session", "refreshToken"}
PurgeStages == {"destroyKey", "eraseKnowledge", "deleteCredentials", "deleteSessions",
                "deletePasskeys", "pseudonymise", "complete"}
Stages == {"idle", "answer", "rotate", "readRole", "endSessions", "markDeleted", "enqueue",
           "revokeSessions", "revokeRefresh", "cancel", "restore", "claim", "fail", "done"}
          \cup LoginStages \cup PurgeStages

RequestRecords == [at: Stages, user: Users \cup {NoUser}, session: Sessions \cup {NoUser},
                   role: Roles, invite: BOOLEAN]
NewRequest == [at |-> "idle", user |-> NoUser, session |-> NoUser, role |-> "member",
               invite |-> FALSE]

TypeOK ==
  /\ user \in [Users -> UserRows]
  /\ invited \subseteq Users
  /\ sess \in [Sessions -> RowStates] /\ refresh \in [Sessions -> RowStates]
  /\ access \in [Users -> Roles \cup {"none"}]
  /\ queue \in [Users -> QueueStates] /\ due \subseteq Users
  /\ data \in [Users -> SUBSET Parts]
  /\ req \in [Requests -> RequestRecords]
  /\ seen \in [Requests -> SUBSET ({"active", "suspended", "deleted", "absent"} \cup Roles)]
  /\ around \subseteq Users

\* The tables as an earlier run left them: an administrator and members that
\* may be logged in, and invites of which any may be pending.
Init ==
  /\ \E present \in SUBSET Users :
       /\ user = [u \in Users |->
            [status |-> IF u \in present THEN "active" ELSE "absent",
             role |-> IF u = Operator THEN "admin" ELSE "member",
             linked |-> u \in present, named |-> u \in present, erased |-> FALSE]]
       /\ sess = [x \in Sessions |-> IF x \in present THEN "live" ELSE "none"]
       /\ refresh = sess
       /\ access = [u \in Users |-> IF u \in present THEN user[u].role ELSE "none"]
       /\ data = [u \in Users |-> IF u \in present THEN Parts ELSE {}]
  /\ invited \in SUBSET (Users \ {Operator})
  /\ queue = [u \in Users |-> "none"]
  /\ due = {}
  /\ req = [r \in Requests |-> NewRequest]
  /\ seen = [r \in Requests |-> {}]
  /\ around = {}

\* A request that is done is forgotten, but for the owner of a session it made.
At(r, record, stage) ==
  IF stage # "done" THEN [record EXCEPT !.at = stage]
  ELSE [NewRequest EXCEPT !.at = "done", !.user = IF sess[r] = "none" THEN NoUser ELSE record.user]
Goes(r, stage) == req' = [req EXCEPT ![r] = At(r, @, stage)]
GoesAs(r, stage, role) == req' = [req EXCEPT ![r] = At(r, [@ EXCEPT !.role = role], stage)]
Arrives(r, u, stage) == req' = [req EXCEPT ![r] = At(r, [NewRequest EXCEPT !.user = u], stage)]

Active(u) == user[u].status = "active"
\* users_email_unique: the row of the person, while it holds the person's address.
HasRow(u) == user[u].status # "absent" /\ ~user[u].erased
\* The index one_active_admin refuses a second active administrator.
FitsIndex(u, row) ==
  row.status = "active" /\ row.role = "admin" =>
    \A v \in Users \ {u} : ~(Active(v) /\ user[v].role = "admin")
Update(u, row) == FitsIndex(u, row) /\ user' = [user EXCEPT ![u] = row]

(***************************************************************************)
(* Logins                                                                  *)
(***************************************************************************)
\* Mutant: a user found by the Google id is not asked for the status.
LoginUnchecked(r, u, withInvite) ==
  /\ req[r].at = "idle"
  /\ req' = [req EXCEPT ![r] =
       [NewRequest EXCEPT !.user = u, !.invite = withInvite, !.role = user[u].role,
          !.at = IF user[u].linked THEN "session" ELSE "byEmail"]]
  /\ UNCHANGED <<user, invited, sess, refresh, access, queue, due, data>>

\* GET /auth/google/callback: the row with the person's Google id.
Login(r, u, withInvite) ==
  /\ req[r].at = "idle"
  /\ req' = [req EXCEPT ![r] =
       [NewRequest EXCEPT !.user = u, !.invite = withInvite, !.role = user[u].role,
          !.at = IF user[u].linked /\ Active(u) THEN "session" ELSE "byEmail"]]
  /\ UNCHANGED <<user, invited, sess, refresh, access, queue, due, data>>

\* POST /auth/webauthn/login/finish.
PasskeyLogin(r, u) ==
  /\ req[r].at = "idle"
  /\ "passkeys" \in data[u]
  /\ req' = [req EXCEPT ![r] =
       At(r, [NewRequest EXCEPT !.user = u, !.role = user[u].role],
          IF Active(u) THEN "session" ELSE "done")]
  /\ UNCHANGED <<user, invited, sess, refresh, access, queue, due, data>>

ByEmail(r) ==
  /\ req[r].at = "byEmail"
  /\ LET u == req[r].user IN
     GoesAs(r, IF req[r].invite THEN "findInvite"
               ELSE IF HasRow(u) /\ Active(u) THEN "link"
               ELSE IF u = Operator THEN "count" ELSE "done", user[u].role)
  /\ UNCHANGED <<user, invited, sess, refresh, access, queue, due, data>>

Link(r) ==
  /\ req[r].at = "link"
  /\ user' = [user EXCEPT ![req[r].user].linked = TRUE]
  /\ Goes(r, "session")
  /\ UNCHANGED <<invited, sess, refresh, access, queue, due, data>>

\* bootstrapIfNeeded, past its check of the address.
CountActive(r) ==
  /\ req[r].at = "count"
  /\ Goes(r, IF \E v \in Users : Active(v) THEN "done" ELSE "insertAdmin")
  /\ UNCHANGED <<user, invited, sess, refresh, access, queue, due, data>>

NewRow(role) ==
  [status |-> "active", role |-> role, linked |-> TRUE, named |-> TRUE, erased |-> FALSE]

\* An INSERT that meets a unique index ends the login.  Bound: a person whose row
\* was erased does not come back (it would be with a row of another id).
InsertRow(r, stage, role) ==
  /\ req[r].at = stage
  /\ \/ /\ user[req[r].user].status = "absent"
        /\ Update(req[r].user, NewRow(role))
        /\ data' = [data EXCEPT ![req[r].user] = Parts]
        /\ GoesAs(r, "session", role)
     \/ /\ HasRow(req[r].user) \/ ~FitsIndex(req[r].user, NewRow(role))
        /\ Goes(r, "done")
        /\ UNCHANGED <<user, data>>
  /\ UNCHANGED <<invited, sess, refresh, access, queue, due>>

InsertAdmin(r) == InsertRow(r, "insertAdmin", "admin")
InsertMember(r) == InsertRow(r, "insertMember", "member")

(***************************************************************************)
(* acceptInvite                                                            *)
(***************************************************************************)
FindInvite(r) ==
  /\ req[r].at = "findInvite"
  /\ Goes(r, IF req[r].user \in invited THEN "accept" ELSE "done")
  /\ UNCHANGED <<user, invited, sess, refresh, access, queue, due, data>>

AcceptInvite(r) ==
  /\ req[r].at = "accept"
  /\ invited' = invited \ {req[r].user}
  /\ Goes(r, "byInvitedEmail")
  /\ UNCHANGED <<user, sess, refresh, access, queue, due, data>>

ByInvitedEmail(r) ==
  /\ req[r].at = "byInvitedEmail"
  /\ LET u == req[r].user IN
     GoesAs(r, IF ~HasRow(u) THEN "insertMember"
               ELSE IF user[u].status = "suspended" THEN "done" ELSE "reactivate", user[u].role)
  /\ UNCHANGED <<user, invited, sess, refresh, access, queue, due, data>>

\* The UPDATE does not ask whether the row is still as it was read; it writes the
\* Google id and the name, not the address.
Reactivate(r) ==
  /\ req[r].at = "reactivate"
  /\ LET row == [user[req[r].user] EXCEPT !.status = "active", !.linked = TRUE, !.named = TRUE] IN
     \/ Update(req[r].user, row) /\ Goes(r, "session")
     \/ ~FitsIndex(req[r].user, row) /\ Goes(r, "done") /\ UNCHANGED user
  /\ UNCHANGED <<invited, sess, refresh, access, queue, due, data>>

(***************************************************************************)
(* Sessions                                                                *)
(***************************************************************************)
CreateSession(r) ==
  /\ req[r].at = "session"
  /\ sess' = [sess EXCEPT ![r] = "live"]
  /\ Goes(r, "refreshToken")
  /\ UNCHANGED <<user, invited, refresh, access, queue, due, data>>

\* issueInitialRefresh: the foreign key refuses a token without its session.
CreateRefreshToken(r) ==
  /\ req[r].at = "refreshToken"
  /\ refresh' = IF sess[r] = "deleted" THEN refresh ELSE [refresh EXCEPT ![r] = "live"]
  /\ Goes(r, IF sess[r] = "deleted" THEN "done" ELSE "answer")
  /\ UNCHANGED <<user, invited, sess, access, queue, due, data>>

\* POST /auth/refresh; a revoked token revokes its session.
Refresh(r, x) ==
  /\ req[r].at = "idle"
  /\ refresh[x] \in {"live", "revoked"}
  /\ req' = [req EXCEPT ![r] = At(r, [NewRequest EXCEPT !.user = Owner(x), !.session = x],
               IF refresh[x] = "live" THEN "rotate" ELSE "done")]
  /\ sess' = IF refresh[x] = "revoked" /\ sess[x] = "live"
             THEN [sess EXCEPT ![x] = "revoked"] ELSE sess
  /\ UNCHANGED <<user, invited, refresh, access, queue, due, data>>

\* The new token is stored whatever has happened to the old one meanwhile.
Rotate(r) ==
  /\ req[r].at = "rotate"
  /\ LET x == req[r].session IN
     /\ refresh' = IF sess[x] = "deleted" THEN refresh ELSE [refresh EXCEPT ![x] = "live"]
     /\ Goes(r, IF sess[x] = "deleted" THEN "done" ELSE "readRole")
  /\ UNCHANGED <<user, invited, sess, access, queue, due, data>>

\* Mutant: the role is carried over from the access token before.
KeepRole(r) ==
  /\ req[r].at = "readRole"
  /\ GoesAs(r, "answer", IF access[req[r].user] = "admin" THEN "admin" ELSE "member")
  /\ UNCHANGED <<user, invited, sess, refresh, access, queue, due, data>>

ReadRole(r) ==
  /\ req[r].at = "readRole"
  /\ GoesAs(r, "answer", user[req[r].user].role)
  /\ UNCHANGED <<user, invited, sess, refresh, access, queue, due, data>>

Answer(r) ==
  /\ req[r].at = "answer"
  /\ access' = [access EXCEPT ![req[r].user] = req[r].role]
  /\ Goes(r, "done")
  /\ UNCHANGED <<user, invited, sess, refresh, queue, due, data>>

\* The holder of an access token stores a credential, a passkey or an object, and
\* with them a key, if there is none.
Stores(u, part) ==
  /\ access[u] # "none" /\ part \notin data[u]
  /\ data' = [data EXCEPT ![u] = @ \cup {part}]
  /\ UNCHANGED <<user, invited, sess, refresh, access, queue, due, req>>

(***************************************************************************)
(* The administrator                                                       *)
(***************************************************************************)
\* Routes under /v1/admin look at the role in the access token only.
ByAdmin(except) == \E a \in Users \ except : access[a] = "admin"

Suspend(r, u) ==
  /\ req[r].at = "idle" /\ ByAdmin({}) /\ HasRow(u)
  /\ user' = IF Active(u) THEN [user EXCEPT ![u].status = "suspended"] ELSE user
  /\ Arrives(r, u, "endSessions")
  /\ UNCHANGED <<invited, sess, refresh, access, queue, due, data>>

RevokeIn(table, u) ==
  [x \in Sessions |-> IF Owner(x) = u /\ table[x] = "live" THEN "revoked" ELSE table[x]]

EndSessions(r) ==
  /\ req[r].at = "endSessions"
  /\ sess' = RevokeIn(sess, req[r].user)
  /\ Goes(r, "done")
  /\ UNCHANGED <<user, invited, refresh, access, queue, due, data>>

Unsuspend(u) ==
  /\ ByAdmin({}) /\ user[u].status = "suspended"
  /\ Update(u, [user[u] EXCEPT !.status = "active"])
  /\ UNCHANGED <<invited, sess, refresh, access, queue, due, data, req>>

ChangeRole(u, role) ==
  /\ ByAdmin({}) /\ Active(u) /\ role # user[u].role
  /\ Update(u, [user[u] EXCEPT !.role = role])
  /\ UNCHANGED <<invited, sess, refresh, access, queue, due, data, req>>

\* The handler ends after the sessions: its third statement sets a column,
\* revoke_reason, that the table refresh_tokens has not, and throws.
SoftDelete(r, u) ==
  /\ req[r].at = "idle" /\ ByAdmin({u}) /\ HasRow(u)
  /\ user' = [user EXCEPT ![u].status = "deleted"]
  /\ Arrives(r, u, "endSessions")
  /\ UNCHANGED <<invited, sess, refresh, access, queue, due, data>>

(***************************************************************************)
(* Erasure                                                                 *)
(***************************************************************************)
RequestErase(r, u) ==
  /\ req[r].at = "idle" /\ access[u] # "none"
  /\ Arrives(r, u, IF user[u].status = "deleted" THEN "done" ELSE "markDeleted")
  /\ UNCHANGED <<user, invited, sess, refresh, access, queue, due, data>>

MarkDeleted(r) ==
  /\ req[r].at = "markDeleted"
  /\ user' = [user EXCEPT ![req[r].user].status = "deleted"]
  /\ Goes(r, "enqueue")
  /\ UNCHANGED <<invited, sess, refresh, access, queue, due, data>>

Enqueue(r) ==
  /\ req[r].at = "enqueue"
  /\ queue' = [queue EXCEPT ![req[r].user] = "pending"]
  /\ due' = due \ {req[r].user}
  /\ Goes(r, "revokeSessions")
  /\ UNCHANGED <<user, invited, sess, refresh, access, data>>

RevokeSessions(r) ==
  /\ req[r].at = "revokeSessions"
  /\ sess' = RevokeIn(sess, req[r].user)
  /\ Goes(r, "revokeRefresh")
  /\ UNCHANGED <<user, invited, refresh, access, queue, due, data>>

RevokeRefresh(r) ==
  /\ req[r].at = "revokeRefresh"
  /\ refresh' = RevokeIn(refresh, req[r].user)
  /\ Goes(r, "done")
  /\ UNCHANGED <<user, invited, sess, access, queue, due, data>>

CancelErase(r, u) ==
  /\ req[r].at = "idle" /\ access[u] # "none"
  /\ Arrives(r, u, IF queue[u] = "pending" THEN "cancel" ELSE "done")
  /\ UNCHANGED <<user, invited, sess, refresh, access, queue, due, data>>

MarkCancelled(r) ==
  /\ req[r].at = "cancel"
  /\ queue' = [queue EXCEPT ![req[r].user] = IF @ = "pending" THEN "cancelled" ELSE @]
  /\ Goes(r, "restore")
  /\ UNCHANGED <<user, invited, sess, refresh, access, due, data>>

Restore(r) ==
  /\ req[r].at = "restore"
  /\ LET u == req[r].user
         row == [user[u] EXCEPT !.status = "active"]
     IN \/ user[u].status = "deleted" /\ Update(u, row)
        \/ /\ user[u].status # "deleted" \/ ~FitsIndex(u, row)
           /\ UNCHANGED user
  /\ Goes(r, "done")
  /\ UNCHANGED <<invited, sess, refresh, access, queue, due, data>>

\* Bound: no request lives through the 30 days.  Every access token runs out in
\* them; one that runs out earlier is one that its holder does not use again.
GracePasses(u) ==
  /\ queue[u] = "pending" /\ u \notin due
  /\ \A r \in Requests : req[r].at \in {"idle", "done"}
  /\ due' = due \cup {u}
  /\ access' = [v \in Users |-> "none"]
  /\ UNCHANGED <<user, invited, sess, refresh, queue, data, req>>

\* The caller lists what is due, then erases one user after another.
Purge(r, u) ==
  /\ req[r].at = "idle" /\ u \in due /\ queue[u] = "pending"
  /\ Arrives(r, u, "claim")
  /\ UNCHANGED <<user, invited, sess, refresh, access, queue, due, data>>

\* Mutant: the UPDATE does not ask for a pending entry.
ClaimUnchecked(r) ==
  /\ req[r].at = "claim"
  /\ queue' = [queue EXCEPT ![req[r].user] = "processing"]
  /\ Goes(r, "destroyKey")
  /\ UNCHANGED <<user, invited, sess, refresh, access, due, data>>

Claim(r) ==
  /\ req[r].at = "claim"
  /\ LET u == req[r].user IN
     /\ queue' = [queue EXCEPT ![u] = IF @ = "pending" THEN "processing" ELSE @]
     /\ Goes(r, IF queue[u] = "pending" THEN "destroyKey" ELSE "done")
  /\ UNCHANGED <<user, invited, sess, refresh, access, due, data>>

Removes(r, part, stage, next) ==
  /\ req[r].at = stage
  /\ data' = [data EXCEPT ![req[r].user] = @ \ {part}]
  /\ Goes(r, next)
  /\ UNCHANGED <<user, invited, sess, refresh, access, queue, due>>

\* Mutant: a knowledge service that does not answer is passed over.
EraseKnowledgeIfUp(r) ==
  \/ Removes(r, "knowledge", "eraseKnowledge", "deleteCredentials")
  \/ Removes(r, "", "eraseKnowledge", "deleteCredentials")

DestroyKey(r) == Removes(r, "key", "destroyKey", "eraseKnowledge")
\* Without an adapter the step is passed over.
EraseKnowledge(r) ==
  Removes(r, IF HasKnowledge THEN "knowledge" ELSE "", "eraseKnowledge", "deleteCredentials")
DeleteCredentials(r) == Removes(r, "credentials", "deleteCredentials", "deleteSessions")
DeletePasskeys(r) == Removes(r, "passkeys", "deletePasskeys", "pseudonymise")

\* DELETE FROM sessions takes the refresh tokens along.
DeleteSessions(r) ==
  /\ req[r].at = "deleteSessions"
  /\ LET Gone(table) == [x \in Sessions |->
           IF Owner(x) = req[r].user /\ sess[x] # "none" THEN "deleted" ELSE table[x]]
     IN sess' = Gone(sess) /\ refresh' = Gone(refresh)
  /\ Goes(r, "deletePasskeys")
  /\ UNCHANGED <<user, invited, access, queue, due, data>>

Pseudonymise(r) ==
  /\ req[r].at = "pseudonymise"
  /\ user' = [user EXCEPT ![req[r].user] =
       [@ EXCEPT !.status = "deleted", !.linked = FALSE, !.named = FALSE, !.erased = TRUE]]
  /\ Goes(r, "complete")
  /\ UNCHANGED <<invited, sess, refresh, access, queue, due, data>>

\* The audit entry is written inside the try block, and may throw as well.
Complete(r) ==
  /\ req[r].at = "complete"
  /\ queue' = [queue EXCEPT ![req[r].user] = "completed"]
  /\ \E next \in {"done", "fail"} : Goes(r, next)
  /\ UNCHANGED <<user, invited, sess, refresh, access, due, data>>

\* A step of the purge throws; the catch block writes it down.
PurgeThrows(r) ==
  /\ req[r].at \in PurgeStages
  /\ Goes(r, "fail")
  /\ UNCHANGED <<user, invited, sess, refresh, access, queue, due, data>>

MarkFailed(r) ==
  /\ req[r].at = "fail"
  /\ queue' = [queue EXCEPT ![req[r].user] = "failed"]
  /\ Goes(r, "done")
  /\ UNCHANGED <<user, invited, sess, refresh, access, due, data>>

\* A statement fails, or the instance dies.
Dies(r) ==
  /\ req[r].at \notin {"idle", "done"}
  /\ Goes(r, "done")
  /\ UNCHANGED <<user, invited, sess, refresh, access, queue, due, data>>

Arrive(r) ==
  \/ \E u \in Users : \/ \E i \in BOOLEAN : Login(r, u, i)
                      \/ PasskeyLogin(r, u)
                      \/ Suspend(r, u) \/ SoftDelete(r, u)
                      \/ RequestErase(r, u) \/ CancelErase(r, u) \/ Purge(r, u)
  \/ \E x \in Sessions : Refresh(r, x)

Step(r) ==
  \/ ByEmail(r) \/ Link(r) \/ CountActive(r) \/ InsertAdmin(r)
  \/ FindInvite(r) \/ AcceptInvite(r) \/ ByInvitedEmail(r) \/ InsertMember(r) \/ Reactivate(r)
  \/ CreateSession(r) \/ CreateRefreshToken(r) \/ Rotate(r) \/ ReadRole(r) \/ Answer(r)
  \/ EndSessions(r) \/ RevokeSessions(r) \/ RevokeRefresh(r)
  \/ MarkDeleted(r) \/ Enqueue(r) \/ MarkCancelled(r) \/ Restore(r)
  \/ Claim(r) \/ DestroyKey(r) \/ EraseKnowledge(r) \/ DeleteCredentials(r)
  \/ DeleteSessions(r) \/ DeletePasskeys(r) \/ Pseudonymise(r) \/ Complete(r)
  \/ PurgeThrows(r) \/ MarkFailed(r)

\* Stages of a request that may yet give the user an access token, bring the row back
\* or undo the erasure.
ActingStages == {"link", "reactivate", "session", "refreshToken", "rotate", "readRole",
                 "answer", "cancel", "restore"}
Acting(u) == access[u] # "none" \/ \E r \in Requests : req[r].user = u /\ req[r].at \in ActingStages
BeingErased(u) == \E r \in Requests : req[r].user = u /\ req[r].at \in PurgeStages

\* While a request is handled, `seen` collects what its user's row has been.
Watch ==
  /\ seen' = [r \in Requests |->
       IF req'[r].at \in {"idle", "done"} THEN {}
       ELSE seen[r] \cup {user'[req'[r].user].status, user'[req'[r].user].role}]
  /\ around' = around \cup {u \in Users : BeingErased(u)' /\ Acting(u)'}

Next ==
  /\ \/ \E r \in Requests : Arrive(r) \/ Step(r) \/ Dies(r)
     \/ \E u \in Users : \/ Unsuspend(u) \/ GracePasses(u)
                         \/ \E role \in Roles : ChangeRole(u, role)
                         \/ \E part \in Parts : Stores(u, part)
  /\ Watch

Spec == Init /\ [][Next]_vars

-------------------------------------------------------------------------------
(***************************************************************************)
(* Properties                                                              *)
(***************************************************************************)
\* A login makes a session only for a user who was active at some moment while
\* the login was handled, whichever way it found the user.
SessionsForActive ==
  \A r \in Requests : req[r].at \in {"session", "refreshToken"} => "active" \in seen[r]

\* An access token names a role its user had while the token was being made.
TokensTellTrueRole ==
  \A r \in Requests : req[r].at \in {"session", "refreshToken", "answer"} => req[r].role \in seen[r]

\* The row is a pseudonym that no login finds; the sessions are gone with their tokens.
Buried(u) == user[u].status = "deleted" /\ ~user[u].linked /\ ~user[u].named /\ user[u].erased
NoSessions(u) ==
  \A x \in Sessions : Owner(x) = u => {sess[x], refresh[x]} \subseteq {"none", "deleted"}

\* An erasure that is recorded as completed has taken the person's address from the
\* row, whichever of its steps failed before.  If nobody acted for the user while it
\* ran (hardEraseUser locks nobody out), it has left no session, no token, no link to
\* Google, no name and none of the data, but what mcp-knowledge2 holds when the server
\* has no adapter for it; and no later login, refresh or cancellation brings any of it back.
CompletedMeansErased ==
  \A u \in Users : queue[u] = "completed" =>
    /\ user[u].erased
    /\ u \notin around => Buried(u) /\ NoSessions(u) /\ data[u] \subseteq Unreached

\* Two runs of the purge work on one user only if the user has come back and asked
\* for the erasure anew since it was due.
OneEraser ==
  \A r, q \in Requests :
    /\ req[r].at \in PurgeStages /\ req[q].at \in PurgeStages
    /\ req[r].user = req[q].user /\ r # q
    => req[r].user \notin due

Running(r) == req[r].at \notin {"idle", "done"}
Erasing(r) == req[r].at \in PurgeStages \cup {"fail"}

HandlerOK(r) ==
  /\ Running(r) => req[r].user \in Users
  /\ req[r].at \in {"enqueue", "claim"} \/ Erasing(r) => user[req[r].user].status # "absent"
  /\ req[r].at = "complete" => user[req[r].user].erased
  /\ req[r].at \in {"link", "session", "refreshToken"} => "active" \in seen[r]
  /\ req[r].at \in LoginStages \cup {"answer"} => req[r].role \in seen[r]

\* Until it is asked for anew, an erasure that is due is worked on by one run.
OneRun ==
  /\ \A r \in Requests : Erasing(r) /\ req[r].user \in due => queue[req[r].user] # "pending"
  /\ \A r, q \in Requests :
       Erasing(r) /\ Erasing(q) /\ req[r].user = req[q].user /\ r # q => req[r].user \notin due

\* What holds of the rows, the queue and the handlers.
RowsInv ==
  /\ TypeOK
  /\ \A r \in Requests : HandlerOK(r)
  /\ \A u \in Users : queue[u] # "none" => user[u].status # "absent"
  /\ \A u \in Users : queue[u] = "completed" => user[u].erased
  /\ OneRun

\* Every session has an owner, and every refresh token its session.
OwnersKnown ==
  /\ \A r \in Requests : sess[r] # "none" => req[r].user \in Users
  /\ \A x \in Sessions : refresh[x] # "none" => sess[x] # "none"
  /\ \A r \in Requests :
       /\ req[r].at = "idle" => sess[r] = "none"
       /\ req[r].at = "rotate" => /\ req[r].session \in Sessions /\ sess[req[r].session] # "none"
                                  /\ Owner(req[r].session) = req[r].user
       /\ req[r].at = "refreshToken" => sess[r] # "none"

\* What each stage of a purge may still find of the data, if nobody acts for the user.
Left == [destroyKey |-> Parts, eraseKnowledge |-> Parts \ {"key"},
         deleteCredentials |-> {"credentials", "passkeys"} \cup Unreached,
         deleteSessions |-> {"passkeys"} \cup Unreached,
         deletePasskeys |-> {"passkeys"} \cup Unreached,
         pseudonymise |-> Unreached, complete |-> Unreached]

\* How far a purge has come that nobody disturbs, and that nobody can act for the user
\* after it.
Undisturbed ==
  /\ \A r \in Requests : req[r].at \in PurgeStages /\ req[r].user \notin around =>
       /\ ~Acting(req[r].user) /\ data[req[r].user] \subseteq Left[req[r].at]
       /\ req[r].at \in {"deletePasskeys", "pseudonymise", "complete"} => NoSessions(req[r].user)
       /\ req[r].at = "complete" => Buried(req[r].user)
  /\ \A u \in Users \ around : queue[u] = "completed" =>
       /\ ~Acting(u) /\ Buried(u) /\ NoSessions(u) /\ data[u] \subseteq Unreached

\* The inductive invariant.
IInv == RowsInv /\ OwnersKnown /\ Undisturbed
===============================================================================
