----------------------------- MODULE AccountsProofs -----------------------------
(***************************************************************************)
(* Proofs about Accounts for any sets of users and requests.               *)
(***************************************************************************)
EXTENDS Accounts, TLAPS

TablesOK ==
  /\ user \in [Users -> UserRows] /\ invited \subseteq Users
  /\ sess \in [Sessions -> RowStates] /\ refresh \in [Sessions -> RowStates]
  /\ access \in [Users -> Roles \cup {"none"}]
  /\ queue \in [Users -> QueueStates] /\ due \subseteq Users
  /\ data \in [Users -> SUBSET Parts]

\* What a step may do to a row that exists.
Grows ==
  \A u \in Users : user[u].status # "absent" =>
    /\ user'[u].status # "absent"
    /\ user[u].erased => user'[u].erased

\* What a step of one request may do to the queue.
QueueGrows ==
  /\ due' \subseteq due
  /\ \A u \in Users :
       /\ queue'[u] = "pending" => queue[u] = "pending" \/ u \notin due'
       /\ queue'[u] = "completed" => queue[u] = "completed" \/ user'[u].erased
       /\ queue'[u] # "none" => queue[u] # "none" \/ user'[u].status # "absent"

\* What a handler must find to be in the record `rec` after a step.
RecOK(r, rec) ==
  /\ rec \in RequestRecords
  /\ rec.at \notin {"idle", "done"} => rec.user \in Users
  /\ rec.at \in {"enqueue", "claim", "fail"} \cup PurgeStages => user'[rec.user].status # "absent"
  /\ rec.at = "complete" => user'[rec.user].erased
  /\ rec.at \in {"link", "session", "refreshToken"} =>
       "active" \in seen[r] \/ user'[rec.user].status = "active"
  /\ rec.at \in LoginStages \cup {"answer"} =>
       rec.role \in seen[r] \/ rec.role = user'[rec.user].role

LEMMA InitRows == Init => RowsInv
<1> SUFFICES ASSUME Init PROVE RowsInv
  OBVIOUS
<1>1. PICK present \in SUBSET Users :
        /\ user = [u \in Users |->
             [status |-> IF u \in present THEN "active" ELSE "absent",
              role |-> IF u = Operator THEN "admin" ELSE "member",
              linked |-> u \in present, named |-> u \in present, erased |-> FALSE]]
        /\ sess = [x \in Sessions |-> IF x \in present THEN "live" ELSE "none"]
        /\ refresh = sess
        /\ access = [u \in Users |-> IF u \in present THEN user[u].role ELSE "none"]
        /\ data = [u \in Users |-> IF u \in present THEN Parts ELSE {}]
  BY DEF Init
<1>2. user \in [Users -> UserRows]
  BY <1>1 DEF UserRows, Roles
<1>3. sess \in [Sessions -> RowStates] /\ refresh \in [Sessions -> RowStates]
  BY <1>1 DEF RowStates
<1>4. access \in [Users -> Roles \cup {"none"}]
  BY <1>1, <1>2 DEF UserRows
<1>5. data \in [Users -> SUBSET Parts] /\ queue \in [Users -> QueueStates]
      /\ due \subseteq Users /\ invited \subseteq Users
  BY <1>1 DEF Init, QueueStates
<1>6. NewRequest \in RequestRecords /\ NewRequest.at = "idle"
  BY DEF NewRequest, RequestRecords, Stages, Roles
<1>7. /\ req \in [Requests -> RequestRecords] /\ \A r \in Requests : req[r].at = "idle"
      /\ seen \in [Requests -> SUBSET ({"active", "suspended", "deleted", "absent"} \cup Roles)]
      /\ \A u \in Users : queue[u] = "none"
      /\ around = {}
  BY <1>6 DEF Init
<1>8. "idle" \notin PurgeStages \cup LoginStages
  BY DEF PurgeStages, LoginStages
<1>9. TypeOK
  BY <1>2, <1>3, <1>4, <1>5, <1>7 DEF TypeOK
<1>10. QED
  BY <1>7, <1>8, <1>9 DEF RowsInv, HandlerOK, Running, Erasing, OneRun

\* `seen` collects what the row has been, and keeps it while the request runs.
LEMMA Watched ==
  ASSUME TypeOK, Watch, TablesOK', req' \in [Requests -> RequestRecords],
         \A r \in Requests : req'[r].at \notin {"idle", "done"} => req'[r].user \in Users
  PROVE  /\ TypeOK'
         /\ \A r \in Requests : req'[r].at \notin {"idle", "done"} =>
              /\ seen[r] \subseteq seen'[r]
              /\ user'[req'[r].user].status \in seen'[r] /\ user'[req'[r].user].role \in seen'[r]
<1>1. \A u \in Users : /\ user'[u].status \in {"absent", "active", "suspended", "deleted"}
                       /\ user'[u].role \in Roles
  BY DEF TablesOK, UserRows
<1>2. \A r \in Requests :
        seen'[r] = IF req'[r].at \in {"idle", "done"} THEN {}
                   ELSE seen[r] \cup {user'[req'[r].user].status, user'[req'[r].user].role}
  BY DEF Watch
<1>3. seen' \in [Requests -> SUBSET ({"active", "suspended", "deleted", "absent"} \cup Roles)]
  <2>1. ASSUME NEW r \in Requests
        PROVE  seen'[r] \in SUBSET ({"active", "suspended", "deleted", "absent"} \cup Roles)
    <3>1. seen[r] \in SUBSET ({"active", "suspended", "deleted", "absent"} \cup Roles)
      BY DEF TypeOK
    <3>2. CASE req'[r].at \in {"idle", "done"}
      BY <1>2, <3>2
    <3>3. CASE req'[r].at \notin {"idle", "done"}
      <4>1. /\ user'[req'[r].user].status \in {"absent", "active", "suspended", "deleted"}
            /\ user'[req'[r].user].role \in Roles
        BY <1>1, <3>3
      <4>2. seen'[r] = seen[r] \cup {user'[req'[r].user].status, user'[req'[r].user].role}
        BY <1>2, <3>3
      <4>3. QED
        BY <3>1, <4>1, <4>2
    <3>4. QED
      BY <3>2, <3>3
  <2>2. seen' = [r \in Requests |-> seen'[r]]
    BY DEF Watch
  <2>3. QED
    BY <2>1, <2>2
<1>4. TypeOK'
  BY <1>3 DEF TypeOK, TablesOK, Watch
<1>5. QED
  BY <1>2, <1>4

\* A handler the step leaves alone stays right.
LEMMA KeptHandler ==
  ASSUME RowsInv, Grows, NEW r \in Requests, req'[r] = req[r],
         req[r].at \notin {"idle", "done"} => seen[r] \subseteq seen'[r]
  PROVE  HandlerOK(r)'
<1>1. HandlerOK(r)
  BY DEF RowsInv
<1>2. "idle" \notin PurgeStages \cup LoginStages /\ "done" \notin PurgeStages \cup LoginStages
  BY DEF PurgeStages, LoginStages
<1>3. Running(r)' <=> Running(r)
  BY DEF Running
<1>4. Erasing(r)' <=> Erasing(r)
  BY DEF Erasing
<1>5. ~Running(r) \/ req[r].user \in Users
  BY <1>1 DEF HandlerOK
<1>6. CASE ~Running(r)
  BY <1>2, <1>3, <1>6 DEF HandlerOK, Running, Erasing
<1>7. CASE Running(r)
  <2>1. req[r].at \in {"enqueue", "claim"} \/ Erasing(r) =>
          user'[req[r].user].status # "absent"
    BY <1>1, <1>5, <1>7 DEF HandlerOK, Grows
  <2>2. req[r].at = "complete" => user'[req[r].user].erased
    BY <1>1, <1>5, <1>7 DEF HandlerOK, Grows, Erasing, PurgeStages
  <2>3. /\ req[r].at \in {"link", "session", "refreshToken"} => "active" \in seen'[r]
        /\ req[r].at \in LoginStages \cup {"answer"} => req[r].role \in seen'[r]
    BY <1>1, <1>7 DEF HandlerOK, Running
  <2>4. QED
    BY <1>3, <1>4, <1>5, <1>7, <2>1, <2>2, <2>3 DEF HandlerOK
<1>8. QED
  BY <1>6, <1>7

\* One handler takes a step.
LEMMA RequestStep ==
  ASSUME RowsInv, TablesOK', Watch, Grows, QueueGrows, NEW r \in Requests, NEW rec,
         req' = [req EXCEPT ![r] = rec], RecOK(r, rec),
         rec.at \in PurgeStages \cup {"fail"} =>
           \/ Erasing(r) /\ rec.user = req[r].user
           \/ /\ queue'[rec.user] # "pending"
              /\ \A q \in Requests \ {r} :
                   Erasing(q) /\ req[q].user = rec.user => rec.user \notin due'
  PROVE  RowsInv'
<1>1. /\ req'[r] = rec /\ \A q \in Requests \ {r} : req'[q] = req[q]
      /\ req' \in [Requests -> RequestRecords]
  BY DEF RowsInv, TypeOK, RecOK
<1>2. \A q \in Requests : req'[q].at \notin {"idle", "done"} => req'[q].user \in Users
  BY <1>1 DEF RecOK, RowsInv, HandlerOK, Running
<1>3. /\ TypeOK'
      /\ \A q \in Requests : req'[q].at \notin {"idle", "done"} =>
           /\ seen[q] \subseteq seen'[q]
           /\ user'[req'[q].user].status \in seen'[q] /\ user'[req'[q].user].role \in seen'[q]
  BY <1>1, <1>2, Watched DEF RowsInv
<1>4. HandlerOK(r)'
  <2>1. "idle" \notin PurgeStages \cup LoginStages /\ "done" \notin PurgeStages \cup LoginStages
    BY DEF PurgeStages, LoginStages
  <2>2. /\ rec.at \in {"link", "session", "refreshToken"} => "active" \in seen'[r]
        /\ rec.at \in LoginStages \cup {"answer"} => rec.role \in seen'[r]
    BY <1>1, <1>3, <2>1 DEF RecOK
  <2>3. Erasing(r)' <=> rec.at \in PurgeStages \cup {"fail"}
    BY <1>1 DEF Erasing
  <2>4. Running(r)' => rec.user \in Users
    BY <1>1, <1>2 DEF Running
  <2>5. QED
    BY <1>1, <2>2, <2>3, <2>4 DEF RecOK, HandlerOK
<1>5. \A q \in Requests : HandlerOK(q)'
  <2>1. ASSUME NEW q \in Requests \ {r} PROVE HandlerOK(q)'
    BY <1>1, <1>3, <2>1, KeptHandler
  <2>2. QED
    BY <1>4, <2>1
<1>6. \A u \in Users : (queue[u] # "none" => user[u].status # "absent")'
  BY DEF RowsInv, Grows, QueueGrows
<1>7. \A u \in Users : (queue[u] = "completed" => user[u].erased)'
  BY DEF RowsInv, Grows, QueueGrows
<1>8. OneRun'
  <2>1. \A q \in Requests \ {r} : /\ Erasing(q)' <=> Erasing(q)
                                  /\ req'[q].user = req[q].user
                                  /\ Erasing(q) => req[q].user \in Users
    BY <1>1 DEF Erasing, RowsInv, HandlerOK, Running, PurgeStages
  <2>2. Erasing(r)' <=> rec.at \in PurgeStages \cup {"fail"}
    BY <1>1 DEF Erasing
  <2>3. \A u \in Users : u \in due' /\ queue[u] # "pending" => queue'[u] # "pending"
    BY DEF QueueGrows
  <2>4. Erasing(r)' => rec.user \in Users
    BY <2>2 DEF RecOK, PurgeStages
  <2>5. ASSUME NEW q \in Requests, Erasing(q)', req'[q].user \in due'
        PROVE  queue'[req'[q].user] # "pending"
    <3>1. CASE q = r
      <4>1. CASE Erasing(r) /\ rec.user = req[r].user
        <5>1. rec.user \in due /\ queue[rec.user] # "pending"
          BY <1>1, <2>5, <3>1, <4>1 DEF RowsInv, OneRun, QueueGrows
        <5>2. QED
          BY <1>1, <2>3, <2>4, <2>5, <3>1, <5>1
      <4>2. QED
        BY <1>1, <2>2, <2>5, <3>1, <4>1
    <3>2. CASE q # r
      <4>1. req[q].user \in due /\ queue[req[q].user] # "pending" /\ req[q].user \in Users
        BY <2>1, <2>5, <3>2 DEF RowsInv, OneRun, QueueGrows
      <4>2. QED
        BY <2>1, <2>3, <2>5, <3>2, <4>1
    <3>3. QED
      BY <3>1, <3>2
  <2>6. ASSUME NEW p \in Requests, NEW q \in Requests, Erasing(p)', Erasing(q)',
               req'[p].user = req'[q].user, p # q
        PROVE  req'[p].user \notin due'
    <3>1. ASSUME NEW x \in Requests \ {r}, Erasing(r)', Erasing(x)', req'[x].user = req'[r].user
          PROVE  rec.user \notin due'
      <4>1. Erasing(x) /\ req[x].user = rec.user
        BY <1>1, <2>1, <3>1
      <4>2. CASE Erasing(r) /\ rec.user = req[r].user
        BY <4>1, <4>2 DEF RowsInv, OneRun, QueueGrows
      <4>3. QED
        BY <2>2, <3>1, <4>1, <4>2
    <3>2. CASE p = r
      BY <1>1, <2>6, <3>1, <3>2
    <3>3. CASE q = r
      BY <1>1, <2>6, <3>1, <3>3
    <3>4. CASE p # r /\ q # r
      BY <2>1, <2>6, <3>4 DEF RowsInv, OneRun, QueueGrows
    <3>5. QED
      BY <3>2, <3>3, <3>4
  <2>7. QED
    BY <2>5, <2>6 DEF OneRun
<1>9. QED
  BY <1>3, <1>5, <1>6, <1>7, <1>8 DEF RowsInv

\* A step that is nobody's request.
LEMMA NobodyStep ==
  ASSUME RowsInv, TablesOK', Watch, Grows, UNCHANGED <<req, queue>>,
         due' = due \/ \A r \in Requests : req[r].at \in {"idle", "done"}
  PROVE  RowsInv'
<1>1. \A r \in Requests : req[r].at \notin {"idle", "done"} => req[r].user \in Users
  BY DEF RowsInv, HandlerOK, Running
<1>2. /\ TypeOK'
      /\ \A r \in Requests : req[r].at \notin {"idle", "done"} => seen[r] \subseteq seen'[r]
  BY <1>1, Watched DEF RowsInv, TypeOK
<1>3. \A r \in Requests : HandlerOK(r)'
  BY <1>2, KeptHandler
<1>4. \A u \in Users : (queue[u] # "none" => user[u].status # "absent")'
  BY DEF RowsInv, Grows
<1>5. \A u \in Users : (queue[u] = "completed" => user[u].erased)'
  BY DEF RowsInv, Grows
<1>6. OneRun'
  <2>1. CASE due' = due
    BY <2>1 DEF RowsInv, OneRun, Erasing
  <2>2. CASE \A r \in Requests : req[r].at \in {"idle", "done"}
    BY <2>2 DEF OneRun, Erasing, PurgeStages
  <2>3. QED
    BY <2>1, <2>2
<1>7. QED
  BY <1>2, <1>3, <1>4, <1>5, <1>6 DEF RowsInv

\* What At makes of a record.
LEMMA AtEffect ==
  ASSUME NEW r \in Requests, NEW record \in RequestRecords, NEW stage \in Stages
  PROVE  /\ At(r, record, stage) \in RequestRecords /\ At(r, record, stage).at = stage
         /\ stage # "done" \/ sess[r] # "none" => At(r, record, stage).user = record.user
         /\ stage # "done" => At(r, record, stage).role = record.role
<1>1. [record EXCEPT !.at = stage] \in RequestRecords
  BY DEF RequestRecords
<1>2. \A u \in Users \cup {NoUser} :
        /\ [NewRequest EXCEPT !.at = "done", !.user = u] \in RequestRecords
        /\ [NewRequest EXCEPT !.at = "done", !.user = u].at = "done"
        /\ [NewRequest EXCEPT !.at = "done", !.user = u].user = u
  BY DEF NewRequest, RequestRecords, Stages, Roles
<1>3. record.user \in Users \cup {NoUser}
  BY DEF RequestRecords
<1>4. CASE stage = "done"
  BY <1>2, <1>3, <1>4 DEF At
<1>5. CASE stage # "done"
  BY <1>1, <1>5 DEF At, RequestRecords
<1>6. QED
  BY <1>4, <1>5

\* The same as RecOK for a handler that goes to `stage` with what `record` holds.
MoveOK(r, record, stage) ==
  /\ record \in RequestRecords /\ stage \in Stages
  /\ stage \notin {"idle", "done"} => record.user \in Users
  /\ stage \in {"enqueue", "claim", "fail"} \cup PurgeStages => user'[record.user].status # "absent"
  /\ stage = "complete" => user'[record.user].erased
  /\ stage \in {"link", "session", "refreshToken"} =>
       "active" \in seen[r] \/ user'[record.user].status = "active"
  /\ stage \in LoginStages \cup {"answer"} =>
       record.role \in seen[r] \/ record.role = user'[record.user].role

LEMMA MoveIsRec ==
  ASSUME NEW r \in Requests, NEW record, NEW stage, MoveOK(r, record, stage)
  PROVE  /\ RecOK(r, At(r, record, stage))
         /\ At(r, record, stage).at = stage
         /\ stage # "done" => At(r, record, stage).user = record.user
<1>1. /\ At(r, record, stage) \in RequestRecords /\ At(r, record, stage).at = stage
      /\ stage # "done" => /\ At(r, record, stage).user = record.user
                           /\ At(r, record, stage).role = record.role
  BY AtEffect DEF MoveOK
<1>2. CASE stage = "done"
  BY <1>1, <1>2 DEF RecOK, PurgeStages, LoginStages
<1>3. CASE stage # "done"
  BY <1>1, <1>3 DEF RecOK, MoveOK
<1>4. QED
  BY <1>1, <1>2, <1>3

\* A step that changes neither the users, nor their data, nor the queue.
LEMMA CalmStep ==
  ASSUME RowsInv, Watch, UNCHANGED <<user, data, queue, due>>,
         invited' \subseteq Users, sess' \in [Sessions -> RowStates],
         refresh' \in [Sessions -> RowStates], access' \in [Users -> Roles \cup {"none"}],
         NEW r \in Requests, NEW rec,
         req' = [req EXCEPT ![r] = rec], RecOK(r, rec),
         rec.at \in PurgeStages \cup {"fail"} => Erasing(r) /\ rec.user = req[r].user
  PROVE  RowsInv'
<1>1. TablesOK' /\ Grows /\ QueueGrows
  BY DEF RowsInv, TypeOK, TablesOK, Grows, QueueGrows
<1>2. QED
  BY <1>1, RequestStep

\* The same for a handler that goes to a stage outside the purge.
LEMMA CalmMove ==
  ASSUME RowsInv, Watch, UNCHANGED <<user, data, queue, due>>,
         invited' \subseteq Users, sess' \in [Sessions -> RowStates],
         refresh' \in [Sessions -> RowStates], access' \in [Users -> Roles \cup {"none"}],
         NEW r \in Requests, NEW record, NEW stage,
         req' = [req EXCEPT ![r] = At(r, record, stage)], MoveOK(r, record, stage),
         stage \notin PurgeStages \cup {"fail"}
  PROVE  RowsInv'
BY MoveIsRec, CalmStep

\* What a handler under way knows.
LEMMA HandlerFacts ==
  ASSUME RowsInv, NEW r \in Requests
  PROVE  /\ req[r] \in RequestRecords
         /\ req[r].at \notin {"idle", "done"} => req[r].user \in Users /\ user[req[r].user] \in UserRows
         /\ \A role \in Roles : [req[r] EXCEPT !.role = role] \in RequestRecords
         /\ \A role \in Roles : [req[r] EXCEPT !.role = role].user = req[r].user
         /\ \A role \in Roles : [req[r] EXCEPT !.role = role].role = role
         /\ invited \subseteq Users /\ sess \in [Sessions -> RowStates]
         /\ refresh \in [Sessions -> RowStates] /\ access \in [Users -> Roles \cup {"none"}]
<1>1. req[r] \in RequestRecords
  BY DEF RowsInv, TypeOK
<1>2. req[r].at \notin {"idle", "done"} => req[r].user \in Users /\ user[req[r].user] \in UserRows
  BY DEF RowsInv, TypeOK, HandlerOK, Running
<1>3. QED
  BY <1>1, <1>2 DEF RequestRecords, RowsInv, TypeOK

\* Logins: what they find, and what becomes of the invite.
LEMMA LoginStep ==
  ASSUME RowsInv, Watch, NEW r \in Requests,
         \/ \E u \in Users, i \in BOOLEAN : Login(r, u, i)
         \/ \E u \in Users : PasskeyLogin(r, u)
  PROVE  RowsInv'
<1>1. ASSUME NEW u \in Users, NEW i \in BOOLEAN, Login(r, u, i) PROVE RowsInv'
  <2> DEFINE rec == [NewRequest EXCEPT !.user = u, !.invite = i, !.role = user[u].role,
                       !.at = IF user[u].linked /\ Active(u) THEN "session" ELSE "byEmail"]
  <2>1. user[u] \in UserRows
    BY DEF RowsInv, TypeOK
  <2>2. /\ rec \in RequestRecords /\ rec.user = u /\ rec.role = user[u].role
        /\ rec.at \in {"session", "byEmail"} /\ (rec.at = "session" => Active(u))
    BY <2>1 DEF NewRequest, RequestRecords, UserRows, Stages, LoginStages
  <2>3. req' = [req EXCEPT ![r] = rec]
    BY <1>1 DEF Login
  <2>4. UNCHANGED <<user, invited, sess, refresh, access, queue, due, data>>
    BY <1>1 DEF Login
  <2> HIDE DEF rec
  <2>5. RecOK(r, rec) /\ rec.at \notin PurgeStages \cup {"fail"}
    BY <2>2, <2>4 DEF RecOK, PurgeStages, Active
  <2>6. QED
    BY <2>3, <2>4, <2>5, CalmStep, HandlerFacts
<1>2. ASSUME NEW u \in Users, PasskeyLogin(r, u) PROVE RowsInv'
  <2> DEFINE record == [NewRequest EXCEPT !.user = u, !.role = user[u].role]
             stage == IF Active(u) THEN "session" ELSE "done"
  <2>1. user[u] \in UserRows
    BY DEF RowsInv, TypeOK
  <2>2. record \in RequestRecords /\ record.user = u /\ record.role = user[u].role
    BY <2>1 DEF NewRequest, RequestRecords, UserRows, Stages
  <2>3. req' = [req EXCEPT ![r] = At(r, record, stage)]
    BY <1>2 DEF PasskeyLogin
  <2>4. UNCHANGED <<user, invited, sess, refresh, access, queue, due, data>>
    BY <1>2 DEF PasskeyLogin
  <2>5. stage \in {"session", "done"} /\ (stage = "session" => Active(u))
    OBVIOUS
  <2> HIDE DEF record, stage
  <2>6. MoveOK(r, record, stage) /\ stage \notin PurgeStages \cup {"fail"}
    BY <2>2, <2>4, <2>5 DEF MoveOK, PurgeStages, LoginStages, Stages, Active
  <2>7. QED
    BY <2>3, <2>4, <2>6, CalmMove, HandlerFacts
<1>3. QED
  BY <1>1, <1>2

LEMMA LookupStep ==
  ASSUME RowsInv, Watch, NEW r \in Requests,
         ByEmail(r) \/ CountActive(r) \/ FindInvite(r) \/ AcceptInvite(r) \/ ByInvitedEmail(r)
  PROVE  RowsInv'
<1> DEFINE u == req[r].user
<1>1. /\ req[r].at \in {"byEmail", "count", "findInvite", "accept", "byInvitedEmail"}
      /\ u \in Users /\ user[u] \in UserRows /\ user[u].role \in Roles
      /\ req[r] \in RequestRecords /\ req[r].role \in seen[r]
      /\ UNCHANGED <<user, sess, refresh, access, queue, due, data>> /\ invited' \subseteq invited
  <2>1. req[r].at \in {"byEmail", "count", "findInvite", "accept", "byInvitedEmail"}
    BY DEF ByEmail, CountActive, FindInvite, AcceptInvite, ByInvitedEmail
  <2>2. req[r].role \in seen[r]
    BY <2>1 DEF RowsInv, HandlerOK, LoginStages
  <2>3. UNCHANGED <<user, sess, refresh, access, queue, due, data>> /\ invited' \subseteq invited
    BY DEF ByEmail, CountActive, FindInvite, AcceptInvite, ByInvitedEmail
  <2>4. QED
    BY <2>1, <2>2, <2>3, HandlerFacts DEF UserRows
<1>2. ASSUME NEW stage \in {"findInvite", "link", "count", "done", "insertMember", "reactivate"},
             GoesAs(r, stage, user[u].role), stage = "link" => Active(u)
      PROVE  RowsInv'
  <2> DEFINE record == [req[r] EXCEPT !.role = user[u].role]
  <2>1. record \in RequestRecords /\ record.user = u /\ record.role = user[u].role
    BY <1>1, HandlerFacts
  <2>2. req' = [req EXCEPT ![r] = At(r, record, stage)]
    BY <1>2 DEF GoesAs
  <2> HIDE DEF record, u
  <2>3. MoveOK(r, record, stage) /\ stage \notin PurgeStages \cup {"fail"}
    BY <1>1, <1>2, <2>1 DEF MoveOK, PurgeStages, LoginStages, Stages, Active
  <2>4. QED
    BY <1>1, <2>2, <2>3, CalmMove, HandlerFacts
<1>3. ASSUME NEW stage \in {"insertAdmin", "done", "accept", "byInvitedEmail"}, Goes(r, stage)
      PROVE  RowsInv'
  <2>1. req' = [req EXCEPT ![r] = At(r, req[r], stage)]
    BY <1>3 DEF Goes
  <2>2. MoveOK(r, req[r], stage) /\ stage \notin PurgeStages \cup {"fail"}
    BY <1>1, <1>3 DEF MoveOK, PurgeStages, LoginStages, Stages
  <2>3. QED
    BY <1>1, <2>1, <2>2, CalmMove, HandlerFacts
<1>4. CASE ByEmail(r)
  <2> DEFINE stage == IF req[r].invite THEN "findInvite"
                      ELSE IF HasRow(u) /\ Active(u) THEN "link"
                      ELSE IF u = Operator THEN "count" ELSE "done"
  <2>1. GoesAs(r, stage, user[u].role)
    BY <1>4 DEF ByEmail
  <2>2. stage \in {"findInvite", "link", "count", "done"} /\ (stage = "link" => Active(u))
    OBVIOUS
  <2> HIDE DEF stage
  <2>3. QED
    BY <1>2, <2>1, <2>2
<1>5. CASE ByInvitedEmail(r)
  <2> DEFINE stage == IF ~HasRow(u) THEN "insertMember"
                      ELSE IF user[u].status = "suspended" THEN "done" ELSE "reactivate"
  <2>1. GoesAs(r, stage, user[u].role)
    BY <1>5 DEF ByInvitedEmail
  <2>2. stage \in {"insertMember", "done", "reactivate"}
    OBVIOUS
  <2> HIDE DEF stage
  <2>3. QED
    BY <1>2, <2>1, <2>2
<1>6. CASE CountActive(r) \/ FindInvite(r) \/ AcceptInvite(r)
  <2>1. \E stage \in {"insertAdmin", "done", "accept", "byInvitedEmail"} : Goes(r, stage)
    BY <1>6 DEF CountActive, FindInvite, AcceptInvite
  <2>2. QED
    BY <1>3, <2>1
<1>7. QED
  BY <1>4, <1>5, <1>6

\* A step that sets one row of the table users.
LEMMA RowEffect ==
  ASSUME RowsInv, NEW v \in Users, NEW row \in UserRows, user' = [user EXCEPT ![v] = row],
         row.status # "absent", user[v].status # "absent" /\ user[v].erased => row.erased,
         UNCHANGED <<invited, sess, refresh, access, queue, due, data>>
  PROVE  TablesOK' /\ Grows /\ QueueGrows
<1>1. user'[v] = row /\ \A u \in Users \ {v} : user'[u] = user[u]
  BY DEF RowsInv, TypeOK
<1>2. TablesOK'
  BY DEF RowsInv, TypeOK, TablesOK
<1>3. Grows
  BY <1>1 DEF Grows
<1>4. QueueGrows
  BY DEF QueueGrows
<1>5. QED
  BY <1>2, <1>3, <1>4

LEMMA RowMove ==
  ASSUME RowsInv, Watch, NEW v \in Users, NEW row \in UserRows, user' = [user EXCEPT ![v] = row],
         row.status # "absent", user[v].status # "absent" /\ user[v].erased => row.erased,
         UNCHANGED <<invited, sess, refresh, access, queue, due, data>>,
         NEW r \in Requests, NEW record, NEW stage,
         req' = [req EXCEPT ![r] = At(r, record, stage)], MoveOK(r, record, stage),
         stage \notin PurgeStages \cup {"fail"} \/ (Erasing(r) /\ record.user = req[r].user)
  PROVE  RowsInv'
<1>1. TablesOK' /\ Grows /\ QueueGrows
  BY RowEffect
<1>2. /\ RecOK(r, At(r, record, stage)) /\ At(r, record, stage).at = stage
      /\ stage # "done" => At(r, record, stage).user = record.user
  BY MoveIsRec
<1>3. "done" \notin PurgeStages \cup {"fail"}
  BY DEF PurgeStages
<1>4. QED
  BY <1>1, <1>2, <1>3, RequestStep

\* The user is found, made or made active; then comes the session.
LEMMA JoinStep ==
  ASSUME RowsInv, Watch, NEW r \in Requests,
         Link(r) \/ InsertAdmin(r) \/ InsertMember(r) \/ Reactivate(r)
  PROVE  RowsInv'
<1>1. PICK u \in Users : u = req[r].user
  BY HandlerFacts DEF Link, InsertAdmin, InsertMember, InsertRow, Reactivate
<1>2. /\ user[u] \in UserRows /\ req[r] \in RequestRecords
      /\ req[r].at \in {"link", "insertAdmin", "insertMember", "reactivate"}
      /\ req[r].role \in seen[r] /\ UNCHANGED <<invited, sess, refresh, access, queue, due>>
  <2>1. req[r].at \in {"link", "insertAdmin", "insertMember", "reactivate"}
    BY DEF Link, InsertAdmin, InsertMember, InsertRow, Reactivate
  <2>2. req[r].role \in seen[r]
    BY <2>1 DEF RowsInv, HandlerOK, LoginStages
  <2>3. UNCHANGED <<invited, sess, refresh, access, queue, due>>
    BY DEF Link, InsertAdmin, InsertMember, InsertRow, Reactivate
  <2>4. QED
    BY <1>1, <2>1, <2>2, <2>3, HandlerFacts
<1>3. ASSUME Goes(r, "done"), UNCHANGED <<user, data>> PROVE RowsInv'
  <2>1. req' = [req EXCEPT ![r] = At(r, req[r], "done")]
    BY <1>3 DEF Goes
  <2>2. MoveOK(r, req[r], "done") /\ "done" \notin PurgeStages \cup {"fail"}
    BY <1>2 DEF MoveOK, PurgeStages, LoginStages, Stages
  <2>3. QED
    BY <1>2, <1>3, <2>1, <2>2, CalmMove, HandlerFacts
<1>4. CASE Link(r)
  <2> DEFINE row == [user[u] EXCEPT !.linked = TRUE]
  <2>1. row \in UserRows /\ row.status = user[u].status /\ row.erased = user[u].erased
    BY <1>2 DEF UserRows
  <2>2. user' = [user EXCEPT ![u] = row] /\ UNCHANGED data
    BY <1>1, <1>4 DEF Link
  <2>3. req' = [req EXCEPT ![r] = At(r, req[r], "session")]
    BY <1>4 DEF Link, Goes
  <2>4. "active" \in seen[r]
    BY <1>4 DEF Link, RowsInv, HandlerOK
  <2> HIDE DEF row
  <2>5. MoveOK(r, req[r], "session") /\ "session" \notin PurgeStages \cup {"fail"}
    BY <1>1, <1>2, <2>4 DEF MoveOK, PurgeStages, LoginStages, Stages
  <2>6. CASE user[u].status # "absent"
    BY <1>2, <2>1, <2>2, <2>3, <2>5, <2>6, RowMove
  <2>7. CASE user[u].status = "absent"
    <3>1. TablesOK' /\ Grows /\ QueueGrows
      <4>1. user'[u] = row /\ \A v \in Users \ {u} : user'[v] = user[v]
        BY <2>2 DEF RowsInv, TypeOK
      <4>2. QED
        BY <1>2, <2>1, <2>2, <2>7, <4>1 DEF RowsInv, TypeOK, TablesOK, Grows, QueueGrows
    <3>2. RecOK(r, At(r, req[r], "session")) /\ At(r, req[r], "session").at = "session"
      BY <2>5, MoveIsRec
    <3>3. QED
      BY <2>3, <2>5, <3>1, <3>2, RequestStep
  <2>8. QED
    BY <2>6, <2>7
<1>5. ASSUME NEW stage \in {"insertAdmin", "insertMember"}, NEW role \in Roles,
             InsertRow(r, stage, role)
      PROVE  RowsInv'
  <2>1. CASE user[u].status = "absent" /\ Update(u, NewRow(role))
             /\ data' = [data EXCEPT ![u] = Parts] /\ GoesAs(r, "session", role)
    <3> DEFINE record == [req[r] EXCEPT !.role = role]
    <3>1. /\ NewRow(role) \in UserRows /\ NewRow(role).status = "active"
          /\ NewRow(role).role = role
      BY DEF NewRow, UserRows
    <3>2. /\ user'[u] = NewRow(role) /\ \A v \in Users \ {u} : user'[v] = user[v]
          /\ \A v \in Users \ {u} : data'[v] = data[v]
          /\ user' \in [Users -> UserRows] /\ data' \in [Users -> SUBSET Parts]
      BY <2>1, <3>1 DEF Update, RowsInv, TypeOK
    <3>3. TablesOK'
      BY <1>2, <3>2 DEF RowsInv, TypeOK, TablesOK
    <3>4. Grows
      BY <2>1, <3>2 DEF Grows
    <3>5. queue[u] = "none"
      BY <2>1 DEF RowsInv
    <3>6. QueueGrows
      BY <1>2 DEF QueueGrows
    <3>7. record \in RequestRecords /\ record.user = u /\ record.role = role
      BY <1>1, HandlerFacts
    <3>8. req' = [req EXCEPT ![r] = At(r, record, "session")]
      BY <2>1 DEF GoesAs
    <3> HIDE DEF record
    <3>9. MoveOK(r, record, "session") /\ "session" \notin PurgeStages \cup {"fail"}
      BY <3>1, <3>2, <3>7 DEF MoveOK, PurgeStages, LoginStages, Stages
    <3>10. RecOK(r, At(r, record, "session")) /\ At(r, record, "session").at = "session"
      BY <3>9, MoveIsRec
    <3>11. QED
      BY <3>3, <3>4, <3>6, <3>8, <3>9, <3>10, RequestStep
  <2>2. QED
    BY <1>1, <1>3, <1>5, <2>1 DEF InsertRow
<1>6. CASE Reactivate(r)
  <2> DEFINE row == [user[u] EXCEPT !.status = "active", !.linked = TRUE, !.named = TRUE]
  <2>1. row \in UserRows /\ row.status = "active" /\ row.erased = user[u].erased
    BY <1>2 DEF UserRows
  <2>2. CASE Update(u, row) /\ Goes(r, "session")
    <3>1. user' = [user EXCEPT ![u] = row] /\ UNCHANGED data
      BY <1>6, <2>2 DEF Update, Reactivate
    <3>2. req' = [req EXCEPT ![r] = At(r, req[r], "session")]
      BY <2>2 DEF Goes
    <3>3. user'[u].status = "active"
      BY <2>1, <3>1 DEF RowsInv, TypeOK
    <3> HIDE DEF row
    <3>4. MoveOK(r, req[r], "session") /\ "session" \notin PurgeStages \cup {"fail"}
      BY <1>1, <1>2, <3>3 DEF MoveOK, PurgeStages, LoginStages, Stages
    <3>5. QED
      BY <1>2, <2>1, <3>1, <3>2, <3>4, RowMove
  <2>3. QED
    BY <1>1, <1>3, <1>6, <2>2 DEF Reactivate
<1>7. QED
  BY <1>4, <1>5, <1>6 DEF InsertAdmin, InsertMember, Roles

LEMMA RevokeTyped ==
  ASSUME NEW table \in [Sessions -> RowStates], NEW u
  PROVE  RevokeIn(table, u) \in [Sessions -> RowStates]
BY DEF RevokeIn, RowStates

\* A handler goes on, or ends, without touching users, data or queue.
LEMMA CalmGoes ==
  ASSUME RowsInv, Watch, UNCHANGED <<user, invited, data, queue, due>>,
         sess' \in [Sessions -> RowStates], refresh' \in [Sessions -> RowStates],
         access' \in [Users -> Roles \cup {"none"}],
         NEW r \in Requests, req[r].at \notin {"idle", "done"},
         NEW stage \in Stages \ (PurgeStages \cup {"fail", "enqueue", "claim", "idle"}), Goes(r, stage),
         stage \in {"link", "session", "refreshToken"} => "active" \in seen[r],
         stage \in LoginStages \cup {"answer"} => req[r].role \in seen[r]
  PROVE  RowsInv'
<1>1. req' = [req EXCEPT ![r] = At(r, req[r], stage)]
  BY DEF Goes
<1>2. MoveOK(r, req[r], stage)
  BY HandlerFacts DEF MoveOK, PurgeStages
<1>3. QED
  BY <1>1, <1>2, CalmMove, HandlerFacts

\* Making and refreshing a session.
LEMMA SessionStep ==
  ASSUME RowsInv, Watch, NEW r \in Requests,
         CreateSession(r) \/ CreateRefreshToken(r) \/ Rotate(r) \/ ReadRole(r) \/ Answer(r)
  PROVE  RowsInv'
<1>1. /\ req[r].at \in {"session", "refreshToken", "rotate", "readRole", "answer"}
      /\ UNCHANGED <<user, invited, data, queue, due>>
  BY DEF CreateSession, CreateRefreshToken, Rotate, ReadRole, Answer
<1>2. /\ req[r].user \in Users /\ user[req[r].user].role \in Roles /\ req[r] \in RequestRecords
      /\ req[r].role \in Roles
      /\ sess \in [Sessions -> RowStates] /\ refresh \in [Sessions -> RowStates]
      /\ access \in [Users -> Roles \cup {"none"}]
  BY <1>1, HandlerFacts DEF UserRows, RequestRecords
<1>3. /\ req[r].at \in {"session", "refreshToken"} => "active" \in seen[r]
      /\ req[r].at \in {"session", "refreshToken", "answer"} => req[r].role \in seen[r]
  BY DEF RowsInv, HandlerOK, LoginStages
<1>4. {"refreshToken", "readRole", "answer", "done"} \subseteq
        Stages \ (PurgeStages \cup {"fail", "enqueue", "claim", "idle"})
  BY DEF Stages, LoginStages, PurgeStages
<1>5. {"readRole", "done"} \cap LoginStages = {} /\ "answer" \notin LoginStages
  BY DEF LoginStages
<1>6. CASE CreateSession(r)
  <2>1. sess' \in [Sessions -> RowStates]
    BY <1>2, <1>6 DEF CreateSession, RowStates
  <2>2. Goes(r, "refreshToken") /\ UNCHANGED <<refresh, access>> /\ req[r].at = "session"
    BY <1>6 DEF CreateSession
  <2>3. QED
    BY <1>1, <1>2, <1>3, <1>4, <2>1, <2>2, CalmGoes
<1>7. CASE CreateRefreshToken(r)
  <2>1. refresh' \in [Sessions -> RowStates]
    BY <1>2, <1>7 DEF CreateRefreshToken, RowStates
  <2>2. /\ Goes(r, "done") \/ Goes(r, "answer")
        /\ UNCHANGED <<sess, access>> /\ req[r].at = "refreshToken"
    BY <1>7 DEF CreateRefreshToken
  <2>3. QED
    BY <1>1, <1>2, <1>3, <1>4, <1>5, <2>1, <2>2, CalmGoes
<1>8. CASE Rotate(r)
  <2>1. refresh' \in [Sessions -> RowStates]
    BY <1>2, <1>8 DEF Rotate, RowStates
  <2>2. /\ Goes(r, "done") \/ Goes(r, "readRole")
        /\ UNCHANGED <<sess, access>>
    BY <1>8 DEF Rotate
  <2>3. QED
    BY <1>1, <1>2, <1>4, <1>5, <2>1, <2>2, CalmGoes
<1>9. CASE ReadRole(r)
  <2> DEFINE role == user[req[r].user].role
             record == [req[r] EXCEPT !.role = role]
  <2>1. record \in RequestRecords /\ record.user = req[r].user /\ record.role = role
    BY <1>2, HandlerFacts
  <2>2. req' = [req EXCEPT ![r] = At(r, record, "answer")]
    BY <1>9 DEF ReadRole, GoesAs
  <2>3. UNCHANGED <<sess, refresh, access>>
    BY <1>9 DEF ReadRole
  <2> HIDE DEF record
  <2>4. MoveOK(r, record, "answer") /\ "answer" \notin PurgeStages \cup {"fail"}
    BY <1>1, <1>2, <2>1 DEF MoveOK, PurgeStages, LoginStages, Stages
  <2>5. QED
    BY <1>1, <2>2, <2>3, <2>4, CalmMove, HandlerFacts
<1>10. CASE Answer(r)
  <2>1. access' \in [Users -> Roles \cup {"none"}]
    BY <1>2, <1>10 DEF Answer
  <2>2. Goes(r, "done") /\ UNCHANGED <<sess, refresh>>
    BY <1>10 DEF Answer
  <2>3. QED
    BY <1>1, <1>2, <1>4, <1>5, <2>1, <2>2, CalmGoes
<1>11. QED
  BY <1>6, <1>7, <1>8, <1>9, <1>10

\* The record of a request that has just arrived.
LEMMA ArrivalRecord ==
  ASSUME NEW u \in Users
  PROVE  /\ [NewRequest EXCEPT !.user = u] \in RequestRecords
         /\ [NewRequest EXCEPT !.user = u].user = u
         /\ \A x \in Sessions :
              /\ [NewRequest EXCEPT !.user = u, !.session = x] \in RequestRecords
              /\ [NewRequest EXCEPT !.user = u, !.session = x].user = u
              /\ [NewRequest EXCEPT !.user = u, !.session = x].session = x
BY DEF NewRequest, RequestRecords, Stages, Roles

\* Requests that arrive at an existing session or user without changing the users.
LEMMA ArrivalStep ==
  ASSUME RowsInv, Watch, NEW r \in Requests, NEW record \in RequestRecords, record.user \in Users,
         NEW stage \in {"rotate", "done", "markDeleted", "cancel", "claim"},
         req' = [req EXCEPT ![r] = At(r, record, stage)],
         stage = "claim" => user[record.user].status # "absent",
         UNCHANGED <<user, invited, refresh, access, data, queue, due>>,
         sess' \in [Sessions -> RowStates]
  PROVE  RowsInv'
<1>1. stage \in Stages /\ stage \notin PurgeStages \cup LoginStages \cup {"fail", "enqueue", "idle"}
  BY DEF PurgeStages, LoginStages, Stages
<1>2. MoveOK(r, record, stage)
  BY <1>1 DEF MoveOK, PurgeStages
<1>3. QED
  BY <1>1, <1>2, CalmMove, HandlerFacts

LEMMA EraseRequestStep ==
  ASSUME RowsInv, Watch, NEW r \in Requests, NEW u \in Users,
         RequestErase(r, u) \/ CancelErase(r, u) \/ Purge(r, u)
  PROVE  RowsInv'
<1> DEFINE record == [NewRequest EXCEPT !.user = u]
<1>1. record \in RequestRecords /\ record.user = u
  BY ArrivalRecord
<1>2. /\ UNCHANGED <<user, invited, sess, refresh, access, queue, due, data>>
      /\ sess \in [Sessions -> RowStates]
  BY HandlerFacts DEF RequestErase, CancelErase, Purge
<1>3. ASSUME NEW stage \in {"done", "markDeleted", "cancel", "claim"}, Arrives(r, u, stage),
             stage = "claim" => user[u].status # "absent"
      PROVE  RowsInv'
  <2>1. req' = [req EXCEPT ![r] = At(r, record, stage)]
    BY <1>3 DEF Arrives
  <2> HIDE DEF record
  <2>2. QED
    BY <1>1, <1>2, <1>3, <2>1, ArrivalStep
<1>4. CASE RequestErase(r, u)
  <2>1. Arrives(r, u, "done") \/ Arrives(r, u, "markDeleted")
    BY <1>4 DEF RequestErase
  <2>2. QED
    BY <1>3, <2>1
<1>5. CASE CancelErase(r, u)
  <2>1. Arrives(r, u, "done") \/ Arrives(r, u, "cancel")
    BY <1>5 DEF CancelErase
  <2>2. QED
    BY <1>3, <2>1
<1>6. CASE Purge(r, u)
  <2>1. Arrives(r, u, "claim") /\ queue[u] = "pending"
    BY <1>6 DEF Purge
  <2>2. user[u].status # "absent"
    BY <2>1 DEF RowsInv
  <2>3. QED
    BY <1>3, <2>1, <2>2
<1>7. QED
  BY <1>4, <1>5, <1>6

LEMMA RefreshStep ==
  ASSUME RowsInv, OwnersKnown, Watch, NEW r \in Requests, NEW x \in Sessions, Refresh(r, x)
  PROVE  RowsInv'
<1>1. PICK u \in Users : u = Owner(x)
  BY DEF Refresh, OwnersKnown, Owner, Sessions
<1> DEFINE record == [NewRequest EXCEPT !.user = u, !.session = x]
<1>2. record \in RequestRecords /\ record.user = u
  BY ArrivalRecord
<1>3. PICK stage \in {"rotate", "done"} : req' = [req EXCEPT ![r] = At(r, record, stage)]
  BY <1>1 DEF Refresh
<1>4. /\ UNCHANGED <<user, invited, refresh, access, queue, due, data>>
      /\ sess' \in [Sessions -> RowStates]
  BY HandlerFacts DEF Refresh, RowStates
<1> HIDE DEF record
<1>5. QED
  BY <1>2, <1>3, <1>4, ArrivalStep

\* The sessions of a user end.
LEMMA EndStep ==
  ASSUME RowsInv, Watch, NEW r \in Requests,
         EndSessions(r) \/ RevokeSessions(r) \/ RevokeRefresh(r) \/ Dies(r)
  PROVE  RowsInv'
<1>1. /\ req[r].at \notin {"idle", "done"} /\ UNCHANGED <<user, invited, access, data, queue, due>>
      /\ Goes(r, "done") \/ Goes(r, "revokeRefresh")
  BY DEF EndSessions, RevokeSessions, RevokeRefresh, Dies
<1>2. /\ sess \in [Sessions -> RowStates] /\ refresh \in [Sessions -> RowStates]
      /\ access \in [Users -> Roles \cup {"none"}]
  BY HandlerFacts
<1>3. sess' \in [Sessions -> RowStates] /\ refresh' \in [Sessions -> RowStates]
  BY <1>2, RevokeTyped DEF EndSessions, RevokeSessions, RevokeRefresh, Dies
<1>4. /\ {"done", "revokeRefresh"} \subseteq
            Stages \ (PurgeStages \cup {"fail", "enqueue", "claim", "idle"})
      /\ {"done", "revokeRefresh"} \cap LoginStages = {}
  BY DEF Stages, LoginStages, PurgeStages
<1>5. QED
  BY <1>1, <1>2, <1>3, <1>4, CalmGoes

\* The administrator takes the account away; the handler goes on to its sessions.
LEMMA RemovalStep ==
  ASSUME RowsInv, Watch, NEW r \in Requests, NEW u \in Users,
         Suspend(r, u) \/ SoftDelete(r, u)
  PROVE  RowsInv'
<1> DEFINE record == [NewRequest EXCEPT !.user = u]
<1>1. record \in RequestRecords /\ record.user = u
  BY ArrivalRecord
<1>2. /\ UNCHANGED <<invited, sess, refresh, access, queue, due, data>>
      /\ HasRow(u) /\ Arrives(r, u, "endSessions")
  BY DEF Suspend, SoftDelete
<1>3. user[u] \in UserRows /\ user \in [Users -> UserRows] /\ user[u].status # "absent"
  BY <1>2 DEF RowsInv, TypeOK, HasRow
<1>4. PICK row \in UserRows : /\ user' = [user EXCEPT ![u] = row]
                              /\ row.status # "absent" /\ row.erased = user[u].erased
  <2>1. CASE user' = user
    <3>1. user' = [user EXCEPT ![u] = user[u]]
      BY <1>3, <2>1
    <3>2. QED
      BY <1>3, <3>1
  <2>2. ASSUME NEW status \in {"suspended", "deleted"},
               user' = [user EXCEPT ![u].status = status]
        PROVE  \E row \in UserRows : /\ user' = [user EXCEPT ![u] = row]
                                     /\ row.status # "absent" /\ row.erased = user[u].erased
    <3>1. /\ [user[u] EXCEPT !.status = status] \in UserRows
          /\ [user[u] EXCEPT !.status = status].status # "absent"
          /\ [user[u] EXCEPT !.status = status].erased = user[u].erased
      BY <1>3 DEF UserRows
    <3>2. user' = [user EXCEPT ![u] = [user[u] EXCEPT !.status = status]]
      BY <2>2
    <3>3. QED
      BY <3>1, <3>2
  <2>3. QED
    BY <2>1, <2>2 DEF Suspend, SoftDelete
<1>5. req' = [req EXCEPT ![r] = At(r, record, "endSessions")]
  BY <1>2 DEF Arrives
<1> HIDE DEF record
<1>6. MoveOK(r, record, "endSessions") /\ "endSessions" \notin PurgeStages \cup {"fail"}
  BY <1>1 DEF MoveOK, PurgeStages, LoginStages, Stages
<1>7. QED
  BY <1>2, <1>4, <1>5, <1>6, RowMove

\* Erasure, as far as it sets the status of the user.
LEMMA StatusStep ==
  ASSUME RowsInv, Watch, NEW r \in Requests,
         MarkDeleted(r) \/ Restore(r) \/ Pseudonymise(r)
  PROVE  RowsInv'
<1>1. PICK u \in Users : u = req[r].user
  BY HandlerFacts DEF MarkDeleted, Restore, Pseudonymise
<1>2. /\ user[u] \in UserRows /\ req[r] \in RequestRecords
      /\ req[r].at \in {"markDeleted", "restore", "pseudonymise"}
      /\ UNCHANGED <<invited, sess, refresh, access, queue, due, data>>
  BY <1>1, HandlerFacts DEF MarkDeleted, Restore, Pseudonymise
<1>3. CASE MarkDeleted(r)
  <2> DEFINE row == [user[u] EXCEPT !.status = "deleted"]
  <2>1. row \in UserRows /\ row.status = "deleted" /\ row.erased = user[u].erased
    BY <1>2 DEF UserRows
  <2>2. user' = [user EXCEPT ![u] = row] /\ req' = [req EXCEPT ![r] = At(r, req[r], "enqueue")]
    BY <1>1, <1>3 DEF MarkDeleted, Goes
  <2>3. user'[u].status # "absent"
    BY <2>1, <2>2 DEF RowsInv, TypeOK
  <2> HIDE DEF row
  <2>4. MoveOK(r, req[r], "enqueue") /\ "enqueue" \notin PurgeStages \cup {"fail"}
    BY <1>1, <1>2, <2>3 DEF MoveOK, PurgeStages, LoginStages, Stages
  <2>5. QED
    BY <1>2, <2>1, <2>2, <2>4, RowMove
<1>4. CASE Restore(r)
  <2> DEFINE row == [user[u] EXCEPT !.status = "active"]
  <2>1. row \in UserRows /\ row.status = "active" /\ row.erased = user[u].erased
    BY <1>2 DEF UserRows
  <2>2. CASE user[u].status = "deleted" /\ Update(u, row)
    <3>1. user' = [user EXCEPT ![u] = row]
      BY <2>2 DEF Update
    <3>2. req' = [req EXCEPT ![r] = At(r, req[r], "done")]
      BY <1>4 DEF Restore, Goes
    <3> HIDE DEF row
    <3>3. MoveOK(r, req[r], "done") /\ "done" \notin PurgeStages \cup {"fail"}
      BY <1>2 DEF MoveOK, PurgeStages, LoginStages, Stages
    <3>4. QED
      BY <1>2, <2>1, <3>1, <3>2, <3>3, RowMove
  <2>3. CASE UNCHANGED user
    <3>1. "done" \in Stages \ (PurgeStages \cup LoginStages \cup {"fail", "enqueue", "claim", "idle"})
      BY DEF Stages, PurgeStages, LoginStages
    <3>2. Goes(r, "done")
      BY <1>4 DEF Restore
    <3>3. QED
      BY <1>2, <2>3, <3>1, <3>2, CalmGoes, HandlerFacts
  <2>4. QED
    BY <1>1, <1>4, <2>2, <2>3 DEF Restore
<1>5. CASE Pseudonymise(r)
  <2> DEFINE row == [user[u] EXCEPT !.status = "deleted", !.linked = FALSE, !.named = FALSE,
                                  !.erased = TRUE]
  <2>1. row \in UserRows /\ row.status = "deleted" /\ row.erased
    BY <1>2 DEF UserRows
  <2>2. user' = [user EXCEPT ![u] = row] /\ req' = [req EXCEPT ![r] = At(r, req[r], "complete")]
    BY <1>1, <1>5 DEF Pseudonymise, Goes
  <2>3. user'[u].status # "absent" /\ user'[u].erased
    BY <2>1, <2>2 DEF RowsInv, TypeOK
  <2>4. Erasing(r)
    BY <1>5 DEF Pseudonymise, Erasing, PurgeStages
  <2> HIDE DEF row
  <2>5. MoveOK(r, req[r], "complete")
    BY <1>1, <1>2, <2>3, <2>4 DEF MoveOK, PurgeStages, LoginStages, Stages
  <2>6. QED
    BY <1>2, <2>1, <2>2, <2>4, <2>5, RowMove
<1>6. QED
  BY <1>3, <1>4, <1>5

\* One handler goes to another stage, whatever its step does to the tables.
LEMMA TableMove ==
  ASSUME RowsInv, TablesOK', Watch, Grows, QueueGrows, NEW r \in Requests,
         NEW stage, Goes(r, stage), MoveOK(r, req[r], stage),
         stage \in PurgeStages \cup {"fail"} =>
           \/ Erasing(r)
           \/ /\ queue'[req[r].user] # "pending"
              /\ \A q \in Requests \ {r} :
                   Erasing(q) /\ req[q].user = req[r].user => req[r].user \notin due'
  PROVE  RowsInv'
<1>1. req' = [req EXCEPT ![r] = At(r, req[r], stage)]
  BY DEF Goes
<1>2. /\ RecOK(r, At(r, req[r], stage)) /\ At(r, req[r], stage).at = stage
      /\ stage # "done" => At(r, req[r], stage).user = req[r].user
  BY MoveIsRec
<1>3. "done" \notin PurgeStages \cup {"fail"}
  BY DEF PurgeStages
<1>4. QED
  BY <1>1, <1>2, <1>3, RequestStep

\* Steps that set one entry of the queue.
LEMMA QueueEffect ==
  ASSUME RowsInv, NEW u \in Users, NEW entry \in QueueStates, queue' = [queue EXCEPT ![u] = entry],
         UNCHANGED <<user, invited, sess, refresh, access, data>>, due' \subseteq due,
         entry = "pending" => queue[u] = "pending" \/ u \notin due',
         entry = "completed" => queue[u] = "completed" \/ user[u].erased,
         entry # "none" => queue[u] # "none" \/ user[u].status # "absent"
  PROVE  TablesOK' /\ Grows /\ QueueGrows /\ queue'[u] = entry
<1>1. queue'[u] = entry /\ \A v \in Users \ {u} : queue'[v] = queue[v]
  BY DEF RowsInv, TypeOK
<1>2. TablesOK'
  BY DEF RowsInv, TypeOK, TablesOK
<1>3. Grows
  BY DEF Grows
<1>4. QueueGrows
  BY <1>1 DEF QueueGrows
<1>5. QED
  BY <1>1, <1>2, <1>3, <1>4

LEMMA QueueStep ==
  ASSUME RowsInv, Watch, NEW r \in Requests,
         Enqueue(r) \/ MarkCancelled(r) \/ Claim(r) \/ Complete(r) \/ MarkFailed(r)
  PROVE  RowsInv'
<1>1. PICK u \in Users : u = req[r].user
  BY HandlerFacts DEF Enqueue, MarkCancelled, Claim, Complete, MarkFailed
<1>2. /\ UNCHANGED <<user, invited, sess, refresh, access, data>>
      /\ req[r] \in RequestRecords /\ queue[u] \in QueueStates
  BY HandlerFacts DEF Enqueue, MarkCancelled, Claim, Complete, MarkFailed, RowsInv, TypeOK
<1>3. /\ {"revokeSessions", "restore", "done"} \cap
           (PurgeStages \cup LoginStages \cup {"fail", "enqueue", "claim", "idle", "answer"}) = {}
      /\ {"revokeSessions", "restore", "done", "destroyKey", "fail"} \subseteq Stages
      /\ {"destroyKey", "fail"} \cap (LoginStages \cup {"answer", "complete"}) = {}
      /\ "destroyKey" \in PurgeStages /\ "fail" \notin PurgeStages
      /\ "link" \in LoginStages /\ "session" \in LoginStages /\ "refreshToken" \in LoginStages
  BY DEF PurgeStages, LoginStages, Stages
<1>4. \A stage \in {"revokeSessions", "restore", "done"} : MoveOK(r, req[r], stage)
  BY <1>1, <1>2, <1>3 DEF MoveOK
<1>5. CASE Enqueue(r)
  <2>1. user[u].status # "absent"
    BY <1>1, <1>5 DEF Enqueue, RowsInv, HandlerOK
  <2>2. /\ queue' = [queue EXCEPT ![u] = "pending"] /\ due' = due \ {u}
        /\ Goes(r, "revokeSessions")
    BY <1>1, <1>5 DEF Enqueue
  <2>3. TablesOK' /\ Grows /\ QueueGrows
    <3>1. "pending" \in QueueStates
      BY DEF QueueStates
    <3>2. due' \subseteq due
      BY <2>2
    <3>3. /\ user' = user /\ data' = data /\ queue'[u] = "pending"
          /\ \A v \in Users \ {u} : queue'[v] = queue[v]
      BY <1>2, <2>2 DEF RowsInv, TypeOK
    <3>4. TablesOK'
      BY <1>2, <2>2, <3>1, <3>2 DEF RowsInv, TypeOK, TablesOK
    <3>5. Grows /\ QueueGrows
      BY <2>1, <2>2, <3>2, <3>3 DEF Grows, QueueGrows
    <3>6. QED
      BY <3>4, <3>5
  <2>4. QED
    BY <1>3, <1>4, <2>2, <2>3, TableMove
<1>6. CASE MarkCancelled(r)
  <2> DEFINE entry == IF queue[u] = "pending" THEN "cancelled" ELSE queue[u]
  <2>1. queue' = [queue EXCEPT ![u] = entry] /\ due' = due /\ Goes(r, "restore")
    BY <1>1, <1>6 DEF MarkCancelled
  <2>2. /\ entry \in QueueStates /\ entry # "pending"
        /\ entry = "completed" => queue[u] = "completed"
        /\ entry # "none" => queue[u] # "none"
    BY <1>2 DEF QueueStates
  <2> HIDE DEF entry
  <2>3. TablesOK' /\ Grows /\ QueueGrows
    BY <1>2, <2>1, <2>2, QueueEffect
  <2>4. QED
    BY <1>3, <1>4, <2>1, <2>3, TableMove
<1>7. CASE Claim(r)
  <2>0. user[u].status # "absent"
    BY <1>1, <1>7 DEF Claim, RowsInv, HandlerOK
  <2>1. CASE queue[u] = "pending"
    <3>1. /\ queue' = [queue EXCEPT ![u] = "processing"] /\ due' = due /\ Goes(r, "destroyKey")
      BY <1>1, <1>7, <2>1 DEF Claim
    <3>2. "processing" \in QueueStates
      BY DEF QueueStates
    <3>3. TablesOK' /\ Grows /\ QueueGrows /\ queue'[u] = "processing"
      BY <1>2, <2>0, <3>1, <3>2, QueueEffect
    <3>4. MoveOK(r, req[r], "destroyKey")
      BY <1>1, <1>2, <1>3, <2>0 DEF MoveOK
    <3>5. \A q \in Requests \ {r} : Erasing(q) /\ req[q].user = u => u \notin due'
      BY <2>1, <3>1 DEF RowsInv, OneRun
    <3>6. QED
      BY <1>1, <3>1, <3>3, <3>4, <3>5, TableMove
  <2>2. CASE queue[u] # "pending"
    <3>1. queue' = [queue EXCEPT ![u] = queue[u]] /\ due' = due /\ Goes(r, "done")
      BY <1>1, <1>7, <2>2 DEF Claim
    <3>2. TablesOK' /\ Grows /\ QueueGrows
      BY <1>2, <2>2, <3>1, QueueEffect
    <3>3. QED
      BY <1>3, <1>4, <3>1, <3>2, TableMove
  <2>3. QED
    BY <2>1, <2>2
<1>8. CASE Complete(r)
  <2>1. /\ user[u].erased /\ user[u].status # "absent" /\ Erasing(r)
    BY <1>1, <1>8 DEF Complete, RowsInv, HandlerOK, Erasing, PurgeStages
  <2>2. PICK next \in {"done", "fail"} : Goes(r, next)
    BY <1>8 DEF Complete
  <2>3. queue' = [queue EXCEPT ![u] = "completed"] /\ due' = due
    BY <1>1, <1>8 DEF Complete
  <2>4. "completed" \in QueueStates
    BY DEF QueueStates
  <2>5. TablesOK' /\ Grows /\ QueueGrows
    BY <1>2, <2>1, <2>3, <2>4, QueueEffect
  <2>6. MoveOK(r, req[r], next)
    BY <1>1, <1>2, <1>3, <1>4, <2>1, <2>2 DEF MoveOK
  <2>7. QED
    BY <2>1, <2>2, <2>5, <2>6, TableMove
<1>9. CASE MarkFailed(r)
  <2>1. user[u].status # "absent"
    BY <1>1, <1>9 DEF MarkFailed, RowsInv, HandlerOK, Erasing
  <2>2. /\ queue' = [queue EXCEPT ![u] = "failed"] /\ due' = due /\ Goes(r, "done")
    BY <1>1, <1>9 DEF MarkFailed
  <2>3. "failed" \in QueueStates
    BY DEF QueueStates
  <2>4. TablesOK' /\ Grows /\ QueueGrows
    BY <1>2, <2>1, <2>2, <2>3, QueueEffect
  <2>5. QED
    BY <1>3, <1>4, <2>2, <2>4, TableMove
<1>10. QED
  BY <1>5, <1>6, <1>7, <1>8, <1>9

\* A step of the purge that removes one part of the data.
LEMMA RemoveStep ==
  ASSUME RowsInv, Watch, NEW r \in Requests, NEW part,
         NEW stage \in PurgeStages, NEW next \in PurgeStages \ {"complete"},
         Removes(r, part, stage, next)
  PROVE  RowsInv'
<1>1. PICK u \in Users : u = req[r].user
  BY HandlerFacts DEF Removes, PurgeStages
<1>2. /\ user[u].status # "absent" /\ Erasing(r)
      /\ req[r] \in RequestRecords /\ data[u] \in SUBSET Parts
  BY <1>1 DEF Removes, RowsInv, HandlerOK, Erasing, TypeOK
<1>3. /\ data' = [data EXCEPT ![u] = @ \ {part}] /\ Goes(r, next)
      /\ UNCHANGED <<user, invited, sess, refresh, access, queue, due>>
  BY <1>1 DEF Removes
<1>4. /\ data'[u] = data[u] \ {part} /\ \A v \in Users \ {u} : data'[v] = data[v]
      /\ data' \in [Users -> SUBSET Parts]
  BY <1>2, <1>3 DEF RowsInv, TypeOK
<1>5. TablesOK'
  BY <1>3, <1>4 DEF RowsInv, TypeOK, TablesOK
<1>6. Grows
  BY <1>3, <1>4 DEF Grows
<1>7. QueueGrows
  BY <1>3 DEF QueueGrows
<1>8. MoveOK(r, req[r], next)
  <2>1. next \in Stages /\ next \notin LoginStages \cup {"answer"}
        /\ {"link", "session", "refreshToken"} \subseteq LoginStages
    BY DEF Stages, PurgeStages, LoginStages
  <2>2. QED
    BY <1>1, <1>2, <1>3, <2>1 DEF MoveOK
<1>9. QED
  BY <1>2, <1>3, <1>5, <1>6, <1>7, <1>8, TableMove

LEMMA PurgeStep ==
  ASSUME RowsInv, Watch, NEW r \in Requests,
         \/ DestroyKey(r) \/ EraseKnowledge(r) \/ DeleteCredentials(r) \/ DeletePasskeys(r)
         \/ DeleteSessions(r) \/ PurgeThrows(r)
  PROVE  RowsInv'
<1>1. CASE DestroyKey(r)
  BY <1>1, RemoveStep DEF DestroyKey, PurgeStages
<1>2. CASE EraseKnowledge(r)
  BY <1>2, RemoveStep DEF EraseKnowledge, PurgeStages
<1>3. CASE DeleteCredentials(r)
  BY <1>3, RemoveStep DEF DeleteCredentials, PurgeStages
<1>4. CASE DeletePasskeys(r)
  BY <1>4, RemoveStep DEF DeletePasskeys, PurgeStages
<1>5. ASSUME req[r].at \in PurgeStages, NEW stage \in {"deletePasskeys", "fail"}, Goes(r, stage),
             stage = "deletePasskeys" => req[r].at = "deleteSessions",
             UNCHANGED <<user, invited, access, queue, due, data>>,
             sess' \in [Sessions -> RowStates], refresh' \in [Sessions -> RowStates]
      PROVE  RowsInv'
  <2>1. PICK u \in Users : u = req[r].user
    BY <1>5, HandlerFacts DEF PurgeStages
  <2>2. /\ user[u].status # "absent" /\ Erasing(r)
        /\ req[r] \in RequestRecords
    BY <1>5, <2>1 DEF RowsInv, HandlerOK, Erasing, TypeOK
  <2>3. TablesOK' /\ Grows /\ QueueGrows
    BY <1>5 DEF RowsInv, TypeOK, TablesOK, Grows, QueueGrows
  <2>4. stage \in Stages /\ stage \notin LoginStages \cup {"answer", "complete"}
        /\ {"link", "session", "refreshToken"} \subseteq LoginStages /\ "fail" \notin PurgeStages
    BY DEF Stages, PurgeStages, LoginStages
  <2>5. MoveOK(r, req[r], stage)
    BY <1>5, <2>1, <2>2, <2>4 DEF MoveOK
  <2>6. QED
    BY <1>5, <2>2, <2>3, <2>5, TableMove
<1>6. CASE DeleteSessions(r)
  <2>1. sess' \in [Sessions -> RowStates] /\ refresh' \in [Sessions -> RowStates]
    BY <1>6 DEF DeleteSessions, RowsInv, TypeOK, RowStates
  <2>2. /\ req[r].at = "deleteSessions" /\ Goes(r, "deletePasskeys")
        /\ UNCHANGED <<user, invited, access, queue, due, data>>
    BY <1>6 DEF DeleteSessions
  <2>3. "deleteSessions" \in PurgeStages
    BY DEF PurgeStages
  <2>4. QED
    BY <1>5, <2>1, <2>2, <2>3
<1>7. CASE PurgeThrows(r)
  <2>1. /\ req[r].at \in PurgeStages /\ Goes(r, "fail")
        /\ UNCHANGED <<user, invited, sess, refresh, access, queue, due, data>>
    BY <1>7 DEF PurgeThrows
  <2>2. QED
    BY <1>5, <2>1, HandlerFacts
<1>8. QED
  BY <1>1, <1>2, <1>3, <1>4, <1>6, <1>7

\* Steps of nobody's request.
LEMMA OtherStep ==
  ASSUME RowsInv, Watch, NEW u \in Users,
         \/ Unsuspend(u) \/ GracePasses(u) \/ \E role \in Roles : ChangeRole(u, role)
         \/ \E part \in Parts : Stores(u, part)
  PROVE  RowsInv'
<1>1. CASE GracePasses(u)
  <2>1. access' \in [Users -> Roles \cup {"none"}] /\ due' \subseteq Users
    BY <1>1 DEF GracePasses, RowsInv, TypeOK
  <2>2. /\ UNCHANGED <<user, invited, sess, refresh, queue, data, req>>
        /\ \A r \in Requests : req[r].at \in {"idle", "done"}
    BY <1>1 DEF GracePasses
  <2>3. TablesOK' /\ Grows
    BY <2>1, <2>2 DEF RowsInv, TypeOK, TablesOK, Grows
  <2>4. QED
    BY <2>2, <2>3, NobodyStep
<1>2. ASSUME NEW row \in UserRows, Update(u, row), row.status # "absent",
             row.erased = user[u].erased,
             UNCHANGED <<invited, sess, refresh, access, queue, due, data, req>>
      PROVE  RowsInv'
  <2>1. TablesOK' /\ Grows
    BY <1>2, RowEffect DEF Update
  <2>2. QED
    BY <1>2, <2>1, NobodyStep
<1>3. user[u] \in UserRows
  BY DEF RowsInv, TypeOK
<1>4. CASE Unsuspend(u)
  <2>1. /\ [user[u] EXCEPT !.status = "active"] \in UserRows
        /\ [user[u] EXCEPT !.status = "active"].status # "absent"
        /\ [user[u] EXCEPT !.status = "active"].erased = user[u].erased
    BY <1>3 DEF UserRows
  <2>2. QED
    BY <1>2, <1>4, <2>1 DEF Unsuspend
<1>5. ASSUME NEW role \in Roles, ChangeRole(u, role) PROVE RowsInv'
  <2>1. /\ [user[u] EXCEPT !.role = role] \in UserRows
        /\ [user[u] EXCEPT !.role = role].status # "absent"
        /\ [user[u] EXCEPT !.role = role].erased = user[u].erased
    BY <1>3, <1>5 DEF UserRows, ChangeRole, Active
  <2>2. QED
    BY <1>2, <1>5, <2>1 DEF ChangeRole
<1>6. ASSUME NEW part \in Parts, Stores(u, part) PROVE RowsInv'
  <2>1. TablesOK' /\ Grows
    BY <1>6 DEF Stores, RowsInv, TypeOK, TablesOK, Grows
  <2>2. QED
    BY <1>6, <2>1, NobodyStep DEF Stores
<1>7. QED
  BY <1>1, <1>4, <1>5, <1>6

LEMMA StepRows == RowsInv /\ OwnersKnown /\ [Next]_vars => RowsInv'
<1> SUFFICES ASSUME RowsInv, OwnersKnown, [Next]_vars PROVE RowsInv'
  OBVIOUS
<1>1. CASE UNCHANGED vars
  BY <1>1 DEF vars, RowsInv, TypeOK, HandlerOK, Running, Erasing, OneRun
<1>2. ASSUME NEW r \in Requests, Watch, Arrive(r) PROVE RowsInv'
  BY <1>2, LoginStep, RemovalStep, EraseRequestStep, RefreshStep DEF Arrive
<1>3. ASSUME NEW r \in Requests, Watch, Step(r) PROVE RowsInv'
  BY <1>3, LookupStep, JoinStep, SessionStep, EndStep, StatusStep, QueueStep, PurgeStep DEF Step
<1>4. ASSUME NEW r \in Requests, Watch, Dies(r) PROVE RowsInv'
  BY <1>4, EndStep
<1>5. ASSUME NEW u \in Users, Watch,
             \/ Unsuspend(u) \/ GracePasses(u) \/ \E role \in Roles : ChangeRole(u, role)
             \/ \E part \in Parts : Stores(u, part)
      PROVE  RowsInv'
  BY <1>5, OtherStep
<1>6. QED
  BY <1>1, <1>2, <1>3, <1>4, <1>5 DEF Next

-------------------------------------------------------------------------------
\* The owners of the sessions.
LEMMA InitOwners == Init => OwnersKnown
<1> SUFFICES ASSUME Init PROVE OwnersKnown
  OBVIOUS
<1>1. PICK present \in SUBSET Users :
        /\ sess = [x \in Sessions |-> IF x \in present THEN "live" ELSE "none"]
        /\ refresh = sess
  BY DEF Init
<1>2. \A r \in Requests : r \notin Users /\ r \in Sessions
  BY DisjointAssumption DEF Sessions
<1>3. \A r \in Requests : sess[r] = "none" /\ req[r].at = "idle"
  BY <1>1, <1>2 DEF Init, NewRequest
<1>4. QED
  BY <1>1, <1>3 DEF OwnersKnown

\* One handler goes to `rec`; only its own session may be made.
LEMMA OwnersKept ==
  ASSUME RowsInv, OwnersKnown, NEW r \in Requests, NEW rec, req' = [req EXCEPT ![r] = rec],
         sess[r] # "none" \/ sess'[r] # "none" => rec.user \in Users,
         sess[r] # "none" => rec.user = req[r].user, rec.at # "idle",
         \A x \in Sessions : sess[x] # "none" => sess'[x] # "none",
         \A x \in Sessions \ {r} : sess'[x] # "none" => sess[x] # "none",
         \A x \in Sessions : refresh'[x] # "none" => sess'[x] # "none",
         rec.at = "rotate" => /\ rec.session \in Sessions /\ sess'[rec.session] # "none"
                              /\ Owner(rec.session) = rec.user,
         rec.at = "refreshToken" => sess'[r] # "none"
  PROVE  OwnersKnown'
<1>1. req'[r] = rec /\ \A q \in Requests \ {r} : req'[q] = req[q]
  BY DEF RowsInv, TypeOK
<1>2. Requests \subseteq Sessions
  BY DEF Sessions
<1>3. \A q \in Requests : sess'[q] # "none" => req'[q].user \in Users
  BY <1>1, <1>2 DEF OwnersKnown
<1>4. \A x \in Sessions : x # r \/ sess[x] # "none" => Owner(x)' = Owner(x)
  BY <1>1 DEF Owner, Sessions
<1>5. \A q \in Requests :
        /\ req'[q].at = "idle" => sess'[q] = "none"
        /\ req'[q].at = "rotate" => req'[q].session \in Sessions /\ sess'[req'[q].session] # "none"
        /\ req'[q].at = "refreshToken" => sess'[q] # "none"
  BY <1>1, <1>2 DEF OwnersKnown
<1>6. ASSUME NEW q \in Requests, req'[q].at = "rotate"
      PROVE  (Owner(req[q].session) = req[q].user)'
  <2>1. CASE q = r
    <3>1. CASE rec.session = r
      BY <1>1, <2>1, <3>1, DisjointAssumption DEF Owner
    <3>2. CASE rec.session # r
      <4>1. Owner(rec.session)' = Owner(rec.session)
        BY <1>1, <1>4, <1>6, <2>1, <3>2
      <4>2. (Owner(req[r].session))' = Owner(rec.session)'
        BY <1>1 DEF Owner
      <4>3. QED
        BY <1>1, <1>6, <2>1, <4>1, <4>2
    <3>3. QED
      BY <3>1, <3>2
  <2>2. CASE q # r
    <3>1. req'[q] = req[q] /\ Owner(req[q].session)' = Owner(req[q].session)
      BY <1>1, <1>4, <1>6, <2>2 DEF OwnersKnown
    <3>2. Owner(req[q].session) = req[q].user
      BY <1>6, <2>2, <3>1 DEF OwnersKnown
    <3>3. QED
      BY <3>1, <3>2 DEF Owner
  <2>3. QED
    BY <2>1, <2>2
<1>7. QED
  BY <1>3, <1>5, <1>6 DEF OwnersKnown, Sessions

\* A step after which the same sessions exist as before.
LEMMA OwnersQuiet ==
  ASSUME RowsInv, OwnersKnown, NEW r \in Requests, NEW record \in RequestRecords,
         record.user \in Users, NEW stage \in Stages \ {"rotate", "refreshToken", "idle"},
         sess[r] # "none" => record.user = req[r].user,
         req' = [req EXCEPT ![r] = At(r, record, stage)],
         \A x \in Sessions : sess[x] # "none" <=> sess'[x] # "none",
         \A x \in Sessions : refresh'[x] # "none" => sess[x] # "none"
  PROVE  OwnersKnown'
<1>1. /\ At(r, record, stage).at = stage
      /\ stage # "done" => At(r, record, stage).user = record.user
  BY AtEffect
<1>2. sess[r] # "none" => At(r, record, stage).user = record.user
  <2>1. CASE stage = "done" /\ sess[r] # "none"
    <3>1. At(r, record, stage) = [NewRequest EXCEPT !.at = "done", !.user = record.user]
      BY <2>1 DEF At
    <3>2. [NewRequest EXCEPT !.at = "done", !.user = record.user].user = record.user
      BY DEF NewRequest
    <3>3. QED
      BY <3>1, <3>2
  <2>2. QED
    BY <1>1, <2>1
<1>3. r \in Sessions
  BY DEF Sessions
<1>4. PICK rec : rec = At(r, record, stage)
  OBVIOUS
<1>5. QED
  BY <1>1, <1>2, <1>3, <1>4, OwnersKept

\* Handlers that arrive.
LEMMA OwnersArrive ==
  ASSUME RowsInv, OwnersKnown, NEW r \in Requests, Arrive(r)
  PROVE  OwnersKnown'
<1>1. /\ \A x \in Sessions : refresh[x] # "none" => sess[x] # "none"
      /\ sess[r] = "none"
  BY DEF OwnersKnown, Arrive, Login, PasskeyLogin, Suspend, SoftDelete, RequestErase,
         CancelErase, Purge, Refresh
<1>2. ASSUME NEW u \in Users, NEW i \in BOOLEAN, Login(r, u, i) PROVE OwnersKnown'
  <2> DEFINE rec == [NewRequest EXCEPT !.user = u, !.invite = i, !.role = user[u].role,
                       !.at = IF user[u].linked /\ Active(u) THEN "session" ELSE "byEmail"]
  <2>1. rec.user = u /\ rec.at \in {"session", "byEmail"}
    BY DEF NewRequest
  <2>2. req' = [req EXCEPT ![r] = rec] /\ UNCHANGED <<sess, refresh>>
    BY <1>2 DEF Login
  <2> HIDE DEF rec
  <2>3. QED
    BY <1>1, <2>1, <2>2, OwnersKept
<1>3. ASSUME NEW u \in Users, PasskeyLogin(r, u) PROVE OwnersKnown'
  <2> DEFINE record == [NewRequest EXCEPT !.user = u, !.role = user[u].role]
             stage == IF Active(u) THEN "session" ELSE "done"
  <2>1. user[u] \in UserRows
    BY DEF RowsInv, TypeOK
  <2>2. record \in RequestRecords /\ record.user = u
    BY <2>1 DEF NewRequest, RequestRecords, UserRows, Stages
  <2>3. req' = [req EXCEPT ![r] = At(r, record, stage)] /\ UNCHANGED <<sess, refresh>>
    BY <1>3 DEF PasskeyLogin
  <2>4. stage \in Stages \ {"rotate", "refreshToken", "idle"}
    BY DEF Stages, LoginStages
  <2> HIDE DEF record, stage
  <2>5. QED
    BY <1>1, <2>2, <2>3, <2>4, OwnersQuiet
<1>4. ASSUME NEW u \in Users,
             \/ Suspend(r, u) \/ SoftDelete(r, u)
             \/ RequestErase(r, u) \/ CancelErase(r, u) \/ Purge(r, u)
      PROVE  OwnersKnown'
  <2>1. PICK stage \in {"endSessions", "done", "markDeleted", "cancel", "claim"} :
          Arrives(r, u, stage)
    BY <1>4 DEF Suspend, SoftDelete, RequestErase, CancelErase, Purge
  <2>2. UNCHANGED <<sess, refresh>>
    BY <1>4 DEF Suspend, SoftDelete, RequestErase, CancelErase, Purge
  <2>3. stage \in Stages \ {"rotate", "refreshToken", "idle"}
    BY DEF Stages
  <2>4. PICK record \in RequestRecords :
          record.user = u /\ req' = [req EXCEPT ![r] = At(r, record, stage)]
    BY <2>1, ArrivalRecord DEF Arrives
  <2>5. QED
    BY <1>1, <2>2, <2>3, <2>4, OwnersQuiet
<1>5. ASSUME NEW x \in Sessions, Refresh(r, x) PROVE OwnersKnown'
  <2>1. PICK u \in Users : u = Owner(x)
    BY <1>5 DEF Refresh, OwnersKnown, Owner, Sessions
  <2> DEFINE record == [NewRequest EXCEPT !.user = u, !.session = x]
  <2>2. record \in RequestRecords /\ record.user = u /\ record.session = x
    BY ArrivalRecord
  <2>3. /\ \A y \in Sessions : sess[y] # "none" <=> sess'[y] # "none"
        /\ refresh' = refresh /\ sess[x] # "none"
    BY <1>1, <1>5 DEF Refresh, RowsInv, TypeOK
  <2>4. CASE req' = [req EXCEPT ![r] = At(r, record, "done")]
    <3>1. "done" \in Stages \ {"rotate", "refreshToken", "idle"}
      BY DEF Stages
    <3> HIDE DEF record
    <3>2. QED
      BY <1>1, <2>2, <2>3, <2>4, <3>1, OwnersQuiet
  <2>5. CASE req' = [req EXCEPT ![r] = At(r, record, "rotate")]
    <3>1. PICK rec : rec = [record EXCEPT !.at = "rotate"]
      OBVIOUS
    <3>2. rec.user = u /\ rec.session = x /\ rec.at = "rotate"
      BY <2>2, <3>1 DEF RequestRecords
    <3>3. req' = [req EXCEPT ![r] = rec]
      BY <2>5, <3>1 DEF At
    <3>4. r \in Sessions
      BY DEF Sessions
    <3> HIDE DEF record
    <3>5. QED
      BY <1>1, <2>1, <2>3, <3>2, <3>3, <3>4, OwnersKept
  <2>6. QED
    BY <1>5, <2>1, <2>4, <2>5 DEF Refresh
<1>6. QED
  BY <1>2, <1>3, <1>4, <1>5 DEF Arrive

\* Handlers under way that go on without making a session or a token.
LEMMA OwnersGoOn ==
  ASSUME RowsInv, OwnersKnown, NEW r \in Requests, req[r].at \notin {"idle", "done"},
         NEW stage \in Stages \ {"rotate", "refreshToken", "idle"},
         Goes(r, stage) \/ \E role \in Roles : GoesAs(r, stage, role),
         \A x \in Sessions : sess[x] # "none" <=> sess'[x] # "none",
         \A x \in Sessions : refresh'[x] # "none" => sess[x] # "none"
  PROVE  OwnersKnown'
<1>1. PICK record \in RequestRecords :
        /\ record.user = req[r].user /\ req' = [req EXCEPT ![r] = At(r, record, stage)]
  BY HandlerFacts DEF Goes, GoesAs
<1>2. record.user \in Users
  BY <1>1, HandlerFacts
<1>3. QED
  BY <1>1, <1>2, OwnersQuiet

LEMMA OwnersMade ==
  ASSUME RowsInv, OwnersKnown, NEW r \in Requests,
         CreateSession(r) \/ CreateRefreshToken(r) \/ Rotate(r)
  PROVE  OwnersKnown'
<1>1. /\ \A x \in Sessions : refresh[x] # "none" => sess[x] # "none"
      /\ r \in Sessions /\ sess \in [Sessions -> RowStates] /\ refresh \in [Sessions -> RowStates]
      /\ req[r] \in RequestRecords
  BY HandlerFacts DEF OwnersKnown, Sessions
<1>2. {"done", "answer", "readRole"} \subseteq Stages \ {"rotate", "refreshToken", "idle"}
  BY DEF Stages
<1>3. CASE CreateSession(r)
  <2>1. PICK rec : rec = [req[r] EXCEPT !.at = "refreshToken"]
    OBVIOUS
  <2>2. req[r].user \in Users
    BY <1>3, HandlerFacts DEF CreateSession
  <2>3. rec.user \in Users /\ rec.user = req[r].user /\ rec.at = "refreshToken"
    BY <1>1, <2>1, <2>2 DEF RequestRecords
  <2>4. req' = [req EXCEPT ![r] = rec] /\ refresh' = refresh /\ sess' = [sess EXCEPT ![r] = "live"]
    BY <1>3, <2>1 DEF CreateSession, Goes, At
  <2>5. sess'[r] = "live" /\ \A x \in Sessions \ {r} : sess'[x] = sess[x]
    BY <1>1, <2>4
  <2>6. QED
    BY <1>1, <2>3, <2>4, <2>5, OwnersKept
<1>4. CASE CreateRefreshToken(r)
  <2>1. /\ sess[r] # "none" /\ sess' = sess /\ req[r].at = "refreshToken"
        /\ Goes(r, "done") \/ Goes(r, "answer")
    BY <1>4 DEF CreateRefreshToken, OwnersKnown
  <2>2. \A x \in Sessions \ {r} : refresh'[x] = refresh[x]
    BY <1>1, <1>4 DEF CreateRefreshToken
  <2>3. QED
    BY <1>1, <1>2, <2>1, <2>2, OwnersGoOn
<1>5. CASE Rotate(r)
  <2>1. PICK y \in Sessions : y = req[r].session /\ sess[y] # "none"
    BY <1>5 DEF Rotate, OwnersKnown
  <2>2. /\ sess' = sess /\ req[r].at = "rotate"
        /\ Goes(r, "done") \/ Goes(r, "readRole")
        /\ \A x \in Sessions \ {y} : refresh'[x] = refresh[x]
    BY <1>1, <1>5, <2>1 DEF Rotate
  <2>3. QED
    BY <1>1, <1>2, <2>1, <2>2, OwnersGoOn
<1>6. QED
  BY <1>3, <1>4, <1>5

LEMMA OwnersStep ==
  ASSUME RowsInv, OwnersKnown, NEW r \in Requests, Step(r) \/ Dies(r)
  PROVE  OwnersKnown'
<1> DEFINE Quiet == Stages \ {"rotate", "refreshToken", "idle"}
           Same == /\ \A x \in Sessions : sess[x] # "none" <=> sess'[x] # "none"
                   /\ \A x \in Sessions : refresh'[x] # "none" => sess[x] # "none"
           On == /\ req[r].at \notin {"idle", "done"}
                 /\ \E stage \in Quiet : Goes(r, stage) \/ \E role \in Roles : GoesAs(r, stage, role)
<1>1. On /\ Same => OwnersKnown'
  BY OwnersGoOn
<1>2. UNCHANGED <<sess, refresh>> => Same
  BY DEF OwnersKnown
<1>3. {"link", "findInvite", "count", "done", "insertAdmin", "accept", "byInvitedEmail",
       "insertMember", "reactivate", "session", "answer", "revokeRefresh", "revokeSessions",
       "enqueue", "restore", "fail", "complete", "destroyKey", "eraseKnowledge",
       "deleteCredentials", "deleteSessions", "deletePasskeys", "pseudonymise"} \subseteq Quiet
  BY DEF Stages, LoginStages, PurgeStages
<1>4. \A u \in Users : user[u].role \in Roles
  BY DEF RowsInv, TypeOK, UserRows
<1>5. req[r].at \notin {"idle", "done"} => req[r].user \in Users
  BY HandlerFacts
<1> HIDE DEF Quiet, Same
<1>6. CASE ByEmail(r)
  <2>1. \E stage \in Quiet : GoesAs(r, stage, user[req[r].user].role)
    BY <1>3, <1>6 DEF ByEmail
  <2>2. QED
    BY <1>1, <1>2, <1>4, <1>5, <1>6, <2>1 DEF ByEmail
<1>7. CASE ByInvitedEmail(r)
  <2>1. \E stage \in Quiet : GoesAs(r, stage, user[req[r].user].role)
    BY <1>3, <1>7 DEF ByInvitedEmail
  <2>2. QED
    BY <1>1, <1>2, <1>4, <1>5, <1>7, <2>1 DEF ByInvitedEmail
<1>8. CASE ReadRole(r)
  BY <1>1, <1>2, <1>3, <1>4, <1>5, <1>8 DEF ReadRole
<1>9. CASE CountActive(r) \/ FindInvite(r) \/ AcceptInvite(r) \/ Link(r)
  BY <1>1, <1>2, <1>3, <1>9 DEF CountActive, FindInvite, AcceptInvite, Link
<1>10. CASE InsertAdmin(r) \/ InsertMember(r)
  <2>1. ASSUME NEW stage \in {"insertAdmin", "insertMember"}, NEW role \in Roles,
               InsertRow(r, stage, role)
        PROVE  OwnersKnown'
    BY <1>1, <1>2, <1>3, <2>1 DEF InsertRow
  <2>2. QED
    BY <1>10, <2>1 DEF InsertAdmin, InsertMember, Roles
<1>11. CASE Reactivate(r)
  BY <1>1, <1>2, <1>3, <1>11 DEF Reactivate
<1>12. CASE Answer(r) \/ MarkDeleted(r) \/ Enqueue(r) \/ MarkCancelled(r) \/ Restore(r)
  BY <1>1, <1>2, <1>3, <1>12 DEF Answer, MarkDeleted, Enqueue, MarkCancelled, Restore
<1>13. CASE EndSessions(r) \/ RevokeSessions(r) \/ RevokeRefresh(r)
  <2>1. Same
    BY <1>13 DEF EndSessions, RevokeSessions, RevokeRefresh, RevokeIn, Same, OwnersKnown
  <2>2. QED
    BY <1>1, <1>3, <1>13, <2>1 DEF EndSessions, RevokeSessions, RevokeRefresh
<1>14. CASE DestroyKey(r) \/ EraseKnowledge(r) \/ DeleteCredentials(r) \/ DeletePasskeys(r)
  BY <1>1, <1>2, <1>3, <1>14 DEF DestroyKey, EraseKnowledge, DeleteCredentials, DeletePasskeys, Removes
<1>15. CASE DeleteSessions(r)
  <2>1. Same
    BY <1>15 DEF DeleteSessions, Same, OwnersKnown
  <2>2. QED
    BY <1>1, <1>3, <1>15, <2>1 DEF DeleteSessions
<1>16. CASE Claim(r) \/ Pseudonymise(r) \/ Complete(r) \/ MarkFailed(r)
  BY <1>1, <1>2, <1>3, <1>16 DEF Claim, Pseudonymise, Complete, MarkFailed
<1>17. CASE PurgeThrows(r) \/ Dies(r)
  BY <1>1, <1>2, <1>3, <1>17 DEF PurgeThrows, Dies, PurgeStages
<1>18. QED
  BY <1>6, <1>7, <1>8, <1>9, <1>10, <1>11, <1>12, <1>13, <1>14, <1>15, <1>16, <1>17, OwnersMade
     DEF Step

LEMMA StepOwners == RowsInv /\ OwnersKnown /\ [Next]_vars => OwnersKnown'
<1> SUFFICES ASSUME RowsInv, OwnersKnown, [Next]_vars PROVE OwnersKnown'
  OBVIOUS
<1>1. CASE UNCHANGED <<req, sess, refresh>>
  BY <1>1 DEF OwnersKnown, Owner
<1>2. ASSUME NEW r \in Requests, Arrive(r) \/ Step(r) \/ Dies(r) PROVE OwnersKnown'
  BY <1>2, OwnersArrive, OwnersStep
<1>3. QED
  BY <1>1, <1>2 DEF Next, vars, Unsuspend, GracePasses, ChangeRole, Stores

-------------------------------------------------------------------------------
\* An erasure that nobody disturbs.
LEMMA InitUndisturbed == Init => Undisturbed
<1> SUFFICES ASSUME Init PROVE Undisturbed
  OBVIOUS
<1>1. \A r \in Requests : req[r].at = "idle"
  BY DEF Init, NewRequest
<1>2. \A u \in Users : queue[u] = "none"
  BY DEF Init
<1>3. QED
  BY <1>1, <1>2 DEF Undisturbed, PurgeStages

\* Where a step takes its handler; the others stay.
LEMMA StepTo ==
  ASSUME RowsInv, NEW r \in Requests
  PROVE  /\ \A stage \in Stages : Goes(r, stage) =>
              /\ req'[r].at = stage /\ (stage # "done" \/ sess[r] # "none" => req'[r].user = req[r].user)
              /\ \A q \in Requests \ {r} : req'[q] = req[q]
         /\ \A stage \in Stages, role \in Roles : GoesAs(r, stage, role) =>
              /\ req'[r].at = stage /\ (stage # "done" \/ sess[r] # "none" => req'[r].user = req[r].user)
              /\ \A q \in Requests \ {r} : req'[q] = req[q]
         /\ \A stage \in Stages, u \in Users : Arrives(r, u, stage) =>
              /\ req'[r].at = stage /\ (stage # "done" \/ sess[r] # "none" => req'[r].user = u)
              /\ \A q \in Requests \ {r} : req'[q] = req[q]
<1>1. ASSUME NEW stage \in Stages, NEW record \in RequestRecords,
             req' = [req EXCEPT ![r] = At(r, record, stage)]
      PROVE  /\ req'[r].at = stage /\ (stage # "done" \/ sess[r] # "none" => req'[r].user = record.user)
             /\ \A q \in Requests \ {r} : req'[q] = req[q]
  <2>1. /\ At(r, record, stage).at = stage
        /\ stage # "done" \/ sess[r] # "none" => At(r, record, stage).user = record.user
    BY AtEffect
  <2>2. req'[r] = At(r, record, stage) /\ \A q \in Requests \ {r} : req'[q] = req[q]
    BY <1>1 DEF RowsInv, TypeOK
  <2>3. QED
    BY <2>1, <2>2
<1>2. ASSUME NEW stage \in Stages, Goes(r, stage)
      PROVE  /\ req'[r].at = stage /\ (stage # "done" \/ sess[r] # "none" => req'[r].user = req[r].user)
             /\ \A q \in Requests \ {r} : req'[q] = req[q]
  BY <1>1, <1>2, HandlerFacts DEF Goes
<1>3. ASSUME NEW stage \in Stages, NEW role \in Roles, GoesAs(r, stage, role)
      PROVE  /\ req'[r].at = stage /\ (stage # "done" \/ sess[r] # "none" => req'[r].user = req[r].user)
             /\ \A q \in Requests \ {r} : req'[q] = req[q]
  <2>1. PICK record \in RequestRecords :
          record = [req[r] EXCEPT !.role = role] /\ record.user = req[r].user
    BY HandlerFacts
  <2>2. req' = [req EXCEPT ![r] = At(r, record, stage)]
    BY <1>3, <2>1 DEF GoesAs
  <2>3. QED
    BY <1>1, <2>1, <2>2
<1>4. ASSUME NEW stage \in Stages, NEW u \in Users, Arrives(r, u, stage)
      PROVE  /\ req'[r].at = stage /\ (stage # "done" \/ sess[r] # "none" => req'[r].user = u)
             /\ \A q \in Requests \ {r} : req'[q] = req[q]
  <2>1. PICK record \in RequestRecords :
          record = [NewRequest EXCEPT !.user = u] /\ record.user = u
    BY ArrivalRecord
  <2>2. req' = [req EXCEPT ![r] = At(r, record, stage)]
    BY <1>4, <2>1 DEF Arrives
  <2>3. QED
    BY <1>1, <2>1, <2>2
<1>5. QED
  BY <1>2, <1>3, <1>4

\* What the steps of requests do to the handlers: which of them lead to a stage of the
\* purge, and which to one at which somebody acts.
ToPurge(r) ==
  \/ Claim(r) /\ req'[r].at = "destroyKey"
  \/ DestroyKey(r) /\ req'[r].at = "eraseKnowledge"
  \/ EraseKnowledge(r) /\ req'[r].at = "deleteCredentials"
  \/ DeleteCredentials(r) /\ req'[r].at = "deleteSessions"
  \/ DeleteSessions(r) /\ req'[r].at = "deletePasskeys"
  \/ DeletePasskeys(r) /\ req'[r].at = "pseudonymise"
  \/ Pseudonymise(r) /\ req'[r].at = "complete"
ToAction(r) ==
  \/ req[r].at \in ActingStages /\ req'[r].user = req[r].user
  \/ \E u \in Users, i \in BOOLEAN : Login(r, u, i) /\ user[u].linked /\ Active(u) /\ req'[r].user = u
  \/ \E u \in Users : PasskeyLogin(r, u) /\ req'[r].user = u
  \/ \E u \in Users : CancelErase(r, u) /\ req'[r].user = u
  \/ \E x \in Sessions : Refresh(r, x) /\ req'[r].user = Owner(x)
  \/ ByEmail(r) /\ Active(req[r].user) /\ HasRow(req[r].user) /\ req'[r].user = req[r].user
  \/ ByInvitedEmail(r) /\ HasRow(req[r].user) /\ req'[r].user = req[r].user
  \/ (InsertAdmin(r) \/ InsertMember(r)) /\ user[req[r].user].status = "absent"
     /\ req'[r].user = req[r].user
Moved(r) ==
  /\ sess[r] # "none" => req'[r].user = req[r].user
  /\ \A q \in Requests \ {r} : req'[q] = req[q]
  /\ req'[r].at \in PurgeStages => ToPurge(r) /\ req'[r].user = req[r].user
  /\ req'[r].at \in ActingStages => ToAction(r)

LEMMA MovedArrive ==
  ASSUME RowsInv, OwnersKnown, NEW r \in Requests, Arrive(r)
  PROVE  Moved(r)
<1>1. /\ {"endSessions", "done", "markDeleted", "cancel", "claim"} \subseteq Stages
      /\ {"endSessions", "done", "markDeleted", "cancel", "claim"} \cap PurgeStages = {}
      /\ {"endSessions", "done", "markDeleted", "claim", "byEmail"} \cap ActingStages = {}
      /\ {"session", "byEmail", "rotate"} \cap PurgeStages = {}
      /\ {"session", "rotate"} \subseteq Stages
      /\ sess[r] = "none"
  <2>1. sess[r] = "none"
    BY DEF OwnersKnown, Arrive, Login, PasskeyLogin, Suspend, SoftDelete, RequestErase, CancelErase,
           Purge, Refresh
  <2>2. QED
    BY <2>1 DEF Stages, LoginStages, PurgeStages, ActingStages
<1>2. ASSUME NEW u \in Users, NEW i \in BOOLEAN, Login(r, u, i) PROVE Moved(r)
  <2> DEFINE rec == [NewRequest EXCEPT !.user = u, !.invite = i, !.role = user[u].role,
                       !.at = IF user[u].linked /\ Active(u) THEN "session" ELSE "byEmail"]
  <2>1. rec.user = u /\ rec.at = IF user[u].linked /\ Active(u) THEN "session" ELSE "byEmail"
    BY DEF NewRequest
  <2>2. req'[r] = rec /\ \A q \in Requests \ {r} : req'[q] = req[q]
    BY <1>2 DEF Login, RowsInv, TypeOK
  <2> HIDE DEF rec
  <2>3. QED
    BY <1>1, <1>2, <2>1, <2>2 DEF Moved, ToAction
<1>3. ASSUME NEW u \in Users, PasskeyLogin(r, u) PROVE Moved(r)
  <2> DEFINE record == [NewRequest EXCEPT !.user = u, !.role = user[u].role]
             stage == IF Active(u) THEN "session" ELSE "done"
  <2>1. user[u] \in UserRows
    BY DEF RowsInv, TypeOK
  <2>2. record \in RequestRecords /\ record.user = u
    BY <2>1 DEF NewRequest, RequestRecords, UserRows, Stages
  <2>3. stage \in Stages /\ stage \in {"session", "done"}
    BY <1>1
  <2>4. req' = [req EXCEPT ![r] = At(r, record, stage)]
    BY <1>3 DEF PasskeyLogin
  <2> HIDE DEF record, stage
  <2>5. /\ At(r, record, stage).at = stage
        /\ stage # "done" => At(r, record, stage).user = u
    BY <2>2, <2>3, AtEffect
  <2>6. req'[r] = At(r, record, stage) /\ \A q \in Requests \ {r} : req'[q] = req[q]
    BY <2>4 DEF RowsInv, TypeOK
  <2>7. QED
    BY <1>1, <1>3, <2>3, <2>5, <2>6 DEF Moved, ToAction
<1>4. ASSUME NEW u \in Users,
             \/ Suspend(r, u) \/ SoftDelete(r, u)
             \/ RequestErase(r, u) \/ CancelErase(r, u) \/ Purge(r, u)
      PROVE  Moved(r)
  <2>1. PICK stage \in {"endSessions", "done", "markDeleted", "cancel", "claim"} :
          Arrives(r, u, stage) /\ (stage = "cancel" => CancelErase(r, u))
    BY <1>4 DEF Suspend, SoftDelete, RequestErase, CancelErase, Purge
  <2>2. /\ req'[r].at = stage /\ (stage # "done" => req'[r].user = u)
        /\ \A q \in Requests \ {r} : req'[q] = req[q]
    BY <1>1, <2>1, StepTo
  <2>3. QED
    BY <1>1, <2>1, <2>2 DEF Moved, ToAction
<1>5. ASSUME NEW x \in Sessions, Refresh(r, x) PROVE Moved(r)
  <2>1. PICK u \in Users : u = Owner(x)
    BY <1>5 DEF Refresh, OwnersKnown, Owner, Sessions
  <2> DEFINE record == [NewRequest EXCEPT !.user = u, !.session = x]
  <2>2. record \in RequestRecords /\ record.user = u
    BY ArrivalRecord
  <2>3. PICK stage \in {"rotate", "done"} : req' = [req EXCEPT ![r] = At(r, record, stage)]
    BY <1>5, <2>1 DEF Refresh
  <2> HIDE DEF record
  <2>4. stage \in Stages
    BY <1>1
  <2>5. /\ At(r, record, stage).at = stage
        /\ stage # "done" => At(r, record, stage).user = u
    BY <2>2, <2>4, AtEffect
  <2>6. req'[r] = At(r, record, stage) /\ \A q \in Requests \ {r} : req'[q] = req[q]
    BY <2>3 DEF RowsInv, TypeOK
  <2>7. QED
    BY <1>1, <1>5, <2>1, <2>5, <2>6 DEF Moved, ToAction
<1>6. QED
  BY <1>2, <1>3, <1>4, <1>5 DEF Arrive

LEMMA MovedStep ==
  ASSUME RowsInv, NEW r \in Requests, Step(r) \/ Dies(r)
  PROVE  Moved(r)
<1> DEFINE Other == Stages \ (PurgeStages \cup ActingStages)
           On(stage) == Goes(r, stage) \/ \E role \in Roles : GoesAs(r, stage, role)
           To(stage) == /\ req'[r].at = stage
                        /\ stage # "done" \/ sess[r] # "none" => req'[r].user = req[r].user
                        /\ \A q \in Requests \ {r} : req'[q] = req[q]
<1>1. \A stage \in Stages : On(stage) => To(stage)
  BY StepTo
<1>2. /\ PurgeStages \subseteq Stages /\ ActingStages \subseteq Stages
      /\ PurgeStages \cap ActingStages = {} /\ "done" \notin PurgeStages \cup ActingStages
  BY DEF Stages, LoginStages, PurgeStages, ActingStages
<1>3. \A stage \in Other : On(stage) => Moved(r)
  BY <1>1 DEF Moved
<1>4. {"findInvite", "count", "done", "insertAdmin", "accept", "byInvitedEmail", "insertMember",
       "revokeRefresh", "revokeSessions", "enqueue", "fail"} \subseteq Other
  BY DEF Stages, LoginStages, PurgeStages, ActingStages
<1>5. ASSUME NEW stage \in ActingStages, On(stage), req'[r].user = req[r].user => ToAction(r)
      PROVE  Moved(r)
  BY <1>1, <1>2, <1>5 DEF Moved
<1>6. ASSUME NEW stage \in PurgeStages, Goes(r, stage), req'[r].at = stage => ToPurge(r)
      PROVE  Moved(r)
  BY <1>1, <1>2, <1>6 DEF Moved
<1>7. req[r].at \in ActingStages => \A stage \in ActingStages : On(stage) => Moved(r)
  BY <1>5 DEF ToAction
<1>8. \A u \in Users : user[u].role \in Roles
  BY DEF RowsInv, TypeOK, UserRows
<1>9. req[r].at \notin {"idle", "done"} => req[r].user \in Users
  BY HandlerFacts
<1>10. {"link", "reactivate", "session", "refreshToken", "readRole", "answer", "restore"}
         \subseteq ActingStages
  BY DEF ActingStages
<1> HIDE DEF Other
<1>11. CASE ByEmail(r)
  <2>1. /\ req[r].at = "byEmail"
        /\ \/ \E stage \in {"findInvite", "count", "done"} : GoesAs(r, stage, user[req[r].user].role)
           \/ /\ GoesAs(r, "link", user[req[r].user].role)
              /\ HasRow(req[r].user) /\ Active(req[r].user)
    BY <1>11 DEF ByEmail
  <2>2. QED
    BY <1>3, <1>4, <1>5, <1>8, <1>9, <1>10, <1>11, <2>1 DEF ToAction
<1>12. CASE ByInvitedEmail(r)
  <2>1. /\ req[r].at = "byInvitedEmail"
        /\ \/ \E stage \in {"insertMember", "done"} : GoesAs(r, stage, user[req[r].user].role)
           \/ GoesAs(r, "reactivate", user[req[r].user].role) /\ HasRow(req[r].user)
    BY <1>12 DEF ByInvitedEmail
  <2>2. QED
    BY <1>3, <1>4, <1>5, <1>8, <1>9, <1>10, <1>12, <2>1 DEF ToAction
<1>13. CASE CountActive(r) \/ FindInvite(r) \/ AcceptInvite(r)
  BY <1>3, <1>4, <1>13 DEF CountActive, FindInvite, AcceptInvite
<1>14. CASE InsertAdmin(r) \/ InsertMember(r)
  <2>1. ASSUME NEW role \in Roles, NEW stage, InsertRow(r, stage, role) PROVE Moved(r)
    <3>1. CASE Goes(r, "done")
      BY <1>3, <1>4, <3>1
    <3>2. CASE user[req[r].user].status = "absent" /\ GoesAs(r, "session", role)
      BY <1>5, <1>10, <1>14, <3>2 DEF ToAction
    <3>3. QED
      BY <2>1, <3>1, <3>2 DEF InsertRow
  <2>2. QED
    BY <1>14, <2>1 DEF InsertAdmin, InsertMember, Roles
<1>15. CASE Link(r) \/ Reactivate(r) \/ CreateSession(r) \/ CreateRefreshToken(r) \/ Rotate(r)
            \/ ReadRole(r) \/ Answer(r) \/ MarkCancelled(r) \/ Restore(r)
  <2>1. req[r].at \in ActingStages
    BY <1>15 DEF Link, Reactivate, CreateSession, CreateRefreshToken, Rotate, ReadRole, Answer,
                 MarkCancelled, Restore, ActingStages
  <2>2. req[r].user \in Users
    BY <1>9, <2>1 DEF ActingStages
  <2>3. \E stage \in {"done", "session", "refreshToken", "readRole", "answer", "restore"} : On(stage)
    BY <1>8, <1>15, <2>2 DEF Link, Reactivate, CreateSession, CreateRefreshToken, Rotate, ReadRole,
                             Answer, MarkCancelled, Restore
  <2>4. QED
    BY <1>3, <1>4, <1>7, <1>10, <2>1, <2>3
<1>16. CASE EndSessions(r) \/ RevokeSessions(r) \/ RevokeRefresh(r) \/ MarkDeleted(r) \/ Enqueue(r)
            \/ PurgeThrows(r) \/ MarkFailed(r) \/ Complete(r) \/ Dies(r)
  BY <1>3, <1>4, <1>16 DEF EndSessions, RevokeSessions, RevokeRefresh, MarkDeleted, Enqueue,
                           PurgeThrows, MarkFailed, Complete, Dies
<1>17. CASE Claim(r) \/ DestroyKey(r) \/ EraseKnowledge(r) \/ DeleteCredentials(r)
            \/ DeleteSessions(r) \/ DeletePasskeys(r) \/ Pseudonymise(r)
  <2>1. CASE Claim(r)
    <3>1. Goes(r, "destroyKey") \/ Goes(r, "done")
      BY <2>1 DEF Claim
    <3>2. "destroyKey" \in PurgeStages
      BY DEF PurgeStages
    <3>3. QED
      BY <1>3, <1>4, <1>6, <2>1, <3>1, <3>2 DEF ToPurge
  <2>2. CASE ~Claim(r)
    <3>1. PICK stage \in PurgeStages : Goes(r, stage) /\ (req'[r].at = stage => ToPurge(r))
      BY <1>17, <2>2 DEF DestroyKey, EraseKnowledge, DeleteCredentials, DeleteSessions,
                         DeletePasskeys, Pseudonymise, Removes, ToPurge, PurgeStages
    <3>2. QED
      BY <1>6, <3>1
  <2>3. QED
    BY <2>1, <2>2
<1>18. QED
  BY <1>11, <1>12, <1>13, <1>14, <1>15, <1>16, <1>17 DEF Step

\* While nobody acts for a user, nothing is added to the data, ...
LEMMA DataShrinks ==
  ASSUME RowsInv, Next, NEW u \in Users, user[u].status # "absent", access[u] = "none"
  PROVE  data'[u] \subseteq data[u]
<1>1. CASE UNCHANGED data
  BY <1>1
<1>2. ASSUME NEW r \in Requests, NEW stage, NEW role, InsertRow(r, stage, role)
      PROVE  data'[u] \subseteq data[u]
  BY <1>2 DEF InsertRow, RowsInv, TypeOK
<1>3. ASSUME NEW r \in Requests, NEW part, NEW stage, NEW next, Removes(r, part, stage, next)
      PROVE  data'[u] \subseteq data[u]
  BY <1>3 DEF Removes, RowsInv, TypeOK
<1>4. ASSUME NEW v \in Users, NEW part \in Parts, Stores(v, part) PROVE data'[u] \subseteq data[u]
  BY <1>4 DEF Stores, RowsInv, TypeOK
<1>5. ASSUME NEW r \in Requests, Arrive(r) PROVE UNCHANGED data
  BY <1>5 DEF Arrive, Login, PasskeyLogin, Suspend, SoftDelete, RequestErase, CancelErase, Purge,
              Refresh
<1>6. ASSUME NEW r \in Requests, Step(r) \/ Dies(r)
      PROVE  \/ UNCHANGED data
             \/ InsertAdmin(r) \/ InsertMember(r)
             \/ DestroyKey(r) \/ EraseKnowledge(r) \/ DeleteCredentials(r) \/ DeletePasskeys(r)
  BY <1>6 DEF Step, Dies, ByEmail, Link, CountActive, FindInvite, AcceptInvite, ByInvitedEmail,
              Reactivate, CreateSession, CreateRefreshToken, Rotate, ReadRole, Answer, EndSessions,
              RevokeSessions, RevokeRefresh, MarkDeleted, Enqueue, MarkCancelled, Restore, Claim,
              DeleteSessions, Pseudonymise, Complete, PurgeThrows, MarkFailed
<1>7. QED
  BY <1>1, <1>2, <1>3, <1>4, <1>5, <1>6
     DEF Next, Unsuspend, GracePasses, ChangeRole, InsertAdmin, InsertMember, DestroyKey,
         EraseKnowledge, DeleteCredentials, DeletePasskeys

\* ... a row that is a pseudonym remains one, ...
LEMMA BuriedStays ==
  ASSUME RowsInv, Next, NEW u \in Users, Buried(u), ~Acting(u)
  PROVE  Buried(u)'
<1>1. CASE user' = user
  BY <1>1 DEF Buried
<1>2. ASSUME NEW r \in Requests, NEW row, user' = [user EXCEPT ![req[r].user] = row],
             req[r].at \in ActingStages
      PROVE  Buried(u)'
  BY <1>2 DEF Buried, Acting, RowsInv, TypeOK
<1>3. ASSUME NEW r \in Requests, NEW stage, NEW role, InsertRow(r, stage, role) PROVE Buried(u)'
  BY <1>3 DEF InsertRow, Update, Buried, RowsInv, TypeOK
<1>4. ASSUME NEW r \in Requests, Arrive(r) PROVE Buried(u)'
  <2>1. ASSUME NEW v \in Users, Suspend(r, v) \/ SoftDelete(r, v) PROVE Buried(u)'
    BY <2>1 DEF Suspend, SoftDelete, HasRow, Buried, RowsInv, TypeOK
  <2>2. QED
    BY <1>1, <1>4, <2>1 DEF Arrive, Login, PasskeyLogin, RequestErase, CancelErase, Purge, Refresh
<1>5. ASSUME NEW r \in Requests, Step(r) \/ Dies(r) PROVE Buried(u)'
  <2>1. CASE Link(r) \/ Reactivate(r)
    BY <1>1, <1>2, <2>1 DEF Link, Reactivate, Update, ActingStages
  <2>2. CASE InsertAdmin(r) \/ InsertMember(r)
    BY <1>3, <2>2 DEF InsertAdmin, InsertMember
  <2>3. CASE MarkDeleted(r) \/ Pseudonymise(r)
    <3>1. user[u] \in UserRows /\ user \in [Users -> UserRows]
      BY DEF RowsInv, TypeOK
    <3>2. QED
      <4>1. \/ user'[u] = user[u]
            \/ user'[u] = [user[u] EXCEPT !.status = "deleted"]
            \/ user'[u] = [user[u] EXCEPT !.status = "deleted", !.linked = FALSE, !.named = FALSE,
                                          !.erased = TRUE]
        BY <2>3, <3>1 DEF MarkDeleted, Pseudonymise
      <4>2. QED
        BY <3>1, <4>1 DEF Buried, UserRows
  <2>4. CASE Restore(r)
    BY <1>1, <1>2, <2>4 DEF Restore, Update, ActingStages
  <2>5. CASE UNCHANGED user
    BY <1>1, <2>5
  <2>6. QED
    BY <1>5, <2>1, <2>2, <2>3, <2>4, <2>5
       DEF Step, Dies, ByEmail, CountActive, FindInvite, AcceptInvite, ByInvitedEmail,
           CreateSession, CreateRefreshToken, Rotate, ReadRole, Answer, EndSessions,
           RevokeSessions, RevokeRefresh, Enqueue, MarkCancelled, Claim, DestroyKey,
           EraseKnowledge, DeleteCredentials, DeletePasskeys, Removes,
           DeleteSessions, Complete, PurgeThrows, MarkFailed
<1>6. ASSUME NEW v \in Users, Unsuspend(v) \/ \E role \in Roles : ChangeRole(v, role)
      PROVE  Buried(u)'
  BY <1>6 DEF Unsuspend, ChangeRole, Active, Update, Buried, RowsInv, TypeOK
<1>7. QED
  BY <1>1, <1>4, <1>5, <1>6 DEF Next, GracePasses, Stores

\* ... and sessions that are gone stay gone.
LEMMA OwnerStays ==
  ASSUME RowsInv, OwnersKnown, Next, NEW x \in Sessions
  PROVE  Owner(x)' = Owner(x) \/ sess[x] = "none"
<1>1. CASE x \in Users
  BY <1>1 DEF Owner
<1>2. CASE x \notin Users
  <2>1. x \in Requests
    BY <1>2 DEF Sessions
  <2>2. CASE UNCHANGED req
    BY <2>2 DEF Owner
  <2>3. ASSUME NEW r \in Requests, Arrive(r)
        PROVE  Owner(x)' = Owner(x) \/ sess[x] = "none"
    <3>1. sess[r] = "none"
      BY <2>3 DEF OwnersKnown, Arrive, Login, PasskeyLogin, Suspend, SoftDelete, RequestErase,
                  CancelErase, Purge, Refresh
    <3>2. \A q \in Requests \ {r} : req'[q] = req[q]
      BY <2>3, MovedArrive DEF Moved
    <3>3. QED
      BY <2>1, <3>1, <3>2 DEF Owner
  <2>4. ASSUME NEW r \in Requests, Step(r) \/ Dies(r)
        PROVE  Owner(x)' = Owner(x) \/ sess[x] = "none"
    <3>1. \A q \in Requests \ {r} : req'[q] = req[q]
      BY <2>4, MovedStep DEF Moved
    <3>2. sess[r] # "none" => req'[r].user = req[r].user
      BY <2>4, MovedStep DEF Moved
    <3>3. QED
      BY <1>2, <2>1, <3>1, <3>2 DEF Owner
  <2>5. QED
    BY <2>2, <2>3, <2>4 DEF Next, Unsuspend, GracePasses, ChangeRole, Stores
<1>3. QED
  BY <1>1, <1>2

\* The steps that touch the sessions and their tokens.
LEMMA StepSessions ==
  ASSUME NEW r \in Requests, Step(r) \/ Dies(r)
  PROVE  \/ UNCHANGED <<sess, refresh>>
         \/ CreateSession(r) \/ CreateRefreshToken(r) \/ Rotate(r)
         \/ EndSessions(r) \/ RevokeSessions(r) \/ RevokeRefresh(r) \/ DeleteSessions(r)
BY DEF Step, Dies, ByEmail, Link, CountActive, InsertAdmin, InsertMember, InsertRow, FindInvite,
       AcceptInvite, ByInvitedEmail, Reactivate, ReadRole, Answer, MarkDeleted, Enqueue,
       MarkCancelled, Restore, Claim, DestroyKey, EraseKnowledge, DeleteCredentials,
       DeletePasskeys, Removes, Pseudonymise, Complete, PurgeThrows, MarkFailed

LEMMA SessionsStayGone ==
  ASSUME RowsInv, OwnersKnown, Next, NEW u \in Users, NoSessions(u), ~Acting(u)
  PROVE  NoSessions(u)'
<1> DEFINE Over == {"none", "deleted"}
<1>1. SUFFICES ASSUME NEW x \in Sessions, Owner(x)' = u
               PROVE  {sess'[x], refresh'[x]} \subseteq Over
  BY DEF NoSessions, Sessions
<1>2. CASE sess[x] = "none"
  <2>1. refresh[x] = "none"
    BY <1>2 DEF OwnersKnown
  <2>2. ASSUME NEW r \in Requests, Arrive(r) PROVE sess'[x] = "none" /\ refresh'[x] = "none"
    BY <1>2, <2>1, <2>2 DEF Arrive, Login, PasskeyLogin, Suspend, SoftDelete, RequestErase,
                        CancelErase, Purge, Refresh, RowsInv, TypeOK
  <2>3. ASSUME NEW r \in Requests, Step(r) \/ Dies(r)
        PROVE  {sess'[x], refresh'[x]} \subseteq Over
    <3>1. CASE CreateSession(r)
      <4>1. CASE x = r
        <5>1. Goes(r, "refreshToken") /\ req[r].at = "session"
          BY <3>1 DEF CreateSession
        <5>2. req'[r].user = req[r].user
          BY <5>1, StepTo DEF Stages, LoginStages
        <5>3. req[r].user # u
          BY <5>1 DEF Acting, ActingStages
        <5>4. x \notin Users
          BY <4>1, DisjointAssumption
        <5>5. QED
          BY <1>1, <4>1, <5>2, <5>3, <5>4 DEF Owner
      <4>2. CASE x # r
        BY <1>2, <2>1, <3>1, <4>2 DEF CreateSession, RowsInv, TypeOK
      <4>3. QED
        BY <4>1, <4>2
    <3>2. CASE CreateRefreshToken(r) \/ Rotate(r)
      <4>1. CreateRefreshToken(r) => sess[r] # "none"
        BY DEF CreateRefreshToken, OwnersKnown
      <4>2. Rotate(r) => sess[req[r].session] # "none"
        BY DEF Rotate, OwnersKnown
      <4>3. QED
        BY <1>2, <2>1, <3>2, <4>1, <4>2 DEF CreateRefreshToken, Rotate, RowsInv, TypeOK
    <3>3. CASE EndSessions(r) \/ RevokeSessions(r) \/ RevokeRefresh(r) \/ DeleteSessions(r)
      BY <1>2, <2>1, <3>3 DEF EndSessions, RevokeSessions, RevokeRefresh, RevokeIn, DeleteSessions
    <3>4. CASE UNCHANGED <<sess, refresh>>
      BY <1>2, <2>1, <3>4
    <3>5. QED
      BY <2>3, <3>1, <3>2, <3>3, <3>4, StepSessions
  <2>4. QED
    BY <1>2, <2>1, <2>2, <2>3 DEF Next, Unsuspend, GracePasses, ChangeRole, Stores
<1>3. CASE sess[x] # "none"
  <2>1. Owner(x) = u /\ {sess[x], refresh[x]} \subseteq Over
    BY <1>1, <1>3, OwnerStays DEF NoSessions
  <2>2. sess[x] = "deleted" /\ refresh[x] \in Over
    BY <1>3, <2>1
  <2>3. ASSUME NEW r \in Requests, Arrive(r) PROVE {sess'[x], refresh'[x]} \subseteq Over
    <3>1. UNCHANGED refresh /\ sess'[x] = sess[x]
      BY <2>2, <2>3 DEF Arrive, Login, PasskeyLogin, Suspend, SoftDelete, RequestErase, CancelErase,
                        Purge, Refresh, RowsInv, TypeOK
    <3>2. QED
      BY <2>2, <3>1
  <2>4. ASSUME NEW r \in Requests, Step(r) \/ Dies(r)
        PROVE  {sess'[x], refresh'[x]} \subseteq Over
    <3>1. CASE CreateSession(r)
      <4>1. x # r
        <5>1. req[r].at = "session" /\ req[r].user # u
          BY <3>1 DEF CreateSession, Acting, ActingStages
        <5>2. QED
          BY <2>1, <5>1, DisjointAssumption DEF Owner
      <4>2. QED
        BY <2>2, <3>1, <4>1 DEF CreateSession, RowsInv, TypeOK
    <3>2. CASE CreateRefreshToken(r) \/ Rotate(r)
      BY <2>2, <3>2 DEF CreateRefreshToken, Rotate, RowsInv, TypeOK
    <3>3. CASE EndSessions(r) \/ RevokeSessions(r) \/ RevokeRefresh(r) \/ DeleteSessions(r)
      BY <2>2, <3>3 DEF EndSessions, RevokeSessions, RevokeRefresh, RevokeIn, DeleteSessions
    <3>4. CASE UNCHANGED <<sess, refresh>>
      BY <2>2, <3>4
    <3>5. QED
      BY <2>4, <3>1, <3>2, <3>3, <3>4, StepSessions
  <2>5. QED
    BY <2>2, <2>3, <2>4 DEF Next, Unsuspend, GracePasses, ChangeRole, Stores
<1>4. QED
  BY <1>2, <1>3

\* Nobody can begin to act for a user who is erased.
LEMMA NobodyActs ==
  ASSUME RowsInv, OwnersKnown, Next, NEW u \in Users, ~Acting(u),
         Buried(u), NoSessions(u), data[u] \subseteq Unreached
  PROVE  ~Acting(u)'
<1>1. "passkeys" \notin data[u] /\ user[u].status = "deleted" /\ ~HasRow(u)
  BY DEF Unreached, Buried, HasRow
<1>2. access'[u] = "none"
  <2>1. ASSUME NEW r \in Requests, Arrive(r) PROVE access' = access
    BY <2>1 DEF Arrive, Login, PasskeyLogin, Suspend, SoftDelete, RequestErase, CancelErase, Purge,
                Refresh
  <2>2. ASSUME NEW r \in Requests, Answer(r) PROVE access'[u] = access[u]
    BY <2>2 DEF Answer, Acting, ActingStages, RowsInv, TypeOK
  <2>3. ASSUME NEW r \in Requests, Step(r) \/ Dies(r) PROVE access' = access \/ Answer(r)
    BY <2>3 DEF Step, Dies, ByEmail, Link, CountActive, InsertAdmin, InsertMember, InsertRow,
                FindInvite, AcceptInvite, ByInvitedEmail, Reactivate, CreateSession,
                CreateRefreshToken, Rotate, ReadRole, EndSessions, RevokeSessions, RevokeRefresh,
                MarkDeleted, Enqueue, MarkCancelled, Restore, Claim, DestroyKey, EraseKnowledge,
                DeleteCredentials, DeletePasskeys, Removes, DeleteSessions, Pseudonymise, Complete,
                PurgeThrows, MarkFailed
  <2>4. QED
    BY <2>1, <2>2, <2>3 DEF Next, Acting, Unsuspend, GracePasses, ChangeRole, Stores
<1>3. ASSUME NEW q \in Requests, req'[q].user = u, req'[q].at \in ActingStages PROVE FALSE
  <2>1. CASE req'[q] = req[q]
    BY <1>3, <2>1 DEF Acting
  <2>2. ASSUME NEW r \in Requests, Arrive(r) \/ Step(r) \/ Dies(r), req'[q] # req[q] PROVE FALSE
    <3>1. Moved(r)
      BY <2>2, MovedArrive, MovedStep
    <3>2. q = r /\ ToAction(q)
      BY <1>3, <2>2, <3>1 DEF Moved
    <3>3. ASSUME NEW x \in Sessions, Refresh(q, x), u = Owner(x) PROVE FALSE
      BY <3>3 DEF Refresh, NoSessions
    <3>4. ASSUME PasskeyLogin(q, u) \/ CancelErase(q, u) PROVE FALSE
      BY <1>1, <3>4 DEF PasskeyLogin, CancelErase, Acting
    <3>5. QED
      BY <1>1, <1>3, <3>2, <3>3, <3>4 DEF ToAction, Acting, Active
  <2>3. QED
    BY <2>1, <2>2 DEF Next, Unsuspend, GracePasses, ChangeRole, Stores
<1>4. QED
  BY <1>2, <1>3 DEF Acting

\* Only the last statement of the purge records an erasure as completed.
LEMMA QueueCompletes ==
  ASSUME RowsInv, Next, NEW u \in Users, queue[u] # "completed", queue'[u] = "completed"
  PROVE  \E r \in Requests : Complete(r) /\ req[r].user = u
<1>1. ASSUME NEW r \in Requests, Arrive(r) PROVE queue' = queue
  BY <1>1 DEF Arrive, Login, PasskeyLogin, Suspend, SoftDelete, RequestErase, CancelErase, Purge,
              Refresh
<1>2. ASSUME NEW r \in Requests, Enqueue(r) \/ MarkCancelled(r) \/ Claim(r) \/ MarkFailed(r)
      PROVE  FALSE
  BY <1>2 DEF Enqueue, MarkCancelled, Claim, MarkFailed, RowsInv, TypeOK
<1>3. ASSUME NEW r \in Requests, Complete(r) PROVE req[r].user = u
  BY <1>3 DEF Complete, RowsInv, TypeOK
<1>4. ASSUME NEW r \in Requests, Step(r) \/ Dies(r)
      PROVE  \/ queue' = queue \/ Enqueue(r) \/ MarkCancelled(r) \/ Claim(r) \/ MarkFailed(r)
             \/ Complete(r)
  BY <1>4 DEF Step, Dies, ByEmail, Link, CountActive, InsertAdmin, InsertMember, InsertRow,
              FindInvite, AcceptInvite, ByInvitedEmail, Reactivate, CreateSession,
              CreateRefreshToken, Rotate, ReadRole, Answer, EndSessions, RevokeSessions,
              RevokeRefresh, MarkDeleted, Restore, DestroyKey, EraseKnowledge, DeleteCredentials,
              DeletePasskeys, Removes, DeleteSessions, Pseudonymise, PurgeThrows
<1>5. QED
  BY <1>1, <1>2, <1>3, <1>4 DEF Next, Unsuspend, GracePasses, ChangeRole, Stores

LEMMA StepUndisturbed ==
  ASSUME RowsInv, RowsInv', OwnersKnown, Undisturbed, [Next]_vars
  PROVE  Undisturbed'
<1>1. CASE UNCHANGED vars
  BY <1>1 DEF vars, Undisturbed, Acting, NoSessions, Owner, Buried
<1>2. CASE Next
  <2>1. /\ around \subseteq around'
        /\ \A u \in Users \ around' : BeingErased(u)' => ~Acting(u)'
    BY <1>2 DEF Next, Watch
  <2>2. ASSUME NEW r \in Requests, req'[r].at \in PurgeStages, req'[r].user \notin around'
        PROVE  (/\ ~Acting(req[r].user) /\ data[req[r].user] \subseteq Left[req[r].at]
                /\ req[r].at \in {"deletePasskeys", "pseudonymise", "complete"} =>
                     NoSessions(req[r].user)
                /\ req[r].at = "complete" => Buried(req[r].user))'
    <3>1. PICK u \in Users : u = req'[r].user
      BY <2>2 DEF RowsInv, HandlerOK, Running, PurgeStages
    <3>2. ~Acting(u)'
      BY <2>1, <2>2, <3>1 DEF BeingErased
    <3>3. req'[r] = req[r] \/ (ToPurge(r) /\ req[r].user = u)
      <4>1. ASSUME NEW q \in Requests, Arrive(q) \/ Step(q) \/ Dies(q) PROVE Moved(q)
        BY <4>1, MovedArrive, MovedStep
      <4>2. QED
        BY <1>2, <2>2, <3>1, <4>1 DEF Next, Moved, Unsuspend, GracePasses, ChangeRole, Stores
    <3>4. data'[u] \in SUBSET Parts
      BY DEF RowsInv, TypeOK
    <3>5. CASE Claim(r) /\ req'[r].at = "destroyKey"
      BY <3>1, <3>2, <3>4, <3>5 DEF Left, Acting, NoSessions, Buried
    <3>6. CASE req[r].at \in PurgeStages /\ req[r].user = u
      <4>1. /\ ~Acting(u) /\ data[u] \subseteq Left[req[r].at] /\ user[u].status # "absent"
            /\ req[r].at \in {"deletePasskeys", "pseudonymise", "complete"} => NoSessions(u)
            /\ req[r].at = "complete" => Buried(u)
        BY <2>1, <2>2, <3>1, <3>6 DEF Undisturbed, RowsInv, HandlerOK, Erasing
      <4>2. /\ data'[u] \subseteq data[u]
            /\ NoSessions(u) => NoSessions(u)'
            /\ Buried(u) => Buried(u)'
        BY <1>2, <4>1, DataShrinks, SessionsStayGone, BuriedStays DEF Acting
      <4>3. CASE req'[r] = req[r]
        <5>1. data'[u] \subseteq Left[req'[r].at]
          BY <4>1, <4>2, <4>3
        <5>2. /\ req'[r].at \in {"deletePasskeys", "pseudonymise", "complete"} => NoSessions(u)'
              /\ req'[r].at = "complete" => Buried(u)'
          BY <4>1, <4>2, <4>3
        <5>3. QED
          BY <3>1, <3>2, <5>1, <5>2 DEF Acting, NoSessions, Buried, Left, Unreached
      <4>4. CASE req'[r].at \in {"eraseKnowledge", "deleteCredentials", "deleteSessions",
                                 "pseudonymise"} /\ ToPurge(r)
        <5>1. data'[u] \subseteq Left[req'[r].at]
          <6>1. ASSUME NEW part, NEW stage, NEW next, Removes(r, part, stage, next)
                PROVE  req[r].at = stage /\ data'[u] = data[u] \ {part}
            BY <3>6, <6>1 DEF Removes, RowsInv, TypeOK
          <6>2. data[u] \in SUBSET Parts
            BY DEF RowsInv, TypeOK
          <6>3. CASE DestroyKey(r) /\ req'[r].at = "eraseKnowledge"
            BY <6>1, <6>2, <6>3 DEF DestroyKey, Left
          <6>4. CASE EraseKnowledge(r) /\ req'[r].at = "deleteCredentials"
            <7>1. PICK part : /\ part = IF HasKnowledge THEN "knowledge" ELSE ""
                              /\ req[r].at = "eraseKnowledge" /\ data'[u] = data[u] \ {part}
              BY <6>1, <6>4 DEF EraseKnowledge
            <7>2. Left["eraseKnowledge"] = Parts \ {"key"}
              BY DEF Left
            <7>3. Left["deleteCredentials"] = {"credentials", "passkeys"} \cup Unreached
              BY DEF Left
            <7>4. data[u] \subseteq {"knowledge", "credentials", "passkeys"}
              BY <4>1, <7>1, <7>2 DEF Parts
            <7>5. CASE HasKnowledge
              BY <6>4, <7>1, <7>3, <7>4, <7>5
            <7>6. CASE ~HasKnowledge
              BY <6>4, <7>1, <7>3, <7>4, <7>6 DEF Unreached
            <7>7. QED
              BY <7>5, <7>6
          <6>5. CASE DeleteCredentials(r) /\ req'[r].at = "deleteSessions"
            <7>1. req[r].at = "deleteCredentials" /\ data'[u] = data[u] \ {"credentials"}
              BY <6>1, <6>5 DEF DeleteCredentials
            <7>2. data[u] \subseteq {"credentials", "passkeys"} \cup Unreached
              BY <4>1, <7>1 DEF Left
            <7>3. QED
              BY <6>5, <7>1, <7>2 DEF Left
          <6>6. CASE DeletePasskeys(r) /\ req'[r].at = "pseudonymise"
            <7>1. req[r].at = "deletePasskeys" /\ data'[u] = data[u] \ {"passkeys"}
              BY <6>1, <6>6 DEF DeletePasskeys
            <7>2. data[u] \subseteq {"passkeys"} \cup Unreached
              BY <4>1, <7>1 DEF Left
            <7>3. QED
              BY <6>6, <7>1, <7>2 DEF Left
          <6>7. QED
            BY <4>4, <6>3, <6>4, <6>5, <6>6 DEF ToPurge
        <5>2. req'[r].at = "pseudonymise" => NoSessions(u)'
          BY <4>1, <4>2, <4>4 DEF ToPurge, DeletePasskeys, Removes
        <5>3. QED
          BY <3>1, <3>2, <4>4, <5>1, <5>2 DEF Acting, NoSessions, Buried, Left, Unreached
      <4>5. CASE DeleteSessions(r) /\ req'[r].at = "deletePasskeys"
        <5>1. data'[u] \subseteq Left["deletePasskeys"]
          BY <4>1, <4>2, <4>5 DEF DeleteSessions, Left
        <5>2. NoSessions(u)'
          <6>1. ASSUME NEW x \in Sessions, Owner(x)' = u
                PROVE  {sess'[x], refresh'[x]} \subseteq {"none", "deleted"}
            <7>1. Owner(x) = u \/ sess[x] = "none"
              BY <1>2, <6>1, OwnerStays
            <7>2. sess[x] = "none" => refresh[x] = "none"
              BY DEF OwnersKnown
            <7>3. sess'[x] = IF Owner(x) = u /\ sess[x] # "none" THEN "deleted" ELSE sess[x]
              BY <3>6, <4>5 DEF DeleteSessions
            <7>4. refresh'[x] = IF Owner(x) = u /\ sess[x] # "none" THEN "deleted" ELSE refresh[x]
              BY <3>6, <4>5 DEF DeleteSessions
            <7>5. QED
              BY <7>1, <7>2, <7>3, <7>4
          <6>2. QED
            BY <6>1 DEF NoSessions, Sessions
        <5>3. QED
          BY <3>1, <3>2, <4>5, <5>1, <5>2 DEF Acting, NoSessions, Buried, Left, Unreached
      <4>6. CASE Pseudonymise(r) /\ req'[r].at = "complete"
        <5>1. data'[u] \subseteq Left["complete"] /\ NoSessions(u)'
          BY <4>1, <4>2, <4>6 DEF Pseudonymise, Left
        <5>2. Buried(u)'
          <6>1. user[u] \in UserRows /\ user \in [Users -> UserRows]
            BY DEF RowsInv, TypeOK
          <6>2. user'[u] = [user[u] EXCEPT !.status = "deleted", !.linked = FALSE,
                                           !.named = FALSE, !.erased = TRUE]
            BY <3>6, <4>6, <6>1 DEF Pseudonymise
          <6>3. QED
            BY <6>1, <6>2 DEF Buried, UserRows
        <5>3. QED
          BY <3>1, <3>2, <4>6, <5>1, <5>2 DEF Acting, NoSessions, Buried, Left, Unreached
      <4>7. CASE Claim(r)
        BY <3>6, <4>7 DEF Claim, PurgeStages
      <4>8. QED
        BY <3>3, <4>3, <4>4, <4>5, <4>6, <4>7 DEF ToPurge
    <3>7. req'[r] = req[r] => req[r].at \in PurgeStages /\ req[r].user = u
      BY <2>2, <3>1
    <3>8. ToPurge(r) /\ req[r].user = u => \/ Claim(r) /\ req'[r].at = "destroyKey"
                                           \/ req[r].at \in PurgeStages
      BY DEF ToPurge, DestroyKey, EraseKnowledge, DeleteCredentials, DeleteSessions,
             DeletePasskeys, Pseudonymise, Removes, PurgeStages
    <3>9. QED
      BY <3>3, <3>5, <3>6, <3>7, <3>8
  <2>3. ASSUME NEW u \in Users \ around', queue'[u] = "completed"
        PROVE  (~Acting(u) /\ Buried(u) /\ NoSessions(u) /\ data[u] \subseteq Unreached)'
    <3>1. ~Acting(u) /\ Buried(u) /\ NoSessions(u) /\ data[u] \subseteq Unreached
      <4>1. CASE queue[u] = "completed"
        BY <2>1, <4>1 DEF Undisturbed
      <4>2. CASE queue[u] # "completed"
        <5>1. PICK r \in Requests : Complete(r) /\ req[r].user = u
          BY <1>2, <2>3, <4>2, QueueCompletes
        <5>2. req[r].at = "complete"
          BY <5>1 DEF Complete
        <5>3. QED
          BY <2>1, <5>1, <5>2 DEF Undisturbed, PurgeStages, Left
      <4>3. QED
        BY <4>1, <4>2
    <3>2. user[u].status # "absent" /\ access[u] = "none"
      BY <3>1 DEF Buried, Acting
    <3>3. ~Acting(u)' /\ Buried(u)' /\ NoSessions(u)' /\ data'[u] \subseteq data[u]
      BY <1>2, <3>1, <3>2, NobodyActs, BuriedStays, SessionsStayGone, DataShrinks
    <3>4. QED
      BY <3>1, <3>3 DEF Unreached
  <2>4. QED
    BY <2>2, <2>3 DEF Undisturbed
<1>3. QED
  BY <1>1, <1>2

\* The inductive invariant holds in every state.
THEOREM Invariance == Spec => []IInv
<1>1. Init => IInv
  BY InitRows, InitOwners, InitUndisturbed DEF IInv
<1>2. IInv /\ [Next]_vars => IInv'
  BY StepRows, StepOwners, StepUndisturbed DEF IInv
<1>3. QED
  BY <1>1, <1>2, PTL DEF Spec

\* Every variable keeps its type, for any sets of users and requests.
THEOREM TypeCorrect == Spec => []TypeOK
<1>1. IInv => TypeOK
  BY DEF IInv, RowsInv
<1>2. QED
  BY <1>1, Invariance, PTL

\* Whichever way a login finds its user, the session it makes is for somebody who was
\* active at some moment of the login.
THEOREM LoginsFindActive == Spec => []SessionsForActive
<1>1. IInv => SessionsForActive
  BY DEF IInv, RowsInv, HandlerOK, SessionsForActive
<1>2. QED
  BY <1>1, Invariance, PTL

\* The role that is on its way into an access token is one the user had meanwhile.
THEOREM RolesAreTrue == Spec => []TokensTellTrueRole
<1>1. IInv => TokensTellTrueRole
  BY DEF IInv, RowsInv, HandlerOK, LoginStages, TokensTellTrueRole
<1>2. QED
  BY <1>1, Invariance, PTL

\* An erasure that is recorded as completed has taken the address from the user's row.
\* If nobody acted for the user while it ran, it has left no session, no token, no link to
\* Google, no name and no data (but what mcp-knowledge2 holds when there is no adapter for
\* it), whichever of its steps failed before, and nothing that comes later brings any back.
THEOREM ErasureIsComplete == Spec => []CompletedMeansErased
<1>1. IInv => CompletedMeansErased
  BY DEF IInv, RowsInv, Undisturbed, CompletedMeansErased
<1>2. QED
  BY <1>1, Invariance, PTL

\* Two runs of the purge meet at one user only after the user asked anew.
THEOREM EraserIsAlone == Spec => []OneEraser
<1>1. IInv => OneEraser
  BY DEF IInv, RowsInv, OneRun, Erasing, OneEraser
<1>2. QED
  BY <1>1, Invariance, PTL
===============================================================================
