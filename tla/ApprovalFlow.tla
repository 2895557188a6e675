----------------------------- MODULE ApprovalFlow -----------------------------
(***************************************************************************)
(* The approval queue under concurrent requests: the PWA approves, rejects,*)
(* extends and reads; an MCP client resumes an approved call by its        *)
(* approval_id; a cron task sweeps.  A request is a record that walks from *)
(* one database access to the next, so that every await of the handlers    *)
(* (routes/approvals.ts, mcp/protocol/approval-resume.ts, transport.ts) is *)
(* a place where another request can run.                                  *)
(*                                                                         *)
(* All requests carry the user id that owns the approvals; for any other   *)
(* user every statement below matches no row.                              *)
(***************************************************************************)
EXTENDS ApprovalRows

CONSTANTS
  Approvals,   \* ids of approvals that may be created
  Requests,    \* HTTP requests; each is handled once
  MaxTime      \* bound: the clock stops here

ASSUME MaxTimeAssumption == MaxTime \in Nat

VARIABLES
  row,      \* pending_approvals: id -> row
  req,      \* the request handlers in flight
  sweep,    \* the cron task sweep-executing-approvals
  now,      \* Date.now()
  signed,   \* approvals whose WebAuthn assertion was verified (history)
  runs      \* executions of the approved tool call (history)

vars == <<row, req, sweep, now, signed, runs>>

Kinds == {"approve", "resume", "reject", "extend", "read", "list"}

\* Where a handler stands; it names what the handler does next.
Stages == {"idle", "begun", "verify", "select", "update",
           "dispatch", "publish", "published", "unpublished", "done", "crashed"}

\* What a handler will answer or, before "publish", what the tool answered.
Answers == {"none", "conflict", "overdue", "unauthorized", "denied",
            "decided", "extended", "ok", "error"} \cup Statuses

RequestRecords == [kind: Kinds, at: Stages, id: Approvals, ts: Nat, answer: Answers]

TypeOK ==
  /\ row \in [Approvals -> Rows]
  /\ req \in [Requests -> RequestRecords]
  /\ sweep \in [at: {"idle", "update"}, ts: Nat]
  /\ now \in Nat
  /\ signed \subseteq Approvals
  /\ runs \in [Approvals -> Nat]

Init ==
  /\ row = [i \in Approvals |-> NoRow]
  /\ req \in [Requests -> {[kind |-> "read", at |-> "idle", id |-> i, ts |-> 0,
                            answer |-> "none"] : i \in Approvals}]
  /\ sweep = [at |-> "idle", ts |-> 0]
  /\ now = 0
  /\ signed = {}
  /\ runs = [i \in Approvals |-> 0]

Tick ==
  /\ now < MaxTime
  /\ now' = now + 1
  /\ UNCHANGED <<row, req, sweep, signed, runs>>

(***************************************************************************)
(* Creation.  handleToolsCall meets an ApprovalRequiredError and persists  *)
(* the call.  MaxTime bounds creation so that the deadline, with all its   *)
(* extensions, comes before the clock stops.                               *)
(***************************************************************************)
EnqueueApproval(i) ==
  /\ row[i].status = "absent"
  /\ now + Ttl + MaxExtensionCount * MaxExtension < MaxTime
  /\ row' = [row EXCEPT ![i] = InsertRow(now)]
  /\ UNCHANGED <<req, sweep, now, signed, runs>>

\* Moves request r on; the clock value it holds stays.
GoTo(r, stage, answer) ==
  req' = [req EXCEPT ![r].at = stage, ![r].answer = answer]

\* A request for an existing approval arrives and reads the clock.
Begin(r, kind, i) ==
  /\ req[r].at = "idle"
  /\ row[i].status # "absent"
  /\ req' = [req EXCEPT ![r] = [kind |-> kind, at |-> "begun", id |-> i,
                                ts |-> now, answer |-> "none"]]
  /\ UNCHANGED <<row, sweep, now, signed, runs>>

At(r, kind, stage) == req[r].kind = kind /\ req[r].at = stage

RowOf(r) == row[req[r].id]

\* ApprovalService.get: expire the row if it is overdue, then select it.
SelectedRow(r) == ExpireIfOverdue(RowOf(r), req[r].ts)

LazyExpire(r) == row' = [row EXCEPT ![req[r].id] = SelectedRow(r)]

(***************************************************************************)
(* POST /v1/approvals/:id/approve: get, verify the assertion, approve in a *)
(* transaction of a SELECT and an UPDATE, run the tool, store its result.  *)
(***************************************************************************)
ApproveGet(r) ==
  /\ At(r, "approve", "begun")
  /\ LazyExpire(r)
  /\ IF IsPending(SelectedRow(r))
     THEN GoTo(r, "verify", "none")
     ELSE GoTo(r, "done", "conflict")
  /\ UNCHANGED <<sweep, now, signed, runs>>

\* A verified assertion leads straight into ApprovalService.approve, which
\* reads the clock again before it opens its transaction.
VerifyAssertion(r) ==
  /\ At(r, "approve", "verify")
  /\ req' = [req EXCEPT ![r].at = "select", ![r].ts = now]
  /\ signed' = signed \cup {req[r].id}
  /\ UNCHANGED <<row, sweep, now, runs>>

RefuseAssertion(r) ==
  /\ At(r, "approve", "verify")
  /\ GoTo(r, "done", "unauthorized")
  /\ UNCHANGED <<row, sweep, now, signed, runs>>

\* Mutant: an overdue approval may still be approved.
ApproveSelectNoDeadline(r) ==
  /\ At(r, "approve", "select")
  /\ \/ IsPending(RowOf(r)) /\ GoTo(r, "update", "none")
     \/ ~IsPending(RowOf(r)) /\ GoTo(r, "done", "conflict")
  /\ UNCHANGED <<row, sweep, now, signed, runs>>

\* The transaction's SELECT.  On an overdue row the code also writes
\* status = 'expired', but then throws, and the transaction rolls back.
ApproveSelect(r) ==
  /\ At(r, "approve", "select")
  /\ \/ /\ ~IsPending(RowOf(r))
        /\ GoTo(r, "done", "conflict")
     \/ /\ IsPending(RowOf(r)) /\ Overdue(RowOf(r), req[r].ts)
        /\ GoTo(r, "done", "overdue")
     \/ /\ IsPending(RowOf(r)) /\ ~Overdue(RowOf(r), req[r].ts)
        /\ GoTo(r, "update", "none")
  /\ UNCHANGED <<row, sweep, now, signed, runs>>

\* Mutant: the row count of the UPDATE is not looked at.
ApproveUpdateUnchecked(r) ==
  /\ At(r, "approve", "update")
  /\ row' = [row EXCEPT ![req[r].id] = DecideIfPending(@, "approved", req[r].ts)]
  /\ GoTo(r, "dispatch", "none")
  /\ UNCHANGED <<sweep, now, signed, runs>>

\* The transaction's UPDATE and COMMIT: only the request that still finds the
\* row pending goes on to run the tool.
ApproveUpdate(r) ==
  /\ At(r, "approve", "update")
  /\ row' = [row EXCEPT ![req[r].id] = DecideIfPending(@, "approved", req[r].ts)]
  /\ IF IsPending(RowOf(r))
     THEN GoTo(r, "dispatch", "none")
     ELSE GoTo(r, "done", "conflict")
  /\ UNCHANGED <<sweep, now, signed, runs>>

(***************************************************************************)
(* POST /mcp tools/call with an approval_id.  `matches` says whether the   *)
(* tool name and the arguments are those that were approved.               *)
(***************************************************************************)
\* Mutant: any decided approval opens the gate.
ResumeGetAnyStatus(r, matches) ==
  /\ At(r, "resume", "begun")
  /\ LazyExpire(r)
  /\ IF ~IsPending(SelectedRow(r)) /\ matches
     THEN GoTo(r, "dispatch", "none")
     ELSE GoTo(r, "done", "denied")
  /\ UNCHANGED <<sweep, now, signed, runs>>

ResumeGet(r, matches) ==
  /\ At(r, "resume", "begun")
  /\ LazyExpire(r)
  /\ IF SelectedRow(r).status = "approved" /\ SelectedRow(r).result = "none" /\ matches
     THEN GoTo(r, "dispatch", "none")
     ELSE GoTo(r, "done", "denied")
  /\ UNCHANGED <<sweep, now, signed, runs>>

(***************************************************************************)
(* registry.dispatch with bypassApproval.  The tool may fail before it has *)
(* any effect (not registered, invalid input) or run; then it answers or   *)
(* throws.  Only the approve handler goes on to store the answer.          *)
(***************************************************************************)
\* Mutant: the answer is stored only when the tool succeeded.
AfterDispatchOk(r, answer) ==
  GoTo(r, IF req[r].kind = "approve" /\ answer = "ok" THEN "publish" ELSE "done", answer)

AfterDispatch(r, answer) ==
  GoTo(r, IF req[r].kind = "approve" THEN "publish" ELSE "done", answer)

RunTool(r, answer) ==
  /\ req[r].at = "dispatch"
  /\ runs' = [runs EXCEPT ![req[r].id] = @ + 1]
  /\ AfterDispatch(r, answer)
  /\ UNCHANGED <<row, sweep, now, signed>>

FailBeforeRun(r) ==
  /\ req[r].at = "dispatch"
  /\ AfterDispatch(r, "error")
  /\ UNCHANGED <<row, sweep, now, signed, runs>>

SetResult(r) ==
  /\ At(r, "approve", "publish")
  /\ row' = [row EXCEPT ![req[r].id] = SetResultOnce(@, req[r].answer)]
  /\ GoTo(r, "published", req[r].answer)
  /\ UNCHANGED <<sweep, now, signed, runs>>

\* The UPDATE of setResult fails.  After a success that sends the handler to
\* its catch block, which tries to store the failure; a second failure ends it.
SetResultFails(r) ==
  /\ At(r, "approve", "publish")
  /\ GoTo(r, IF req[r].answer = "ok" THEN "publish" ELSE "unpublished", "error")
  /\ UNCHANGED <<row, sweep, now, signed, runs>>

(***************************************************************************)
(* POST /v1/approvals/:id/reject and .../extend, the reads, and the sweep. *)
(***************************************************************************)
RejectSelect(r) ==
  /\ At(r, "reject", "begun")
  /\ IF IsPending(RowOf(r)) THEN GoTo(r, "update", "none") ELSE GoTo(r, "done", "conflict")
  /\ UNCHANGED <<row, sweep, now, signed, runs>>

RejectUpdate(r) ==
  /\ At(r, "reject", "update")
  /\ row' = [row EXCEPT ![req[r].id] = DecideIfPending(@, "rejected", req[r].ts)]
  /\ GoTo(r, "done", IF IsPending(RowOf(r)) THEN "decided" ELSE "conflict")
  /\ UNCHANGED <<sweep, now, signed, runs>>

Extend(r, ms) ==
  /\ At(r, "extend", "begun")
  /\ row' = [row EXCEPT ![req[r].id] = ExtendIfAllowed(@, ms, req[r].ts)]
  /\ GoTo(r, "done", IF Extendable(RowOf(r), req[r].ts) THEN "extended" ELSE "conflict")
  /\ UNCHANGED <<sweep, now, signed, runs>>

\* Mutant: the row is selected before the overdue ones are expired.
ReadBeforeExpiring(r) ==
  /\ At(r, "read", "begun")
  /\ LazyExpire(r)
  /\ GoTo(r, "done", RowOf(r).status)
  /\ UNCHANGED <<sweep, now, signed, runs>>

\* GET /v1/approvals/:id and /v1/approvals/:id/result
Read(r) ==
  /\ At(r, "read", "begun")
  /\ LazyExpire(r)
  /\ GoTo(r, "done", SelectedRow(r).status)
  /\ UNCHANGED <<sweep, now, signed, runs>>

ExpireAll(ts) == row' = [i \in Approvals |-> ExpireIfOverdue(row[i], ts)]

\* GET /v1/approvals: the answer is that for the row the request asks about.
List(r) ==
  /\ At(r, "list", "begun")
  /\ ExpireAll(req[r].ts)
  /\ GoTo(r, "done", SelectedRow(r).status)
  /\ UNCHANGED <<sweep, now, signed, runs>>

SweepBegin ==
  /\ sweep.at = "idle"
  /\ sweep' = [at |-> "update", ts |-> now]
  /\ UNCHANGED <<row, req, now, signed, runs>>

\* Mutant: the sweep has nothing to do.
SweepNothing ==
  /\ sweep.at = "update"
  /\ sweep' = [sweep EXCEPT !.at = "idle"]
  /\ UNCHANGED <<row, req, now, signed, runs>>

SweepExpired ==
  /\ sweep.at = "update"
  /\ ExpireAll(sweep.ts)
  /\ sweep' = [sweep EXCEPT !.at = "idle"]
  /\ UNCHANGED <<req, now, signed, runs>>

\* The instance that serves r dies, or r's connection to the database is lost.
Crash(r) ==
  /\ req[r].at \in Stages \ {"idle", "published", "unpublished", "done", "crashed"}
  /\ GoTo(r, "crashed", req[r].answer)
  /\ UNCHANGED <<row, sweep, now, signed, runs>>

Step(r) ==
  \/ ApproveGet(r) \/ VerifyAssertion(r) \/ RefuseAssertion(r)
  \/ ApproveSelect(r) \/ ApproveUpdate(r)
  \/ \E matches \in BOOLEAN : ResumeGet(r, matches)
  \/ \E answer \in {"ok", "error"} : RunTool(r, answer)
  \/ FailBeforeRun(r) \/ SetResult(r) \/ SetResultFails(r)
  \/ RejectSelect(r) \/ RejectUpdate(r)
  \/ \E ms \in Extensions : Extend(r, ms)
  \/ Read(r) \/ List(r)

Next ==
  \/ Tick
  \/ \E i \in Approvals : EnqueueApproval(i)
  \/ \E r \in Requests, kind \in Kinds, i \in Approvals : Begin(r, kind, i)
  \/ \E r \in Requests : Step(r) \/ Crash(r)
  \/ SweepBegin \/ SweepExpired

Spec == Init /\ [][Next]_vars

(***************************************************************************)
(* Fairness: time passes, the external scheduler keeps triggering the      *)
(* sweep, and a handler that can go on does (the Node event loop and       *)
(* Postgres make progress).  A tool owes no answer: dispatch awaits it     *)
(* without a timer, and nobody aborts the controller it is given.  A crash *)
(* is never forced.                                                        *)
(***************************************************************************)
Fairness ==
  /\ WF_vars(Tick)
  /\ WF_vars(SweepBegin)
  /\ WF_vars(SweepExpired)
  /\ \A r \in Requests : WF_vars(req[r].at # "dispatch" /\ Step(r))

FairSpec == Spec /\ Fairness

-------------------------------------------------------------------------------
(***************************************************************************)
(* Properties                                                              *)
(***************************************************************************)

\* A tool call that needs approval runs only if that approval was approved,
\* with a verified assertion for it, no matter which of the two paths (PWA
\* approve, MCP resume) ran it and what rejected or expired it meanwhile.
RunsOnlySigned ==
  \A i \in Approvals : runs[i] > 0 => row[i].status = "approved" /\ i \in signed

\* An approval is approved no later than its deadline and expired only after
\* it, although every handler works with a clock value read earlier and the
\* deadline may be extended in between.
DecidedOnTime ==
  \A i \in Approvals :
    /\ row[i].status = "approved" => row[i].decidedAt <= row[i].expiresAt
    /\ row[i].status = "expired"  => row[i].decidedAt > row[i].expiresAt

\* However extensions race, the deadline stays within the budget that
\* MAX_EXTENSION_COUNT extensions of the longest allowed size give.
WithinExtensionBudget ==
  \A i \in Approvals :
    row[i].expiresAt <= row[i].createdAt + Ttl + MaxExtensionCount * MaxExtension

\* The requests whose UPDATE won the approval, as long as they have not died.
Winner(r) == req[r].kind = "approve" /\ req[r].at \in {"dispatch", "publish", "published"}

\* Of all approve requests for an approval at most one gets to run the tool
\* (a double click or two devices that sign at once).
OneApproveWins ==
  \A r, s \in Requests :
    Winner(r) /\ Winner(s) /\ req[r].id = req[s].id => r = s

\* A client is never shown a pending approval that was overdue when the
\* request came in.
NoOverdueShownPending ==
  \A r \in Requests :
    /\ req[r].kind \in {"read", "list"}
    /\ req[r].at = "done"
    /\ req[r].answer = "pending"
    => req[r].ts <= RowOf(r).expiresAt

\* A decision is final, and so is a published result: later approvals,
\* rejections, sweeps and second dispatches change neither.
DecisionAndResultFinal ==
  [][\A i \in Approvals :
       /\ row[i].status \in Decisions
            => row'[i].status = row[i].status /\ row'[i].decidedAt = row[i].decidedAt
       /\ row[i].result # "none" => row'[i].result = row[i].result]_vars

\* What the code behind each await may rely on although others ran meanwhile.
HandlerOK(r) ==
  /\ req[r].at # "idle" => RowOf(r).status # "absent"
  /\ req[r].at = "dispatch" => req[r].kind \in {"approve", "resume"}
  /\ req[r].at = "publish" => req[r].kind = "approve" /\ req[r].answer \in {"ok", "error"}
  /\ req[r].at \in {"dispatch", "publish", "published"} => RowOf(r).status = "approved"
  /\ At(r, "approve", "select") => req[r].id \in signed
  /\ At(r, "approve", "update") => req[r].id \in signed /\ req[r].ts <= RowOf(r).expiresAt

\* What holds of one row, its signature and the number of its runs.
RowOK(w, isSigned, n) ==
  /\ w.status = "absent" => w = NoRow
  /\ w.status = "approved" => isSigned /\ w.decidedAt <= w.expiresAt
  /\ w.status = "expired" => w.decidedAt > w.expiresAt
  /\ w.extensions <= MaxExtensionCount
  /\ w.expiresAt <= w.createdAt + Ttl + w.extensions * MaxExtension
  /\ n > 0 => w.status = "approved"

\* The inductive invariant: types, handlers, rows, the single winner, and the
\* freshness of what was shown.  A winner is unique only because a decided row
\* cannot be won again, and a run is signed only because every handler that
\* holds a positive check still finds the row approved.
IInv ==
  /\ TypeOK
  /\ \A r \in Requests : HandlerOK(r)
  /\ \A i \in Approvals : RowOK(row[i], i \in signed, runs[i])
  /\ OneApproveWins
  /\ NoOverdueShownPending

\* No approval stays pending for ever: somebody decides it or the sweep does.
EventuallyDecided ==
  \A i \in Approvals : row[i].status = "pending" ~> row[i].status \in Decisions

\* Once an approve request has won, the client finds a result, be it a failure,
\* unless the tool never returns, the instance dies or the database refuses to
\* store the result.
WinnerPublishes ==
  \A r \in Requests :
    Winner(r) ~> \/ RowOf(r).result # "none"
                 \/ req[r].at \in {"crashed", "unpublished"}
                 \/ [](req[r].at = "dispatch")

\* The implemented life of an approval is the promised one.
Lifecycle == INSTANCE ApprovalLifecycle
  WITH phase <- [i \in Approvals |-> row[i].status],
       published <- [i \in Approvals |-> row[i].result]

ImplementsLifecycle == Lifecycle!LifecycleSpec

(***************************************************************************)
(* Statements of the repository that the code does not keep.               *)
(***************************************************************************)

\* transport.ts, SEC-018: a resume is blocked "wenn die Approval schon einmal
\* dispatched wurde".  The check looks at result_emitted_at, which only the
\* PWA path sets, and only after the tool has run.
AtMostOneDispatch == \A i \in Approvals : runs[i] <= 1

===============================================================================
