----------------------------- MODULE ApprovalRows -----------------------------
(***************************************************************************)
(* One row of the table pending_approvals and the SQL statements that      *)
(* apps/server/src/services/approvals.ts runs against it.  Every statement *)
(* is a function from the old row to the new one: the WHERE clause is      *)
(* evaluated on the row as it is when the UPDATE reaches it, which is what *)
(* makes these statements compare-and-set operations.  Times are abstract  *)
(* ticks; `ts` is the clock value a handler read before its statement.     *)
(***************************************************************************)
EXTENDS Naturals

CONSTANTS
  Ttl,               \* DEFAULT_TTL_SEC: life of a fresh approval
  Extensions,        \* the extensions POST .../extend accepts (5, 10, 15 min)
  MaxExtension,      \* an upper bound of Extensions
  MaxExtensionCount  \* MAX_EXTENSION_COUNT

ASSUME TtlAssumption == Ttl \in Nat \ {0}
ASSUME ExtensionAssumption ==
  /\ MaxExtension \in Nat \ {0}
  /\ Extensions \subseteq 1..MaxExtension
  /\ MaxExtensionCount \in Nat

Decisions == {"approved", "rejected", "expired"}
Statuses  == {"absent", "pending"} \cup Decisions
Results   == {"none", "ok", "error"}

\* decidedAt stands for approved_at, rejected_at or expired_at, whichever the
\* status selects; it is 0 while the row is undecided.
Rows == [status: Statuses, createdAt: Nat, expiresAt: Nat, extensions: Nat,
         decidedAt: Nat, result: Results]

NoRow == [status |-> "absent", createdAt |-> 0, expiresAt |-> 0,
          extensions |-> 0, decidedAt |-> 0, result |-> "none"]

\* INSERT ... status = 'pending', expires_at = created_at + ttl
InsertRow(ts) ==
  [NoRow EXCEPT !.status = "pending", !.createdAt = ts, !.expiresAt = ts + Ttl]

IsPending(w) == w.status = "pending"

Overdue(w, ts) == w.expiresAt < ts

\* Mutant: the sweep forgets the status = 'pending' condition.
ExpireAnyOverdue(w, ts) ==
  IF w.status # "absent" /\ Overdue(w, ts)
  THEN [w EXCEPT !.status = "expired", !.decidedAt = ts]
  ELSE w

\* UPDATE ... SET status = 'expired' WHERE status = 'pending' AND expires_at < ts
ExpireIfOverdue(w, ts) ==
  IF IsPending(w) /\ Overdue(w, ts)
  THEN [w EXCEPT !.status = "expired", !.decidedAt = ts]
  ELSE w

\* UPDATE ... SET status = decision WHERE status = 'pending'
DecideIfPending(w, decision, ts) ==
  IF IsPending(w)
  THEN [w EXCEPT !.status = decision, !.decidedAt = ts]
  ELSE w

Extendable(w, ts) ==
  /\ IsPending(w)
  /\ w.expiresAt > ts
  /\ w.extensions < MaxExtensionCount

\* UPDATE ... SET expires_at = expires_at + ms, extension_count = extension_count + 1
ExtendIfAllowed(w, ms, ts) ==
  IF Extendable(w, ts)
  THEN [w EXCEPT !.expiresAt = @ + ms, !.extensions = @ + 1]
  ELSE w

\* UPDATE ... SET result_json = res WHERE result_emitted_at IS NULL
SetResultOnce(w, res) ==
  IF w.result = "none" THEN [w EXCEPT !.result = res] ELSE w
===============================================================================
