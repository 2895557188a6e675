---------------------------- MODULE ApprovalProofs ----------------------------
(***************************************************************************)
(* Proofs about ApprovalFlow for every set of approvals and requests and   *)
(* every choice of deadlines.                                              *)
(***************************************************************************)
EXTENDS ApprovalFlow, TLAPS

(***************************************************************************)
(* Lemmas about the SQL statements: each maps a row to a row, and what it  *)
(* may change depends only on the status it finds.                         *)
(***************************************************************************)
LEMMA InsertRowType ==
  ASSUME NEW ts \in Nat
  PROVE  InsertRow(ts) \in Rows
<1>1. ts + Ttl \in Nat
  BY TtlAssumption
<1>2. QED
  BY <1>1 DEF InsertRow, NoRow, Rows, Statuses, Results

LEMMA ExpireType ==
  ASSUME NEW w \in Rows, NEW ts \in Nat
  PROVE  ExpireIfOverdue(w, ts) \in Rows
BY DEF ExpireIfOverdue, Rows, Statuses, Decisions, Results

LEMMA DecideType ==
  ASSUME NEW w \in Rows, NEW d \in Decisions, NEW ts \in Nat
  PROVE  DecideIfPending(w, d, ts) \in Rows
BY DEF DecideIfPending, Rows, Statuses, Decisions, Results

LEMMA ExtendType ==
  ASSUME NEW w \in Rows, NEW ms \in Extensions, NEW ts \in Nat
  PROVE  ExtendIfAllowed(w, ms, ts) \in Rows
<1>1. ms \in Nat
  BY ExtensionAssumption
<1>2. w.expiresAt + ms \in Nat /\ w.extensions + 1 \in Nat
  BY <1>1 DEF Rows
<1>3. QED
  BY <1>2 DEF ExtendIfAllowed, Rows

LEMMA SetResultType ==
  ASSUME NEW w \in Rows, NEW res \in Results
  PROVE  SetResultOnce(w, res) \in Rows
BY DEF SetResultOnce, Rows, Statuses, Decisions, Results

\* What a statement may do to a row, whichever it is: deadlines never move
\* back, a decision and a result stay, and a row that exists stays.
RowStep(w, v) ==
  /\ w.status # "absent" => v.status # "absent" /\ v.createdAt = w.createdAt
  /\ w.status # "absent" => w.expiresAt <= v.expiresAt
  /\ w.status # "pending" /\ w.status # "absent"
       => v.status = w.status /\ v.decidedAt = w.decidedAt /\ v.expiresAt = w.expiresAt
  /\ w.result # "none" => v.result = w.result

LEMMA ExpireStep ==
  ASSUME NEW w \in Rows, NEW ts \in Nat
  PROVE  RowStep(w, ExpireIfOverdue(w, ts))
BY DEF RowStep, ExpireIfOverdue, IsPending, Rows

LEMMA DecideStep ==
  ASSUME NEW w \in Rows, NEW d \in Decisions, NEW ts \in Nat
  PROVE  RowStep(w, DecideIfPending(w, d, ts))
BY DEF RowStep, DecideIfPending, IsPending, Rows, Decisions

LEMMA ExtendStep ==
  ASSUME NEW w \in Rows, NEW ms \in Extensions, NEW ts \in Nat
  PROVE  RowStep(w, ExtendIfAllowed(w, ms, ts))
<1>1. ms \in Nat
  BY ExtensionAssumption
<1>2. QED
  BY <1>1 DEF RowStep, ExtendIfAllowed, Extendable, IsPending, Rows

LEMMA SetResultStep ==
  ASSUME NEW w \in Rows, NEW res \in Results
  PROVE  RowStep(w, SetResultOnce(w, res))
BY DEF RowStep, SetResultOnce, Rows

LEMMA KeepStep ==
  ASSUME NEW w \in Rows
  PROVE  RowStep(w, w)
BY DEF RowStep, Rows

(***************************************************************************)
(* The same statements and the row part of the invariant.                  *)
(***************************************************************************)
LEMMA InsertRowOK ==
  ASSUME NEW ts \in Nat, NEW isSigned \in BOOLEAN
  PROVE  RowOK(InsertRow(ts), isSigned, 0)
<1> DEFINE w == InsertRow(ts)
<1>1. /\ w.status = "pending" /\ w.extensions = 0
      /\ w.createdAt = ts /\ w.expiresAt = ts + Ttl
  BY DEF InsertRow, NoRow
<1>2. 0 * MaxExtension = 0 /\ ts + Ttl + 0 = ts + Ttl /\ ts + Ttl \in Nat
  BY TtlAssumption, ExtensionAssumption
<1> HIDE DEF w
<1>3. QED
  BY <1>1, <1>2, ExtensionAssumption DEF RowOK, w

LEMMA ExpireRowOK ==
  ASSUME NEW w \in Rows, NEW ts \in Nat, NEW isSigned \in BOOLEAN, NEW n \in Nat,
         RowOK(w, isSigned, n)
  PROVE  RowOK(ExpireIfOverdue(w, ts), isSigned, n)
BY ExtensionAssumption, TtlAssumption
   DEF RowOK, ExpireIfOverdue, IsPending, Overdue, Rows

LEMMA RejectRowOK ==
  ASSUME NEW w \in Rows, NEW ts \in Nat, NEW isSigned \in BOOLEAN, NEW n \in Nat,
         RowOK(w, isSigned, n)
  PROVE  RowOK(DecideIfPending(w, "rejected", ts), isSigned, n)
BY DEF RowOK, DecideIfPending, IsPending, Rows

LEMMA ApproveRowOK ==
  ASSUME NEW w \in Rows, NEW ts \in Nat, NEW n \in Nat,
         RowOK(w, TRUE, n), ts <= w.expiresAt
  PROVE  RowOK(DecideIfPending(w, "approved", ts), TRUE, n)
BY DEF RowOK, DecideIfPending, IsPending, Rows

\* Each extension adds at most MaxExtension to the deadline.
LEMMA ExtendRowOK ==
  ASSUME NEW w \in Rows, NEW ms \in Extensions, NEW ts \in Nat,
         NEW isSigned \in BOOLEAN, NEW n \in Nat, RowOK(w, isSigned, n)
  PROVE  RowOK(ExtendIfAllowed(w, ms, ts), isSigned, n)
<1> DEFINE v == ExtendIfAllowed(w, ms, ts)
<1>1. CASE ~Extendable(w, ts)
  BY <1>1 DEF ExtendIfAllowed
<1>2. CASE Extendable(w, ts)
  <2>1. ms \in Nat /\ ms <= MaxExtension /\ MaxExtension \in Nat /\ Ttl \in Nat
    BY ExtensionAssumption, TtlAssumption
  <2>2. (w.extensions + 1) * MaxExtension = w.extensions * MaxExtension + MaxExtension
        /\ w.extensions * MaxExtension \in Nat
    BY <2>1 DEF Rows
  <2>3. /\ v.status = "pending" /\ v.createdAt = w.createdAt
        /\ v.extensions = w.extensions + 1 /\ v.expiresAt = w.expiresAt + ms
    BY <1>2 DEF ExtendIfAllowed, Extendable, IsPending, Rows
  <2>4. w.expiresAt + ms <= w.createdAt + Ttl + (w.extensions + 1) * MaxExtension
    BY <2>1, <2>2 DEF RowOK, Rows
  <2>5. w.extensions + 1 <= MaxExtensionCount
    BY <1>2, ExtensionAssumption DEF Extendable, Rows
  <2>6. n = 0
    BY <1>2 DEF RowOK, Extendable, IsPending
  <2> HIDE DEF v
  <2>7. RowOK(v, isSigned, n)
    BY <2>3, <2>4, <2>5, <2>6 DEF RowOK
  <2>8. QED
    BY <2>7 DEF v
<1>3. QED
  BY <1>1, <1>2

LEMMA SetResultRowOK ==
  ASSUME NEW w \in Rows, NEW res \in Results, NEW isSigned \in BOOLEAN, NEW n \in Nat,
         RowOK(w, isSigned, n), w.status # "absent"
  PROVE  RowOK(SetResultOnce(w, res), isSigned, n)
BY DEF RowOK, SetResultOnce, Rows

(***************************************************************************)
(* Type correctness.                                                       *)
(***************************************************************************)
LEMMA TypeInit == Init => TypeOK
<1> SUFFICES ASSUME Init PROVE TypeOK
  OBVIOUS
<1>1. NoRow \in Rows
  BY DEF NoRow, Rows, Statuses, Results
<1>2. row \in [Approvals -> Rows]
  BY <1>1 DEF Init
<1>3. req \in [Requests -> RequestRecords]
  BY DEF Init, RequestRecords, Kinds, Stages, Answers
<1>4. QED
  BY <1>2, <1>3 DEF Init, TypeOK

\* SetResult stores what the tool answered, so its type rests on HandlerOK.
LEMMA TypeStep == TypeOK /\ (\A r \in Requests : HandlerOK(r)) /\ [Next]_vars => TypeOK'
<1>1. ASSUME TypeOK, \A r \in Requests : HandlerOK(r), [Next]_vars PROVE TypeOK'
  <2> USE <1>1 DEF TypeOK
  <2>1. ASSUME NEW r \in Requests
        PROVE  RowOf(r) \in Rows /\ SelectedRow(r) \in Rows /\ req[r].ts \in Nat /\ req[r].id \in Approvals
    BY ExpireType DEF RowOf, SelectedRow, RequestRecords
  <2>2. ASSUME NEW r \in Requests, LazyExpire(r)
        PROVE  row' \in [Approvals -> Rows]
    BY <2>1, <2>2 DEF LazyExpire
  <2>3. ASSUME NEW ts \in Nat, ExpireAll(ts)
        PROVE  row' \in [Approvals -> Rows]
    BY <2>3, ExpireType DEF ExpireAll
  <2>4. ASSUME NEW r \in Requests, NEW stage \in Stages, NEW answer \in Answers, GoTo(r, stage, answer)
        PROVE  req' \in [Requests -> RequestRecords]
    BY <2>4 DEF GoTo, RequestRecords
  <2>5. /\ {"idle", "begun", "verify", "select", "update", "dispatch", "publish",
            "published", "unpublished", "done", "crashed"} \subseteq Stages
        /\ {"none", "conflict", "overdue", "unauthorized", "denied", "decided",
            "extended", "ok", "error"} \subseteq Answers
        /\ Statuses \subseteq Answers
    BY DEF Stages, Answers
  <2>6. CASE Tick
    BY <2>6 DEF Tick
  <2>7. ASSUME NEW i \in Approvals, EnqueueApproval(i) PROVE TypeOK'
    BY <2>7, InsertRowType DEF EnqueueApproval
  <2>8. ASSUME NEW r \in Requests, NEW kind \in Kinds, NEW i \in Approvals, Begin(r, kind, i)
        PROVE  TypeOK'
    BY <2>8, <2>5 DEF Begin, RequestRecords
  <2>9. ASSUME NEW r \in Requests, Step(r) PROVE TypeOK'
    <3>1. CASE ApproveGet(r)
      BY <3>1, <2>2, <2>4, <2>5 DEF ApproveGet
    <3>2. CASE VerifyAssertion(r)
      BY <3>2, <2>5 DEF VerifyAssertion, RequestRecords
    <3>3. CASE RefuseAssertion(r)
      BY <3>3, <2>4, <2>5 DEF RefuseAssertion
    <3>4. CASE ApproveSelect(r)
      BY <3>4, <2>4, <2>5 DEF ApproveSelect
    <3>5. CASE ApproveUpdate(r)
      <4>1. row' \in [Approvals -> Rows]
        BY <3>5, <2>1, DecideType DEF ApproveUpdate, Decisions
      <4>2. QED
        BY <3>5, <4>1, <2>4, <2>5 DEF ApproveUpdate
    <3>6. ASSUME NEW matches \in BOOLEAN, ResumeGet(r, matches) PROVE TypeOK'
      BY <3>6, <2>2, <2>4, <2>5 DEF ResumeGet
    <3>7. ASSUME NEW answer \in {"ok", "error"}, RunTool(r, answer) PROVE TypeOK'
      BY <3>7, <2>1, <2>4, <2>5 DEF RunTool, AfterDispatch
    <3>8. CASE FailBeforeRun(r)
      BY <3>8, <2>4, <2>5 DEF FailBeforeRun, AfterDispatch
    <3>9. CASE SetResult(r)
      <4>1. req[r].answer \in Results /\ req[r].answer \in Answers
        BY <3>9 DEF SetResult, At, HandlerOK, Results, Answers
      <4>2. row' \in [Approvals -> Rows]
        BY <3>9, <4>1, <2>1, SetResultType DEF SetResult
      <4>3. QED
        BY <3>9, <4>1, <4>2, <2>4, <2>5 DEF SetResult
    <3>10. CASE SetResultFails(r)
      BY <3>10, <2>4, <2>5 DEF SetResultFails
    <3>11. CASE RejectSelect(r)
      BY <3>11, <2>4, <2>5 DEF RejectSelect
    <3>12. CASE RejectUpdate(r)
      <4>1. row' \in [Approvals -> Rows]
        BY <3>12, <2>1, DecideType DEF RejectUpdate, Decisions
      <4>2. QED
        BY <3>12, <4>1, <2>4, <2>5 DEF RejectUpdate
    <3>13. ASSUME NEW ms \in Extensions, Extend(r, ms) PROVE TypeOK'
      <4>1. row' \in [Approvals -> Rows]
        BY <3>13, <2>1, ExtendType DEF Extend
      <4>2. QED
        BY <3>13, <4>1, <2>4, <2>5 DEF Extend
    <3>14. CASE Read(r) \/ List(r)
      <4>1. SelectedRow(r).status \in Answers
        BY <2>1, <2>5 DEF Rows
      <4>2. QED
        BY <3>14, <4>1, <2>1, <2>2, <2>3, <2>4, <2>5 DEF Read, List
    <3>15. QED
      BY <2>9, <3>1, <3>2, <3>3, <3>4, <3>5, <3>6, <3>7, <3>8, <3>9, <3>10, <3>11,
         <3>12, <3>13, <3>14 DEF Step
  <2>10. ASSUME NEW r \in Requests, Crash(r) PROVE TypeOK'
    <3>1. req[r].answer \in Answers
      BY DEF RequestRecords
    <3>2. QED
      BY <2>10, <3>1, <2>4, <2>5 DEF Crash
  <2>11. CASE SweepBegin
    BY <2>11 DEF SweepBegin
  <2>12. CASE SweepExpired
    BY <2>12, <2>3 DEF SweepExpired
  <2>13. CASE UNCHANGED vars
    BY <2>13 DEF vars
  <2>14. QED
    BY <2>6, <2>7, <2>8, <2>9, <2>10, <2>11, <2>12, <2>13 DEF Next
<1>2. QED
  BY <1>1

(***************************************************************************)
(* Rows: how a step of the system changes them, and that they stay good.   *)
(***************************************************************************)
LEMMA RowAndTs ==
  ASSUME TypeOK, NEW r \in Requests
  PROVE  /\ RowOf(r) \in Rows
         /\ req[r].id \in Approvals
         /\ req[r].ts \in Nat
         /\ row[req[r].id] = RowOf(r)
BY DEF TypeOK, RowOf, RequestRecords

LEMMA RowsStep ==
  ASSUME IInv, [Next]_vars
  PROVE  \A i \in Approvals : RowStep(row[i], row'[i])
<1> USE DEF IInv
<1> SUFFICES ASSUME NEW i \in Approvals PROVE RowStep(row[i], row'[i])
  OBVIOUS
<1>0. row[i] \in Rows /\ RowStep(row[i], row[i])
  BY KeepStep DEF TypeOK
<1>1. ASSUME NEW ts \in Nat, ExpireAll(ts) PROVE RowStep(row[i], row'[i])
  BY <1>0, <1>1, ExpireStep DEF ExpireAll
<1>2. ASSUME NEW r \in Requests, LazyExpire(r) PROVE RowStep(row[i], row'[i])
  BY <1>0, <1>2, ExpireStep, RowAndTs DEF LazyExpire, SelectedRow, TypeOK
<1>3. ASSUME NEW j \in Approvals, EnqueueApproval(j) PROVE RowStep(row[i], row'[i])
  <2>1. CASE i = j
    BY <1>0, <1>3, <2>1 DEF EnqueueApproval, RowOK, RowStep, NoRow, TypeOK
  <2>2. CASE i # j
    BY <1>0, <1>3, <2>2 DEF EnqueueApproval, TypeOK
  <2>3. QED
    BY <2>1, <2>2
<1>4. ASSUME NEW r \in Requests, Step(r) PROVE RowStep(row[i], row'[i])
  <2>1. CASE ApproveGet(r) \/ (\E matches \in BOOLEAN : ResumeGet(r, matches)) \/ Read(r)
    BY <2>1, <1>2 DEF ApproveGet, ResumeGet, Read
  <2>2. CASE List(r)
    BY <2>2, <1>1, RowAndTs DEF List
  <2>3. CASE ApproveUpdate(r)
    BY <2>3, <1>0, RowAndTs, DecideStep DEF ApproveUpdate, Decisions, TypeOK
  <2>4. CASE RejectUpdate(r)
    BY <2>4, <1>0, RowAndTs, DecideStep DEF RejectUpdate, Decisions, TypeOK
  <2>5. ASSUME NEW ms \in Extensions, Extend(r, ms) PROVE RowStep(row[i], row'[i])
    BY <2>5, <1>0, RowAndTs, ExtendStep DEF Extend, TypeOK
  <2>6. CASE SetResult(r)
    <3>1. req[r].answer \in Results
      BY <2>6 DEF SetResult, At, HandlerOK, Results
    <3>2. QED
      BY <3>1, <2>6, <1>0, RowAndTs, SetResultStep DEF SetResult, TypeOK
  <2>7. CASE UNCHANGED row
    BY <2>7, <1>0
  <2>8. QED
    BY <1>4, <2>1, <2>2, <2>3, <2>4, <2>5, <2>6, <2>7
       DEF Step, VerifyAssertion, RefuseAssertion, ApproveSelect, RunTool, FailBeforeRun,
           SetResultFails, RejectSelect
<1>5. CASE SweepExpired
  BY <1>5, <1>1 DEF SweepExpired, TypeOK
<1>6. CASE UNCHANGED row
  BY <1>6, <1>0
<1>7. QED
  BY <1>3, <1>4, <1>5, <1>6 DEF Next, vars, Tick, Begin, Crash, SweepBegin

LEMMA RowsOK ==
  ASSUME IInv, [Next]_vars
  PROVE  \A i \in Approvals : RowOK(row[i], i \in signed, runs[i])'
<1> USE DEF IInv
<1> SUFFICES ASSUME NEW i \in Approvals PROVE RowOK(row'[i], i \in signed', runs'[i])
  OBVIOUS
<1>0. /\ row[i] \in Rows /\ runs[i] \in Nat
      /\ (i \in signed) \in BOOLEAN
      /\ RowOK(row[i], i \in signed, runs[i])
  BY DEF TypeOK
<1>1. ASSUME NEW ts \in Nat, ExpireAll(ts), UNCHANGED <<signed, runs>>
      PROVE  RowOK(row'[i], i \in signed', runs'[i])
  BY <1>0, <1>1, ExpireRowOK DEF ExpireAll
<1>2. ASSUME NEW r \in Requests, LazyExpire(r), UNCHANGED <<signed, runs>>
      PROVE  RowOK(row'[i], i \in signed', runs'[i])
  <2>1. row'[i] = row[i] \/ row'[i] = ExpireIfOverdue(row[i], req[r].ts)
    BY <1>2, RowAndTs DEF LazyExpire, SelectedRow, TypeOK
  <2>2. RowOK(ExpireIfOverdue(row[i], req[r].ts), i \in signed, runs[i])
    BY <1>0, RowAndTs, ExpireRowOK
  <2>3. QED
    BY <1>0, <1>2, <2>1, <2>2
<1>3. ASSUME NEW j \in Approvals, EnqueueApproval(j)
      PROVE  RowOK(row'[i], i \in signed', runs'[i])
  <2>1. CASE i = j
    <3>1. row'[i] = InsertRow(now) /\ now \in Nat /\ runs'[i] = runs[i] /\ signed' = signed
      BY <1>3, <2>1 DEF EnqueueApproval, TypeOK
    <3>2. runs[i] = 0
      BY <1>0, <1>3, <2>1 DEF EnqueueApproval, RowOK
    <3>3. QED
      BY <1>0, <3>1, <3>2, InsertRowOK
  <2>2. CASE i # j
    BY <1>0, <1>3, <2>2 DEF EnqueueApproval, TypeOK
  <2>3. QED
    BY <2>1, <2>2
<1>4. ASSUME NEW r \in Requests, Step(r) PROVE RowOK(row'[i], i \in signed', runs'[i])
  <2>0. HandlerOK(r) /\ req[r].id \in Approvals
    BY RowAndTs
  <2>1. CASE ApproveGet(r) \/ (\E matches \in BOOLEAN : ResumeGet(r, matches)) \/ Read(r)
    BY <2>1, <1>2 DEF ApproveGet, ResumeGet, Read
  <2>2. CASE List(r)
    BY <2>2, <1>1, RowAndTs DEF List
  <2>3. CASE ApproveUpdate(r)
    <3>1. req[r].id \in signed /\ req[r].ts <= RowOf(r).expiresAt
      BY <2>0, <2>3 DEF ApproveUpdate, HandlerOK, At
    <3>2. CASE i = req[r].id
      <4>1. (i \in signed) = TRUE
        BY <3>1, <3>2
      <4>2. RowOK(row[i], TRUE, runs[i])
        BY <1>0, <4>1
      <4>3. row'[i] = DecideIfPending(row[i], "approved", req[r].ts) /\ UNCHANGED <<signed, runs>>
        BY <2>3, <3>2 DEF ApproveUpdate, TypeOK
      <4>4. RowOK(row'[i], TRUE, runs'[i])
        BY <1>0, <3>1, <3>2, <4>2, <4>3, ApproveRowOK, RowAndTs
      <4>5. QED
        BY <4>1, <4>3, <4>4
    <3>3. CASE i # req[r].id
      BY <1>0, <2>3, <3>3 DEF ApproveUpdate, TypeOK
    <3>4. QED
      BY <3>2, <3>3
  <2>4. CASE RejectUpdate(r)
    BY <2>4, <1>0, RowAndTs, RejectRowOK DEF RejectUpdate, TypeOK
  <2>5. ASSUME NEW ms \in Extensions, Extend(r, ms)
        PROVE  RowOK(row'[i], i \in signed', runs'[i])
    <3>1. row'[i] = row[i] \/ row'[i] = ExtendIfAllowed(row[i], ms, req[r].ts)
      BY <2>5, RowAndTs DEF Extend, TypeOK
    <3>2. RowOK(ExtendIfAllowed(row[i], ms, req[r].ts), i \in signed, runs[i])
      BY <1>0, RowAndTs, ExtendRowOK
    <3>3. QED
      BY <1>0, <2>5, <3>1, <3>2 DEF Extend
  <2>6. CASE SetResult(r)
    <3>1. req[r].answer \in Results /\ RowOf(r).status # "absent"
      BY <2>0, <2>6 DEF SetResult, At, HandlerOK, Results
    <3>2. CASE i = req[r].id
      <4>1. row'[i] = SetResultOnce(row[i], req[r].answer) /\ row[i].status # "absent"
        BY <2>6, <3>1, <3>2 DEF SetResult, TypeOK, RowOf
      <4>2. RowOK(SetResultOnce(row[i], req[r].answer), i \in signed, runs[i])
        BY <1>0, <3>1, <4>1, SetResultRowOK
      <4>3. QED
        BY <2>6, <4>1, <4>2 DEF SetResult
    <3>3. CASE i # req[r].id
      BY <1>0, <2>6, <3>3 DEF SetResult, TypeOK
    <3>4. QED
      BY <3>2, <3>3
  <2>7. CASE VerifyAssertion(r)
    BY <2>7, <1>0 DEF VerifyAssertion, RowOK
  <2>8. ASSUME NEW answer, RunTool(r, answer)
        PROVE  RowOK(row'[i], i \in signed', runs'[i])
    <3>1. RowOf(r).status = "approved"
      BY <2>0, <2>8 DEF RunTool, HandlerOK
    <3>2. QED
      BY <3>1, <2>8, <1>0 DEF RunTool, RowOK, RowOf, TypeOK
  <2>9. CASE UNCHANGED <<row, signed, runs>>
    BY <2>9, <1>0
  <2>10. QED
    BY <1>4, <2>1, <2>2, <2>3, <2>4, <2>5, <2>6, <2>7, <2>8, <2>9
       DEF Step, RefuseAssertion, ApproveSelect, FailBeforeRun, SetResultFails, RejectSelect
<1>5. CASE SweepExpired
  BY <1>5, <1>1 DEF SweepExpired, TypeOK
<1>6. CASE UNCHANGED <<row, signed, runs>>
  BY <1>6, <1>0
<1>7. QED
  BY <1>3, <1>4, <1>5, <1>6 DEF Next, vars, Tick, Begin, Crash, SweepBegin

(***************************************************************************)
(* Handlers: only the request that moves changes its record, and for the   *)
(* others RowStep keeps whatever they rely on.                             *)
(***************************************************************************)
LEMMA OthersKeep ==
  ASSUME IInv, [Next]_vars, NEW s \in Requests, req'[s] = req[s]
  PROVE  HandlerOK(s)'
<1>1. RowStep(RowOf(s), row'[req[s].id])
  BY RowsStep, RowAndTs DEF IInv
<1>2. signed \subseteq signed'
  BY DEF Next, vars, Tick, EnqueueApproval, Begin, Step, Crash, SweepBegin, SweepExpired,
         ApproveGet, VerifyAssertion, RefuseAssertion, ApproveSelect, ApproveUpdate,
         ResumeGet, RunTool, FailBeforeRun, SetResult, SetResultFails, RejectSelect,
         RejectUpdate, Extend, Read, List
<1>3. RowOf(s) \in Rows /\ req[s].ts \in Nat /\ row'[req[s].id] \in Rows
  BY RowAndTs, TypeStep DEF IInv, TypeOK
<1>4. HandlerOK(s)
  BY DEF IInv
<1>5. /\ RowOf(s).status # "absent" => row'[req[s].id].status # "absent"
      /\ RowOf(s).status = "approved" => row'[req[s].id].status = "approved"
      /\ RowOf(s).status # "absent" => RowOf(s).expiresAt <= row'[req[s].id].expiresAt
  BY <1>1 DEF RowStep
<1>6. At(s, "approve", "update") => req[s].ts <= row'[req[s].id].expiresAt
  BY <1>3, <1>4, <1>5 DEF HandlerOK, At, Rows
<1>7. QED
  BY <1>2, <1>4, <1>5, <1>6 DEF HandlerOK, RowOf, At

LEMMA HandlersOK ==
  ASSUME IInv, [Next]_vars
  PROVE  \A s \in Requests : HandlerOK(s)'
<1> SUFFICES ASSUME NEW s \in Requests PROVE HandlerOK(s)'
  OBVIOUS
<1> USE DEF IInv
<1>0. /\ HandlerOK(s) /\ s \in DOMAIN req /\ DOMAIN req[s] = {"kind", "at", "id", "ts", "answer"}
      /\ RowStep(RowOf(s), row'[req[s].id])
      /\ RowOf(s) \in Rows /\ req[s].id \in Approvals
  BY RowsStep, RowAndTs DEF TypeOK, RequestRecords
<1>1. CASE req'[s] = req[s]
  BY <1>1, OthersKeep
<1>2. ASSUME NEW i \in Approvals, NEW kind \in Kinds, Begin(s, kind, i) PROVE HandlerOK(s)'
  BY <1>0, <1>2 DEF Begin, HandlerOK, RowOf, At
<1>3. ASSUME Step(s) PROVE HandlerOK(s)'
  <2>1. CASE ApproveGet(s)
    <3>1. RowOf(s).status # "absent"
      BY <1>0, <2>1 DEF ApproveGet, At, HandlerOK
    <3>2. row'[req[s].id].status # "absent"
      BY <1>0, <3>1 DEF RowStep
    <3>3. QED
      BY <1>0, <2>1, <3>2 DEF ApproveGet, GoTo, HandlerOK, RowOf, At, TypeOK
  <2>2. CASE VerifyAssertion(s)
    BY <1>0, <2>2 DEF VerifyAssertion, HandlerOK, RowOf, At
  <2>3. CASE ApproveSelect(s)
    <3>1. IsPending(RowOf(s)) /\ ~Overdue(RowOf(s), req[s].ts) => req[s].ts <= RowOf(s).expiresAt
      BY RowAndTs DEF Overdue, Rows
    <3>2. QED
      BY <1>0, <2>3, <3>1 DEF ApproveSelect, GoTo, HandlerOK, RowOf, At
  <2>4. CASE ApproveUpdate(s)
    <3>1. row'[req[s].id] = DecideIfPending(RowOf(s), "approved", req[s].ts)
      BY <1>0, <2>4 DEF ApproveUpdate, RowOf, TypeOK
    <3>2. IsPending(RowOf(s)) => row'[req[s].id].status = "approved"
      BY <1>0, <3>1 DEF DecideIfPending, Rows
    <3>3. row'[req[s].id].status # "absent"
      BY <1>0, <2>4 DEF ApproveUpdate, At, HandlerOK, RowStep
    <3>4. QED
      BY <1>0, <2>4, <3>2, <3>3 DEF ApproveUpdate, GoTo, HandlerOK, RowOf, At
  <2>5. ASSUME NEW matches \in BOOLEAN, ResumeGet(s, matches) PROVE HandlerOK(s)'
    <3>1. row'[req[s].id] = SelectedRow(s)
      BY <1>0, <2>5 DEF ResumeGet, LazyExpire, TypeOK
    <3>2. row'[req[s].id].status # "absent"
      BY <1>0, <2>5 DEF ResumeGet, At, HandlerOK, RowStep
    <3>3. QED
      BY <1>0, <2>5, <3>1, <3>2 DEF ResumeGet, GoTo, HandlerOK, RowOf, At
  <2>6. CASE (\E answer \in {"ok", "error"} : RunTool(s, answer)) \/ FailBeforeRun(s)
    <3>1. PICK answer \in {"ok", "error"} :
            /\ req[s].at = "dispatch" /\ UNCHANGED row
            /\ AfterDispatch(s, answer)
      BY <2>6 DEF RunTool, FailBeforeRun
    <3>2. /\ req'[s].id = req[s].id /\ req'[s].kind = req[s].kind /\ req'[s].answer = answer
          /\ req'[s].at = IF req[s].kind = "approve" THEN "publish" ELSE "done"
      BY <1>0, <3>1 DEF AfterDispatch, GoTo
    <3>3. RowOf(s).status = "approved" /\ RowOf(s)' = RowOf(s)
      BY <1>0, <3>1, <3>2 DEF HandlerOK, RowOf
    <3>4. QED
      BY <3>2, <3>3 DEF HandlerOK, At
  <2>7. CASE SetResult(s)
    <3>1. RowOf(s).status = "approved"
      BY <1>0, <2>7 DEF SetResult, At, HandlerOK
    <3>2. row'[req[s].id].status = "approved"
      BY <1>0, <3>1 DEF RowStep
    <3>3. QED
      BY <1>0, <2>7, <3>2 DEF SetResult, GoTo, HandlerOK, RowOf, At
  <2>8. CASE SetResultFails(s)
    BY <1>0, <2>8 DEF SetResultFails, GoTo, HandlerOK, RowOf, At
  <2>9. CASE RefuseAssertion(s) \/ RejectSelect(s)
    BY <1>0, <2>9 DEF RefuseAssertion, RejectSelect, GoTo, HandlerOK, RowOf, At
  <2>10. CASE RejectUpdate(s) \/ (\E ms \in Extensions : Extend(s, ms)) \/ Read(s) \/ List(s)
    <3>1. /\ req'[s].at = "done" /\ req'[s].id = req[s].id
          /\ req[s].at # "idle"
      BY <1>0, <2>10 DEF RejectUpdate, Extend, Read, List, GoTo, At
    <3>2. row'[req[s].id].status # "absent"
      BY <1>0, <3>1 DEF HandlerOK, RowStep
    <3>3. QED
      BY <3>1, <3>2 DEF HandlerOK, RowOf, At
  <2>11. QED
    BY <1>3, <2>1, <2>2, <2>3, <2>4, <2>5, <2>6, <2>7, <2>8, <2>9, <2>10 DEF Step
<1>4. CASE Crash(s)
  BY <1>0, <1>4 DEF Crash, GoTo, HandlerOK, RowOf, At, Stages
<1>5. ASSUME NEW r \in Requests, r # s,
             Step(r) \/ Crash(r) \/ (\E i \in Approvals, kind \in Kinds : Begin(r, kind, i))
      PROVE  req'[s] = req[s]
  BY <1>0, <1>5 DEF Step, Crash, Begin, GoTo, AfterDispatch, ApproveGet, VerifyAssertion,
     RefuseAssertion, ApproveSelect, ApproveUpdate, ResumeGet, RunTool, FailBeforeRun,
     SetResult, SetResultFails, RejectSelect, RejectUpdate, Extend, Read, List
<1>6. QED
  BY <1>1, <1>2, <1>3, <1>4, <1>5
     DEF Next, vars, Tick, EnqueueApproval, SweepBegin, SweepExpired

(***************************************************************************)
(* The single winner and the freshness of reads.                           *)
(***************************************************************************)
\* A request becomes a winner only by an UPDATE that found the row pending.
LEMMA BecomesWinner ==
  ASSUME IInv, [Next]_vars, NEW r \in Requests, Winner(r)', ~Winner(r)
  PROVE  /\ RowOf(r).status = "pending"
         /\ req'[r].id = req[r].id
         /\ \A s \in Requests : s # r => req'[s] = req[s]
<1>0. r \in DOMAIN req /\ DOMAIN req = Requests /\ HandlerOK(r)
      /\ DOMAIN req[r] = {"kind", "at", "id", "ts", "answer"}
  BY DEF IInv, TypeOK, RequestRecords
<1>1. req'[r] # req[r]
  BY DEF Winner
<1>2. CASE Step(r)
  <2>1. CASE ApproveUpdate(r)
    BY <1>0, <2>1 DEF ApproveUpdate, GoTo, Winner, IsPending
  <2>2. CASE ~ApproveUpdate(r)
    BY <1>0, <1>2, <2>2 DEF Step, ApproveGet, VerifyAssertion, RefuseAssertion, ApproveSelect,
       ResumeGet, RunTool, FailBeforeRun, AfterDispatch, SetResult, SetResultFails,
       RejectSelect, RejectUpdate, Extend, Read, List, GoTo, At, Winner
  <2>3. QED
    BY <2>1, <2>2
<1>3. ASSUME NEW i \in Approvals, NEW kind \in Kinds, Begin(r, kind, i) PROVE FALSE
  BY <1>0, <1>3 DEF Begin, Winner
<1>4. CASE Crash(r)
  BY <1>0, <1>4 DEF Crash, GoTo, Winner
<1>5. ASSUME NEW s \in Requests, s # r,
             Step(s) \/ Crash(s) \/ (\E i \in Approvals, kind \in Kinds : Begin(s, kind, i))
      PROVE  FALSE
  BY <1>0, <1>1, <1>5 DEF Step, Crash, Begin, GoTo, AfterDispatch, ApproveGet,
     VerifyAssertion, RefuseAssertion, ApproveSelect, ApproveUpdate, ResumeGet, RunTool,
     FailBeforeRun, SetResult, SetResultFails, RejectSelect, RejectUpdate, Extend, Read, List
<1>6. QED
  BY <1>1, <1>2, <1>3, <1>4, <1>5
     DEF Next, vars, Tick, EnqueueApproval, SweepBegin, SweepExpired

\* A request keeps its approval from the moment it has begun.
LEMMA IdIsKept ==
  ASSUME IInv, [Next]_vars, NEW r \in Requests, req[r].at # "idle"
  PROVE  req'[r].id = req[r].id /\ req'[r].kind = req[r].kind
<1>0. r \in DOMAIN req /\ DOMAIN req[r] = {"kind", "at", "id", "ts", "answer"}
  BY DEF IInv, TypeOK, RequestRecords
<1>1. ASSUME NEW s \in Requests,
             Step(s) \/ Crash(s)
      PROVE  req'[r].id = req[r].id /\ req'[r].kind = req[r].kind
  BY <1>0, <1>1 DEF Step, Crash, GoTo, AfterDispatch, ApproveGet,
     VerifyAssertion, RefuseAssertion, ApproveSelect, ApproveUpdate, ResumeGet, RunTool,
     FailBeforeRun, SetResult, SetResultFails, RejectSelect, RejectUpdate, Extend, Read, List
<1>2. ASSUME NEW s \in Requests, NEW i \in Approvals, NEW kind \in Kinds, Begin(s, kind, i)
      PROVE  req'[r] = req[r]
  BY <1>0, <1>2 DEF Begin
<1>3. QED
  BY <1>1, <1>2 DEF Next, vars, Tick, EnqueueApproval, SweepBegin, SweepExpired

LEMMA OneWins ==
  ASSUME IInv, [Next]_vars
  PROVE  OneApproveWins'
<1> SUFFICES ASSUME NEW r \in Requests, NEW s \in Requests,
                    Winner(r)', Winner(s)', req'[r].id = req'[s].id
             PROVE  r = s
  BY DEF OneApproveWins
<1>1. ASSUME NEW p \in Requests, NEW q \in Requests, ~Winner(p), Winner(p)', Winner(q)',
             req'[p].id = req'[q].id
      PROVE  p = q
  <2> SUFFICES ASSUME p # q PROVE FALSE
    OBVIOUS
  <2>1. RowOf(p).status = "pending" /\ req'[p].id = req[p].id /\ req'[q] = req[q]
    BY <1>1, BecomesWinner
  <2>2. Winner(q) /\ req[q].id = req[p].id
    BY <1>1, <2>1 DEF Winner
  <2>3. RowOf(q).status = "approved"
    BY <2>2 DEF Winner, IInv, HandlerOK
  <2>4. QED
    BY <2>1, <2>2, <2>3 DEF RowOf
<1>2. CASE Winner(r) /\ Winner(s)
  <2>1. req'[r].id = req[r].id /\ req'[s].id = req[s].id
    BY <1>2, IdIsKept DEF Winner
  <2>2. QED
    BY <1>2, <2>1 DEF IInv, OneApproveWins
<1>3. QED
  BY <1>1, <1>2

LEMMA Freshness ==
  ASSUME IInv, [Next]_vars
  PROVE  NoOverdueShownPending'
<1> DEFINE Shown(r) == /\ req[r].kind \in {"read", "list"}
                       /\ req[r].at = "done"
                       /\ req[r].answer = "pending"
<1> SUFFICES ASSUME NEW r \in Requests, Shown(r)'
             PROVE  req'[r].ts <= RowOf(r)'.expiresAt
  BY DEF NoOverdueShownPending, RowOf
<1>0. /\ r \in DOMAIN req /\ DOMAIN req[r] = {"kind", "at", "id", "ts", "answer"}
      /\ RowOf(r) \in Rows /\ req[r].ts \in Nat /\ req[r].id \in Approvals
      /\ RowStep(RowOf(r), row'[req[r].id])
      /\ row'[req[r].id] \in Rows
      /\ HandlerOK(r)
  BY RowAndTs, RowsStep, TypeStep DEF IInv, TypeOK, RequestRecords
<1>1. CASE req'[r] = req[r]
  <2>1. req[r].ts <= RowOf(r).expiresAt /\ RowOf(r).status # "absent"
    BY <1>0, <1>1 DEF IInv, NoOverdueShownPending, HandlerOK
  <2>2. RowOf(r).expiresAt <= row'[req[r].id].expiresAt
    BY <1>0, <2>1 DEF RowStep
  <2>3. QED
    BY <1>0, <1>1, <2>1, <2>2 DEF RowOf, Rows
<1>2. CASE Read(r) \/ List(r)
  <2>1. req' = [req EXCEPT ![r].at = "done", ![r].answer = SelectedRow(r).status]
    BY <1>2 DEF Read, List, GoTo
  <2>2. row'[req[r].id] = SelectedRow(r) /\ SelectedRow(r).status = "pending"
    BY <1>0, <1>2, <2>1 DEF Read, List, LazyExpire, ExpireAll, SelectedRow, RowOf, IInv, TypeOK
  <2>3. req[r].ts <= SelectedRow(r).expiresAt
    BY <1>0, <2>2 DEF SelectedRow, ExpireIfOverdue, IsPending, Overdue, Rows
  <2>4. QED
    BY <1>0, <2>1, <2>2, <2>3 DEF RowOf
<1>3. ASSUME NEW s \in Requests,
             Step(s) \/ Crash(s) \/ (\E i \in Approvals, kind \in Kinds : Begin(s, kind, i)),
             ~Read(r), ~List(r)
      PROVE  req'[r] = req[r]
  <2>1. CASE s # r
    BY <1>0, <1>3, <2>1 DEF Step, Crash, Begin, GoTo, AfterDispatch, ApproveGet,
      VerifyAssertion, RefuseAssertion, ApproveSelect, ApproveUpdate, ResumeGet, RunTool,
      FailBeforeRun, SetResult, SetResultFails, RejectSelect, RejectUpdate, Extend, Read, List
  <2>2. CASE s = r
    BY <1>0, <1>3, <2>2 DEF Step, Crash, Begin, GoTo, AfterDispatch, ApproveGet, At, HandlerOK,
      VerifyAssertion, RefuseAssertion, ApproveSelect, ApproveUpdate, ResumeGet, RunTool,
      FailBeforeRun, SetResult, SetResultFails, RejectSelect, RejectUpdate, Extend
  <2>3. QED
    BY <2>1, <2>2
<1>4. QED
  BY <1>1, <1>2, <1>3 DEF Next, vars, Tick, EnqueueApproval, SweepBegin, SweepExpired

(***************************************************************************)
(* The invariant and what follows from it.                                 *)
(***************************************************************************)
LEMMA InitIInv == Init => IInv
<1> SUFFICES ASSUME Init PROVE IInv
  OBVIOUS
<1>1. TypeOK
  BY TypeInit
<1>2. \A r \in Requests : req[r].at = "idle" /\ req[r].kind = "read"
  BY DEF Init
<1>3. \A r \in Requests : HandlerOK(r)
  BY <1>2 DEF HandlerOK, At
<1>4. ASSUME NEW i \in Approvals PROVE RowOK(row[i], i \in signed, runs[i])
  <2>1. row[i] = NoRow /\ runs[i] = 0
    BY DEF Init
  <2>2. 0 * MaxExtension = 0 /\ Ttl \in Nat /\ MaxExtensionCount \in Nat
    BY TtlAssumption, ExtensionAssumption
  <2>3. QED
    BY <2>1, <2>2 DEF RowOK, NoRow
<1>5. OneApproveWins /\ NoOverdueShownPending
  BY <1>2 DEF OneApproveWins, NoOverdueShownPending, Winner
<1>6. QED
  BY <1>1, <1>3, <1>4, <1>5 DEF IInv

\* The inductive invariant holds in every reachable state.
THEOREM Invariance == Spec => []IInv
<1>1. IInv /\ [Next]_vars => IInv'
  <2> SUFFICES ASSUME IInv, [Next]_vars PROVE IInv'
    OBVIOUS
  <2>1. TypeOK'
    BY TypeStep DEF IInv
  <2>2. QED
    BY <2>1, HandlersOK, RowsOK, OneWins, Freshness DEF IInv
<1>2. QED
  BY InitIInv, <1>1, PTL DEF Spec

\* Types: every variable keeps its type through every handler step.
THEOREM TypeCorrect == Spec => []TypeOK
<1>1. IInv => TypeOK
  BY DEF IInv
<1>2. QED
  BY <1>1, Invariance, PTL

\* A gated tool call is only ever run for an approved and signed approval.
THEOREM OnlySignedRun == Spec => []RunsOnlySigned
<1>1. IInv => RunsOnlySigned
  BY DEF IInv, RunsOnlySigned, RowOK
<1>2. QED
  BY <1>1, Invariance, PTL

\* Approvals are decided on the right side of their deadline.
THEOREM DecisionsOnTime == Spec => []DecidedOnTime
<1>1. IInv => DecidedOnTime
  BY DEF IInv, DecidedOnTime, RowOK
<1>2. QED
  BY <1>1, Invariance, PTL

\* At most one approve request per approval gets past the UPDATE.
THEOREM SingleWinner == Spec => []OneApproveWins
<1>1. IInv => OneApproveWins
  BY DEF IInv
<1>2. QED
  BY <1>1, Invariance, PTL

\* A request is never answered with a pending approval that was overdue when
\* the request came in.
THEOREM ReadsAreFresh == Spec => []NoOverdueShownPending
<1>1. IInv => NoOverdueShownPending
  BY DEF IInv
<1>2. QED
  BY <1>1, Invariance, PTL

\* A multiple of a bounded factor is bounded.
LEMMA ProductBound ==
  ASSUME NEW n \in Nat, NEW m \in Nat, NEW k \in Nat, n <= m
  PROVE  n * k <= m * k /\ n * k \in Nat /\ m * k \in Nat
<1>1. (m - n) \in Nat /\ (m - n) * k \in Nat
  OBVIOUS
<1>2. m * k = n * k + (m - n) * k
  OBVIOUS
<1>3. n * k \in Nat /\ m * k \in Nat
  OBVIOUS
<1>4. QED
  BY <1>1, <1>2, <1>3

\* Extensions never carry a deadline beyond the budget.
THEOREM DeadlineBudget == Spec => []WithinExtensionBudget
<1>1. IInv => WithinExtensionBudget
  <2> SUFFICES ASSUME IInv, NEW i \in Approvals
               PROVE  row[i].expiresAt <= row[i].createdAt + Ttl + MaxExtensionCount * MaxExtension
    BY DEF WithinExtensionBudget
  <2>1. row[i] \in Rows /\ RowOK(row[i], i \in signed, runs[i])
    BY DEF IInv, TypeOK
  <2>2. /\ row[i].extensions \in Nat /\ row[i].createdAt \in Nat /\ row[i].expiresAt \in Nat
        /\ row[i].extensions <= MaxExtensionCount
        /\ row[i].expiresAt <= row[i].createdAt + Ttl + row[i].extensions * MaxExtension
        /\ MaxExtension \in Nat /\ MaxExtensionCount \in Nat /\ Ttl \in Nat
    BY <2>1, TtlAssumption, ExtensionAssumption DEF Rows, RowOK
  <2>3. row[i].extensions * MaxExtension <= MaxExtensionCount * MaxExtension
        /\ row[i].extensions * MaxExtension \in Nat
        /\ MaxExtensionCount * MaxExtension \in Nat
    BY <2>2, ProductBound
  <2>4. QED
    BY <2>2, <2>3
<1>2. QED
  BY <1>1, Invariance, PTL

\* No step changes a decision, its time, or a result once it is stored.
THEOREM DecisionsAreFinal == Spec => DecisionAndResultFinal
<1> DEFINE Final == \A i \in Approvals :
       /\ row[i].status \in Decisions
            => row'[i].status = row[i].status /\ row'[i].decidedAt = row[i].decidedAt
       /\ row[i].result # "none" => row'[i].result = row[i].result
<1>1. IInv /\ [Next]_vars => [Final]_vars
  <2> SUFFICES ASSUME IInv, [Next]_vars, NEW i \in Approvals
               PROVE  /\ row[i].status \in Decisions
                           => row'[i].status = row[i].status /\ row'[i].decidedAt = row[i].decidedAt
                      /\ row[i].result # "none" => row'[i].result = row[i].result
    OBVIOUS
  <2>1. RowStep(row[i], row'[i])
    BY RowsStep
  <2>2. QED
    BY <2>1 DEF RowStep, Decisions
<1>2. QED
  BY <1>1, Invariance, PTL DEF Spec, DecisionAndResultFinal

(***************************************************************************)
(* The implementation of ApprovalLifecycle: every step of a handler is one *)
(* step of the promised life of an approval, or none.                      *)
(***************************************************************************)
Stutter == UNCHANGED <<[i \in Approvals |-> row[i].status], runs,
                       [i \in Approvals |-> row[i].result]>>

LEMMA SameStatusAndResult ==
  ASSUME \A i \in Approvals : row'[i].status = row[i].status /\ row'[i].result = row[i].result,
         UNCHANGED runs
  PROVE  Stutter
BY DEF Stutter

\* Expiring the overdue rows is one decision about all of them.
LEMMA ExpireImplements ==
  ASSUME TypeOK, NEW T \in SUBSET Approvals, NEW ts \in Nat, UNCHANGED runs,
         \A i \in Approvals : row'[i] = IF i \in T THEN ExpireIfOverdue(row[i], ts) ELSE row[i]
  PROVE  Lifecycle!LifecycleNext
<1> DEFINE S == {i \in T : IsPending(row[i]) /\ Overdue(row[i], ts)}
<1>1. \A i \in Approvals : row[i] \in Rows
  BY DEF TypeOK
<1>2. ASSUME NEW i \in Approvals
      PROVE  /\ row'[i].status = IF i \in S THEN "expired" ELSE row[i].status
             /\ row'[i].result = row[i].result
             /\ i \in S => row[i].status = "pending"
  BY <1>1 DEF ExpireIfOverdue, IsPending, Rows
<1> HIDE DEF S
<1>3. S \in SUBSET Approvals
  BY DEF S
<1>4. Lifecycle!Decide(S, "expired")
  BY <1>2, <1>3 DEF Lifecycle!Decide
<1>5. QED
  BY <1>3, <1>4 DEF Lifecycle!LifecycleNext

LEMMA DecideImplements ==
  ASSUME TypeOK, NEW j \in Approvals, NEW ts \in Nat, NEW d \in {"approved", "rejected"},
         row' = [row EXCEPT ![j] = DecideIfPending(@, d, ts)], UNCHANGED runs
  PROVE  Lifecycle!LifecycleNext \/ Stutter
<1>1. row[j] \in Rows
  BY DEF TypeOK
<1>2. CASE ~IsPending(row[j])
  BY <1>1, <1>2, SameStatusAndResult DEF DecideIfPending, TypeOK
<1>3. CASE IsPending(row[j])
  <2>1. /\ row'[j].status = d /\ row'[j].result = row[j].result /\ row[j].status = "pending"
        /\ \A i \in Approvals : i # j => row'[i] = row[i]
    BY <1>1, <1>3 DEF DecideIfPending, IsPending, TypeOK, Rows
  <2>2. Lifecycle!Decide({j}, d)
    BY <2>1 DEF Lifecycle!Decide
  <2>3. QED
    BY <2>2 DEF Lifecycle!LifecycleNext
<1>4. QED
  BY <1>2, <1>3

LEMMA PublishImplements ==
  ASSUME TypeOK, NEW j \in Approvals, NEW res \in {"ok", "error"},
         row[j].status = "approved",
         row' = [row EXCEPT ![j] = SetResultOnce(@, res)], UNCHANGED runs
  PROVE  Lifecycle!LifecycleNext \/ Stutter
<1>1. CASE row[j].result # "none"
  BY <1>1, SameStatusAndResult DEF SetResultOnce, TypeOK
<1>2. CASE row[j].result = "none"
  <2>1. /\ row'[j].status = row[j].status /\ row'[j].result = res
        /\ \A i \in Approvals : i # j => row'[i] = row[i]
    BY <1>2 DEF SetResultOnce, TypeOK, Rows
  <2>2. Lifecycle!Publish(j, res)
    <3>1. [i \in Approvals |-> row'[i].status] = [i \in Approvals |-> row[i].status]
      BY <2>1
    <3>2. [i \in Approvals |-> row'[i].result]
          = [[i \in Approvals |-> row[i].result] EXCEPT ![j] = res]
      <4> DEFINE f == [i \in Approvals |-> row[i].result]
      <4>1. \A i \in Approvals : row'[i].result = IF i = j THEN res ELSE f[i]
        BY <2>1
      <4>2. [f EXCEPT ![j] = res] = [i \in Approvals |-> IF i = j THEN res ELSE f[i]]
        BY Zenon
      <4>3. [i \in Approvals |-> row'[i].result]
            = [i \in Approvals |-> IF i = j THEN res ELSE f[i]]
        BY <4>1, Zenon
      <4>4. QED
        BY <4>2, <4>3
    <3>3. QED
      BY <1>2, <3>1, <3>2 DEF Lifecycle!Publish
  <2>3. QED
    BY <2>2 DEF Lifecycle!LifecycleNext
<1>3. QED
  BY <1>1, <1>2

LEMMA StepImplements ==
  ASSUME IInv, [Next]_vars
  PROVE  Lifecycle!LifecycleNext \/ Stutter
<1>1. TypeOK
  BY DEF IInv
<1>2. CASE UNCHANGED <<row, runs>>
  BY <1>2, SameStatusAndResult
<1>3. ASSUME NEW ts \in Nat, ExpireAll(ts), UNCHANGED runs PROVE Lifecycle!LifecycleNext
  <2>1. \A i \in Approvals :
          row'[i] = IF i \in Approvals THEN ExpireIfOverdue(row[i], ts) ELSE row[i]
    BY <1>3 DEF ExpireAll
  <2>2. QED
    BY <1>1, <1>3, <2>1, ExpireImplements
<1>4. ASSUME NEW r \in Requests, LazyExpire(r), UNCHANGED runs PROVE Lifecycle!LifecycleNext
  <2>1. \A i \in Approvals :
          row'[i] = IF i \in {req[r].id} THEN ExpireIfOverdue(row[i], req[r].ts) ELSE row[i]
    BY <1>1, <1>4, RowAndTs DEF LazyExpire, SelectedRow, TypeOK
  <2>2. {req[r].id} \in SUBSET Approvals /\ req[r].ts \in Nat
    BY <1>1, RowAndTs
  <2>3. QED
    BY <1>1, <1>4, <2>1, <2>2, ExpireImplements
<1>5. ASSUME NEW j \in Approvals, EnqueueApproval(j) PROVE Lifecycle!LifecycleNext
  <2>1. row[j] = NoRow
    BY <1>5 DEF EnqueueApproval, IInv, RowOK
  <2>2. /\ row'[j].status = "pending" /\ row'[j].result = row[j].result /\ row[j].status = "absent"
        /\ \A i \in Approvals : i # j => row'[i] = row[i]
        /\ UNCHANGED runs
    BY <1>1, <1>5, <2>1 DEF EnqueueApproval, InsertRow, NoRow, TypeOK
  <2>3. Lifecycle!Ask(j)
    BY <2>2 DEF Lifecycle!Ask
  <2>4. QED
    BY <2>3 DEF Lifecycle!LifecycleNext
<1>6. ASSUME NEW r \in Requests, Step(r) PROVE Lifecycle!LifecycleNext \/ Stutter
  <2>0. /\ req[r].id \in Approvals /\ req[r].ts \in Nat /\ row[req[r].id] = RowOf(r)
        /\ RowOf(r) \in Rows /\ HandlerOK(r)
    BY <1>1, RowAndTs DEF IInv
  <2>1. CASE ApproveGet(r) \/ (\E matches \in BOOLEAN : ResumeGet(r, matches)) \/ Read(r)
    BY <2>1, <1>4 DEF ApproveGet, ResumeGet, Read
  <2>2. CASE List(r)
    BY <2>0, <2>2, <1>3 DEF List
  <2>3. CASE ApproveUpdate(r) \/ RejectUpdate(r)
    BY <1>1, <2>0, <2>3, DecideImplements DEF ApproveUpdate, RejectUpdate
  <2>4. ASSUME NEW ms \in Extensions, Extend(r, ms) PROVE Stutter
    <3>1. \A i \in Approvals : row'[i].status = row[i].status /\ row'[i].result = row[i].result
      BY <1>1, <2>0, <2>4 DEF Extend, ExtendIfAllowed, TypeOK, Rows
    <3>2. QED
      BY <2>4, <3>1, SameStatusAndResult DEF Extend
  <2>5. CASE SetResult(r)
    <3>1. req[r].answer \in {"ok", "error"} /\ RowOf(r).status = "approved"
      BY <2>0, <2>5 DEF SetResult, At, HandlerOK
    <3>2. /\ row' = [row EXCEPT ![req[r].id] = SetResultOnce(@, req[r].answer)]
          /\ UNCHANGED runs
      BY <2>5 DEF SetResult
    <3>3. QED
      BY <1>1, <2>0, <3>1, <3>2, PublishImplements
  <2>6. ASSUME NEW answer, RunTool(r, answer) PROVE Lifecycle!LifecycleNext
    <3>1. Lifecycle!Run(req[r].id)
      BY <2>0, <2>6 DEF RunTool, HandlerOK, Lifecycle!Run
    <3>2. QED
      BY <2>0, <3>1 DEF Lifecycle!LifecycleNext
  <2>7. CASE UNCHANGED <<row, runs>>
    BY <2>7, <1>2
  <2>8. QED
    BY <1>6, <2>1, <2>2, <2>3, <2>4, <2>5, <2>6, <2>7
       DEF Step, VerifyAssertion, RefuseAssertion, ApproveSelect, FailBeforeRun,
           SetResultFails, RejectSelect
<1>7. CASE SweepExpired
  BY <1>1, <1>3, <1>7 DEF SweepExpired, TypeOK
<1>8. QED
  BY <1>2, <1>5, <1>6, <1>7 DEF Next, vars, Tick, Begin, Crash, SweepBegin

\* The handlers, with all their interleavings and crashes, implement the life
\* of an approval that ApprovalLifecycle promises.
THEOREM ApprovalsImplementLifecycle == Spec => ImplementsLifecycle
<1>1. Init => Lifecycle!LifecycleInit
  BY DEF Init, NoRow, Lifecycle!LifecycleInit
<1>2. IInv /\ [Next]_vars => [Lifecycle!LifecycleNext]_(Lifecycle!lifecycleVars)
  BY StepImplements DEF Stutter, Lifecycle!lifecycleVars
<1>3. QED
  BY <1>1, <1>2, Invariance, PTL DEF Spec, ImplementsLifecycle, Lifecycle!LifecycleSpec

===============================================================================
