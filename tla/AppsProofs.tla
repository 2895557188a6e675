------------------------------ MODULE AppsProofs ------------------------------
(***************************************************************************)
(* Proofs about Apps.  Up to the implementation of SerialApp they hold for *)
(* any blocks: nothing is asked of what an action or validate computes, but*)
(* that invoke sends no call named "replace".  The timer follows, and then *)
(* the other blocks: lists in general, the streaks of a calendar, what each*)
(* handler makes of its slot, and the invariant of the stored slot.        *)
(***************************************************************************)
EXTENDS Apps, FiniteSetTheorems, TLAPS

RecordOK(record) == RequestTyped(record) /\ RequestOK(record)

\* A call that was answered.
LEMMA AnsweredOK ==
  ASSUME TypeOK, NEW answer \in Answers, NEW record, record = [NoRequest EXCEPT !.answer = answer]
  PROVE  RecordOK(record) /\ record.at = "done" /\ record.answer = answer
         /\ record.call = Null /\ record.t = 0 /\ record.version = 0
<1>1. /\ DOMAIN record = DOMAIN NoRequest /\ record.at = "done" /\ record.answer = answer
      /\ record.call = Null /\ record.t = 0 /\ record.version = 0 /\ record.retried = FALSE
  BY DEF NoRequest
<1>2. 0 \in 0..store.version /\ 0 \in 0..clock
  BY DEF TypeOK
<1>3. RequestTyped(record)
  BY <1>1, <1>2 DEF RequestTyped
<1>4. RequestOK(record)
  BY <1>1 DEF RequestOK
<1>5. QED
  BY <1>1, <1>3, <1>4 DEF RecordOK

LEMMA InitInv == Init => IInv
<1> SUFFICES ASSUME Init PROVE IInv
  OBVIOUS
<1>1. /\ store.version = 1 /\ store.deleted = FALSE /\ store.slot = Initial(kind) /\ clock = 0
      /\ kind \in Kinds /\ \A r \in Requests : req[r] = NoRequest
      /\ DOMAIN req = Requests
  BY DEF Init
<1>2. clock \in 0..MaxTime
  BY <1>1, BoundsAssumption
<1>3. \A r \in Requests : RequestTyped(req[r])
  <2>1. PICK record : record = NoRequest
    OBVIOUS
  <2>2. /\ DOMAIN record = DOMAIN NoRequest /\ record.at = "done" /\ record.answer = "none"
        /\ record.t = 0 /\ record.version = 0 /\ record.retried = FALSE
    BY <2>1 DEF NoRequest
  <2>3. RequestTyped(record)
    <3>1. 0 \in 0..store.version /\ 0 \in 0..clock
      BY <1>1
    <3>2. QED
      BY <2>2, <3>1 DEF RequestTyped, Answers
  <2>4. QED
    BY <1>1, <2>1, <2>3
<1>4. store = [slot |-> store.slot, version |-> store.version, deleted |-> store.deleted]
  BY <1>1 DEF Init
<1>5. TypeOK
  <2>1. store.version \in Nat
    BY <1>1
  <2>2. store.deleted \in BOOLEAN
    BY <1>1
  <2>3. QED
    BY <1>1, <1>2, <1>3, <1>4, <2>1, <2>2 DEF TypeOK
<1>6. NoRequest = [NoRequest EXCEPT !.answer = "none"] /\ "none" \in Answers
  <2>1. NoRequest.answer = "none" /\ "answer" \in DOMAIN NoRequest
        /\ NoRequest = [f \in DOMAIN NoRequest |-> NoRequest[f]]
    BY DEF NoRequest
  <2>2. QED
    BY <2>1 DEF Answers
<1>7. \A r \in Requests : RequestOK(req[r])
  BY <1>1, <1>6 DEF RequestOK, NoRequest
<1>8. QED
  BY <1>5, <1>7 DEF IInv

\* A step of one call that leaves the store alone.
LEMMA CallStep ==
  ASSUME IInv, UNCHANGED <<kind, store, clock>>, NEW r \in Requests, NEW record,
         req' = [req EXCEPT ![r] = record], RecordOK(record)
  PROVE  IInv'
<1>1. /\ DOMAIN req' = Requests /\ req'[r] = record
      /\ \A x \in Requests \ {r} : req'[x] = req[x]
  BY DEF IInv, TypeOK
<1>2. \A x \in Requests : RequestTyped(req'[x]) /\ RequestOK(req'[x])
  BY <1>1 DEF IInv, TypeOK, RecordOK
<1>3. \A x \in Requests : RequestTyped(req[x])' /\ RequestOK(req[x])'
  BY <1>2 DEF RequestTyped, RequestOK
<1>4. QED
  BY <1>1, <1>3 DEF IInv, TypeOK

LEMMA EndsStep ==
  ASSUME IInv, UNCHANGED <<kind, store, clock>>, NEW r \in Requests,
         NEW answer \in Answers, Ends(r, answer)
  PROVE  IInv'
<1>1. PICK record : record = [NoRequest EXCEPT !.answer = answer]
  OBVIOUS
<1>2. RecordOK(record) /\ req' = [req EXCEPT ![r] = record]
  BY <1>1, AnsweredOK DEF IInv, Ends
<1>3. QED
  BY <1>2, CallStep

\* No call an invocation makes is named "replace".
LEMMA EachCall ==
  ASSUME NEW names, NEW args, "replace" \notin names
  PROVE  \A call \in Each(names, args) : call.do # "replace"
BY DEF Each, Call

LEMMA InvokedCalls ==
  ASSUME NEW k \in Kinds, NEW slot, NEW call \in Calls(k, slot)
  PROVE  call.do # "replace"
<1>1. CASE k \in Setters
  <2>1. Calls(k, slot) = Each(SetBy[k], {<<1>>}) \cup
          IF k = "action_button" THEN {Call("trigger", <<>>)} ELSE {}
    BY <1>1, Zenon DEF Calls, Setters
  <2>2. "replace" \notin SetBy[k]
    BY <1>1 DEF Setters, SetBy
  <2>3. QED
    <3>1. call \in Each(SetBy[k], {<<1>>}) \/ call = Call("trigger", <<>>)
      BY <2>1
    <3>2. QED
      BY <2>2, <3>1, EachCall DEF Call
<1>2. CASE k = "counter"
  <2>1. \/ call \in Each({"increment", "decrement"}, {<<1>>, <<2>>})
        \/ call \in Each({"setValue"}, {<<MaxValue>>})
        \/ call = Call("reset", <<>>)
    BY <1>2 DEF Calls, Setters
  <2>2. QED
    BY <2>1, EachCall DEF Call
<1>3. CASE k = "progress_ring"
  <2>1. \/ call \in Each({"increment", "decrement"}, {<<1>>, <<2>>})
        \/ call \in Each({"setValue"}, {<<1>>})
        \/ call \in Each({"setTarget"}, {<<0>>, <<1>>})
        \/ call = Call("reset", <<>>)
    BY <1>3 DEF Calls, Setters
  <2>2. QED
    BY <2>1, EachCall DEF Call
<1>4. CASE k = "stat_card"
  <2>1. \/ call \in Each({"setValue", "setDelta", "pushSparkline"}, {<<1>>})
        \/ call = Call("reset", <<>>)
    BY <1>4 DEF Calls, Setters
  <2>2. QED
    BY <2>1, EachCall DEF Call
<1>5. CASE k = "timer"
  <2>1. \/ call \in Each({"start"}, {<<Null>>, <<1>>, <<0>>})
        \/ call \in Each({"setDuration"}, {<<1>>, <<0>>})
        \/ call \in Each({"pause", "resume", "stop", "complete", "reset"}, {<<>>})
    BY <1>5 DEF Calls, Setters
  <2>2. QED
    BY <2>1, EachCall DEF Call
<1>6. CASE k = "list"
  <2>1. \/ call \in Each({"addItem", "clearDone"}, {<<>>})
        \/ call \in Each({"setOrder"}, Orders(slot))
        \/ call \in Each({"toggleItem", "deleteItem", "setTag"}, {<<id>> : id \in KnownIds(slot)})
    BY <1>6 DEF Calls, Setters
  <2>2. QED
    BY <2>1, EachCall DEF Call
<1>7. CASE k = "places"
  <2>1. \/ call \in Each({"addPlace", "clearAll"}, {<<>>})
        \/ call \in Each({"updatePlace", "removePlace"}, {<<id>> : id \in KnownIds(slot)})
    BY <1>7 DEF Calls, Setters
  <2>2. QED
    BY <2>1, EachCall DEF Call
<1>8. CASE k = "reminder"
  <2>1. \/ call \in Each({"addEntry"}, {<<0>>, <<1>>})
        \/ call \in Each({"updateEntry", "setEnabled"}, KnownIds(slot) \X {0, 1})
        \/ call \in Each({"removeEntry", "markFired"}, {<<id>> : id \in KnownIds(slot)})
    BY <1>8 DEF Calls, Setters
  <2>2. QED
    BY <2>1, EachCall DEF Call
<1>9. CASE k = "calendar_grid"
  <2>1. \/ call \in Each({"tick", "untick"}, {<<d>> : d \in Days})
        \/ call = Call("clearAll", <<>>)
    BY <1>9 DEF Calls, Setters
  <2>2. QED
    BY <2>1, EachCall DEF Call
<1>10. CASE k = "tag_filter"
  <2>1. \/ call \in Each({"addTag", "removeTag"}, {<<1>>, <<2>>})
        \/ call = Call("clearActive", <<>>)
        \/ call \in Each({"setActive"}, {<<>>, <<1>>, <<2>>, <<1, 2>>})
    BY <1>10 DEF Calls, Setters
  <2>2. QED
    BY <2>1, EachCall DEF Call
<1>11. CASE k = "workout_split"
  <2>1. \/ call = Call("nextWeek", <<>>)
        \/ call \in Each({"setActiveCategory"}, {<<0>>, <<2>>})
        \/ call \in Each({"addExercise"}, {0, 2} \X NewIds \X NewSets)
        \/ call \in Each({"addSet"}, Exercises(slot) \X NewIds)
        \/ call \in Each({"removeExercise", "renameExercise"}, {<<e>> : e \in Exercises(slot)})
        \/ call \in Each({"tickAllInExercise"}, Exercises(slot) \X {0, 1})
        \/ \E e \in Exercises(slot) :
             call \in Each({"tickSet", "updateSet", "removeSet"}, {<<e, x>> : x \in SetsOf(slot, e)})
    <3> DEFINE OnSets == UNION {Each({"tickSet", "updateSet", "removeSet"},
                                     {<<e, x>> : x \in SetsOf(slot, e)}) : e \in Exercises(slot)}
    <3>1. Calls(k, slot) =
            {Call("nextWeek", <<>>)}
            \cup Each({"setActiveCategory"}, {<<0>>, <<2>>})
            \cup Each({"addExercise"}, {0, 2} \X NewIds \X NewSets)
            \cup Each({"addSet"}, Exercises(slot) \X NewIds)
            \cup Each({"removeExercise", "renameExercise"}, {<<e>> : e \in Exercises(slot)})
            \cup Each({"tickAllInExercise"}, Exercises(slot) \X {0, 1})
            \cup OnSets
      BY <1>11 DEF Calls, Setters
    <3>2. call \in OnSets => \E e \in Exercises(slot) :
            call \in Each({"tickSet", "updateSet", "removeSet"}, {<<e, x>> : x \in SetsOf(slot, e)})
      BY Zenon
    <3>3. QED
      <4> HIDE DEF OnSets
      <4>1. QED
        BY <3>1, <3>2
  <2>2. /\ "replace" \notin {"setActiveCategory"} /\ "replace" \notin {"addExercise"}
        /\ "replace" \notin {"addSet"} /\ "replace" \notin {"removeExercise", "renameExercise"}
        /\ "replace" \notin {"tickAllInExercise"}
        /\ "replace" \notin {"tickSet", "updateSet", "removeSet"}
        /\ Call("nextWeek", <<>>).do # "replace"
    BY DEF Call
  <2>3. QED
    BY <2>1, <2>2, EachCall
<1>12. QED
  BY <1>1, <1>2, <1>3, <1>4, <1>5, <1>6, <1>7, <1>8, <1>9, <1>10, <1>11 DEF Kinds

\* A read, and the new layout it leads to or the refusal.
LEMMA PrepareStep ==
  ASSUME IInv, UNCHANGED <<kind, store, clock>>, NEW r \in Requests, NEW call,
         call.do # "replace", NEW retried \in BOOLEAN, Prepare(r, call, retried)
  PROVE  IInv'
<1>1. PICK patch : patch = RouteAction(kind, store.slot, call, clock, store.version)
  OBVIOUS
<1>2. CASE store.deleted \/ patch = Refused
  <2>1. Ends(r, "rejected")
    BY <1>1, <1>2 DEF Prepare
  <2>2. "rejected" \in Answers
    BY DEF Answers
  <2>3. QED
    BY <2>1, <2>2, EndsStep
<1>3. CASE ~(store.deleted \/ patch = Refused)
  <2>1. PICK record : record =
          [at |-> "check", call |-> call, version |-> store.version,
           new |-> ApplyPatches(store.slot, patch), t |-> clock,
           retried |-> retried, answer |-> "none"]
    OBVIOUS
  <2>2. req' = [req EXCEPT ![r] = record]
    BY <1>1, <1>3, <2>1 DEF Prepare
  <2>3. /\ record.at = "check" /\ record.call = call /\ record.version = store.version
        /\ record.new = ApplyPatches(store.slot, patch) /\ record.t = clock
        /\ record.retried = retried /\ record.answer = "none"
        /\ DOMAIN record = DOMAIN NoRequest
    BY <2>1 DEF NoRequest
  <2>4. store.version \in 0..store.version /\ clock \in 0..clock
    BY DEF IInv, TypeOK
  <2>5. RequestTyped(record)
    BY <2>3, <2>4 DEF RequestTyped, Answers
  <2>6. RequestOK(record)
    BY <1>1, <1>3, <2>3 DEF RequestOK
  <2>7. QED
    BY <2>2, <2>5, <2>6, CallStep DEF RecordOK
<1>4. QED
  BY <1>2, <1>3

LEMMA ReplaceStep ==
  ASSUME IInv, NEW r \in Requests, NEW new, Replace(r, new)
  PROVE  IInv'
<1>1. PICK record : record = [NoRequest EXCEPT
         !.at = "check", !.call = Call("replace", <<new>>), !.version = store.version,
         !.new = new, !.t = clock]
  OBVIOUS
<1>2. req' = [req EXCEPT ![r] = record] /\ UNCHANGED <<kind, store, clock>>
  BY <1>1 DEF Replace
<1>3. /\ record.at = "check" /\ record.call = Call("replace", <<new>>)
      /\ record.version = store.version /\ record.new = new /\ record.t = clock
      /\ record.retried = FALSE /\ record.answer = "none"
      /\ DOMAIN record = DOMAIN NoRequest
  BY <1>1 DEF NoRequest
<1>4. store.version \in 0..store.version /\ clock \in 0..clock
  BY DEF IInv, TypeOK
<1>5. RequestTyped(record)
  BY <1>3, <1>4 DEF RequestTyped, Answers
<1>6. record.call.do = "replace" /\ record.call.args[1] = new
  BY <1>3 DEF Call
<1>7. RequestOK(record)
  BY <1>3, <1>6 DEF RequestOK
<1>8. QED
  BY <1>2, <1>5, <1>7, CallStep DEF RecordOK

\* A step that changes nothing but where the call stands.
LEMMA MoveStep ==
  ASSUME IInv, UNCHANGED <<kind, store, clock>>, NEW r \in Requests,
         NEW at \in {"write", "reread"}, req[r].at # "done",
         at = "write" => req[r].at = "check", at = "reread" => req[r].call.do # "replace",
         req' = [req EXCEPT ![r].at = at]
  PROVE  IInv'
<1>1. PICK record : record = [req[r] EXCEPT !.at = at]
  OBVIOUS
<1>2. RequestTyped(req[r]) /\ RequestOK(req[r]) /\ r \in DOMAIN req
  BY DEF IInv, TypeOK
<1>3. "at" \in DOMAIN req[r]
  BY <1>2 DEF RequestTyped, NoRequest
<1>4. /\ record.at = at /\ record.call = req[r].call /\ record.version = req[r].version
      /\ record.new = req[r].new /\ record.t = req[r].t /\ record.retried = req[r].retried
      /\ record.answer = req[r].answer /\ DOMAIN record = DOMAIN NoRequest
  BY <1>1, <1>2, <1>3 DEF RequestTyped, NoRequest
<1>5. RequestTyped(record)
  BY <1>2, <1>4 DEF RequestTyped
<1>6. RequestOK(record)
  BY <1>2, <1>4 DEF RequestOK
<1>7. req' = [req EXCEPT ![r] = record]
  BY <1>1, <1>2
<1>8. QED
  BY <1>5, <1>6, <1>7, CallStep DEF RecordOK

\* The write: no other call has the new version.
LEMMA WriteStep ==
  ASSUME IInv, NEW r \in Requests, Write(r)
  PROVE  IInv'
<1>1. PICK answer \in Answers : Ends(r, answer)
  BY DEF Write, Answers
<1>2. PICK record : record = [NoRequest EXCEPT !.answer = answer]
  OBVIOUS
<1>3. /\ store.version \in Nat
      /\ store = [slot |-> store.slot, version |-> store.version, deleted |-> store.deleted]
      /\ store' = [store EXCEPT !.slot = req[r].new, !.version = @ + 1]
      /\ UNCHANGED <<kind, clock>>
  BY DEF IInv, TypeOK, Write
<1>4. /\ store'.version = store.version + 1 /\ store'.deleted = store.deleted
      /\ store' = [slot |-> store'.slot, version |-> store'.version, deleted |-> store'.deleted]
  BY <1>3
<1>5. /\ DOMAIN req' = Requests /\ req'[r] = record
      /\ \A x \in Requests \ {r} : req'[x] = req[x]
  BY <1>1, <1>2 DEF Ends, IInv, TypeOK
<1>6. TypeOK /\ \A x \in Requests : RequestOK(req[x])
  BY DEF IInv
<1>7. RecordOK(record) /\ record.at = "done" /\ record.version = 0
  BY <1>2, <1>6, AnsweredOK
<1>8. ASSUME NEW x \in Requests
      PROVE  RequestTyped(req[x])' /\ RequestOK(req[x])'
  <2>1. CASE x = r
    <3>1. req'[x] = record /\ clock' = clock /\ 0 \in 0..store'.version
      BY <1>3, <1>4, <1>5, <2>1
    <3>2. RequestTyped(req[x])'
      BY <1>7, <3>1 DEF RecordOK, RequestTyped
    <3>3. RequestOK(req[x])'
      BY <1>7, <3>1 DEF RecordOK, RequestOK
    <3>4. QED
      BY <3>2, <3>3
  <2>2. CASE x # r
    <3>1. RequestTyped(req[x]) /\ RequestOK(req[x]) /\ req'[x] = req[x]
      BY <1>5, <1>6, <2>2 DEF TypeOK
    <3>2. req[x].version \in 0..store'.version /\ req[x].version # store'.version
      BY <1>3, <1>4, <3>1 DEF RequestTyped
    <3>3. RequestTyped(req[x])'
      BY <1>3, <3>1, <3>2 DEF RequestTyped
    <3>4. RequestOK(req[x])'
      BY <3>1, <3>2 DEF RequestOK
    <3>5. QED
      BY <3>3, <3>4
  <2>3. QED
    BY <2>1, <2>2
<1>9. TypeOK'
  <2>1. store'.version \in Nat /\ store'.deleted \in BOOLEAN
    BY <1>3, <1>4, <1>6 DEF TypeOK
  <2>2. QED
    BY <1>3, <1>4, <1>5, <1>6, <1>8, <2>1 DEF TypeOK
<1>10. QED
  BY <1>8, <1>9 DEF IInv

LEMMA DeleteStep == IInv /\ DeleteApp => IInv'
<1> SUFFICES ASSUME IInv, DeleteApp PROVE IInv'
  OBVIOUS
<1>1. /\ store' = [store EXCEPT !.deleted = TRUE] /\ UNCHANGED <<kind, req, clock>>
      /\ store = [slot |-> store.slot, version |-> store.version, deleted |-> store.deleted]
  BY DEF DeleteApp, IInv, TypeOK
<1>2. /\ store'.slot = store.slot /\ store'.version = store.version /\ store'.deleted = TRUE
      /\ store' = [slot |-> store'.slot, version |-> store'.version, deleted |-> store'.deleted]
  BY <1>1
<1>3. \A x \in Requests : RequestTyped(req[x])' /\ RequestOK(req[x])'
  BY <1>1, <1>2 DEF IInv, TypeOK, RequestTyped, RequestOK
<1>4. TypeOK'
  BY <1>1, <1>2, <1>3 DEF IInv, TypeOK
<1>5. QED
  BY <1>3, <1>4 DEF IInv

LEMMA ClockStep == IInv /\ ClockTick => IInv'
<1> SUFFICES ASSUME IInv, ClockTick PROVE IInv'
  OBVIOUS
<1>1. clock' = clock + 1 /\ clock < MaxTime /\ clock \in 0..MaxTime /\ UNCHANGED <<kind, store, req>>
  BY DEF ClockTick, IInv, TypeOK
<1>2. clock' \in 0..MaxTime /\ 0..clock \subseteq 0..clock'
  BY <1>1, BoundsAssumption
<1>3. \A x \in Requests : RequestTyped(req[x])
  BY DEF IInv, TypeOK
<1>4. \A x \in Requests : RequestTyped(req[x])'
  BY <1>1, <1>2, <1>3 DEF RequestTyped
<1>5. \A x \in Requests : RequestOK(req[x])'
  BY <1>1 DEF IInv, RequestOK
<1>6. TypeOK'
  BY <1>1, <1>2, <1>4 DEF IInv, TypeOK
<1>7. QED
  BY <1>5, <1>6 DEF IInv

LEMMA StepInv == IInv /\ [Next]_vars => IInv'
<1> SUFFICES ASSUME IInv, [Next]_vars PROVE IInv'
  OBVIOUS
<1>1. CASE UNCHANGED vars
  BY <1>1 DEF vars, IInv, TypeOK, RequestTyped, RequestOK
<1>2. ASSUME NEW r \in Requests, NEW call \in Calls(kind, store.slot), Invoke(r, call)
      PROVE  IInv'
  <2>1. call.do # "replace"
    BY InvokedCalls DEF IInv, TypeOK
  <2>2. QED
    BY <1>2, <2>1, PrepareStep DEF Invoke
<1>3. ASSUME NEW r \in Requests, Step(r) \/ Fail(r)
      PROVE  IInv'
  <2>1. "rejected" \in Answers /\ "error" \in Answers
    BY DEF Answers
  <2>2. CASE Check(r)
    <3>1. CASE store.deleted \/ ~Valid(kind, req[r].new)
      BY <2>1, <2>2, <3>1, EndsStep DEF Check
    <3>2. CASE ~(store.deleted \/ ~Valid(kind, req[r].new))
      <4>1. req' = [req EXCEPT ![r].at = "write"] /\ req[r].at = "check"
            /\ UNCHANGED <<kind, store, clock>>
        BY <2>2, <3>2 DEF Check
      <4>2. QED
        BY <4>1, MoveStep
    <3>3. QED
      BY <3>1, <3>2
  <2>3. CASE Conflict(r)
    <3>1. CASE Ends(r, "error") \/ Ends(r, "rejected")
      BY <2>1, <2>3, <3>1, EndsStep DEF Conflict
    <3>2. CASE req[r].call.do # "replace" /\ req' = [req EXCEPT ![r].at = "reread"]
      <4>1. req[r].at = "write" /\ UNCHANGED <<kind, store, clock>>
        BY <2>3 DEF Conflict
      <4>2. QED
        BY <3>2, <4>1, MoveStep
    <3>3. QED
      BY <2>3, <3>1, <3>2 DEF Conflict
  <2>4. CASE WriteToDeleted(r) \/ Fail(r)
    BY <2>1, <2>4, EndsStep DEF WriteToDeleted, Fail
  <2>5. CASE Retry(r)
    <3>1. req[r].call.do # "replace"
      BY <2>5 DEF Retry, IInv, RequestOK
    <3>2. QED
      BY <2>5, <3>1, PrepareStep DEF Retry
  <2>6. QED
    BY <1>3, <2>2, <2>3, <2>4, <2>5, WriteStep DEF Step
<1>4. QED
  BY <1>1, <1>2, <1>3, ReplaceStep, DeleteStep, ClockStep DEF Next

\* The inductive invariant of the calls on an app (AppsServiceImpl.invoke and
\* updateState, apps/api.ts) holds in every state.
THEOREM Invariance == Spec => []IInv
BY InitInv, StepInv, PTL DEF Spec

\* The calls, the object and the clock stay what they are declared to be.
THEOREM TypeCorrect == Spec => []TypeOK
<1>1. IInv => TypeOK
  BY DEF IInv
<1>2. QED
  BY <1>1, Invariance, PTL

-------------------------------------------------------------------------------
(***************************************************************************)
(* The implementation of SerialApp.  A call looks at the app when it reads *)
(* it, takes effect when it writes, and gives up when it ends without; all *)
(* other steps stutter.                                                    *)
(***************************************************************************)
Ops == [r \in Requests |-> OpOf(req[r])]

LEMMA OpsOne ==
  ASSUME IInv, UNCHANGED store, NEW r \in Requests, NEW record,
         req' = [req EXCEPT ![r] = record]
  PROVE  Ops' = [Ops EXCEPT ![r] = OpOf(record)]
<1>1. /\ DOMAIN req = Requests /\ req'[r] = record
      /\ \A x \in Requests \ {r} : req'[x] = req[x]
  BY DEF IInv, TypeOK
<1>2. OpOf(req[r])' = OpOf(record) /\ \A x \in Requests \ {r} : OpOf(req[x])' = OpOf(req[x])
  BY <1>1 DEF OpOf
<1>3. QED
  BY <1>2 DEF Ops

LEMMA OpsOutcome ==
  ASSUME IInv, NEW r \in Requests
  PROVE  /\ Ops[r] = OpOf(req[r])
         /\ Ops[r].outcome \in Serial!Ended \cup {"open"}
         /\ req[r].at = "done" => Ops[r].outcome \in Serial!Ended
         /\ req[r].at # "done" => Ops[r].outcome = "open" /\ Ops[r].call = req[r].call
<1>1. RequestTyped(req[r])
  BY DEF IInv, TypeOK
<1>2. QED
  BY <1>1 DEF Ops, OpOf, RequestTyped, Answers, Serial!Ended

\* An answer without effect.
LEMMA GivesUp ==
  ASSUME IInv, UNCHANGED <<kind, store>>, NEW r \in Requests,
         NEW answer \in {"rejected", "error"}, Ends(r, answer)
  PROVE  Serial!SerialNext
<1>1. PICK record : record = [NoRequest EXCEPT !.answer = answer]
  OBVIOUS
<1>2. PICK outcome \in {"no", "unknown"} :
        outcome = IF answer = "rejected" THEN "no" ELSE "unknown"
  OBVIOUS
<1>3. /\ record.at = "done" /\ record.answer = answer /\ record.call = Null /\ record.t = 0
      /\ record.version = 0
  BY <1>1 DEF NoRequest
<1>4. OpOf(record) = Serial!Answer(outcome)
  BY <1>2, <1>3 DEF OpOf, Serial!Answer
<1>5. Ops' = [Ops EXCEPT ![r] = Serial!Answer(outcome)]
  <2>1. req' = [req EXCEPT ![r] = record]
    BY <1>1 DEF Ends
  <2>2. QED
    BY <1>4, <2>1, OpsOne
<1>6. Serial!GiveUp(r, outcome)
  BY <1>5, OpsOutcome DEF Serial!GiveUp, Ops
<1>7. QED
  BY <1>6 DEF Serial!SerialNext

\* A call that has read the version there is.
LEMMA Looks ==
  ASSUME IInv, UNCHANGED <<kind, store>>, NEW r \in Requests, NEW record,
         req' = [req EXCEPT ![r] = record],
         record.at # "done", record.version = store.version,
         req[r].at = "done" \/ req[r].call = record.call
  PROVE  Serial!SerialNext
<1>1. Ops' = [Ops EXCEPT ![r] = OpOf(record)]
  BY OpsOne
<1>2. /\ OpOf(record).outcome = "open" /\ OpOf(record).view = "current"
      /\ OpOf(record).call = record.call
  BY DEF OpOf
<1>3. Ops'[r] = OpOf(record)
  BY <1>1 DEF Ops
<1>4. PICK look : look = Ops'[r]
  OBVIOUS
<1>5. /\ look.outcome = "open" /\ look.view = "current"
      /\ Ops[r].outcome \in Serial!Ended \/ (Ops[r].outcome = "open" /\ Ops[r].call = look.call)
      /\ Ops' = [Ops EXCEPT ![r] = look]
  BY <1>1, <1>2, <1>3, <1>4, OpsOutcome
<1>6. Serial!Look(r, Ops'[r])
  BY <1>4, <1>5 DEF Serial!Look, Ops
<1>7. QED
  BY <1>6 DEF Serial!SerialNext, Ops

LEMMA PrepareImplements ==
  ASSUME IInv, UNCHANGED <<kind, store>>, NEW r \in Requests, NEW call, NEW retried,
         Prepare(r, call, retried), req[r].at = "done" \/ req[r].call = call
  PROVE  Serial!SerialNext
<1>1. PICK patch : patch = RouteAction(kind, store.slot, call, clock, store.version)
  OBVIOUS
<1>2. CASE store.deleted \/ patch = Refused
  BY <1>1, <1>2, GivesUp DEF Prepare
<1>3. CASE ~(store.deleted \/ patch = Refused)
  <2>1. PICK record : record =
          [at |-> "check", call |-> call, version |-> store.version,
           new |-> ApplyPatches(store.slot, patch), t |-> clock,
           retried |-> retried, answer |-> "none"]
    OBVIOUS
  <2>2. req' = [req EXCEPT ![r] = record]
    BY <1>1, <1>3, <2>1 DEF Prepare
  <2>3. record.at # "done" /\ record.version = store.version /\ record.call = call
    BY <2>1
  <2>4. QED
    BY <2>2, <2>3, Looks
<1>4. QED
  BY <1>2, <1>3

LEMMA ReplaceImplements ==
  ASSUME IInv, NEW r \in Requests, NEW new, Replace(r, new)
  PROVE  Serial!SerialNext
<1>1. PICK record : record = [NoRequest EXCEPT
         !.at = "check", !.call = Call("replace", <<new>>), !.version = store.version,
         !.new = new, !.t = clock]
  OBVIOUS
<1>2. req' = [req EXCEPT ![r] = record] /\ UNCHANGED <<kind, store>> /\ req[r].at = "done"
  BY <1>1 DEF Replace, MayBegin
<1>3. record.at # "done" /\ record.version = store.version
  BY <1>1 DEF NoRequest
<1>4. QED
  BY <1>2, <1>3, Looks

\* A step that only moves the call on.
LEMMA MoveImplements ==
  ASSUME IInv, UNCHANGED <<kind, store>>, NEW r \in Requests,
         NEW at \in {"write", "reread"}, req[r].at # "done",
         req' = [req EXCEPT ![r].at = at]
  PROVE  UNCHANGED Serial!serialVars
<1>1. PICK record : record = [req[r] EXCEPT !.at = at]
  OBVIOUS
<1>2. RequestTyped(req[r]) /\ r \in DOMAIN req
  BY DEF IInv, TypeOK
<1>3. "at" \in DOMAIN req[r]
  BY <1>2 DEF RequestTyped, NoRequest
<1>4. /\ record.at = at /\ record.call = req[r].call /\ record.version = req[r].version
      /\ record.t = req[r].t
  BY <1>1, <1>2, <1>3 DEF RequestTyped, NoRequest
<1>5. OpOf(record) = OpOf(req[r])
  BY <1>4 DEF OpOf
<1>6. Ops' = [Ops EXCEPT ![r] = OpOf(req[r])]
  <2>1. req' = [req EXCEPT ![r] = record]
    BY <1>1, <1>2
  <2>2. QED
    BY <1>5, <2>1, OpsOne
<1>7. Ops' = Ops
  BY <1>6 DEF Ops
<1>8. QED
  BY <1>7 DEF Serial!serialVars, Ops

\* The write is where the call takes effect, on the state it has read.
LEMMA WriteImplements ==
  ASSUME IInv, NEW r \in Requests, Write(r)
  PROVE  Serial!SerialNext
<1>1. PICK answer \in {"ok", "error"} : Ends(r, answer)
  BY DEF Write
<1>2. PICK record : record = [NoRequest EXCEPT !.answer = answer]
  OBVIOUS
<1>3. PICK outcome \in {"ok", "unknown"} : outcome = IF answer = "ok" THEN "ok" ELSE "unknown"
  OBVIOUS
<1>4. /\ record.at = "done" /\ record.answer = answer /\ record.call = Null /\ record.t = 0
      /\ record.version = 0
  BY <1>2 DEF NoRequest
<1>5. /\ store.version \in Nat /\ ~store.deleted
      /\ store = [slot |-> store.slot, version |-> store.version, deleted |-> store.deleted]
      /\ store' = [store EXCEPT !.slot = req[r].new, !.version = @ + 1]
      /\ store.version = req[r].version /\ req[r].at = "write" /\ UNCHANGED kind
  BY DEF IInv, TypeOK, Write
<1>6. store'.version = store.version + 1 /\ store'.slot = req[r].new /\ store'.deleted = store.deleted
  BY <1>5
<1>7. /\ DOMAIN req' = Requests /\ req'[r] = record
      /\ \A x \in Requests \ {r} : req'[x] = req[x]
  BY <1>1, <1>2 DEF Ends, IInv, TypeOK
<1>8. OpOf(req[r])' = Serial!Answer(outcome)
  BY <1>3, <1>4, <1>7 DEF OpOf, Serial!Answer
<1>9. ASSUME NEW x \in Requests \ {r}
      PROVE  OpOf(req[x])' = [OpOf(req[x]) EXCEPT !.view = "stale"]
  <2>1. req'[x] = req[x] /\ req[x].version # store'.version
    BY <1>5, <1>6, <1>7 DEF IInv, TypeOK, RequestTyped
  <2>2. QED
    BY <2>1 DEF OpOf
<1>10. /\ Ops' = [x \in Requests |->
            IF x = r THEN Serial!Answer(outcome) ELSE [Ops[x] EXCEPT !.view = "stale"]]
       /\ Ops[r] = OpOf(req[r])
  BY <1>8, <1>9 DEF Ops
<1>11. /\ OpOf(req[r]).outcome = "open" /\ OpOf(req[r]).view = "current"
       /\ OpOf(req[r]).call = req[r].call /\ OpOf(req[r]).t = req[r].t
       /\ OpOf(req[r]).fresh = req[r].version
  BY <1>5 DEF OpOf
<1>12. Serial!TakesEffect(r, outcome)
  BY <1>5, <1>6, <1>10, <1>11 DEF Serial!TakesEffect, Ops
<1>13. RequestOK(req[r])
  BY DEF IInv
<1>14. CASE req[r].call.do = "replace"
  <2>1. store'.slot = req[r].call.args[1]
    BY <1>5, <1>6, <1>13, <1>14 DEF RequestOK
  <2>2. Serial!Replace(r, outcome)
    BY <1>10, <1>11, <1>12, <1>14, <2>1 DEF Serial!Replace, Ops
  <2>3. QED
    BY <2>2 DEF Serial!SerialNext
<1>15. CASE req[r].call.do # "replace"
  <2>1. PICK patch :
          patch = RouteAction(kind, store.slot, req[r].call, req[r].t, req[r].version)
    OBVIOUS
  <2>2. patch # Refused /\ store'.slot = ApplyPatches(store.slot, patch)
    BY <1>5, <1>6, <1>13, <1>15, <2>1 DEF RequestOK
  <2>3. Serial!Act(r, outcome)
    BY <1>10, <1>11, <1>12, <1>15, <2>1, <2>2 DEF Serial!Act, Ops
  <2>4. QED
    BY <2>3 DEF Serial!SerialNext
<1>16. QED
  BY <1>14, <1>15

LEMMA StepImplements == IInv /\ [Next]_vars => [Serial!SerialNext]_(Serial!serialVars)
<1> SUFFICES ASSUME IInv, [Next]_vars PROVE Serial!SerialNext \/ UNCHANGED Serial!serialVars
  OBVIOUS
<1>1. CASE UNCHANGED vars \/ ClockTick
  BY <1>1 DEF vars, ClockTick, Serial!serialVars, OpOf
<1>2. CASE DeleteApp
  <2>1. /\ store' = [store EXCEPT !.deleted = TRUE] /\ UNCHANGED <<kind, req>>
        /\ store = [slot |-> store.slot, version |-> store.version, deleted |-> store.deleted]
    BY <1>2 DEF DeleteApp, IInv, TypeOK
  <2>2. store'.deleted = TRUE /\ store'.slot = store.slot /\ store'.version = store.version
    BY <2>1
  <2>3. Serial!DeleteApp
    BY <2>1, <2>2 DEF Serial!DeleteApp, OpOf
  <2>4. QED
    BY <2>3 DEF Serial!SerialNext
<1>3. ASSUME NEW r \in Requests, NEW call \in Calls(kind, store.slot), Invoke(r, call)
      PROVE  Serial!SerialNext
  BY <1>3, PrepareImplements DEF Invoke, MayBegin
<1>4. ASSUME NEW r \in Requests, Step(r) \/ Fail(r)
      PROVE  Serial!SerialNext \/ UNCHANGED Serial!serialVars
  <2>1. CASE Check(r)
    <3>1. CASE store.deleted \/ ~Valid(kind, req[r].new)
      BY <2>1, <3>1, GivesUp DEF Check
    <3>2. CASE ~(store.deleted \/ ~Valid(kind, req[r].new))
      <4>1. req' = [req EXCEPT ![r].at = "write"] /\ req[r].at = "check" /\ UNCHANGED <<kind, store>>
        BY <2>1, <3>2 DEF Check
      <4>2. QED
        BY <4>1, MoveImplements
    <3>3. QED
      BY <3>1, <3>2
  <2>2. CASE Conflict(r)
    <3>1. CASE Ends(r, "error") \/ Ends(r, "rejected")
      BY <2>2, <3>1, GivesUp DEF Conflict
    <3>2. CASE req' = [req EXCEPT ![r].at = "reread"]
      <4>1. req[r].at = "write" /\ UNCHANGED <<kind, store>>
        BY <2>2 DEF Conflict
      <4>2. QED
        BY <3>2, <4>1, MoveImplements
    <3>3. QED
      BY <2>2, <3>1, <3>2 DEF Conflict
  <2>3. CASE WriteToDeleted(r) \/ Fail(r)
    BY <2>3, GivesUp DEF WriteToDeleted, Fail
  <2>4. CASE Retry(r)
    BY <2>4, PrepareImplements DEF Retry
  <2>5. QED
    BY <1>4, <2>1, <2>2, <2>3, <2>4, WriteImplements DEF Step
<1>5. QED
  BY <1>1, <1>2, <1>3, <1>4, ReplaceImplements DEF Next

\* Every conflict, retry, failure and lost answer of AppsServiceImpl.invoke and
\* updateState (apps/api.ts) is a step of an app whose calls take effect one at
\* a time.
THEOREM AppsImplementSerial == Spec => ImplementsSerial
<1>1. Init => Serial!SerialInit
  <2>1. ASSUME Init PROVE Serial!SerialInit
    <3>1. OpOf(NoRequest) = Serial!Answer("none")
      BY DEF OpOf, NoRequest, Serial!Answer
    <3>2. \A r \in Requests : req[r] = NoRequest
      BY <2>1 DEF Init
    <3>3. /\ kind \in Kinds /\ store.slot = Initial(kind) /\ store.deleted = FALSE
      BY <2>1 DEF Init
    <3>4. QED
      BY <3>1, <3>2, <3>3 DEF Serial!SerialInit
  <2>2. QED
    BY <2>1
<1>2. QED
  BY <1>1, StepImplements, Invariance, PTL DEF Spec, ImplementsSerial, Serial!SerialSpec

-------------------------------------------------------------------------------
(***************************************************************************)
(* The timer, whatever the seconds, the durations and the callers.  Here   *)
(* it matters what the actions compute and what validate refuses: without  *)
(* it an action on an absent slot would leave a timer without its fields.  *)
(***************************************************************************)
LEMMA Divided ==
  ASSUME NEW x \in Int
  PROVE  x \div PerSecond \in Int /\ (x \div PerSecond) * PerSecond <= x
BY PerSecondAssumption

LEMMA TimerCallNames ==
  ASSUME NEW slot, NEW call \in Calls("timer", slot)
  PROVE  call.do \in TimerCalls
<1>1. \/ call \in Each({"start"}, {<<Null>>, <<1>>, <<0>>})
      \/ call \in Each({"setDuration"}, {<<1>>, <<0>>})
      \/ call \in Each({"pause", "resume", "stop", "complete", "reset"}, {<<>>})
  BY DEF Calls, Setters
<1>2. QED
  BY <1>1 DEF Each, Call, TimerCalls

\* What a patch leaves of a slot that is there.
LEMMA Unpatched ==
  ASSUME NEW slot, NEW patch, DOMAIN patch = {}
  PROVE  ApplyPatches(slot, patch) = slot
BY Zenon DEF ApplyPatches

LEMMA Patched ==
  ASSUME NEW slot, slot # Null, NEW patch, NEW f \in DOMAIN patch
  PROVE  ApplyPatches(slot, patch)[f] = patch[f]
<1>1. ApplyPatches(slot, patch) = [g \in DOMAIN patch \cup DOMAIN slot |->
               IF g \in DOMAIN patch THEN patch[g] ELSE slot[g]]
  BY Zenon DEF ApplyPatches
<1>2. QED
  BY <1>1

LEMMA PatchedDomain ==
  ASSUME NEW slot, slot # Null, NEW patch, DOMAIN patch # {}
  PROVE  DOMAIN ApplyPatches(slot, patch) = DOMAIN patch \cup DOMAIN slot
<1>1. ApplyPatches(slot, patch) = [g \in DOMAIN patch \cup DOMAIN slot |->
               IF g \in DOMAIN patch THEN patch[g] ELSE slot[g]]
  BY Zenon DEF ApplyPatches
<1>2. QED
  BY <1>1

LEMMA Kept ==
  ASSUME NEW slot, slot # Null, NEW patch, DOMAIN patch # {}, NEW f \in DOMAIN slot \ DOMAIN patch
  PROVE  ApplyPatches(slot, patch)[f] = slot[f]
<1>1. ApplyPatches(slot, patch) = [g \in DOMAIN patch \cup DOMAIN slot |->
               IF g \in DOMAIN patch THEN patch[g] ELSE slot[g]]
  BY Zenon DEF ApplyPatches
<1>2. QED
  BY <1>1

\* The history goes on as it is, or starts anew.
LEMMA HistoryKept ==
  ASSUME NEW old, NEW new, NEW call, NEW t, new # Null, old # Null, new.status = old.status
  PROVE  RanAfter(old, new, call, t) = ran
BY Zenon DEF RanAfter

LEMMA HistoryDropped ==
  ASSUME NEW old, NEW new, NEW call, NEW t, new = Null
  PROVE  RanAfter(old, new, call, t) = NotRun
BY Zenon DEF RanAfter

LEMMA HistoryAtRest ==
  ASSUME NEW old, NEW new, NEW call, NEW t, new # Null,
         new.status # "paused", new.status # "running"
  PROVE  RanAfter(old, new, call, t) \in {ran, NotRun}
BY Zenon DEF RanAfter

\* A pause: the difference of two readings of the clock, in whole seconds.
LEMMA PausedWithin ==
  ASSUME NEW t \in Nat, NEW started \in Int, NEW limit \in Nat, t - started <= limit
  PROVE  /\ Most(0, (t - started) \div PerSecond) \in Nat
         /\ Most(0, (t - started) \div PerSecond) * PerSecond <= limit
<1>1. PICK seconds : seconds = (t - started) \div PerSecond
  OBVIOUS
<1>2. seconds \in Int /\ seconds * PerSecond <= t - started
  BY <1>1, Divided
<1>3. CASE seconds > 0
  <2>1. Most(0, seconds) = seconds /\ seconds * PerSecond <= limit
    BY <1>2, <1>3, PerSecondAssumption DEF Most
  <2>2. QED
    BY <1>1, <1>2, <1>3, <2>1
<1>4. CASE ~(seconds > 0)
  <2>1. Most(0, seconds) = 0 /\ 0 * PerSecond = 0
    BY <1>2, <1>4, PerSecondAssumption DEF Most
  <2>2. QED
    BY <1>1, <2>1
<1>5. QED
  BY <1>3, <1>4

\* An action on a timer that is there.
LEMMA TimerAction ==
  ASSUME NEW slot, slot # Null, TimerOK(slot, ran), ran.total \in Nat, ran.since \in Nat,
         NEW t \in Nat, ran.since <= t, NEW call, call.do \in TimerCalls,
         NEW patch, patch = Timer(slot, call, t), patch # Refused,
         NEW new, new = ApplyPatches(slot, patch), new # Null,
         NEW after, after = RanAfter(slot, new, call, t)
  PROVE  TimerOK(new, after) /\ after.total \in Nat /\ after.since \in 0..t
<1> DEFINE Fields == {"duration", "status", "started", "paused"}
<1>1. /\ Fields \subseteq DOMAIN slot
      /\ slot.status = "paused" => slot.paused \in Nat /\ slot.paused * PerSecond <= ran.total
      /\ slot.status = "running" => slot.started \in Int /\ ran.since - ran.total <= slot.started
  BY DEF TimerOK
<1>2. NotRun.total = 0 /\ NotRun.since = 0 /\ ran.since \in 0..t
  BY DEF NotRun
<1>3. CASE patch = NoPatch
  <2>1. new = slot
    BY <1>3, Unpatched DEF NoPatch
  <2>2. after = ran
    BY <2>1, HistoryKept
  <2>3. QED
    BY <1>2, <2>1, <2>2
<1>4. CASE call.do = "start" /\ patch # NoPatch
  <2>1. /\ patch.status = "running" /\ patch.started = t /\ DOMAIN patch = Fields
        /\ slot.status # "running"
    BY <1>4 DEF Timer, StartTimer
  <2>2. new.status = "running" /\ new.started = t /\ Fields \subseteq DOMAIN new
    <3>1. "status" \in DOMAIN patch /\ "started" \in DOMAIN patch /\ DOMAIN patch # {}
      BY <2>1
    <3>2. DOMAIN new = DOMAIN patch \cup DOMAIN slot
      BY <3>1, PatchedDomain
    <3>3. /\ new.status = patch.status
          /\ new.started = patch.started
      BY <3>1, Patched
    <3>4. QED
      BY <2>1, <3>2, <3>3
  <2>3. after.total = 0 /\ after.since = t
    BY <1>4, <2>1, <2>2 DEF RanAfter
  <2>4. QED
    BY <2>2, <2>3 DEF TimerOK
<1>5. CASE call.do = "pause" /\ patch # NoPatch
  <2>1. /\ slot.status = "running" /\ patch.status = "paused"
        /\ patch.paused = Most(0, (t - slot.started) \div PerSecond)
        /\ DOMAIN patch = {"status", "paused", "started"}
    BY <1>5 DEF Timer, PauseTimer
  <2>2. /\ new.status = "paused" /\ Fields \subseteq DOMAIN new
        /\ new.paused = Most(0, (t - slot.started) \div PerSecond)
    <3>1. "status" \in DOMAIN patch /\ "paused" \in DOMAIN patch /\ DOMAIN patch # {}
      BY <2>1
    <3>2. DOMAIN new = DOMAIN patch \cup DOMAIN slot
      BY <3>1, PatchedDomain
    <3>3. /\ new.status = patch.status
          /\ new.paused = patch.paused
      BY <3>1, Patched
    <3>4. QED
      BY <1>1, <2>1, <3>2, <3>3
  <2>3. after.total = ran.total + t - ran.since /\ after.since = 0
    BY <2>1, <2>2 DEF RanAfter
  <2>4. slot.started \in Int /\ after.total \in Nat /\ t - slot.started <= after.total
    BY <1>1, <2>1, <2>3
  <2>5. new.paused \in Nat /\ new.paused * PerSecond <= after.total
    BY <2>2, <2>4, PausedWithin
  <2>6. QED
    BY <2>2, <2>3, <2>4, <2>5 DEF TimerOK
<1>6. CASE call.do = "resume" /\ patch # NoPatch
  <2>1. /\ slot.status = "paused" /\ patch.status = "running"
        /\ patch.started = t - slot.paused * PerSecond
        /\ DOMAIN patch = {"status", "paused", "started"}
    BY <1>6 DEF Timer, ResumeTimer
  <2>2. /\ new.status = "running" /\ Fields \subseteq DOMAIN new
        /\ new.started = t - slot.paused * PerSecond
    <3>1. "status" \in DOMAIN patch /\ "started" \in DOMAIN patch /\ DOMAIN patch # {}
      BY <2>1
    <3>2. DOMAIN new = DOMAIN patch \cup DOMAIN slot
      BY <3>1, PatchedDomain
    <3>3. /\ new.status = patch.status
          /\ new.started = patch.started
      BY <3>1, Patched
    <3>4. QED
      BY <1>1, <2>1, <3>2, <3>3
  <2>3. after.total = ran.total /\ after.since = t
    BY <1>6, <2>1, <2>2 DEF RanAfter
  <2>4. slot.paused * PerSecond \in Int /\ slot.paused * PerSecond <= ran.total
    BY <1>1, <2>1, PerSecondAssumption
  <2>5. new.started \in Int /\ after.since - after.total <= new.started
    BY <2>2, <2>3, <2>4
  <2>6. QED
    BY <2>2, <2>3, <2>5 DEF TimerOK
<1>7. CASE /\ call.do \in {"stop", "complete", "reset"}
           /\ patch # NoPatch
  <2>1. patch.status \in {"idle", "done"} /\ {"status", "started", "paused"} \subseteq DOMAIN patch
    BY <1>7 DEF Timer, StopTimer, CompleteTimer, ResetTimer
  <2>2. new.status \in {"idle", "done"} /\ Fields \subseteq DOMAIN new
    <3>1. "status" \in DOMAIN patch /\ DOMAIN patch # {}
      BY <2>1
    <3>2. DOMAIN new = DOMAIN patch \cup DOMAIN slot
      BY <3>1, PatchedDomain
    <3>3. new.status = patch.status
      BY <3>1, Patched
    <3>4. QED
      BY <1>1, <2>1, <3>2, <3>3
  <2>3. after \in {ran, NotRun}
    BY <2>2, HistoryAtRest
  <2>4. QED
    BY <1>2, <2>2, <2>3 DEF TimerOK
<1>8. CASE call.do = "setDuration" /\ patch # NoPatch
  <2>1. DOMAIN patch = {"duration"}
    BY <1>8 DEF Timer, SetDuration
  <2>2. /\ Fields \subseteq DOMAIN new /\ new.status = slot.status
        /\ new.started = slot.started /\ new.paused = slot.paused
    <3>1. /\ DOMAIN patch # {}
          /\ {"status", "started", "paused"} \subseteq DOMAIN slot \ DOMAIN patch
      BY <1>1, <2>1
    <3>2. DOMAIN new = DOMAIN patch \cup DOMAIN slot
      BY <3>1, PatchedDomain
    <3>3. /\ new.status = slot.status
          /\ new.started = slot.started
          /\ new.paused = slot.paused
      BY <3>1, Kept
    <3>4. QED
      BY <1>1, <3>2, <3>3
  <2>3. after = ran
    BY <2>2, HistoryKept
  <2>4. QED
    BY <1>1, <1>2, <2>2, <2>3 DEF TimerOK
<1>9. QED
  BY <1>3, <1>4, <1>5, <1>6, <1>7, <1>8 DEF TimerCalls

\* An action on a timer that is not there: only a start leaves one that
\* validate accepts.
LEMMA TimerAbsent ==
  ASSUME NEW t \in Nat, NEW call, call.do \in TimerCalls,
         NEW patch, patch = Timer(Initial("timer"), call, t), patch # Refused,
         NEW new, new = ApplyPatches(Null, patch), new # Null, Valid("timer", new),
         NEW after, after = RanAfter(Null, new, call, t)
  PROVE  TimerOK(new, after) /\ after.total \in Nat /\ after.since \in 0..t
<1> DEFINE s == Initial("timer")
<1>1. /\ s.status = "idle"
      /\ DOMAIN s = {"duration", "status", "started", "paused", "lastRun"}
  BY DEF Initial, Setters
<1>2. "duration" \in DOMAIN new /\ "status" \in DOMAIN new
  BY DEF Valid, ValidTimer, Has, Setters
<1>3. DOMAIN patch # {} /\ new = patch
  BY DEF ApplyPatches
<1>4. call.do \notin {"pause", "resume", "stop"}
  BY <1>1, <1>3 DEF Timer, PauseTimer, ResumeTimer, StopTimer, NoPatch
<1>5. call.do \notin {"complete", "reset", "setDuration"}
  BY <1>1, <1>2, <1>3 DEF Timer, CompleteTimer, ResetTimer, SetDuration, NoPatch
<1>6. call.do = "start"
  BY <1>4, <1>5 DEF TimerCalls
<1>7. /\ DOMAIN new = {"duration", "status", "started", "paused"}
      /\ new.status = "running" /\ new.started = t
  BY <1>3, <1>6 DEF Timer, StartTimer
<1>8. after.total = 0 /\ after.since = t
  BY <1>6, <1>7 DEF RanAfter
<1>9. QED
  BY <1>7, <1>8 DEF TimerOK

\* A replacement: no timer, or one that does not run.
LEMMA TimerReplaced ==
  ASSUME NEW slot, ran.total \in Nat, NEW t \in Nat, ran.since \in 0..t, NEW call,
         NEW new \in {Null, Initial("timer")},
         NEW after, after = RanAfter(slot, new, call, t)
  PROVE  TimerOK(new, after) /\ after.total \in Nat /\ after.since \in 0..t
<1>1. NotRun.total = 0 /\ NotRun.since = 0
  BY DEF NotRun
<1>2. CASE new = Null
  <2>1. after = NotRun
    BY <1>2, HistoryDropped
  <2>2. QED
    BY <1>1, <1>2, <2>1 DEF TimerOK
<1>3. CASE new # Null
  <2>1. /\ new.status = "idle"
        /\ DOMAIN new = {"duration", "status", "started", "paused", "lastRun"}
    BY <1>3 DEF Initial, Setters
  <2>2. after \in {ran, NotRun}
    BY <1>3, <2>1, HistoryAtRest
  <2>3. QED
    BY <1>1, <2>1, <2>2 DEF TimerOK
<1>4. QED
  BY <1>2, <1>3

LEMMA InitTimer == Init => TimerInv
<1> SUFFICES ASSUME Init, kind = "timer"
             PROVE  /\ TimerOK(store.slot, ran)
                    /\ ran.total \in Nat /\ ran.since \in 0..clock
                    /\ \A r \in Requests : TimerCallOK(req[r])
  BY InitInv DEF TimerInv
<1>1. /\ store.slot = Initial("timer") /\ clock = 0 /\ ran = NotRun
      /\ \A r \in Requests : req[r] = NoRequest
  BY DEF Init
<1>2. NoRequest.at = "done" /\ NotRun.total = 0 /\ NotRun.since = 0
  BY DEF NoRequest, NotRun
<1>3. /\ store.slot.status = "idle"
      /\ DOMAIN store.slot = {"duration", "status", "started", "paused", "lastRun"}
  BY <1>1 DEF Initial, Setters
<1>4. QED
  BY <1>1, <1>2, <1>3 DEF TimerOK, TimerCallOK

\* A step of one call that leaves the store, the clock and the history alone.
LEMMA TimerCallStep ==
  ASSUME TimerInv, kind = "timer", IInv', UNCHANGED <<kind, store, clock, ran>>,
         NEW r \in Requests, NEW record, req' = [req EXCEPT ![r] = record], TimerCallOK(record)
  PROVE  TimerInv'
<1>1. /\ req'[r] = record
      /\ \A x \in Requests \ {r} : req'[x] = req[x]
  BY DEF TimerInv, IInv, TypeOK
<1>2. \A x \in Requests : TimerCallOK(req'[x])
  BY <1>1 DEF TimerInv
<1>3. \A x \in Requests : TimerCallOK(req[x])'
  BY <1>2 DEF TimerCallOK
<1>4. TimerOK(store.slot, ran)'
  BY DEF TimerInv
<1>5. QED
  BY <1>3, <1>4 DEF TimerInv

LEMMA TimerEnds ==
  ASSUME TimerInv, kind = "timer", IInv', UNCHANGED <<kind, store, clock, ran>>,
         NEW r \in Requests, NEW answer, Ends(r, answer)
  PROVE  TimerInv'
<1>1. PICK record : record = [NoRequest EXCEPT !.answer = answer]
  OBVIOUS
<1>2. record.at = "done"
  BY <1>1 DEF NoRequest
<1>3. req' = [req EXCEPT ![r] = record] /\ TimerCallOK(record)
  BY <1>1, <1>2 DEF Ends, TimerCallOK
<1>4. QED
  BY <1>3, TimerCallStep

LEMMA TimerPrepare ==
  ASSUME TimerInv, kind = "timer", IInv', UNCHANGED <<kind, store, clock, ran>>,
         NEW r \in Requests, NEW call, call.do \in TimerCalls, NEW retried,
         Prepare(r, call, retried)
  PROVE  TimerInv'
<1>1. PICK patch : patch = RouteAction(kind, store.slot, call, clock, store.version)
  OBVIOUS
<1>2. CASE store.deleted \/ patch = Refused
  BY <1>1, <1>2, TimerEnds DEF Prepare
<1>3. CASE ~(store.deleted \/ patch = Refused)
  <2>1. PICK record : record =
          [at |-> "check", call |-> call, version |-> store.version,
           new |-> ApplyPatches(store.slot, patch), t |-> clock,
           retried |-> retried, answer |-> "none"]
    OBVIOUS
  <2>2. req' = [req EXCEPT ![r] = record]
    BY <1>1, <1>3, <2>1 DEF Prepare
  <2>3. record.at = "check" /\ record.call = call /\ record.t = clock
    BY <2>1
  <2>4. ran.since <= clock
    BY DEF TimerInv
  <2>5. TimerCallOK(record)
    BY <2>3, <2>4 DEF TimerCallOK, TimerCalls
  <2>6. QED
    BY <2>2, <2>5, TimerCallStep
<1>4. QED
  BY <1>2, <1>3

\* A step that changes nothing but where the call stands.
LEMMA TimerMove ==
  ASSUME TimerInv, kind = "timer", IInv', UNCHANGED <<kind, store, clock, ran>>,
         NEW r \in Requests, NEW at \in {"write", "reread"}, req[r].at \in {"check", "write"},
         at = "write" => Valid("timer", req[r].new), req' = [req EXCEPT ![r].at = at]
  PROVE  TimerInv'
<1>1. PICK record : record = [req[r] EXCEPT !.at = at]
  OBVIOUS
<1>2. RequestTyped(req[r]) /\ TimerCallOK(req[r]) /\ r \in DOMAIN req
  BY DEF TimerInv, IInv, TypeOK
<1>3. /\ record.at = at /\ record.call = req[r].call /\ record.version = req[r].version
      /\ record.new = req[r].new /\ record.t = req[r].t
  BY <1>1, <1>2 DEF RequestTyped, NoRequest
<1>4. TimerCallOK(record)
  BY <1>2, <1>3 DEF TimerCallOK
<1>5. req' = [req EXCEPT ![r] = record]
  BY <1>1, <1>2
<1>6. QED
  BY <1>4, <1>5, TimerCallStep

\* The write: the action was computed on the slot it now replaces.
LEMMA TimerWrite ==
  ASSUME TimerInv, kind = "timer", IInv', NEW r \in Requests, Write(r)
  PROVE  TimerInv'
<1>1. PICK answer : Ends(r, answer)
  BY DEF Write
<1>2. PICK record : record = [NoRequest EXCEPT !.answer = answer]
  OBVIOUS
<1>3. record.at = "done"
  BY <1>2 DEF NoRequest
<1>4. /\ store.version \in Nat /\ clock \in Nat
      /\ store = [slot |-> store.slot, version |-> store.version, deleted |-> store.deleted]
      /\ store' = [store EXCEPT !.slot = req[r].new, !.version = @ + 1]
      /\ store.version = req[r].version /\ req[r].at = "write" /\ UNCHANGED <<kind, clock>>
      /\ ran' = RanAfter(store.slot, req[r].new, req[r].call, req[r].t)
  BY DEF TimerInv, IInv, TypeOK, Write
<1>5. store'.version = store.version + 1 /\ store'.slot = req[r].new
  BY <1>4
<1>6. /\ req'[r] = record
      /\ \A x \in Requests \ {r} : req'[x] = req[x]
  BY <1>1, <1>2 DEF Ends, TimerInv, IInv, TypeOK
<1>7. ASSUME NEW x \in Requests
      PROVE  TimerCallOK(req[x])'
  <2>1. CASE x = r
    BY <1>3, <1>6, <2>1 DEF TimerCallOK
  <2>2. CASE x # r
    <3>1. RequestTyped(req[x]) /\ TimerCallOK(req[x]) /\ req'[x] = req[x]
      BY <1>6, <2>2 DEF TimerInv, IInv, TypeOK
    <3>2. req[x].version # store'.version
      BY <1>4, <1>5, <3>1 DEF RequestTyped
    <3>3. QED
      BY <3>1, <3>2 DEF TimerCallOK
  <2>3. QED
    BY <2>1, <2>2
<1>8. /\ TimerOK(store.slot, ran) /\ ran.total \in Nat /\ ran.since \in Nat
      /\ TimerCallOK(req[r]) /\ RequestOK(req[r]) /\ RequestTyped(req[r])
  BY <1>4 DEF TimerInv, IInv, TypeOK
<1>9. /\ req[r].t \in Nat /\ req[r].t <= clock /\ ran.since <= req[r].t
      /\ Valid("timer", req[r].new)
  BY <1>4, <1>8 DEF RequestTyped, TimerCallOK
<1>10. PICK new : new = req[r].new
  OBVIOUS
<1>11. PICK after : after = ran'
  OBVIOUS
<1>12. TimerOK(new, after) /\ after.total \in Nat /\ after.since \in 0..req[r].t
  <2>1. CASE new = Null
    BY <1>4, <1>8, <1>9, <1>10, <1>11, <2>1, TimerReplaced
  <2>2. CASE req[r].call.do = "replace"
    <3>1. new \in {Null, Initial("timer")}
      BY <1>4, <1>8, <1>10, <2>2 DEF RequestOK, TimerCallOK
    <3>2. QED
      BY <1>4, <1>8, <1>9, <1>10, <1>11, <3>1, TimerReplaced
  <2>3. CASE req[r].call.do # "replace" /\ new # Null
    <3>1. PICK patch :
            patch = RouteAction(kind, store.slot, req[r].call, req[r].t, req[r].version)
      OBVIOUS
    <3>2. patch # Refused /\ new = ApplyPatches(store.slot, patch) /\ req[r].call.do \in TimerCalls
      BY <1>4, <1>8, <1>10, <2>3, <3>1 DEF RequestOK, TimerCallOK
    <3>3. patch = Timer(IF store.slot = Null THEN Initial("timer") ELSE store.slot,
                        req[r].call, req[r].t)
      BY <3>1 DEF RouteAction, Setters
    <3>4. CASE store.slot = Null
      BY <1>4, <1>9, <1>10, <1>11, <2>3, <3>2, <3>3, <3>4, TimerAbsent
    <3>5. CASE store.slot # Null
      BY <1>4, <1>8, <1>9, <1>10, <1>11, <2>3, <3>2, <3>3, <3>5, TimerAction
    <3>6. QED
      BY <3>4, <3>5
  <2>4. QED
    BY <2>1, <2>2, <2>3
<1>13. TimerOK(store.slot, ran)'
  BY <1>5, <1>10, <1>11, <1>12 DEF TimerOK
<1>14. ran'.total \in Nat /\ ran'.since \in 0..clock'
  BY <1>4, <1>9, <1>11, <1>12
<1>15. QED
  BY <1>7, <1>13, <1>14 DEF TimerInv

LEMMA StepTimer == TimerInv /\ [Next]_vars => TimerInv'
<1> SUFFICES ASSUME TimerInv, [Next]_vars PROVE TimerInv'
  OBVIOUS
<1>1. IInv' /\ kind' = kind
  <2>1. IInv'
    BY StepInv DEF TimerInv
  <2>2. kind' = kind
    BY DEF Next, vars, ClockTick, DeleteApp, Invoke, Replace, Step, Check, Write, Conflict,
           WriteToDeleted, Retry, Fail
  <2>3. QED
    BY <2>1, <2>2
<1>2. CASE kind # "timer"
  BY <1>1, <1>2 DEF TimerInv
<1>3. CASE kind = "timer"
  <2>1. CASE UNCHANGED vars
    <3>1. \A r \in Requests : TimerCallOK(req[r])'
      BY <1>3, <2>1 DEF vars, TimerInv, TimerCallOK
    <3>2. QED
      BY <1>1, <1>3, <2>1, <3>1 DEF vars, TimerInv
  <2>2. CASE ClockTick
    <3>1. clock' = clock + 1 /\ clock \in Nat /\ UNCHANGED <<store, req, ran>>
      BY <2>2 DEF ClockTick, TimerInv, IInv, TypeOK
    <3>2. \A r \in Requests : TimerCallOK(req[r])'
      BY <1>3, <3>1 DEF TimerInv, TimerCallOK
    <3>3. ran'.since \in 0..clock'
      BY <1>3, <3>1 DEF TimerInv
    <3>4. QED
      BY <1>1, <1>3, <3>1, <3>2, <3>3 DEF TimerInv
  <2>3. CASE DeleteApp
    <3>1. /\ store' = [store EXCEPT !.deleted = TRUE] /\ UNCHANGED <<req, clock, ran>>
          /\ store = [slot |-> store.slot, version |-> store.version, deleted |-> store.deleted]
      BY <2>3 DEF DeleteApp, TimerInv, IInv, TypeOK
    <3>2. store'.slot = store.slot /\ store'.version = store.version
      BY <3>1
    <3>3. \A r \in Requests : TimerCallOK(req[r])'
      BY <1>3, <3>1, <3>2 DEF TimerInv, TimerCallOK
    <3>4. QED
      BY <1>1, <1>3, <3>1, <3>2, <3>3 DEF TimerInv
  <2>4. ASSUME NEW r \in Requests, NEW call \in Calls(kind, store.slot), Invoke(r, call)
        PROVE  TimerInv'
    <3>1. call.do \in TimerCalls
      BY <1>3, <2>4, TimerCallNames
    <3>2. QED
      BY <1>1, <1>3, <2>4, <3>1, TimerPrepare DEF Invoke
  <2>5. ASSUME NEW r \in Requests, NEW new \in {Null, Initial(kind)}, Replace(r, new)
        PROVE  TimerInv'
    <3>1. PICK record : record = [NoRequest EXCEPT
             !.at = "check", !.call = Call("replace", <<new>>), !.version = store.version,
             !.new = new, !.t = clock]
      OBVIOUS
    <3>2. req' = [req EXCEPT ![r] = record] /\ UNCHANGED <<kind, store, clock, ran>>
      BY <2>5, <3>1 DEF Replace
    <3>3. /\ record.at = "check" /\ record.call.do = "replace" /\ record.call.args[1] = new
          /\ record.t = clock
      BY <3>1 DEF NoRequest, Call
    <3>4. new \in {Null, Initial("timer")} /\ ran.since <= clock
      BY <1>3 DEF TimerInv
    <3>5. TimerCallOK(record)
      BY <3>3, <3>4 DEF TimerCallOK
    <3>6. QED
      BY <1>1, <1>3, <3>2, <3>5, TimerCallStep
  <2>6. ASSUME NEW r \in Requests, Step(r) \/ Fail(r)
        PROVE  TimerInv'
    <3>1. CASE Check(r)
      <4>1. CASE store.deleted \/ ~Valid(kind, req[r].new)
        BY <1>1, <1>3, <3>1, <4>1, TimerEnds DEF Check
      <4>2. CASE ~(store.deleted \/ ~Valid(kind, req[r].new))
        <5>1. /\ req' = [req EXCEPT ![r].at = "write"] /\ req[r].at = "check"
              /\ Valid("timer", req[r].new) /\ UNCHANGED <<kind, store, clock, ran>>
          BY <1>3, <3>1, <4>2 DEF Check
        <5>2. QED
          BY <1>1, <1>3, <5>1, TimerMove
      <4>3. QED
        BY <4>1, <4>2
    <3>2. CASE Conflict(r)
      <4>1. CASE Ends(r, "error") \/ Ends(r, "rejected")
        BY <1>1, <1>3, <3>2, <4>1, TimerEnds DEF Conflict
      <4>2. CASE req' = [req EXCEPT ![r].at = "reread"]
        <5>1. req[r].at = "write" /\ UNCHANGED <<kind, store, clock, ran>>
          BY <3>2 DEF Conflict
        <5>2. QED
          BY <1>1, <1>3, <4>2, <5>1, TimerMove
      <4>3. QED
        BY <3>2, <4>1, <4>2 DEF Conflict
    <3>3. CASE WriteToDeleted(r) \/ Fail(r)
      BY <1>1, <1>3, <3>3, TimerEnds DEF WriteToDeleted, Fail
    <3>4. CASE Retry(r)
      <4>1. req[r].call.do \in TimerCalls
        BY <1>3, <3>4 DEF Retry, TimerInv, TimerCallOK, IInv, RequestOK
      <4>2. QED
        BY <1>1, <1>3, <3>4, <4>1, TimerPrepare DEF Retry
    <3>5. CASE Write(r)
      BY <1>1, <1>3, <3>5, TimerWrite
    <3>6. QED
      BY <2>6, <3>1, <3>2, <3>3, <3>4, <3>5 DEF Step
  <2>7. QED
    BY <2>1, <2>2, <2>3, <2>4, <2>5, <2>6 DEF Next
<1>4. QED
  BY <1>2, <1>3

\* However often a timer is paused, resumed, conflicted with and retried, it
\* shows no more time than it ran (apps/blocks/timer.ts under the versioned
\* write of apps/api.ts).
THEOREM TimersNeverGain == Spec => []TimerNeverGains
<1>1. TimerInv => TimerNeverGains
  <2> SUFFICES ASSUME TimerInv, kind = "timer", store.slot # Null
               PROVE  /\ store.slot.status = "paused" => store.slot.paused * PerSecond <= ran.total
                      /\ store.slot.status = "running" =>
                           clock - store.slot.started <= ran.total + clock - ran.since
    BY DEF TimerNeverGains
  <2>1. TimerOK(store.slot, ran) /\ clock \in Nat /\ ran.total \in Nat /\ ran.since \in Nat
    BY DEF TimerInv, IInv, TypeOK
  <2>2. QED
    BY <2>1 DEF TimerOK
<1>2. QED
  BY <1>1, InitTimer, StepTimer, PTL DEF Spec

-------------------------------------------------------------------------------
(***************************************************************************)
(* Lists.  Induction over a list is the induction over the natural numbers *)
(* of a set of indices, so that it needs no operator as a parameter.       *)
(***************************************************************************)
LEMMA SetInduction ==
  ASSUME NEW S, 0 \in S, \A n \in Nat : n \in S => n + 1 \in S
  PROVE  Nat \subseteq S
<1> DEFINE Less == OpToRel(<, Nat)
           T == Nat \ S
<1>1. IsWellFoundedOn(Less, Nat)
  BY NatLessThanWellFounded
<1>2. \A m, n \in Nat : m < n => <<m, n>> \in Less
  BY DEF OpToRel
<1> HIDE DEF Less
<1>3. SUFFICES ASSUME T # {} PROVE FALSE
  OBVIOUS
<1>4. PICK x \in T : \A y \in T : <<y, x>> \notin Less
  <2>1. T \subseteq Nat
    OBVIOUS
  <2> HIDE DEF T
  <2>2. QED
    BY <1>1, <1>3, <2>1, WFMin
<1>5. x \in Nat /\ x # 0 /\ x \notin S
  BY <1>4
<1>6. x - 1 \in Nat /\ (x - 1) + 1 = x /\ x - 1 < x
  BY <1>5
<1>7. x - 1 \notin T
  BY <1>2, <1>4, <1>5, <1>6
<1>8. x - 1 \in S
  BY <1>6, <1>7
<1>9. QED
  BY <1>5, <1>6, <1>8

\* The same up to a bound.
LEMMA UpTo ==
  ASSUME NEW n \in Nat, NEW S, 0 \in S, \A m \in 0..(n - 1) : m \in S => m + 1 \in S
  PROVE  0..n \subseteq S
<1> DEFINE T == {m \in Nat : m <= n => m \in S}
<1>1. 0 \in T
  OBVIOUS
<1>2. \A m \in Nat : m \in T => m + 1 \in T
  <2> SUFFICES ASSUME NEW m \in Nat, m \in T, m + 1 <= n PROVE m + 1 \in S
    OBVIOUS
  <2>1. m <= n /\ m \in 0..(n - 1)
    OBVIOUS
  <2>2. QED
    BY <2>1
<1>3. Nat \subseteq T
  <2> HIDE DEF T
  <2>1. QED
    BY <1>1, <1>2, SetInduction
<1>4. QED
  BY <1>3

\* f is the run of a loop over 1..n that starts with a and whose body is G.
Iterates(f, n, a, G) == f[0] = a /\ \A i \in 1..n : f[i] = G[<<f[i - 1], i>>]

LEMMA Recursion ==
  ASSUME NEW n \in Nat, NEW V, NEW a \in V, NEW G \in [V \X (1..n) -> V]
  PROVE  \E f \in [0..n -> V] : Iterates(f, n, a, G)
<1> DEFINE S == {m \in Nat : m <= n => \E f \in [0..m -> V] : Iterates(f, m, a, G)}
<1>1. 0 \in S
  <2>1. [i \in 0..0 |-> a] \in [0..0 -> V] /\ [i \in 0..0 |-> a][0] = a
    OBVIOUS
  <2>2. \A i \in 1..0 : FALSE
    OBVIOUS
  <2>3. Iterates([i \in 0..0 |-> a], 0, a, G)
    BY <2>1, <2>2 DEF Iterates
  <2>4. QED
    BY <2>1, <2>3
<1>2. ASSUME NEW m \in Nat, m \in S
      PROVE  m + 1 \in S
  <2>1. SUFFICES ASSUME m + 1 <= n
                 PROVE  \E f \in [0..(m + 1) -> V] : Iterates(f, m + 1, a, G)
    OBVIOUS
  <2>2. PICK f \in [0..m -> V] : Iterates(f, m, a, G)
    <3>1. m <= n
      BY <2>1
    <3>2. QED
      BY <1>2, <3>1
  <2> DEFINE next == G[<<f[m], m + 1>>]
             g == [i \in 0..(m + 1) |-> IF i = m + 1 THEN next ELSE f[i]]
  <2>3. next \in V
    <3>1. m + 1 \in 1..n /\ f[m] \in V
      BY <2>1
    <3>2. QED
      BY <3>1
  <2>4. g \in [0..(m + 1) -> V]
    BY <2>3
  <2>5. g[0] = a
    BY <2>2 DEF Iterates
  <2>6. ASSUME NEW i \in 1..(m + 1)
        PROVE  g[i] = G[<<g[i - 1], i>>]
    <3>1. CASE i = m + 1
      <4>1. g[i - 1] = f[m] /\ g[i] = next
        BY <3>1
      <4>2. QED
        BY <3>1, <4>1
    <3>2. CASE i # m + 1
      <4>1. i \in 1..m /\ i - 1 \in 0..m /\ i - 1 # m + 1
        BY <3>2
      <4>2. g[i - 1] = f[i - 1] /\ g[i] = f[i]
        BY <3>2, <4>1
      <4>3. QED
        BY <2>2, <4>1, <4>2 DEF Iterates
    <3>3. QED
      BY <3>1, <3>2
  <2>7. Iterates(g, m + 1, a, G)
    BY <2>5, <2>6 DEF Iterates
  <2>8. QED
    BY <2>4, <2>7
<1>3. n \in S
  <2> HIDE DEF S
  <2>1. QED
    BY <1>1, <1>2, SetInduction
<1>4. QED
  BY <1>3

LEMMA FilteredIs ==
  ASSUME NEW X, NEW list \in Seq(X), NEW keep
  PROVE  \E f : /\ f[0] = <<>>
                /\ \A i \in 1..Len(list) :
                     f[i] = IF list[i] \in keep THEN Append(f[i - 1], list[i]) ELSE f[i - 1]
                /\ Filtered(list, keep) = f[Len(list)]
<1> DEFINE n == Len(list)
           F(g) == [i \in 0..n |-> IF i = 0 THEN <<>>
                      ELSE IF list[i] \in keep THEN Append(g[i - 1], list[i]) ELSE g[i - 1]]
           filtered == CHOOSE g : g = F(g)
           G == [p \in Seq(X) \X (1..n) |->
                   IF list[p[2]] \in keep THEN Append(p[1], list[p[2]]) ELSE p[1]]
<1>1. n \in Nat /\ <<>> \in Seq(X)
  OBVIOUS
<1>2. G \in [Seq(X) \X (1..n) -> Seq(X)]
  OBVIOUS
<1>3. PICK f \in [0..n -> Seq(X)] : Iterates(f, n, <<>>, G)
  <2> DEFINE V == Seq(X)
             a == <<>>
  <2>1. n \in Nat /\ a \in V /\ G \in [V \X (1..n) -> V]
    BY <1>1, <1>2
  <2> HIDE DEF V, a, G, n
  <2>2. \E f \in [0..n -> V] : Iterates(f, n, a, G)
    BY <2>1, Recursion
  <2>3. QED
    BY <2>2 DEF V, a
<1>4. f = F(f)
  <2>1. ASSUME NEW i \in 0..n, i # 0 PROVE f[i] = F(f)[i]
    <3>1. i \in 1..n /\ i - 1 \in 0..n
      BY <1>1, <2>1
    <3>2. <<f[i - 1], i>> \in Seq(X) \X (1..n)
      BY <1>3, <3>1
    <3>3. f[i] = G[<<f[i - 1], i>>]
      BY <1>3, <3>1 DEF Iterates
    <3>4. QED
      BY <2>1, <3>2, <3>3
  <2>2. f[0] = <<>>
    BY <1>3 DEF Iterates
  <2>3. \A i \in 0..n : f[i] = F(f)[i]
    BY <2>1, <2>2
  <2>4. QED
    BY <1>3, <2>3
<1>5. filtered = F(filtered)
  BY <1>4
<1>6. Filtered(list, keep) = filtered[n]
  BY DEF Filtered
<1> HIDE DEF filtered
<1>7. filtered[0] = <<>>
  BY <1>1, <1>5
<1>8. ASSUME NEW i \in 1..n
      PROVE  filtered[i] = IF list[i] \in keep THEN Append(filtered[i - 1], list[i])
                           ELSE filtered[i - 1]
  <2>1. i \in 0..n /\ i # 0
    BY <1>1
  <2>2. F(filtered)[i] = IF list[i] \in keep THEN Append(filtered[i - 1], list[i])
                         ELSE filtered[i - 1]
    BY <2>1
  <2>3. filtered[i] = F(filtered)[i]
    BY <1>5
  <2>4. QED
    BY <2>2, <2>3
<1>9. QED
  BY <1>6, <1>7, <1>8

\* s consists of elements of list, in their order; at says which.
Picks(s, list, m, at) ==
  /\ at \in [1..Len(s) -> 1..m]
  /\ \A i \in 1..Len(s) : s[i] = list[at[i]]
  /\ \A i, j \in 1..Len(s) : i < j => at[i] < at[j]

LEMMA PicksMore ==
  ASSUME NEW X, NEW s \in Seq(X), NEW list, NEW m \in Nat, NEW at, Picks(s, list, m, at)
  PROVE  /\ Picks(s, list, m + 1, at)
         /\ \E more : Picks(Append(s, list[m + 1]), list, m + 1, more)
<1> DEFINE n == Len(s)
           t == Append(s, list[m + 1])
           more == [i \in 1..(n + 1) |-> IF i = n + 1 THEN m + 1 ELSE at[i]]
<1>1. n \in Nat /\ Len(t) = n + 1 /\ t[n + 1] = list[m + 1] /\ \A i \in 1..n : t[i] = s[i]
  OBVIOUS
<1>2. Picks(s, list, m + 1, at)
  BY <1>1 DEF Picks
<1>3. \A i \in 1..n : at[i] \in 1..m /\ more[i] = at[i]
  BY <1>1 DEF Picks
<1>4. more[n + 1] = m + 1
  BY <1>1
<1>5. more \in [1..(n + 1) -> 1..(m + 1)]
  <2>1. ASSUME NEW i \in 1..(n + 1) PROVE more[i] \in 1..(m + 1)
    <3>1. i = n + 1 \/ i \in 1..n
      BY <1>1
    <3>2. QED
      BY <1>3, <1>4, <3>1
  <2>2. QED
    BY <2>1
<1> HIDE DEF more, t
<1>6. \A i \in 1..(n + 1) : t[i] = list[more[i]]
  BY <1>1, <1>3, <1>4 DEF Picks
<1>7. ASSUME NEW i \in 1..(n + 1), NEW j \in 1..(n + 1), i < j
      PROVE  more[i] < more[j]
  <2>1. i \in 1..n
    BY <1>1, <1>7
  <2>2. CASE j = n + 1
    BY <1>3, <1>4, <2>1, <2>2
  <2>3. CASE j # n + 1
    <3>1. j \in 1..n
      BY <1>1, <2>3
    <3>2. QED
      BY <1>3, <1>7, <2>1, <3>1 DEF Picks
  <2>4. QED
    BY <2>2, <2>3
<1>8. Picks(t, list, m + 1, more)
  BY <1>1, <1>5, <1>6, <1>7 DEF Picks
<1>9. QED
  BY <1>2, <1>8 DEF t

\* What is filtered is a subsequence.
LEMMA FilteredPicks ==
  ASSUME NEW X, NEW list \in Seq(X), NEW keep
  PROVE  /\ Filtered(list, keep) \in Seq(X)
         /\ Len(Filtered(list, keep)) <= Len(list)
         /\ \E at : Picks(Filtered(list, keep), list, Len(list), at)
<1> DEFINE n == Len(list)
<1>1. PICK f : /\ f[0] = <<>>
               /\ \A i \in 1..n :
                    f[i] = IF list[i] \in keep THEN Append(f[i - 1], list[i]) ELSE f[i - 1]
               /\ Filtered(list, keep) = f[n]
  BY FilteredIs
<1> DEFINE S == {m \in Nat : f[m] \in Seq(X) /\ Len(f[m]) <= m /\ \E at : Picks(f[m], list, m, at)}
<1>2. n \in Nat
  OBVIOUS
<1>3. 0 \in S
  <2>1. f[0] \in Seq(X) /\ Len(f[0]) = 0 /\ 1..Len(f[0]) = {}
    BY <1>1
  <2>2. Picks(f[0], list, 0, [i \in {} |-> 0])
    BY <2>1 DEF Picks
  <2>3. QED
    BY <2>1, <2>2
<1>4. ASSUME NEW m \in 0..(n - 1), m \in S
      PROVE  m + 1 \in S
  <2>1. /\ m \in Nat /\ m + 1 \in 1..n /\ (m + 1) - 1 = m
        /\ f[m] \in Seq(X) /\ Len(f[m]) <= m
    BY <1>2, <1>4
  <2>2. PICK at : Picks(f[m], list, m, at)
    BY <1>4
  <2>3. f[m + 1] = IF list[m + 1] \in keep THEN Append(f[m], list[m + 1]) ELSE f[m]
    BY <1>1, <2>1
  <2>4. list[m + 1] \in X
    BY <2>1
  <2>5. f[m + 1] \in Seq(X) /\ Len(f[m + 1]) <= m + 1
    BY <2>1, <2>3, <2>4
  <2>6. \E more : Picks(f[m + 1], list, m + 1, more)
    BY <2>1, <2>2, <2>3, PicksMore
  <2>7. QED
    BY <2>1, <2>5, <2>6
<1>5. n \in S
  <2> HIDE DEF S
  <2>1. 0..n \subseteq S
    BY <1>2, <1>3, <1>4, UpTo
  <2>2. QED
    BY <1>2, <2>1
<1>6. QED
  BY <1>1, <1>5

Ascending(s) == \A i \in 2..Len(s) : s[i - 1] < s[i]

LEMMA AscendingOrder ==
  ASSUME NEW s \in Seq(Int), Ascending(s)
  PROVE  \A i, j \in 1..Len(s) : i < j => s[i] < s[j]
<1> DEFINE n == Len(s)
           S == {m \in Nat : \A i, j \in 1..m : i < j => s[i] < s[j]}
<1>1. n \in Nat /\ \A i \in 1..n : s[i] \in Int
  OBVIOUS
<1>2. 0 \in S
  OBVIOUS
<1>3. ASSUME NEW m \in 0..(n - 1), m \in S
      PROVE  m + 1 \in S
  <2>0. m \in Nat /\ m + 1 \in 1..n
    BY <1>1, <1>3
  <2>1. ASSUME NEW i \in 1..(m + 1), NEW j \in 1..(m + 1), i < j
        PROVE  s[i] < s[j]
    <3>1. i \in 1..m /\ i \in 1..n
      BY <1>1, <2>0, <2>1
    <3>2. CASE j \in 1..m
      BY <1>3, <2>1, <3>1, <3>2
    <3>3. CASE j = m + 1
      <4>1. CASE m = i
        <5>1. j \in 2..n /\ j - 1 = i
          BY <1>1, <2>0, <3>1, <3>3, <4>1
        <5>2. QED
          BY <5>1 DEF Ascending
      <4>2. CASE m # i
        <5>1. m \in 1..m /\ i < m /\ m \in 1..n
          BY <1>1, <2>0, <3>1, <4>2
        <5>2. s[i] < s[m]
          BY <1>3, <3>1, <5>1
        <5>3. s[m] < s[m + 1]
          <6>1. m + 1 \in 2..n /\ (m + 1) - 1 = m
            BY <1>1, <2>0, <5>1
          <6>2. QED
            BY <6>1 DEF Ascending
        <5>4. s[i] \in Int /\ s[m] \in Int /\ s[m + 1] \in Int
          BY <1>1, <2>0, <3>1, <5>1
        <5>5. QED
          BY <3>3, <5>2, <5>3, <5>4
      <4>3. QED
        BY <4>1, <4>2
    <3>4. QED
      BY <2>0, <3>2, <3>3
  <2>2. QED
    BY <2>0, <2>1
<1>4. n \in S
  <2> HIDE DEF S
  <2>1. 0..n \subseteq S
    BY <1>1, <1>2, <1>3, UpTo
  <2>2. QED
    BY <1>1, <2>1
<1>5. QED
  BY <1>4

\* d lies behind the first k of the first m elements and before the others.
Splits(s, d, m, k) ==
  /\ k \in 0..m
  /\ \A i \in 1..k : s[i] < d
  /\ \A i \in (k + 1)..m : d < s[i]

\* A date that is not ticked has its place among those that are.
LEMMA PlaceOf ==
  ASSUME NEW s \in Seq(Int), Ascending(s), NEW d \in Int, d \notin ToSet(s)
  PROVE  \E k : Splits(s, d, Len(s), k)
<1> DEFINE n == Len(s)
           S == {m \in Nat : \E k : Splits(s, d, m, k)}
<1>1. n \in Nat /\ \A i \in 1..n : s[i] \in Int /\ s[i] # d
  BY DEF ToSet
<1>2. 0 \in S
  <2>1. Splits(s, d, 0, 0)
    BY DEF Splits
  <2>2. QED
    BY <2>1
<1>3. ASSUME NEW m \in 0..(n - 1), m \in S
      PROVE  m + 1 \in S
  <2>1. m \in Nat /\ m + 1 \in 1..n /\ s[m + 1] \in Int /\ s[m + 1] # d
    BY <1>1, <1>3
  <2>2. PICK k : Splits(s, d, m, k)
    BY <1>3
  <2>3. CASE d < s[m + 1]
    <3>1. \A i \in (k + 1)..(m + 1) : i \in (k + 1)..m \/ i = m + 1
      BY <2>1
    <3>2. k \in 0..(m + 1) /\ \A i \in (k + 1)..(m + 1) : d < s[i]
      BY <2>1, <2>2, <2>3, <3>1 DEF Splits
    <3>3. Splits(s, d, m + 1, k)
      BY <2>2, <3>2 DEF Splits
    <3>4. QED
      BY <2>1, <3>3
  <2>4. CASE s[m + 1] < d
    <3>1. ASSUME NEW i \in 1..(m + 1) PROVE s[i] < d
      <4>1. CASE i = m + 1
        BY <2>4, <4>1
      <4>2. CASE i # m + 1
        <5>1. i \in 1..n /\ i < m + 1
          BY <1>1, <2>1, <4>2
        <5>2. s[i] < s[m + 1] /\ s[i] \in Int
          BY <1>1, <2>1, <5>1, AscendingOrder
        <5>3. QED
          BY <2>1, <2>4, <5>2
      <4>3. QED
        BY <4>1, <4>2
    <3>2. m + 1 \in 0..(m + 1) /\ (m + 1 + 1)..(m + 1) = {}
      BY <2>1
    <3>3. Splits(s, d, m + 1, m + 1)
      BY <2>1, <3>1, <3>2 DEF Splits
    <3>4. QED
      BY <2>1, <3>3
  <2>5. QED
    BY <2>1, <2>3, <2>4
<1>4. n \in S
  <2> HIDE DEF S
  <2>1. 0..n \subseteq S
    BY <1>1, <1>2, <1>3, UpTo
  <2>2. QED
    BY <1>1, <2>1
<1>5. QED
  BY <1>4

\* To sort the dates with a new one is to put it there.
LEMMA SortedIs ==
  ASSUME NEW s \in Seq(Int), Ascending(s), NEW d \in Int, d \notin ToSet(s)
  PROVE  LET t == Sorted(Append(s, d)) IN
         /\ t \in [1..(Len(s) + 1) -> ToSet(Append(s, d))]
         /\ \A i \in 2..(Len(s) + 1) : t[i - 1] < t[i]
<1> DEFINE n == Len(s)
           l == Append(s, d)
<1>1. /\ n \in Nat /\ Len(l) = n + 1 /\ DOMAIN l = 1..(n + 1) /\ l[n + 1] = d
      /\ \A i \in 1..n : l[i] = s[i] /\ s[i] \in Int
  OBVIOUS
<1>2. PICK k \in 0..n : /\ \A i \in 1..k : s[i] < d
                        /\ \A i \in (k + 1)..n : d < s[i]
  BY PlaceOf DEF Splits
<1> DEFINE t == [i \in 1..(n + 1) |-> IF i <= k THEN s[i] ELSE IF i = k + 1 THEN d ELSE s[i - 1]]
<1>3. ASSUME NEW i \in 1..(n + 1)
      PROVE  /\ i <= k => i \in 1..n /\ i \in 1..k
             /\ i > k + 1 => i - 1 \in 1..n /\ i - 1 \in (k + 1)..n
             /\ ~(i <= k) /\ i # k + 1 => i > k + 1
  BY <1>1
<1>4. ASSUME NEW i \in 1..(n + 1)
      PROVE  t[i] \in ToSet(l)
  <2>1. t[i] = d \/ \E j \in 1..n : t[i] = s[j]
    BY <1>3
  <2>2. n + 1 \in DOMAIN l /\ \A j \in 1..n : j \in DOMAIN l
    BY <1>1
  <2>3. QED
    BY <1>1, <2>1, <2>2 DEF ToSet
<1>5. ASSUME NEW i \in 2..(n + 1)
      PROVE  t[i - 1] < t[i]
  <2>0. i - 1 \in 1..(n + 1) /\ i \in 1..(n + 1)
    BY <1>1
  <2>1. CASE i <= k
    <3>1. t[i - 1] = s[i - 1] /\ t[i] = s[i] /\ i \in 2..n
      BY <1>1, <2>0, <2>1
    <3>2. QED
      BY <3>1 DEF Ascending
  <2>2. CASE i = k + 1
    <3>1. t[i - 1] = s[i - 1] /\ t[i] = d /\ i - 1 \in 1..k
      BY <1>1, <2>0, <2>2
    <3>2. QED
      BY <1>2, <3>1
  <2>3. CASE i = k + 2
    <3>1. t[i - 1] = d /\ t[i] = s[i - 1] /\ i - 1 \in (k + 1)..n
      BY <1>1, <2>0, <2>3
    <3>2. QED
      BY <1>2, <3>1
  <2>4. CASE i > k + 2
    <3>1. t[i - 1] = s[i - 2] /\ t[i] = s[i - 1] /\ i - 1 \in 2..n /\ (i - 1) - 1 = i - 2
      BY <1>1, <2>0, <2>4
    <3>2. s[(i - 1) - 1] < s[i - 1]
      BY <3>1 DEF Ascending
    <3>3. QED
      BY <3>1, <3>2
  <2>5. QED
    BY <1>1, <2>1, <2>2, <2>3, <2>4
<1>6. ToSet(t) = ToSet(l)
  <2>1. ToSet(t) \subseteq ToSet(l)
    BY <1>4 DEF ToSet
  <2>2. ASSUME NEW j \in DOMAIN l PROVE \E i \in 1..(n + 1) : t[i] = l[j]
    <3>1. CASE j = n + 1
      <4>1. k + 1 \in 1..(n + 1) /\ t[k + 1] = d
        BY <1>1
      <4>2. QED
        BY <1>1, <3>1, <4>1
    <3>2. CASE j <= k
      <4>1. j \in 1..n /\ j \in 1..(n + 1) /\ t[j] = s[j]
        BY <1>1, <3>2
      <4>2. QED
        BY <1>1, <4>1
    <3>3. CASE j > k /\ j # n + 1
      <4>1. j \in 1..n /\ j + 1 \in 1..(n + 1) /\ t[j + 1] = s[j]
        BY <1>1, <3>3
      <4>2. QED
        BY <1>1, <4>1
    <3>4. QED
      BY <1>1, <3>1, <3>2, <3>3
  <2>3. QED
    BY <2>1, <2>2 DEF ToSet
<1>7. /\ t \in [1..Len(l) -> ToSet(l)] /\ ToSet(t) = ToSet(l)
      /\ \A i \in 2..Len(l) : t[i - 1] < t[i]
  BY <1>1, <1>4, <1>5, <1>6
<1> HIDE DEF t, l
<1>8. /\ Sorted(l) \in [1..Len(l) -> ToSet(l)]
      /\ \A i \in 2..Len(l) : Sorted(l)[i - 1] < Sorted(l)[i]
  BY <1>7 DEF Sorted
<1>9. QED
  BY <1>1, <1>8 DEF l

-------------------------------------------------------------------------------
(***************************************************************************)
(* The streaks of a calendar.                                              *)
(***************************************************************************)

\* The run of dates that the loop of computeStreaks is at in its i-th turn.
RunAt(ticks, i, previous) == IF i > 1 /\ ticks[i] = ticks[i - 1] + 1 THEN previous + 1 ELSE 1

Streaks == [longest : Nat, current : Nat]

LEMMA StreaksAre ==
  ASSUME NEW ticks \in Seq(Int)
  PROVE  \E f : /\ f[0] = [longest |-> 0, current |-> 0]
                /\ \A i \in 1..Len(ticks) :
                     /\ f[i].current = RunAt(ticks, i, f[i - 1].current)
                     /\ f[i].longest = Most(f[i - 1].longest, f[i].current)
                /\ \A i \in 0..Len(ticks) : f[i] \in Streaks
                /\ ComputeStreaks(ticks) = f[Len(ticks)]
<1> DEFINE n == Len(ticks)
           none == [longest |-> 0, current |-> 0]
           After(before, i) ==
             LET run == IF i > 1 /\ ticks[i] = ticks[i - 1] + 1 THEN before.current + 1 ELSE 1
             IN  [longest |-> Most(before.longest, run), current |-> run]
           F(g) == [i \in 0..n |-> IF i = 0 THEN none ELSE After(g[i - 1], i)]
           streaks == CHOOSE g : g = F(g)
           G == [p \in Streaks \X (1..n) |-> After(p[1], p[2])]
<1>1. n \in Nat /\ none \in Streaks
  BY DEF Streaks
<1>2. ASSUME NEW before \in Streaks, NEW i \in 1..n
      PROVE  /\ After(before, i) \in Streaks
             /\ After(before, i).current = RunAt(ticks, i, before.current)
             /\ After(before, i).longest = Most(before.longest, After(before, i).current)
  BY DEF Streaks, Most, RunAt
<1> HIDE DEF After
<1>3. G \in [Streaks \X (1..n) -> Streaks]
  BY <1>2
<1>4. PICK f \in [0..n -> Streaks] : Iterates(f, n, none, G)
  <2> HIDE DEF none, G, n
  <2>1. QED
    BY <1>1, <1>3, Recursion
<1>5. f = F(f)
  <2>1. ASSUME NEW i \in 0..n, i # 0 PROVE f[i] = F(f)[i]
    <3>1. i \in 1..n /\ i - 1 \in 0..n
      BY <1>1, <2>1
    <3>2. <<f[i - 1], i>> \in Streaks \X (1..n)
      BY <1>4, <3>1
    <3>3. f[i] = G[<<f[i - 1], i>>]
      BY <1>4, <3>1 DEF Iterates
    <3>4. QED
      BY <2>1, <3>2, <3>3
  <2>2. f[0] = none
    BY <1>4 DEF Iterates
  <2>3. \A i \in 0..n : f[i] = F(f)[i]
    BY <2>1, <2>2
  <2>4. QED
    BY <1>4, <2>3
<1>6. streaks = F(streaks)
  BY <1>5
<1>7. ComputeStreaks(ticks) = streaks[n]
  BY DEF ComputeStreaks, After
<1> HIDE DEF streaks
<1>8. streaks[0] = none
  BY <1>1, <1>6
<1>9. ASSUME NEW i \in 1..n
      PROVE  streaks[i] = After(streaks[i - 1], i)
  <2>1. i \in 0..n /\ i # 0
    BY <1>1
  <2>2. F(streaks)[i] = After(streaks[i - 1], i)
    BY <2>1
  <2>3. streaks[i] = F(streaks)[i]
    BY <1>6
  <2>4. QED
    BY <2>2, <2>3
<1>10. \A i \in 0..n : streaks[i] \in Streaks
  <2> DEFINE S == {i \in 0..n : streaks[i] \in Streaks}
  <2>1. 0 \in S
    BY <1>1, <1>8
  <2>2. ASSUME NEW m \in 0..(n - 1), m \in S PROVE m + 1 \in S
    <3>1. m + 1 \in 1..n /\ (m + 1) - 1 = m /\ m + 1 \in 0..n
      BY <1>1
    <3>2. QED
      BY <1>2, <1>9, <2>2, <3>1
  <2>3. 0..n \subseteq S
    <3> HIDE DEF S
    <3>1. QED
      BY <1>1, <2>1, <2>2, UpTo
  <2>4. QED
    BY <2>3
<1>11. ASSUME NEW i \in 1..n
       PROVE  /\ streaks[i].current = RunAt(ticks, i, streaks[i - 1].current)
              /\ streaks[i].longest = Most(streaks[i - 1].longest, streaks[i].current)
  <2>1. i - 1 \in 0..n
    BY <1>1
  <2>2. QED
    BY <1>2, <1>9, <1>10, <2>1
<1>12. QED
  BY <1>7, <1>8, <1>10, <1>11

Run(days, p) == p \in days \X days /\ p[1] <= p[2] /\ p[1]..p[2] \subseteq days

\* In the i-th turn the run ends at the i-th date and cannot be longer, and no
\* run up to that date is longer than the longest so far.
StreaksUpTo(ticks, i, streaks) ==
  LET days == ToSet(ticks) IN
  /\ streaks.current >= 1
  /\ Run(days, <<ticks[i] - streaks.current + 1, ticks[i]>>)
  /\ ticks[i] - streaks.current \notin days
  /\ \A p : Run(days, p) /\ p[2] <= ticks[i] => p[2] - p[1] + 1 <= streaks.longest
  /\ \E p : Run(days, p) /\ p[2] - p[1] + 1 = streaks.longest

LEMMA StreaksLoop ==
  ASSUME NEW ticks \in Seq(Int), Ascending(ticks), NEW i \in 1..Len(ticks),
         NEW before \in Streaks, NEW after \in Streaks,
         i > 1 => StreaksUpTo(ticks, i - 1, before), i = 1 => before.longest = 0,
         after.current = RunAt(ticks, i, before.current),
         after.longest = Most(before.longest, after.current)
  PROVE  StreaksUpTo(ticks, i, after)
<1> DEFINE n == Len(ticks)
           days == ToSet(ticks)
           b == ticks[i]
           c == after.current
<1>1. /\ n \in Nat /\ \A j \in 1..n : ticks[j] \in Int /\ ticks[j] \in days
      /\ \A d \in days : d \in Int /\ \E j \in 1..n : ticks[j] = d
  BY DEF ToSet
<1>2. \A j, k \in 1..n : j < k => ticks[j] < ticks[k]
  BY AscendingOrder
<1>3. /\ before.current \in Nat /\ before.longest \in Nat /\ after.current \in Nat
      /\ after.longest \in Nat /\ b \in Int
  BY <1>1 DEF Streaks
<1>4. i > 1 => i - 1 \in 1..n /\ ticks[i - 1] < b
  BY <1>1, <1>2
<1> HIDE DEF n
<1>5. ASSUME NEW d \in days, d < b PROVE i > 1 /\ d <= ticks[i - 1]
  <2>1. PICK j \in 1..n : ticks[j] = d
    BY <1>1
  <2>2. ~(i < j) /\ i # j /\ i \in 1..n
    BY <1>1, <1>2, <1>3, <1>5, <2>1 DEF n
  <2>3. j < i /\ i > 1
    BY <2>2
  <2>4. j = i - 1 \/ j < i - 1
    BY <2>2, <2>3
  <2>5. QED
    BY <1>1, <1>2, <1>4, <2>1, <2>3, <2>4
<1>6. c >= 1 /\ b - c \notin days /\ Run(days, <<b - c + 1, b>>)
  <2>0. b \in days
    BY <1>1 DEF n
  <2>1. CASE i > 1 /\ b = ticks[i - 1] + 1
    <3> DEFINE a == ticks[i - 1]
    <3>1. c = before.current + 1 /\ a \in Int /\ b = a + 1
      BY <1>1, <1>4, <2>1 DEF RunAt
    <3>2. /\ before.current >= 1 /\ a - before.current \notin days
          /\ Run(days, <<a - before.current + 1, a>>)
      BY <2>1 DEF StreaksUpTo
    <3>3. b - c = a - before.current /\ b - c + 1 = a - before.current + 1
      <4>1. \A x, y \in Int : (x + 1) - (y + 1) = x - y /\ (x + 1) - (y + 1) + 1 = x - y + 1
        OBVIOUS
      <4>2. before.current \in Int
        BY <1>3
      <4> HIDE DEF a, b, c
      <4>3. QED
        BY <3>1, <4>1, <4>2, Zenon
    <3>4. /\ a - before.current + 1 \in days /\ a - before.current + 1 <= a
          /\ (a - before.current + 1)..a \subseteq days
      BY <3>2 DEF Run
    <3>5. ASSUME NEW d \in (b - c + 1)..b PROVE d \in days
      <4>1. d = b \/ d \in (a - before.current + 1)..a
        BY <1>3, <2>1, <3>1, <3>3
      <4>2. QED
        BY <2>0, <3>4, <4>1
    <3>6. b - c + 1 <= b
      BY <1>3, <3>1
    <3>7. QED
      BY <1>3, <2>0, <3>1, <3>2, <3>3, <3>4, <3>5, <3>6 DEF Run
  <2>2. CASE ~(i > 1 /\ b = ticks[i - 1] + 1)
    <3>1. c = 1
      BY <2>2 DEF RunAt
    <3>2. b - 1 \notin days
      <4>1. SUFFICES ASSUME b - 1 \in days PROVE FALSE
        OBVIOUS
      <4>2. i > 1 /\ b - 1 <= ticks[i - 1] /\ ticks[i - 1] < b /\ ticks[i - 1] \in Int
        BY <1>1, <1>3, <1>4, <1>5, <4>1
      <4>3. b = ticks[i - 1] + 1
        BY <1>3, <4>2
      <4>4. QED
        BY <2>2, <4>2, <4>3
    <3>3. b - 1 + 1 = b /\ b..b = {b} /\ b <= b
      BY <1>3
    <3>4. QED
      BY <2>0, <3>1, <3>2, <3>3 DEF Run
  <2>3. QED
    BY <2>1, <2>2
<1>7. after.longest >= c /\ after.longest >= before.longest
      /\ (after.longest = c \/ after.longest = before.longest)
  BY <1>3 DEF Most
<1>8. ASSUME NEW p, Run(days, p), p[2] <= b
      PROVE  p[2] - p[1] + 1 <= after.longest
  <2>1. p[1] \in days /\ p[2] \in days /\ p[1] <= p[2] /\ p[1]..p[2] \subseteq days
    BY <1>8 DEF Run
  <2>2. p[1] \in Int /\ p[2] \in Int
    BY <1>1, <2>1
  <2>3. CASE p[2] = b
    <3>1. ~(p[1] <= b - c)
      <4>1. SUFFICES ASSUME p[1] <= b - c PROVE FALSE
        OBVIOUS
      <4>2. b - c \in p[1]..p[2]
        BY <1>3, <1>6, <2>2, <2>3, <4>1
      <4>3. QED
        BY <1>6, <2>1, <4>2
    <3>2. QED
      BY <1>3, <1>7, <2>2, <2>3, <3>1
  <2>4. CASE p[2] # b
    <3>1. p[2] < b
      BY <1>3, <1>8, <2>2, <2>4
    <3>2. i > 1 /\ p[2] <= ticks[i - 1]
      BY <1>5, <2>1, <3>1
    <3>3. p[2] - p[1] + 1 <= before.longest
      BY <1>8, <3>2 DEF StreaksUpTo
    <3>4. QED
      BY <1>3, <1>7, <2>2, <3>3
  <2>5. QED
    BY <2>3, <2>4
<1>9. \E p : Run(days, p) /\ p[2] - p[1] + 1 = after.longest
  <2>1. CASE after.longest = c
    <3>1. b - (b - c + 1) + 1 = c
      BY <1>3
    <3>2. QED
      BY <1>6, <2>1, <3>1
  <2>2. CASE after.longest # c
    <3>1. after.longest = before.longest /\ i > 1
      BY <1>3, <1>6, <1>7, <2>2
    <3>2. QED
      BY <3>1 DEF StreaksUpTo
  <2>3. QED
    BY <2>1, <2>2
<1>10. QED
  BY <1>6, <1>8, <1>9 DEF StreaksUpTo

\* The figures of computeStreaks are those of the runs.
LEMMA StreaksOfRuns ==
  ASSUME NEW ticks \in Seq(Int), Ascending(ticks), NEW last, ticks # <<>>, last = ticks[Len(ticks)],
         NEW streaks, streaks = ComputeStreaks(ticks)
  PROVE  /\ streaks \in Streaks /\ last \in ToSet(ticks)
         /\ \A d \in ToSet(ticks) : d <= last
         /\ StreaksUpTo(ticks, Len(ticks), streaks)
<1> DEFINE n == Len(ticks)
<1>1. PICK f : /\ f[0] = [longest |-> 0, current |-> 0]
               /\ \A i \in 1..n : /\ f[i].current = RunAt(ticks, i, f[i - 1].current)
                                  /\ f[i].longest = Most(f[i - 1].longest, f[i].current)
               /\ \A i \in 0..n : f[i] \in Streaks
               /\ ComputeStreaks(ticks) = f[n]
  BY StreaksAre
<1>2. n \in Nat /\ n # 0 /\ n \in 1..n
  OBVIOUS
<1> DEFINE S == {i \in 0..n : i # 0 => StreaksUpTo(ticks, i, f[i])}
<1>3. 0 \in S
  BY <1>2
<1>4. ASSUME NEW m \in 0..(n - 1), m \in S
      PROVE  m + 1 \in S
  <2>1. m + 1 \in 1..n /\ m \in 0..n /\ m + 1 \in 0..n /\ (m + 1) - 1 = m
    BY <1>2
  <2>2. m + 1 > 1 => StreaksUpTo(ticks, m, f[m])
    BY <1>4, <2>1
  <2>3. m + 1 = 1 => f[m].longest = 0
    <3>1. f[0].longest = 0
      BY <1>1
    <3>2. m + 1 = 1 => m = 0
      BY <2>1
    <3>3. QED
      BY <3>1, <3>2
  <2>4. /\ f[m + 1].current = RunAt(ticks, m + 1, f[m].current)
        /\ f[m + 1].longest = Most(f[m].longest, f[m + 1].current)
        /\ f[m] \in Streaks /\ f[m + 1] \in Streaks
    BY <1>1, <2>1
  <2> HIDE DEF n
  <2>5. StreaksUpTo(ticks, m + 1, f[m + 1])
    BY <2>1, <2>2, <2>3, <2>4, StreaksLoop DEF n
  <2>6. QED
    BY <2>1, <2>5
<1>5. n \in S
  <2> HIDE DEF S
  <2>1. 0..n \subseteq S
    BY <1>2, <1>3, <1>4, UpTo
  <2>2. QED
    BY <1>2, <2>1
<1>6. last \in ToSet(ticks) /\ \A d \in ToSet(ticks) : d <= last
  <2>1. last \in ToSet(ticks)
    BY <1>2 DEF ToSet
  <2>2. ASSUME NEW d \in ToSet(ticks) PROVE d <= last
    <3>1. PICK j \in 1..n : ticks[j] = d
      BY DEF ToSet
    <3>2. j = n \/ j < n
      BY <1>2
    <3>3. d \in Int /\ last \in Int
      BY <1>2, <3>1
    <3>4. QED
      BY <1>2, <3>1, <3>2, <3>3, AscendingOrder
  <2>3. QED
    BY <2>1, <2>2
<1>7. QED
  BY <1>1, <1>2, <1>5, <1>6

\* What StreaksRight asks of the ticks.
FiguresRight(ticks) ==
  LET ticked == ToSet(ticks)
      runs == {p \in ticked \X ticked : p[1] <= p[2] /\ p[1]..p[2] \subseteq ticked}
      length(p) == p[2] - p[1] + 1
      last == {p \in runs : \A d \in ticked : d <= p[2]}
      best(set) == IF set = {} THEN 0
                   ELSE CHOOSE n \in {length(p) : p \in set} : \A p \in set : length(p) <= n
  IN  ComputeStreaks(ticks) = [longest |-> best(runs), current |-> best(last)]

LEMMA StreaksHold ==
  ASSUME NEW ticks \in Seq(Int), Ascending(ticks)
  PROVE  FiguresRight(ticks)
<1> DEFINE ticked == ToSet(ticks)
           runs == {p \in ticked \X ticked : p[1] <= p[2] /\ p[1]..p[2] \subseteq ticked}
           length(p) == p[2] - p[1] + 1
           last == {p \in runs : \A d \in ticked : d <= p[2]}
           best(set) == IF set = {} THEN 0
                        ELSE CHOOSE n \in {length(p) : p \in set} : \A p \in set : length(p) <= n
           streaks == ComputeStreaks(ticks)
<1>1. \A p : p \in runs <=> Run(ticked, p)
  BY DEF Run
<1>2. \A d \in ticked : d \in Int
  BY DEF ToSet
<1>3. CASE ticks = <<>>
  <2>1. ticked = {} /\ Len(ticks) = 0
    BY <1>3 DEF ToSet
  <2>2. streaks = [longest |-> 0, current |-> 0]
    BY <2>1, StreaksAre
  <2>3. runs = {} /\ last = {}
    BY <2>1
  <2>4. QED
    BY <2>2, <2>3 DEF FiguresRight
<1>4. CASE ticks # <<>>
  <2> DEFINE end == ticks[Len(ticks)]
  <2>1. /\ streaks \in Streaks /\ end \in ticked /\ \A d \in ticked : d <= end
        /\ StreaksUpTo(ticks, Len(ticks), streaks)
    BY <1>4, StreaksOfRuns
  <2>2. /\ streaks.current \in Nat /\ streaks.longest \in Nat /\ end \in Int
        /\ streaks = [longest |-> streaks.longest, current |-> streaks.current]
    BY <1>2, <2>1 DEF Streaks
  <2>3. /\ streaks.current >= 1
        /\ Run(ticked, <<end - streaks.current + 1, end>>)
        /\ end - streaks.current \notin ticked
        /\ \A p : Run(ticked, p) /\ p[2] <= end => length(p) <= streaks.longest
        /\ \E p : Run(ticked, p) /\ length(p) = streaks.longest
    BY <2>1 DEF StreaksUpTo
  <2> HIDE DEF streaks, end
  <2>4. \A p \in runs : p[1] \in ticked /\ p[2] \in ticked /\ p[2] <= end
                        /\ p[1] \in Int /\ p[2] \in Int /\ length(p) \in Int
    BY <1>2, <2>1
  <2>5. best(runs) = streaks.longest
    <3>1. \A p \in runs : length(p) <= streaks.longest
      BY <1>1, <2>3, <2>4
    <3>2. PICK p \in runs : length(p) = streaks.longest
      BY <1>1, <2>3
    <3> HIDE DEF runs, length
    <3>3. QED
      BY <2>2, <2>4, <3>1, <3>2
  <2>6. best(last) = streaks.current
    <3>1. ASSUME NEW p \in last PROVE length(p) <= streaks.current
      <4>1. p \in runs /\ end <= p[2] /\ p[1] \in Int /\ p[2] \in Int /\ p[2] <= end
        BY <2>1, <2>4
      <4>2. p[2] = end
        BY <2>2, <4>1
      <4>3. ~(p[1] <= end - streaks.current)
        <5>1. SUFFICES ASSUME p[1] <= end - streaks.current PROVE FALSE
          OBVIOUS
        <5>2. end - streaks.current \in p[1]..p[2]
          BY <2>2, <4>1, <4>2, <5>1
        <5>3. QED
          BY <2>3, <4>1, <5>2
      <4>4. QED
        BY <2>2, <4>1, <4>2, <4>3
    <3> DEFINE q == <<end - streaks.current + 1, end>>
    <3>2. q \in runs /\ q[2] = end /\ q[1] = end - streaks.current + 1
      BY <1>1, <2>3
    <3>3. q \in last /\ length(q) = streaks.current
      <4>1. q \in last
        BY <2>1, <3>2
      <4>2. length(q) = streaks.current
        BY <2>2, <3>2
      <4>3. QED
        BY <4>1, <4>2
    <3>4. \A p \in last : length(p) \in Int
      BY <2>4
    <3> HIDE DEF last, length, q
    <3>5. QED
      BY <2>2, <3>1, <3>3, <3>4
  <2>7. QED
    BY <2>2, <2>5, <2>6 DEF streaks, FiguresRight
<1>5. QED
  BY <1>3, <1>4

-------------------------------------------------------------------------------
(***************************************************************************)
(* What the handlers make of lists, calendars, tags and exercises.         *)
(***************************************************************************)
ItemsFit(k, items, fresh) ==
  /\ items \in Seq(Entries[k]) /\ Len(items) <= MaxItems /\ DistinctIds(items)
  /\ \A i \in DOMAIN items : items[i].id < fresh

ListKinds == {"list", "places", "reminder"}

LEMMA EntryIds ==
  ASSUME NEW k \in ListKinds, NEW entry \in Entries[k]
  PROVE  entry.id \in Nat
<1>1. CASE k = "list"
  BY <1>1 DEF Entries
<1>2. CASE k = "places"
  BY <1>2 DEF Entries
<1>3. CASE k = "reminder"
  BY <1>3 DEF Entries
<1>4. QED
  BY <1>1, <1>2, <1>3 DEF ListKinds

LEMMA ItemsTyped ==
  ASSUME NEW k \in ListKinds, NEW items, NEW fresh, ItemsFit(k, items, fresh)
  PROVE  /\ items \in Seq(Entries[k]) /\ Len(items) \in Nat /\ DOMAIN items = 1..Len(items)
         /\ \A i \in 1..Len(items) : items[i] \in Entries[k] /\ items[i].id \in Nat
                                     /\ items[i].id < fresh
         /\ \A i, j \in 1..Len(items) : items[i].id = items[j].id => i = j
         /\ Len(items) <= MaxItems
<1> USE DEF ItemsFit
<1>1. items \in Seq(Entries[k]) /\ Len(items) \in Nat /\ DOMAIN items = 1..Len(items)
      /\ \A i \in 1..Len(items) : items[i] \in Entries[k]
  OBVIOUS
<1>2. QED
  BY <1>1, EntryIds DEF DistinctIds

LEMMA NoItemsFit ==
  ASSUME NEW k \in ListKinds, NEW fresh
  PROVE  ItemsFit(k, <<>>, fresh)
BY ValuesAssumption DEF ItemsFit, DistinctIds

LEMMA ItemsFitLater ==
  ASSUME NEW k \in ListKinds, NEW fresh \in Nat, NEW items, ItemsFit(k, items, fresh)
  PROVE  ItemsFit(k, items, fresh + 1)
<1>1. \A i \in DOMAIN items : items[i].id < fresh + 1
  BY ItemsTyped
<1>2. QED
  BY <1>1 DEF ItemsFit

\* An item with a fresh id is one more.
LEMMA AppendFits ==
  ASSUME NEW k \in ListKinds, NEW fresh \in Nat, NEW items, ItemsFit(k, items, fresh),
         Len(items) < MaxItems, NEW entry \in Entries[k], entry.id = fresh
  PROVE  ItemsFit(k, Append(items, entry), fresh + 1)
<1> DEFINE n == Len(items)
           new == Append(items, entry)
<1>1. /\ items \in Seq(Entries[k]) /\ n \in Nat /\ DOMAIN items = 1..n
      /\ \A i \in 1..n : items[i].id \in Nat /\ items[i].id < fresh
      /\ \A i, j \in 1..n : items[i].id = items[j].id => i = j
  BY ItemsTyped
<1>2. /\ new \in Seq(Entries[k]) /\ Len(new) = n + 1 /\ DOMAIN new = 1..(n + 1)
      /\ new[n + 1] = entry /\ \A i \in 1..n : new[i] = items[i]
  BY <1>1
<1> HIDE DEF new
<1>3. ASSUME NEW i \in 1..(n + 1)
      PROVE  new[i].id < fresh + 1 /\ (new[i].id = fresh <=> i = n + 1)
  <2>1. i = n + 1 \/ i \in 1..n
    BY <1>1
  <2>2. QED
    BY <1>1, <1>2, <2>1
<1>4. ASSUME NEW i \in 1..(n + 1), NEW j \in 1..(n + 1), new[i].id = new[j].id
      PROVE  i = j
  <2>1. CASE i = n + 1 \/ j = n + 1
    BY <1>3, <1>4, <2>1
  <2>2. CASE i # n + 1 /\ j # n + 1
    <3>1. i \in 1..n /\ j \in 1..n
      BY <1>1, <2>2
    <3>2. QED
      BY <1>1, <1>2, <1>4, <3>1
  <2>3. QED
    BY <2>1, <2>2
<1>5. n + 1 <= MaxItems
  BY <1>1, ValuesAssumption
<1>6. QED
  BY <1>2, <1>3, <1>4, <1>5 DEF ItemsFit, DistinctIds, new

\* A change that leaves the ids alone.
LEMMA RewrittenFits ==
  ASSUME NEW k \in ListKinds, NEW fresh, NEW items, ItemsFit(k, items, fresh),
         NEW new, new = [i \in DOMAIN items |-> new[i]],
         \A i \in DOMAIN items : new[i] \in Entries[k] /\ new[i].id = items[i].id
  PROVE  ItemsFit(k, new, fresh)
<1> DEFINE n == Len(items)
<1>1. /\ n \in Nat /\ DOMAIN items = 1..n /\ n <= MaxItems
      /\ \A i \in 1..n : items[i].id < fresh
      /\ \A i, j \in 1..n : items[i].id = items[j].id => i = j
  BY ItemsTyped
<1> HIDE DEF n
<1>2. new \in Seq(Entries[k]) /\ Len(new) = n /\ DOMAIN new = 1..n
  <2>1. new \in [1..n -> Entries[k]]
    BY <1>1
  <2>2. QED
    BY <1>1, <2>1
<1>3. QED
  BY <1>1, <1>2 DEF ItemsFit, DistinctIds

\* What is taken out leaves the others distinct.
LEMMA FilteredFits ==
  ASSUME NEW k \in ListKinds, NEW fresh, NEW items, ItemsFit(k, items, fresh), NEW keep
  PROVE  ItemsFit(k, Filtered(items, keep), fresh)
<1> DEFINE n == Len(items)
           new == Filtered(items, keep)
<1>1. /\ items \in Seq(Entries[k]) /\ n \in Nat /\ n <= MaxItems
      /\ \A i \in 1..n : items[i].id < fresh
      /\ \A i, j \in 1..n : items[i].id = items[j].id => i = j
  BY ItemsTyped
<1>2. /\ new \in Seq(Entries[k]) /\ Len(new) <= n
      /\ \E at : Picks(new, items, n, at)
  BY <1>1, FilteredPicks
<1>3. PICK at : Picks(new, items, n, at)
  BY <1>2
<1> HIDE DEF new
<1>4. /\ Len(new) \in Nat /\ DOMAIN new = 1..Len(new)
      /\ \A i \in 1..Len(new) : new[i] = items[at[i]] /\ at[i] \in 1..n
      /\ \A i, j \in 1..Len(new) : i < j => at[i] < at[j]
  <2>1. Len(new) \in Nat /\ DOMAIN new = 1..Len(new)
    BY <1>2
  <2>2. QED
    BY <2>1, <1>3 DEF Picks
<1>5. ASSUME NEW i \in 1..Len(new), NEW j \in 1..Len(new), new[i].id = new[j].id
      PROVE  i = j
  <2>1. at[i] = at[j]
    BY <1>1, <1>4, <1>5
  <2>2. ~(i < j) /\ ~(j < i)
    BY <1>1, <1>4, <2>1
  <2>3. QED
    BY <1>4, <2>2
<1>6. Len(new) <= MaxItems
  BY <1>1, <1>2, <1>4, ValuesAssumption
<1>7. QED
  BY <1>1, <1>2, <1>4, <1>5, <1>6 DEF ItemsFit, DistinctIds, new

LEMMA ReflowedFits ==
  ASSUME NEW fresh, NEW items, ItemsFit("list", items, fresh)
  PROVE  ItemsFit("list", Reflowed(items), fresh)
<1> DEFINE new == Reflowed(items)
<1>1. /\ "list" \in ListKinds /\ DOMAIN items = 1..Len(items) /\ Len(items) \in Nat
      /\ \A i \in 1..Len(items) : items[i] \in Entries["list"]
  BY ItemsTyped DEF ListKinds
<1>2. new = [i \in DOMAIN items |-> new[i]]
  BY DEF Reflowed
<1>3. ASSUME NEW i \in DOMAIN items
      PROVE  new[i] \in Entries["list"] /\ new[i].id = items[i].id
  <2>1. new[i] = [items[i] EXCEPT !.order = i - 1] /\ i - 1 \in Nat
    BY <1>1 DEF Reflowed
  <2>2. items[i] \in [id : Nat, done : BOOLEAN, order : Nat]
    BY <1>1 DEF Entries
  <2>3. QED
    BY <2>1, <2>2 DEF Entries
<1> HIDE DEF new
<1>4. ItemsFit("list", new, fresh)
  BY <1>1, <1>2, <1>3, RewrittenFits
<1>5. QED
  BY <1>4 DEF new

\* As many ids as items, all of them: each stands once.
LEMMA OrderedOnce ==
  ASSUME NEW fresh, NEW items, ItemsFit("list", items, fresh),
         NEW ids \in Seq(Nat), Len(ids) = Len(items), ToSet(ids) = Ids(items)
  PROVE  \A i, j \in 1..Len(items) : ids[i] = ids[j] => i = j
<1> DEFINE n == Len(items)
           S == 1..n
           T == Ids(items)
           f == [i \in S |-> items[i].id]
           g == [i \in S |-> ids[i]]
<1>1. /\ n \in Nat /\ DOMAIN items = S /\ DOMAIN ids = S
      /\ \A i, j \in S : items[i].id = items[j].id => i = j
  BY ItemsTyped DEF ListKinds
<1>2. IsFiniteSet(S)
  BY <1>1, FS_Interval
<1>3. f \in Surjection(S, T) /\ f \in Injection(S, T)
  BY <1>1 DEF Surjection, Injection, IsInjective, Ids
<1>4. g \in Surjection(S, T)
  <2>1. \A i \in S : ids[i] \in T
    BY <1>1 DEF ToSet
  <2>2. \A x \in T : \E i \in S : ids[i] = x
    BY <1>1 DEF ToSet
  <2>3. QED
    BY <2>1, <2>2 DEF Surjection
<1> HIDE DEF S, T, f, g
<1>5. Cardinality(T) = Cardinality(S)
  BY <1>2, <1>3, FS_Surjection
<1>6. g \in Injection(S, T)
  BY <1>2, <1>4, <1>5, FS_Surjection
<1>7. \A i, j \in S : ids[i] = ids[j] => i = j
  BY <1>6 DEF Injection, IsInjective, g
<1>8. QED
  BY <1>7 DEF S

PatchFits(k, patch, fresh) ==
  \/ patch = NoPatch
  \/ patch = [items |-> patch.items] /\ ItemsFit(k, patch.items, fresh)

LEMMA PatchFitsBy ==
  ASSUME NEW k, NEW items, NEW fresh, ItemsFit(k, items, fresh), NEW patch, patch = [items |-> items]
  PROVE  PatchFits(k, patch, fresh)
<1>1. patch.items = items
  OBVIOUS
<1>2. QED
  BY <1>1 DEF PatchFits

LEMMA ListHandled ==
  ASSUME NEW s, NEW fresh \in Nat, ItemsFit("list", s.items, fresh),
         NEW call, call.do \in Names["list"], call.do = "setOrder" => call.args \in Seq(Nat),
         NEW patch, patch = ListBlock(s, call, fresh), patch # Refused
  PROVE  PatchFits("list", patch, fresh + 1)
<1>0. "list" \in ListKinds /\ Entries["list"] = [id : Nat, done : BOOLEAN, order : Nat]
  BY DEF ListKinds, Entries
<1> DEFINE items == s.items
<1>1. /\ DOMAIN items = 1..Len(items) /\ Len(items) \in Nat /\ Len(items) <= MaxItems
      /\ \A i \in 1..Len(items) : items[i] \in Entries["list"]
      /\ \A i, j \in 1..Len(items) : items[i].id = items[j].id => i = j
  BY <1>0, ItemsTyped
<1>2. CASE call.do = "addItem"
  <2> DEFINE entry == [id |-> fresh, done |-> FALSE, order |-> Len(items)]
  <2>1. ~(Len(items) >= MaxItems) /\ patch = [items |-> Append(items, entry)]
    BY <1>2 DEF ListBlock, AddItem
  <2>2. entry \in Entries["list"] /\ entry.id = fresh /\ Len(items) < MaxItems
    BY <1>0, <1>1, <2>1, ValuesAssumption
  <2> HIDE DEF entry
  <2>3. ItemsFit("list", Append(items, entry), fresh + 1)
    BY <1>0, <2>2, AppendFits
  <2>4. QED
    BY <2>1, <2>3, PatchFitsBy
<1>3. CASE call.do = "toggleItem"
  <2> DEFINE id == Arg(call)
             new == [i \in DOMAIN items |->
                       IF items[i].id = id THEN [items[i] EXCEPT !.done = ~@] ELSE items[i]]
  <2>1. patch = [items |-> new]
    BY <1>3 DEF ListBlock, ToggleItem
  <2>2. ASSUME NEW i \in DOMAIN items
        PROVE  new[i] \in Entries["list"] /\ new[i].id = items[i].id
    <3>1. items[i] \in [id : Nat, done : BOOLEAN, order : Nat]
      BY <1>0, <1>1
    <3>2. QED
      BY <1>0, <3>1
  <2>3. new = [i \in DOMAIN items |-> new[i]]
    OBVIOUS
  <2> HIDE DEF new
  <2>4. ItemsFit("list", new, fresh + 1)
    BY <1>0, <2>2, <2>3, RewrittenFits, ItemsFitLater
  <2>5. QED
    BY <2>1, <2>4, PatchFitsBy
<1>4. CASE call.do = "deleteItem"
  <2> DEFINE new == Reflowed(Without(items, Arg(call)))
  <2>1. patch = NoPatch \/ patch = [items |-> new]
    BY <1>4 DEF ListBlock, DeleteItem
  <2>2. ItemsFit("list", new, fresh + 1)
    BY <1>0, FilteredFits, ReflowedFits, ItemsFitLater DEF Without
  <2>3. QED
    BY <2>1, <2>2, PatchFitsBy DEF PatchFits
<1>5. CASE call.do = "setTag"
  <2>1. patch = [items |-> items]
    BY <1>5 DEF ListBlock, SetTag
  <2>2. QED
    BY <1>0, <2>1, ItemsFitLater, PatchFitsBy
<1>6. CASE call.do = "setOrder"
  <2> DEFINE ids == call.args
             picked == [i \in DOMAIN ids |-> CHOOSE it \in ToSet(items) : it.id = ids[i]]
  <2>1. /\ ids \in Seq(Nat) /\ Len(ids) = Len(items) /\ ToSet(ids) = Ids(items)
        /\ patch = [items |-> Reflowed(picked)]
    BY <1>6 DEF ListBlock, SetOrder
  <2>2. DOMAIN ids = 1..Len(items) /\ \A i \in DOMAIN ids : ids[i] \in Ids(items)
    BY <2>1 DEF ToSet
  <2>3. \A i, j \in 1..Len(items) : ids[i] = ids[j] => i = j
    BY <2>1, OrderedOnce
  <2>4. ASSUME NEW i \in 1..Len(items)
        PROVE  picked[i] \in Entries["list"] /\ picked[i].id = ids[i]
               /\ \E j \in 1..Len(items) : picked[i] = items[j]
    <3>1. \E it \in ToSet(items) : it.id = ids[i]
      BY <1>1, <2>2 DEF ToSet, Ids
    <3>2. picked[i] \in ToSet(items) /\ picked[i].id = ids[i]
      BY <2>2, <3>1
    <3>3. PICK j \in DOMAIN items : picked[i] = items[j]
      BY <3>2 DEF ToSet
    <3>4. QED
      BY <1>1, <3>2, <3>3
  <2>5. DOMAIN picked = 1..Len(items) /\ picked \in [1..Len(items) -> Entries["list"]]
    BY <2>2, <2>4
  <2> HIDE DEF picked
  <2>6. ItemsFit("list", picked, fresh)
    <3>1. picked \in Seq(Entries["list"]) /\ Len(picked) = Len(items)
      BY <1>1, <2>5
    <3>2. DistinctIds(picked)
      BY <2>3, <2>4, <2>5 DEF DistinctIds
    <3>3. \A i \in DOMAIN picked : picked[i].id < fresh
      BY <1>0, <2>4, <2>5, ItemsTyped
    <3>4. QED
      BY <1>1, <3>1, <3>2, <3>3 DEF ItemsFit
  <2>7. ItemsFit("list", Reflowed(picked), fresh + 1)
    BY <1>0, <2>6, ReflowedFits, ItemsFitLater
  <2>8. QED
    BY <2>1, <2>7, PatchFitsBy
<1>7. CASE call.do = "clearDone"
  <2> DEFINE new == Reflowed(Filtered(items, {it \in ToSet(items) : ~it.done}))
  <2>1. patch = NoPatch \/ patch = [items |-> new]
    BY <1>7 DEF ListBlock, ClearDone
  <2>2. ItemsFit("list", new, fresh + 1)
    BY <1>0, FilteredFits, ReflowedFits, ItemsFitLater
  <2>3. QED
    BY <2>1, <2>2, PatchFitsBy DEF PatchFits
<1>8. QED
  BY <1>2, <1>3, <1>4, <1>5, <1>6, <1>7 DEF Names

LEMMA PlacesHandled ==
  ASSUME NEW s, NEW fresh \in Nat, ItemsFit("places", s.items, fresh),
         NEW call, call.do \in Names["places"],
         NEW patch, patch = Places(s, call, fresh), patch # Refused
  PROVE  PatchFits("places", patch, fresh + 1)
<1>0. "places" \in ListKinds /\ Entries["places"] = [id : Nat]
  BY DEF ListKinds, Entries
<1> DEFINE items == s.items
<1>1. Len(items) \in Nat
  BY <1>0, ItemsTyped
<1>2. CASE call.do = "addPlace"
  <2> DEFINE entry == [id |-> fresh]
  <2>1. ~(Len(items) >= MaxItems) /\ patch = [items |-> Append(items, entry)]
    BY <1>2 DEF Places
  <2>2. entry \in Entries["places"] /\ entry.id = fresh /\ Len(items) < MaxItems
    BY <1>0, <1>1, <2>1, ValuesAssumption
  <2> HIDE DEF entry
  <2>3. ItemsFit("places", Append(items, entry), fresh + 1)
    BY <1>0, <2>2, AppendFits
  <2>4. QED
    BY <2>1, <2>3, PatchFitsBy
<1>3. CASE call.do = "updatePlace"
  <2>1. patch = [items |-> items]
    BY <1>3 DEF Places
  <2>2. QED
    BY <1>0, <2>1, ItemsFitLater, PatchFitsBy
<1>4. CASE call.do = "removePlace"
  <2>1. patch = [items |-> Without(items, Arg(call))]
    BY <1>4 DEF Places
  <2>2. ItemsFit("places", Without(items, Arg(call)), fresh + 1)
    BY <1>0, FilteredFits, ItemsFitLater DEF Without
  <2>3. QED
    BY <2>1, <2>2, PatchFitsBy
<1>5. CASE call.do = "clearAll"
  <2>1. patch = [items |-> <<>>]
    BY <1>5 DEF Places
  <2>2. QED
    BY <1>0, <2>1, NoItemsFit, PatchFitsBy
<1>6. QED
  BY <1>2, <1>3, <1>4, <1>5 DEF Names

LEMMA ReminderHandled ==
  ASSUME NEW s, NEW fresh \in Nat, ItemsFit("reminder", s.items, fresh),
         NEW call, call.do \in Names["reminder"],
         NEW patch, patch = Reminder(s, call, fresh), patch # Refused
  PROVE  PatchFits("reminder", patch, fresh + 1)
<1>0. "reminder" \in ListKinds /\ Entries["reminder"] = [id : Nat, enabled : BOOLEAN]
  BY DEF ListKinds, Entries
<1> DEFINE items == s.items
<1>1. /\ DOMAIN items = 1..Len(items) /\ Len(items) \in Nat
      /\ \A i \in 1..Len(items) : items[i] \in Entries["reminder"]
  BY <1>0, ItemsTyped
<1>2. CASE call.do = "addEntry"
  <2> DEFINE entry == [id |-> fresh, enabled |-> TRUE]
  <2>1. ~(Len(items) >= MaxItems) /\ patch = [items |-> Append(items, entry)]
    BY <1>2 DEF Reminder, AddEntry
  <2>2. entry \in Entries["reminder"] /\ entry.id = fresh /\ Len(items) < MaxItems
    BY <1>0, <1>1, <2>1, ValuesAssumption
  <2> HIDE DEF entry
  <2>3. ItemsFit("reminder", Append(items, entry), fresh + 1)
    BY <1>0, <2>2, AppendFits
  <2>4. QED
    BY <2>1, <2>3, PatchFitsBy
<1>3. CASE call.do \in {"updateEntry", "markFired"}
  <2>1. patch = [items |-> items]
    BY <1>3 DEF Reminder, UpdateEntry, MarkFired
  <2>2. QED
    BY <1>0, <2>1, ItemsFitLater, PatchFitsBy
<1>4. CASE call.do = "removeEntry"
  <2>1. patch = [items |-> Without(items, Arg(call))]
    BY <1>4 DEF Reminder, RemoveEntry
  <2>2. ItemsFit("reminder", Without(items, Arg(call)), fresh + 1)
    BY <1>0, FilteredFits, ItemsFitLater DEF Without
  <2>3. QED
    BY <2>1, <2>2, PatchFitsBy
<1>5. CASE call.do = "setEnabled"
  <2> DEFINE id == Arg(call)
             enabled == call.args[2] = 1
             new == [i \in DOMAIN items |->
                       IF items[i].id = id THEN [items[i] EXCEPT !.enabled = enabled] ELSE items[i]]
  <2>1. patch = [items |-> new] /\ enabled \in BOOLEAN
    BY <1>5 DEF Reminder, SetEnabled
  <2> HIDE DEF enabled
  <2>2. ASSUME NEW i \in DOMAIN items
        PROVE  new[i] \in Entries["reminder"] /\ new[i].id = items[i].id
    <3>1. items[i] \in [id : Nat, enabled : BOOLEAN]
      BY <1>0, <1>1
    <3>2. QED
      BY <1>0, <2>1, <3>1
  <2>3. new = [i \in DOMAIN items |-> new[i]]
    OBVIOUS
  <2> HIDE DEF new
  <2>4. ItemsFit("reminder", new, fresh + 1)
    BY <1>0, <2>2, <2>3, RewrittenFits, ItemsFitLater
  <2>5. QED
    BY <2>1, <2>4, PatchFitsBy
<1>6. QED
  BY <1>2, <1>3, <1>4, <1>5 DEF Names

LEMMA InSeq ==
  ASSUME NEW X, NEW list \in Seq(X), NEW Y, \A i \in 1..Len(list) : list[i] \in Y
  PROVE  list \in Seq(Y)
<1>1. list \in [1..Len(list) -> Y] /\ Len(list) \in Nat
  OBVIOUS
<1>2. QED
  BY <1>1

LEMMA OfItsElements ==
  ASSUME NEW X, NEW list \in Seq(X)
  PROVE  list \in Seq(ToSet(list))
<1>1. \A i \in 1..Len(list) : list[i] \in ToSet(list)
  BY DEF ToSet
<1>2. QED
  BY <1>1, InSeq

CalendarFit(ticks) == ticks \in Seq(Days) /\ Len(ticks) <= MaxItems /\ Ascending(ticks)

LEMMA CalendarInts ==
  ASSUME NEW ticks, CalendarFit(ticks)
  PROVE  ticks \in Seq(Int) /\ Ascending(ticks)
<1>1. ticks \in Seq(Days) /\ Ascending(ticks)
  BY DEF CalendarFit
<1>2. \A i \in 1..Len(ticks) : ticks[i] \in Days
  BY <1>1
<1>3. \A i \in 1..Len(ticks) : ticks[i] \in Int
  BY <1>2, ValuesAssumption
<1>4. QED
  BY <1>1, <1>3, InSeq

LEMMA CalendarHandled ==
  ASSUME NEW s, CalendarFit(s.ticks), NEW call, call.do \in Names["calendar_grid"],
         call.do \in {"tick", "untick"} => Arg(call) \in Days,
         NEW patch, patch = CalendarGrid(s, call), patch # Refused
  PROVE  patch = NoPatch \/ (patch = [ticks |-> patch.ticks] /\ CalendarFit(patch.ticks))
<1> DEFINE ticks == s.ticks
           n == Len(ticks)
<1>0. ASSUME NEW new, CalendarFit(new), patch = [ticks |-> new]
      PROVE  patch = [ticks |-> patch.ticks] /\ CalendarFit(patch.ticks)
  <2>1. patch.ticks = new
    BY <1>0
  <2>2. QED
    BY <1>0, <2>1
<1>1. /\ ticks \in Seq(Days) /\ ticks \in Seq(Int) /\ n \in Nat /\ n <= MaxItems
      /\ Ascending(ticks) /\ Days \subseteq Int /\ MaxItems \in Nat
      /\ \A i \in 1..n : ticks[i] \in Days
  <2>1. /\ ticks \in Seq(Days) /\ n \in Nat /\ n <= MaxItems
        /\ \A i \in 1..n : ticks[i] \in Days
    BY DEF CalendarFit
  <2>2. QED
    BY <2>1, CalendarInts, ValuesAssumption
<1>2. CASE call.do = "tick"
  <2> DEFINE date == Arg(call)
             l == Append(ticks, date)
  <2>1. CASE date \in ToSet(ticks)
    BY <1>2, <2>1 DEF CalendarGrid, Tick
  <2>2. CASE date \notin ToSet(ticks)
    <3>1. patch = [ticks |-> Sorted(l)] /\ ~(n >= MaxItems)
      BY <1>2, <2>2 DEF CalendarGrid, Tick
    <3>2. date \in Days /\ date \in Int
      BY <1>1, <1>2
    <3>3. /\ Sorted(l) \in [1..(n + 1) -> ToSet(l)]
          /\ \A i \in 2..(n + 1) : Sorted(l)[i - 1] < Sorted(l)[i]
      BY <1>1, <2>2, <3>2, SortedIs
    <3>4. ToSet(l) \subseteq Days
      <4>1. l \in Seq(Days)
        BY <1>1, <3>2
      <4>2. QED
        BY <4>1 DEF ToSet
    <3> HIDE DEF l
    <3>5. Sorted(l) \in Seq(Days) /\ Len(Sorted(l)) = n + 1
      <4>1. n + 1 \in Nat /\ Sorted(l) \in [1..(n + 1) -> Days]
        BY <1>1, <3>3, <3>4
      <4>2. QED
        BY <4>1
    <3>6. CalendarFit(Sorted(l))
      BY <1>1, <3>1, <3>3, <3>5 DEF CalendarFit, Ascending
    <3>7. QED
      BY <1>0, <3>1, <3>6
  <2>3. QED
    BY <2>1, <2>2
<1>3. CASE call.do = "untick"
  <2> DEFINE new == Filtered(ticks, ToSet(ticks) \ {Arg(call)})
  <2>1. patch = NoPatch \/ patch = [ticks |-> new]
    BY <1>3 DEF CalendarGrid, Untick
  <2>2. new \in Seq(Days) /\ Len(new) <= n /\ \E at : Picks(new, ticks, n, at)
    BY <1>1, FilteredPicks
  <2>3. PICK at : Picks(new, ticks, n, at)
    BY <2>2
  <2> HIDE DEF new
  <2>4. Len(new) \in Nat
    BY <2>2
  <2>5. ASSUME NEW i \in 2..Len(new)
        PROVE  new[i - 1] < new[i]
    <3>1. i - 1 \in 1..Len(new) /\ i \in 1..Len(new) /\ i - 1 < i
      BY <2>4
    <3>2. /\ new[i - 1] = ticks[at[i - 1]] /\ new[i] = ticks[at[i]] /\ at[i - 1] < at[i]
          /\ at[i - 1] \in 1..n /\ at[i] \in 1..n
      BY <2>3, <3>1 DEF Picks
    <3>3. QED
      BY <1>1, <3>2, AscendingOrder
  <2>6. CalendarFit(new)
    BY <1>1, <2>2, <2>4, <2>5 DEF CalendarFit, Ascending
  <2>7. QED
    BY <1>0, <2>1, <2>6
<1>4. CASE call.do = "clearAll"
  <2>1. patch = [ticks |-> <<>>]
    BY <1>4 DEF CalendarGrid
  <2>2. CalendarFit(<<>>)
    BY <1>1 DEF CalendarFit, Ascending
  <2>3. QED
    BY <1>0, <2>1, <2>2
<1>5. QED
  BY <1>2, <1>3, <1>4 DEF Names

\* The field f of the slot after the patch.
Merged(s, patch, f) == IF f \in DOMAIN patch THEN patch[f] ELSE s[f]

LEMMA NothingMerged ==
  ASSUME NEW s, NEW patch, patch = NoPatch, NEW f
  PROVE  Merged(s, patch, f) = s[f]
BY DEF Merged, NoPatch

TagsFit(tags, active) ==
  /\ IsFiniteSet(tags) /\ Cardinality(tags) <= MaxItems
  /\ active \subseteq tags

LEMMA TagsHandled ==
  ASSUME NEW s, TagsFit(s.tags, s.active), NEW call, call.do \in Names["tag_filter"],
         NEW patch, patch = TagFilter(s, call), patch # Refused
  PROVE  /\ TagsFit(Merged(s, patch, "tags"), Merged(s, patch, "active"))
         /\ DOMAIN patch \subseteq {"tags", "active"}
<1> DEFINE tag == Arg(call)
           fits == /\ TagsFit(Merged(s, patch, "tags"), Merged(s, patch, "active"))
                   /\ DOMAIN patch \subseteq {"tags", "active"}
<1>1. IsFiniteSet(s.tags) /\ Cardinality(s.tags) <= MaxItems /\ s.active \subseteq s.tags
      /\ Cardinality(s.tags) \in Nat /\ MaxItems \in Nat
  BY FS_CardinalityType, ValuesAssumption DEF TagsFit
<1>2. CASE patch = NoPatch
  <2>1. DOMAIN patch = {}
    BY <1>2 DEF NoPatch
  <2>2. QED
    BY <1>2, <2>1, NothingMerged
<1>3. ASSUME NEW active, active \subseteq s.tags, patch = [active |-> active]
      PROVE  fits
  <2>1. Merged(s, patch, "tags") = s.tags /\ Merged(s, patch, "active") = active
        /\ DOMAIN patch = {"active"}
    BY <1>3 DEF Merged
  <2>2. QED
    BY <1>1, <1>3, <2>1 DEF TagsFit
<1>4. ASSUME NEW tags, IsFiniteSet(tags), Cardinality(tags) <= MaxItems, s.active \subseteq tags,
             patch = [tags |-> tags]
      PROVE  fits
  <2>1. Merged(s, patch, "tags") = tags /\ Merged(s, patch, "active") = s.active
        /\ DOMAIN patch = {"tags"}
    BY <1>4 DEF Merged
  <2>2. QED
    BY <1>4, <2>1 DEF TagsFit
<1>5. CASE call.do = "setActive" /\ patch # NoPatch
  BY <1>3, <1>5 DEF TagFilter, SetActive
<1>6. CASE call.do = "addTag" /\ patch # NoPatch
  <2>1. patch = [tags |-> s.tags \cup {tag}] /\ ~(Cardinality(s.tags) >= MaxItems)
    BY <1>6, Zenon DEF TagFilter, AddTag
  <2>2. IsFiniteSet(s.tags \cup {tag})
        /\ Cardinality(s.tags \cup {tag}) \in {Cardinality(s.tags), Cardinality(s.tags) + 1}
    BY <1>1, FS_AddElement
  <2>3. Cardinality(s.tags \cup {tag}) <= MaxItems /\ s.active \subseteq s.tags \cup {tag}
    BY <1>1, <2>1, <2>2
  <2>4. QED
    BY <1>4, <2>1, <2>2, <2>3
<1>7. CASE call.do = "removeTag" /\ patch # NoPatch
  <2>1. IsFiniteSet(s.tags \ {tag})
        /\ Cardinality(s.tags \ {tag}) \in {Cardinality(s.tags), Cardinality(s.tags) - 1}
    BY <1>1, FS_RemoveElement
  <2>2. Cardinality(s.tags \ {tag}) <= MaxItems
    BY <1>1, <2>1
  <2>3. CASE tag \in s.active
    <3> DEFINE tags == s.tags \ {tag}
               active == s.active \ {tag}
    <3>1. patch = [tags |-> tags, active |-> active]
      BY <1>7, <2>3 DEF TagFilter, RemoveTag
    <3>2. active \subseteq tags
      BY <1>1
    <3> HIDE DEF tags, active
    <3>3. Merged(s, patch, "tags") = tags /\ Merged(s, patch, "active") = active
          /\ DOMAIN patch = {"tags", "active"}
      BY <3>1 DEF Merged
    <3>4. QED
      BY <2>1, <2>2, <3>2, <3>3 DEF TagsFit, tags
  <2>4. CASE tag \notin s.active
    <3>1. patch = [tags |-> s.tags \ {tag}]
      BY <1>7, <2>4 DEF TagFilter, RemoveTag
    <3>2. s.active \subseteq s.tags \ {tag}
      BY <1>1, <2>4
    <3>3. QED
      BY <1>4, <2>1, <2>2, <3>1, <3>2
  <2>5. QED
    BY <2>3, <2>4
<1>8. CASE call.do = "clearActive" /\ patch # NoPatch
  BY <1>3, <1>8 DEF TagFilter
<1>9. QED
  BY <1>2, <1>5, <1>6, <1>7, <1>8 DEF Names

SetsFit(sets) ==
  /\ IsFiniteSet(DOMAIN sets) /\ Cardinality(DOMAIN sets) <= MaxItems
  /\ sets = [x \in DOMAIN sets |-> sets[x]]

ExerciseFit(x) ==
  /\ x = [category |-> x.category, sets |-> x.sets, repeats |-> x.repeats]
  /\ x.category \in Categories /\ SetsFit(x.sets) /\ ~x.repeats

ExercisesFit(exercises) ==
  /\ IsFiniteSet(DOMAIN exercises) /\ Cardinality(DOMAIN exercises) <= MaxItems
  /\ exercises = [e \in DOMAIN exercises |-> exercises[e]]
  /\ \A e \in DOMAIN exercises : ExerciseFit(exercises[e])

HistoryFit(history) == history \in Seq(ToSet(history)) /\ Len(history) <= MaxItems

WorkoutFit(categories, active, exercises, history) ==
  /\ categories = Categories /\ active \in Categories
  /\ ExercisesFit(exercises) /\ HistoryFit(history)

LEMMA NewSetsFit ==
  ASSUME NEW exercise, ExerciseFit(exercise), NEW sets, SetsFit(sets),
         NEW new, new = [exercise EXCEPT !.sets = sets]
  PROVE  ExerciseFit(new)
<1>1. /\ exercise = [category |-> exercise.category, sets |-> exercise.sets,
                     repeats |-> exercise.repeats]
      /\ exercise.category \in Categories /\ ~exercise.repeats
  BY DEF ExerciseFit
<1>2. new = [category |-> exercise.category, sets |-> sets, repeats |-> exercise.repeats]
  BY <1>1
<1>3. new.category = exercise.category /\ new.sets = sets /\ new.repeats = exercise.repeats
  BY <1>2
<1>4. QED
  BY <1>1, <1>2, <1>3 DEF ExerciseFit

LEMMA WithSetsFit ==
  ASSUME NEW exercises, ExercisesFit(exercises), NEW e \in DOMAIN exercises, NEW sets, SetsFit(sets),
         NEW new, new = [exercises EXCEPT ![e].sets = sets]
  PROVE  ExercisesFit(new)
<1>1. /\ IsFiniteSet(DOMAIN exercises) /\ Cardinality(DOMAIN exercises) <= MaxItems
      /\ exercises = [d \in DOMAIN exercises |-> exercises[d]]
      /\ \A d \in DOMAIN exercises : ExerciseFit(exercises[d])
  BY DEF ExercisesFit
<1>2. /\ DOMAIN new = DOMAIN exercises /\ new = [d \in DOMAIN exercises |-> new[d]]
      /\ new[e] = [exercises[e] EXCEPT !.sets = sets]
      /\ \A d \in DOMAIN exercises : d # e => new[d] = exercises[d]
  OBVIOUS
<1>3. ExerciseFit(new[e])
  BY <1>1, <1>2, NewSetsFit
<1>4. \A d \in DOMAIN exercises : ExerciseFit(new[d])
  BY <1>1, <1>2, <1>3
<1>5. QED
  BY <1>1, <1>2, <1>4 DEF ExercisesFit

\* One more, or one less.
LEMMA Grown ==
  ASSUME NEW S, IsFiniteSet(S), ~(Cardinality(S) >= MaxItems), NEW x
  PROVE  IsFiniteSet(S \cup {x}) /\ Cardinality(S \cup {x}) <= MaxItems /\ 1 <= MaxItems
<1>1. /\ Cardinality(S) \in Nat /\ IsFiniteSet(S \cup {x})
      /\ Cardinality(S \cup {x}) \in {Cardinality(S), Cardinality(S) + 1}
  BY FS_CardinalityType, FS_AddElement
<1>2. QED
  BY <1>1, ValuesAssumption

LEMMA Shrunk ==
  ASSUME NEW S, IsFiniteSet(S), Cardinality(S) <= MaxItems, NEW x
  PROVE  IsFiniteSet(S \ {x}) /\ Cardinality(S \ {x}) <= MaxItems
<1>1. /\ Cardinality(S) \in Nat /\ IsFiniteSet(S \ {x})
      /\ Cardinality(S \ {x}) \in {Cardinality(S), Cardinality(S) - 1}
  BY FS_CardinalityType, FS_RemoveElement
<1>2. QED
  BY <1>1, ValuesAssumption

WithExercise(exercises, x, id) ==
  [e \in DOMAIN exercises \cup {id} |-> IF e = id THEN x ELSE exercises[e]]

LEMMA AddedExerciseFits ==
  ASSUME NEW exercises, ExercisesFit(exercises), ~(Cardinality(DOMAIN exercises) >= MaxItems),
         NEW x, ExerciseFit(x), NEW id, NEW new, new = WithExercise(exercises, x, id)
  PROVE  ExercisesFit(new)
<1>1. /\ IsFiniteSet(DOMAIN exercises \cup {id})
      /\ Cardinality(DOMAIN exercises \cup {id}) <= MaxItems
      /\ \A e \in DOMAIN exercises : ExerciseFit(exercises[e])
  BY Grown DEF ExercisesFit
<1>2. /\ DOMAIN new = DOMAIN exercises \cup {id} /\ new = [e \in DOMAIN new |-> new[e]]
      /\ \A e \in DOMAIN new : new[e] = x \/ (e \in DOMAIN exercises /\ new[e] = exercises[e])
  BY DEF WithExercise
<1>3. \A e \in DOMAIN new : ExerciseFit(new[e])
  BY <1>1, <1>2
<1>4. QED
  BY <1>1, <1>2, <1>3 DEF ExercisesFit

\* What validate asks of the sets of an exercise that is added.
AddedFits(call) ==
  call.do = "addExercise" =>
    LET x == NewExercise(Arg(call), call.args[3])
    IN  ~x.repeats /\ Cardinality(DOMAIN x.sets) <= MaxItems

\* A list of sets has no more ids than places.
LEMMA NewExerciseSets ==
  ASSUME NEW category, NEW ids \in Seq(Int), NEW x, x = NewExercise(category, ids)
  PROVE  /\ x = [category |-> category, sets |-> x.sets, repeats |-> x.repeats]
         /\ x.sets = [y \in DOMAIN x.sets |-> x.sets[y]]
         /\ x.repeats <=> \E i, j \in DOMAIN ids : i # j /\ SetId(ids, i) = SetId(ids, j)
         /\ IsFiniteSet(DOMAIN x.sets) /\ Cardinality(DOMAIN x.sets) <= Len(ids)
<1> DEFINE S == 1..Len(ids)
           T == {SetId(ids, i) : i \in S}
           f == [i \in S |-> SetId(ids, i)]
           sets == [y \in T |-> FALSE]
           repeats == \E i, j \in S : i # j /\ SetId(ids, i) = SetId(ids, j)
<1>1. Len(ids) \in Nat /\ DOMAIN ids = S
  OBVIOUS
<1>2. x = [category |-> category, sets |-> sets, repeats |-> repeats]
  BY <1>1 DEF NewExercise
<1>3. f \in Surjection(S, T)
  BY DEF Surjection
<1>4. DOMAIN sets = T /\ sets = [y \in DOMAIN sets |-> sets[y]]
  OBVIOUS
<1>5. IsFiniteSet(T) /\ Cardinality(T) <= Len(ids)
  <2> HIDE DEF f, T
  <2>1. IsFiniteSet(S) /\ Cardinality(S) = Len(ids)
    BY <1>1, FS_Interval
  <2>2. QED
    BY <1>3, <2>1, FS_Surjection
<1> HIDE DEF sets, repeats, T
<1>6. x.sets = sets /\ x.repeats = repeats
  BY <1>2
<1>7. repeats <=> \E i, j \in DOMAIN ids : i # j /\ SetId(ids, i) = SetId(ids, j)
  BY <1>1 DEF repeats
<1>8. QED
  BY <1>2, <1>4, <1>5, <1>6, <1>7

\* A list that keeps to the schema and names no set twice is fit.
LEMMA ConformingAdded ==
  ASSUME NEW call, CallKnown(call), Conforms(call), ~RepeatsSetId(call)
  PROVE  AddedFits(call)
<1> SUFFICES ASSUME call.do = "addExercise"
             PROVE  LET x == NewExercise(Arg(call), call.args[3])
                    IN  ~x.repeats /\ Cardinality(DOMAIN x.sets) <= MaxItems
  BY DEF AddedFits
<1>1. PICK ids : ids = call.args[3]
  OBVIOUS
<1>2. ids \in Seq(Int) /\ \A i \in DOMAIN ids : ids[i] <= 0
  BY <1>1 DEF CallKnown
<1>3. Len(ids) <= MaxItems
  BY <1>1 DEF Conforms
<1>4. \A i, j \in DOMAIN ids : i # j /\ ids[i] # 0 => ids[i] # ids[j]
  BY <1>1 DEF RepeatsSetId
<1>5. PICK x : x = NewExercise(Arg(call), ids)
  OBVIOUS
<1>6. \A i, j \in DOMAIN ids : i # j => SetId(ids, i) # SetId(ids, j)
  <2> TAKE i, j \in DOMAIN ids
  <2>1. i \in Nat \ {0} /\ j \in Nat \ {0} /\ ids[i] \in Int /\ ids[j] \in Int
    BY <1>2
  <2>2. QED
    BY <1>2, <1>4, <2>1 DEF SetId
<1>7. ~x.repeats /\ IsFiniteSet(DOMAIN x.sets) /\ Cardinality(DOMAIN x.sets) <= Len(ids)
  BY <1>2, <1>5, <1>6, NewExerciseSets
<1>8. Cardinality(DOMAIN x.sets) \in Nat /\ Len(ids) \in Nat
  BY <1>2, <1>7, FS_CardinalityType
<1>9. QED
  BY <1>1, <1>3, <1>5, <1>7, <1>8, ValuesAssumption

LEMMA RemovedExerciseFits ==
  ASSUME NEW exercises, ExercisesFit(exercises), NEW e,
         NEW new, new = [d \in DOMAIN exercises \ {e} |-> exercises[d]]
  PROVE  ExercisesFit(new)
<1>1. /\ IsFiniteSet(DOMAIN exercises \ {e}) /\ Cardinality(DOMAIN exercises \ {e}) <= MaxItems
      /\ \A d \in DOMAIN exercises : ExerciseFit(exercises[d])
  BY Shrunk DEF ExercisesFit
<1>2. /\ DOMAIN new = DOMAIN exercises \ {e} /\ new = [d \in DOMAIN new |-> new[d]]
      /\ \A d \in DOMAIN new : d \in DOMAIN exercises /\ new[d] = exercises[d]
  OBVIOUS
<1>3. \A d \in DOMAIN new : ExerciseFit(new[d])
  BY <1>1, <1>2
<1>4. QED
  BY <1>1, <1>2, <1>3 DEF ExercisesFit

\* nextWeek: the exercises undone.
LEMMA UndoneFit ==
  ASSUME NEW exercises, ExercisesFit(exercises),
         NEW new, new = [e \in DOMAIN exercises |->
                           [exercises[e] EXCEPT !.sets = [x \in DOMAIN @ |-> FALSE]]]
  PROVE  ExercisesFit(new)
<1>1. /\ IsFiniteSet(DOMAIN exercises) /\ Cardinality(DOMAIN exercises) <= MaxItems
      /\ \A e \in DOMAIN exercises : ExerciseFit(exercises[e])
  BY DEF ExercisesFit
<1>2. DOMAIN new = DOMAIN exercises /\ new = [e \in DOMAIN new |-> new[e]]
  OBVIOUS
<1>3. ASSUME NEW e \in DOMAIN exercises
      PROVE  ExerciseFit(new[e])
  <2> DEFINE old == exercises[e].sets
             sets == [x \in DOMAIN old |-> FALSE]
  <2>1. ExerciseFit(exercises[e]) /\ SetsFit(old)
    BY <1>1 DEF ExerciseFit
  <2>2. SetsFit(sets)
    <3>1. DOMAIN sets = DOMAIN old /\ sets = [x \in DOMAIN sets |-> sets[x]]
      OBVIOUS
    <3>2. QED
      BY <2>1, <3>1 DEF SetsFit
  <2>3. new[e] = [exercises[e] EXCEPT !.sets = sets]
    BY <2>1 DEF ExerciseFit
  <2> HIDE DEF sets
  <2>4. QED
    BY <2>1, <2>2, <2>3, NewSetsFit
<1>4. QED
  BY <1>1, <1>2, <1>3 DEF ExercisesFit

LEMMA WeeksFit ==
  ASSUME NEW history, HistoryFit(history), NEW week,
         NEW weeks, weeks = <<week>> \o history,
         NEW new, new = SubSeq(weeks, 1, Least(Len(weeks), MaxItems))
  PROVE  HistoryFit(new)
<1> DEFINE X == ToSet(history) \cup {week}
<1>1. \A i \in 1..Len(history) : history[i] \in ToSet(history)
  BY DEF HistoryFit, ToSet
<1>2. history \in Seq(X) /\ <<week>> \in Seq(X)
  <2>1. \A i \in 1..Len(history) : history[i] \in X
    BY <1>1
  <2>2. history \in Seq(X)
    <3> HIDE DEF X
    <3>1. QED
      BY <2>1, InSeq DEF HistoryFit
  <2>3. QED
    BY <2>2
<1> HIDE DEF X
<1>3. weeks \in Seq(X) /\ Len(weeks) \in Nat
  BY <1>2
<1>4. Least(Len(weeks), MaxItems) \in 0..Len(weeks) /\ Least(Len(weeks), MaxItems) <= MaxItems
  BY <1>3, ValuesAssumption DEF Least
<1>5. new \in Seq(X) /\ Len(new) = Least(Len(weeks), MaxItems)
  BY <1>3, <1>4
<1>6. new \in Seq(ToSet(new))
  BY <1>5, OfItsElements
<1>7. QED
  BY <1>4, <1>5, <1>6 DEF HistoryFit

LEMMA WorkoutHandled ==
  ASSUME NEW s, WorkoutFit(s.categories, s.active, s.exercises, s.history),
         NEW call, call.do \in Names["workout_split"], CallKnown(call), AddedFits(call), NEW fresh,
         NEW patch, patch = WorkoutSplit(s, call, fresh), patch # Refused
  PROVE  /\ WorkoutFit(Merged(s, patch, "categories"), Merged(s, patch, "active"),
                       Merged(s, patch, "exercises"), Merged(s, patch, "history"))
         /\ DOMAIN patch \subseteq {"active", "exercises", "history", "week"}
<1> DEFINE ex == s.exercises
           e == Arg(call)
           fits == /\ WorkoutFit(Merged(s, patch, "categories"), Merged(s, patch, "active"),
                                 Merged(s, patch, "exercises"), Merged(s, patch, "history"))
                   /\ DOMAIN patch \subseteq {"active", "exercises", "history", "week"}
<1>1. /\ s.categories = Categories /\ s.active \in Categories
      /\ ExercisesFit(ex) /\ HistoryFit(s.history)
      /\ IsFiniteSet(DOMAIN ex)
      /\ \A d \in DOMAIN ex : ExerciseFit(ex[d]) /\ SetsFit(ex[d].sets)
  BY DEF WorkoutFit, ExercisesFit, ExerciseFit
<1>2. ASSUME NEW new, ExercisesFit(new), patch = [exercises |-> new]
      PROVE  fits
  <2>1. /\ DOMAIN patch = {"exercises"} /\ Merged(s, patch, "exercises") = new
        /\ Merged(s, patch, "categories") = s.categories
        /\ Merged(s, patch, "active") = s.active /\ Merged(s, patch, "history") = s.history
    BY <1>2 DEF Merged
  <2>2. QED
    BY <1>1, <1>2, <2>1 DEF WorkoutFit
<1>3. ASSUME e \in DOMAIN ex, NEW sets, SetsFit(sets), patch = WithSets(s, e, sets)
      PROVE  fits
  <2>1. ExercisesFit([ex EXCEPT ![e].sets = sets])
    BY <1>1, <1>3, WithSetsFit
  <2>2. QED
    BY <1>2, <1>3, <2>1 DEF WithSets
<1>4. CASE call.do = "tickSet"
  <2> DEFINE x == call.args[2]
             new == [ex[e].sets EXCEPT ![x] = ~@]
  <2>1. e \in DOMAIN ex /\ patch = WithSets(s, e, new)
    BY <1>4 DEF WorkoutSplit, TickSet
  <2>2. DOMAIN new = DOMAIN ex[e].sets /\ new = [y \in DOMAIN new |-> new[y]]
    OBVIOUS
  <2>3. SetsFit(new)
    BY <1>1, <2>1, <2>2 DEF SetsFit
  <2>4. QED
    BY <1>3, <2>1, <2>3
<1>5. CASE call.do = "tickAllInExercise"
  <2> DEFINE new == [x \in DOMAIN ex[e].sets |-> call.args[2] = 1]
  <2>1. e \in DOMAIN ex /\ patch = WithSets(s, e, new)
    BY <1>5 DEF WorkoutSplit, TickAllInExercise
  <2>2. DOMAIN new = DOMAIN ex[e].sets /\ new = [y \in DOMAIN new |-> new[y]]
    OBVIOUS
  <2>3. SetsFit(new)
    BY <1>1, <2>1, <2>2 DEF SetsFit
  <2>4. QED
    BY <1>3, <2>1, <2>3
<1>6. CASE call.do \in {"updateSet", "renameExercise"}
  <2>1. patch = [exercises |-> ex]
    BY <1>6 DEF WorkoutSplit, UpdateSet, RenameExercise
  <2>2. QED
    BY <1>1, <1>2, <2>1
<1>7. CASE call.do = "addSet"
  <2> DEFINE sets == ex[e].sets
             id == IF call.args[2] = 0 THEN MaxItems + fresh ELSE call.args[2]
             new == [x \in DOMAIN sets \cup {id} |-> IF x = id THEN FALSE ELSE sets[x]]
  <2>1. /\ e \in DOMAIN ex /\ ~(Cardinality(DOMAIN sets) >= MaxItems)
        /\ patch = WithSets(s, e, new)
    BY <1>7 DEF WorkoutSplit, AddSet
  <2>2. DOMAIN new = DOMAIN sets \cup {id} /\ new = [y \in DOMAIN new |-> new[y]]
    OBVIOUS
  <2>3. IsFiniteSet(DOMAIN sets)
    BY <1>1, <2>1 DEF SetsFit
  <2>4. IsFiniteSet(DOMAIN sets \cup {id}) /\ Cardinality(DOMAIN sets \cup {id}) <= MaxItems
    BY <2>1, <2>3, Grown
  <2>5. SetsFit(new)
    BY <2>2, <2>4 DEF SetsFit
  <2>6. QED
    BY <1>3, <2>1, <2>5
<1>8. CASE call.do = "removeSet"
  <2> DEFINE sets == ex[e].sets
             x == call.args[2]
             new == [y \in DOMAIN sets \ {x} |-> sets[y]]
  <2>1. e \in DOMAIN ex /\ patch = WithSets(s, e, new)
    BY <1>8 DEF WorkoutSplit, RemoveSet
  <2>2. DOMAIN new = DOMAIN sets \ {x} /\ new = [y \in DOMAIN new |-> new[y]]
    OBVIOUS
  <2>3. IsFiniteSet(DOMAIN sets) /\ Cardinality(DOMAIN sets) <= MaxItems
    BY <1>1, <2>1 DEF SetsFit
  <2>4. IsFiniteSet(DOMAIN sets \ {x}) /\ Cardinality(DOMAIN sets \ {x}) <= MaxItems
    BY <2>3, Shrunk
  <2>5. SetsFit(new)
    BY <2>2, <2>4 DEF SetsFit
  <2>6. QED
    BY <1>3, <2>1, <2>5
<1>9. CASE call.do = "addExercise"
  <2> DEFINE ids == call.args[3]
             id == IF call.args[2] = 0 THEN fresh ELSE call.args[2]
             x == NewExercise(e, ids)
  <2>1. /\ e \in Categories /\ ~(Cardinality(DOMAIN ex) >= MaxItems)
        /\ patch = [exercises |-> WithExercise(ex, x, id)]
    BY <1>9 DEF WorkoutSplit, AddExercise, WithExercise
  <2>2. ids \in Seq(Int) /\ ~x.repeats /\ Cardinality(DOMAIN x.sets) <= MaxItems
    BY <1>9 DEF CallKnown, AddedFits
  <2> HIDE DEF ids, x, id
  <2>3. ExerciseFit(x)
    <3>1. /\ x = [category |-> e, sets |-> x.sets, repeats |-> x.repeats]
          /\ x.sets = [y \in DOMAIN x.sets |-> x.sets[y]] /\ IsFiniteSet(DOMAIN x.sets)
      BY <2>2, NewExerciseSets DEF x
    <3>2. x.category = e
      BY <3>1
    <3>3. QED
      BY <2>1, <2>2, <3>1, <3>2 DEF ExerciseFit, SetsFit
  <2>4. ExercisesFit(WithExercise(ex, x, id))
    BY <1>1, <2>1, <2>3, AddedExerciseFits
  <2>5. QED
    BY <1>2, <2>1, <2>4
<1>10. CASE call.do = "removeExercise"
  <2> DEFINE new == [d \in DOMAIN ex \ {e} |-> ex[d]]
  <2>1. patch = [exercises |-> new]
    BY <1>10 DEF WorkoutSplit, RemoveExercise
  <2>2. ExercisesFit(new)
    BY <1>1, RemovedExerciseFits
  <2>3. QED
    BY <1>2, <2>1, <2>2
<1>11. CASE call.do = "setActiveCategory"
  <2>1. e \in Categories /\ patch = [active |-> e]
    BY <1>11 DEF WorkoutSplit, SetActiveCategory
  <2>2. /\ DOMAIN patch = {"active"} /\ Merged(s, patch, "active") = e
        /\ Merged(s, patch, "categories") = s.categories
        /\ Merged(s, patch, "exercises") = ex /\ Merged(s, patch, "history") = s.history
    BY <2>1 DEF Merged
  <2>3. QED
    BY <1>1, <2>1, <2>2 DEF WorkoutFit
<1>12. CASE call.do = "nextWeek"
  <2> DEFINE week == [week |-> s.week] @@ Progress(ex)
             weeks == <<week>> \o s.history
             history == SubSeq(weeks, 1, Least(Len(weeks), MaxItems))
             new == [d \in DOMAIN ex |-> [ex[d] EXCEPT !.sets = [x \in DOMAIN @ |-> FALSE]]]
  <2>1. patch = [history |-> history, exercises |-> new, week |-> s.week + 1]
    BY <1>12, Zenon DEF WorkoutSplit, NextWeek
  <2>2. ExercisesFit(new)
    BY <1>1, UndoneFit
  <2>3. HistoryFit(history)
    <3> HIDE DEF week
    <3>1. QED
      BY <1>1, WeeksFit
  <2> HIDE DEF history, new
  <2>4. /\ DOMAIN patch = {"history", "exercises", "week"}
        /\ Merged(s, patch, "exercises") = new /\ Merged(s, patch, "history") = history
        /\ Merged(s, patch, "categories") = s.categories
        /\ Merged(s, patch, "active") = s.active
    BY <2>1 DEF Merged
  <2>5. QED
    BY <1>1, <2>2, <2>3, <2>4 DEF WorkoutFit
<1>13. QED
  BY <1>4, <1>5, <1>6, <1>7, <1>8, <1>9, <1>10, <1>11, <1>12 DEF Names

-------------------------------------------------------------------------------
(***************************************************************************)
(* The slot and what is made of it.                                        *)
(***************************************************************************)
LEMMA SlotOfItems ==
  ASSUME kind \in ListKinds, NEW fresh, NEW slot, slot # Null
  PROVE  /\ Valid(kind, slot) => "items" \in DOMAIN slot
         /\ SlotOK(slot, fresh) <=> "items" \in DOMAIN slot /\ ItemsFit(kind, slot.items, fresh)
<1>1. /\ kind \in {"list", "places", "reminder"} /\ kind \notin Setters
      /\ kind \notin {"counter", "progress_ring", "stat_card", "timer"}
      /\ kind \in DOMAIN Entries
  BY DEF ListKinds, Setters, Entries
<1>2. Valid(kind, slot) <=> /\ Has(slot, {"items"}) /\ Len(slot.items) <= MaxItems
                            /\ DistinctIds(slot.items)
  BY <1>1 DEF Valid
<1>3. Typed(slot, fresh) <=> /\ slot.items \in Seq(Entries[kind])
                             /\ \A i \in DOMAIN slot.items : slot.items[i].id < fresh
  BY <1>1, Zenon DEF Typed
<1>4. QED
  BY <1>2, <1>3 DEF SlotOK, ItemsFit, Has

LEMMA SlotOfTicks ==
  ASSUME kind = "calendar_grid", NEW fresh, NEW slot, slot # Null
  PROVE  /\ Valid(kind, slot) => "ticks" \in DOMAIN slot
         /\ SlotOK(slot, fresh) <=> "ticks" \in DOMAIN slot /\ CalendarFit(slot.ticks)
<1>1. kind \notin Setters /\ kind \notin DOMAIN Entries
  BY DEF Setters, Entries
<1>2. Valid(kind, slot) <=> ValidCalendar(slot)
  BY <1>1 DEF Valid
<1>3. Typed(slot, fresh) <=> slot.ticks \in Seq(Days)
  BY <1>1, Zenon DEF Typed
<1>4. QED
  BY <1>2, <1>3 DEF SlotOK, CalendarFit, ValidCalendar, Ascending, Has

LEMMA SlotOfTags ==
  ASSUME kind = "tag_filter", NEW fresh, NEW slot, slot # Null
  PROVE  /\ Valid(kind, slot) => {"tags", "active"} \subseteq DOMAIN slot
         /\ SlotOK(slot, fresh) <=> /\ {"tags", "active"} \subseteq DOMAIN slot
                                    /\ TagsFit(slot.tags, slot.active)
<1>1. kind \notin Setters /\ kind \notin DOMAIN Entries
  BY DEF Setters, Entries
<1>2. Valid(kind, slot) <=> ValidTagFilter(slot)
  BY <1>1 DEF Valid
<1>3. Typed(slot, fresh) <=> IsFiniteSet(slot.tags)
  BY <1>1, Zenon DEF Typed
<1>4. QED
  BY <1>2, <1>3 DEF SlotOK, TagsFit, ValidTagFilter, Has

WorkoutFields == {"categories", "active", "week", "exercises", "history"}

LEMMA SlotOfWorkout ==
  ASSUME kind = "workout_split", NEW fresh, NEW slot, slot # Null
  PROVE  /\ Valid(kind, slot) => WorkoutFields \subseteq DOMAIN slot
         /\ SlotOK(slot, fresh) <=>
              /\ WorkoutFields \subseteq DOMAIN slot
              /\ WorkoutFit(slot.categories, slot.active, slot.exercises, slot.history)
<1>1. kind \notin Setters /\ kind \notin DOMAIN Entries
  BY DEF Setters, Entries
<1>2. Valid(kind, slot) <=> ValidWorkout(slot)
  BY <1>1 DEF Valid
<1>3. Typed(slot, fresh) <=>
        /\ slot.categories = Categories /\ slot.history \in Seq(ToSet(slot.history))
        /\ IsFiniteSet(DOMAIN slot.exercises)
        /\ slot.exercises = [e \in DOMAIN slot.exercises |-> slot.exercises[e]]
        /\ \A e \in DOMAIN slot.exercises : Exercise(slot.exercises[e])
  BY <1>1, Zenon DEF Typed
<1>4. Valid(kind, slot) => WorkoutFields \subseteq DOMAIN slot
  BY <1>2, Zenon DEF ValidWorkout, Has, WorkoutFields
<1>5. ASSUME SlotOK(slot, fresh)
      PROVE  WorkoutFit(slot.categories, slot.active, slot.exercises, slot.history)
  <2>1. Typed(slot, fresh) /\ ValidWorkout(slot)
    BY <1>2, <1>5 DEF SlotOK
  <2>2. \A e \in DOMAIN slot.exercises : ExerciseFit(slot.exercises[e])
    BY <1>3, <2>1 DEF ValidWorkout, Exercise, ExerciseFit, SetsFit
  <2>3. QED
    BY <1>3, <2>1, <2>2 DEF ValidWorkout, WorkoutFit, ExercisesFit, HistoryFit
<1>6. ASSUME WorkoutFields \subseteq DOMAIN slot,
             WorkoutFit(slot.categories, slot.active, slot.exercises, slot.history)
      PROVE  SlotOK(slot, fresh)
  <2>1. /\ slot.categories = Categories /\ slot.active \in Categories
        /\ ExercisesFit(slot.exercises) /\ HistoryFit(slot.history)
    BY <1>6 DEF WorkoutFit
  <2>2. \A e \in DOMAIN slot.exercises :
          /\ Exercise(slot.exercises[e]) /\ slot.exercises[e].category \in Categories
          /\ Cardinality(DOMAIN slot.exercises[e].sets) <= MaxItems
          /\ ~slot.exercises[e].repeats
    BY <2>1 DEF ExercisesFit, ExerciseFit, SetsFit, Exercise
  <2>3. Typed(slot, fresh)
    BY <1>3, <2>1, <2>2 DEF ExercisesFit, HistoryFit
  <2>4. ValidWorkout(slot)
    BY <1>6, <2>1, <2>2 DEF ValidWorkout, Has, WorkoutFields, ExercisesFit, HistoryFit
  <2>5. QED
    BY <1>2, <2>3, <2>4 DEF SlotOK
<1>7. QED
  BY <1>4, <1>5, <1>6 DEF SlotOK

\* The initial states hold nothing yet.
LEMMA InitialFits ==
  /\ \A k \in ListKinds : \A fresh : /\ "items" \in DOMAIN Initial(k)
                                     /\ ItemsFit(k, Initial(k).items, fresh)
  /\ "ticks" \in DOMAIN Initial("calendar_grid") /\ CalendarFit(Initial("calendar_grid").ticks)
  /\ {"tags", "active"} \subseteq DOMAIN Initial("tag_filter")
  /\ TagsFit(Initial("tag_filter").tags, Initial("tag_filter").active)
  /\ WorkoutFields \subseteq DOMAIN Initial("workout_split")
  /\ LET s == Initial("workout_split") IN WorkoutFit(s.categories, s.active, s.exercises, s.history)
<1>1. ASSUME NEW k \in ListKinds, NEW fresh
      PROVE  "items" \in DOMAIN Initial(k) /\ ItemsFit(k, Initial(k).items, fresh)
  <2>1. Initial(k) = [items |-> <<>>]
    BY DEF ListKinds, Initial, Setters
  <2>2. QED
    BY <2>1, NoItemsFit
<1>2. "ticks" \in DOMAIN Initial("calendar_grid") /\ CalendarFit(Initial("calendar_grid").ticks)
  <2>1. Initial("calendar_grid") = [ticks |-> <<>>]
    BY DEF Initial, Setters
  <2>2. CalendarFit(<<>>)
    BY ValuesAssumption DEF CalendarFit, Ascending
  <2>3. QED
    BY <2>1, <2>2
<1>3. /\ {"tags", "active"} \subseteq DOMAIN Initial("tag_filter")
      /\ TagsFit(Initial("tag_filter").tags, Initial("tag_filter").active)
  <2>1. Initial("tag_filter") = [tags |-> {}, active |-> {}]
    BY DEF Initial, Setters
  <2>2. TagsFit({}, {})
    BY FS_EmptySet, ValuesAssumption DEF TagsFit
  <2>3. QED
    BY <2>1, <2>2
<1>4. /\ WorkoutFields \subseteq DOMAIN Initial("workout_split")
      /\ LET s == Initial("workout_split") IN WorkoutFit(s.categories, s.active, s.exercises, s.history)
  <2> DEFINE none == [e \in {} |-> Null]
  <2>1. Initial("workout_split") = [categories |-> Categories, active |-> 1, week |-> 0,
                                    exercises |-> none, history |-> <<>>]
    BY DEF Initial, Setters
  <2>2. ExercisesFit(none)
    <3>1. DOMAIN none = {} /\ none = [e \in DOMAIN none |-> none[e]]
      OBVIOUS
    <3>2. QED
      BY <3>1, FS_EmptySet, ValuesAssumption DEF ExercisesFit
  <2>3. HistoryFit(<<>>) /\ 1 \in Categories
    BY ValuesAssumption DEF HistoryFit, Categories
  <2> HIDE DEF none
  <2>4. QED
    BY <2>1, <2>2, <2>3 DEF WorkoutFit, WorkoutFields
<1>5. QED
  BY <1>1, <1>2, <1>3, <1>4

\* A field of the new slot: from the patch or from the slot the handler had.
AllMerged(new, s, patch) == \A f \in DOMAIN new : new[f] = Merged(s, patch, f)

LEMMA NewFields ==
  ASSUME NEW slot, NEW s, slot # Null => s = slot, NEW patch,
         NEW new, new = ApplyPatches(slot, patch), slot # Null \/ DOMAIN patch # {}
  PROVE  /\ AllMerged(new, s, patch)
         /\ slot # Null => DOMAIN slot \subseteq DOMAIN new
<1>1. CASE slot = Null
  <2>1. new = patch
    BY <1>1, Zenon DEF ApplyPatches
  <2>2. QED
    BY <1>1, <2>1 DEF Merged, AllMerged
<1>2. CASE slot # Null /\ DOMAIN patch = {}
  <2>1. new = slot
    BY <1>2, Unpatched
  <2>2. QED
    BY <1>2, <2>1 DEF Merged, AllMerged
<1>3. CASE slot # Null /\ DOMAIN patch # {}
  <2>1. new = [g \in DOMAIN patch \cup DOMAIN slot |->
                 IF g \in DOMAIN patch THEN patch[g] ELSE slot[g]]
    BY <1>3, Zenon DEF ApplyPatches
  <2>2. QED
    BY <1>3, <2>1 DEF Merged, AllMerged
<1>4. QED
  BY <1>1, <1>2, <1>3

\* validate looks at the exercise that was added.
LEMMA AddedIsValidated ==
  ASSUME kind = "workout_split", NEW call, NEW fresh, NEW s,
         NEW patch, patch = WorkoutSplit(s, call, fresh), patch # Refused,
         NEW new, new # Null, Valid(kind, new), new.exercises = Merged(s, patch, "exercises")
  PROVE  AddedFits(call)
<1> SUFFICES ASSUME call.do = "addExercise" PROVE AddedFits(call)
  BY DEF AddedFits
<1> DEFINE id == IF call.args[2] = 0 THEN fresh ELSE call.args[2]
           x == NewExercise(Arg(call), call.args[3])
           with == WithExercise(s.exercises, x, id)
<1>1. patch = [exercises |-> with]
  BY DEF WorkoutSplit, AddExercise, WithExercise
<1>2. id \in DOMAIN with /\ with[id] = x
  BY DEF WithExercise
<1>3. new.exercises = with
  <2> HIDE DEF with
  <2>1. "exercises" \in DOMAIN patch /\ patch["exercises"] = with
    BY <1>1
  <2>2. QED
    BY <2>1 DEF Merged
<1>4. ValidWorkout(new)
  BY DEF Valid, Setters
<1> HIDE DEF with, id, x
<1>5. Cardinality(DOMAIN x.sets) <= MaxItems /\ ~x.repeats
  BY <1>2, <1>3, <1>4 DEF ValidWorkout
<1>6. QED
  BY <1>5 DEF x, AddedFits

\* An action on a slot that is fit leaves one that is, if validate accepts it, or
\* if there was one and the action does not add an exercise with unfit sets.
LEMMA Handled ==
  ASSUME kind \in DOMAIN Names, NEW fresh \in Nat, NEW slot, SlotOK(slot, fresh),
         NEW call, CallKnown(call), NEW t,
         NEW patch, patch = RouteAction(kind, slot, call, t, fresh), patch # Refused,
         NEW new, new = ApplyPatches(slot, patch),
         Valid(kind, new) \/ (slot # Null /\ AddedFits(call))
  PROVE  SlotOK(new, fresh + 1)
<1>1. SUFFICES ASSUME new # Null PROVE SlotOK(new, fresh + 1)
  BY DEF SlotOK
<1>2. PICK s : s = IF slot = Null THEN Initial(kind) ELSE slot
  OBVIOUS
<1>3. slot # Null => s = slot
  BY <1>2
<1>4. slot # Null \/ DOMAIN patch # {}
  BY <1>1, Unpatched
<1>5. /\ \A f \in DOMAIN new : new[f] = Merged(s, patch, f)
      /\ slot # Null => DOMAIN slot \subseteq DOMAIN new
  <2>1. new = ApplyPatches(slot, patch) /\ (slot # Null => s = slot) /\ (slot # Null \/ DOMAIN patch # {})
    BY <1>3, <1>4
  <2>2. AllMerged(new, s, patch)
    BY <2>1, NewFields
  <2>3. slot # Null => DOMAIN slot \subseteq DOMAIN new
    BY <2>1, NewFields
  <2>4. QED
    BY <2>2, <2>3 DEF AllMerged
<1>6. call.do \in Names[kind]
  BY DEF CallKnown
<1>7. CASE kind \in ListKinds
  <2>1. "items" \in DOMAIN s /\ ItemsFit(kind, s.items, fresh)
    <3>1. CASE slot = Null
      BY <1>2, <1>7, <3>1, InitialFits
    <3>2. CASE slot # Null
      BY <1>2, <1>7, <3>2, SlotOfItems
    <3>3. QED
      BY <3>1, <3>2
  <2>2. "items" \in DOMAIN new
    BY <1>1, <1>5, <1>7, SlotOfItems
  <2>3. PatchFits(kind, patch, fresh + 1)
    <3>1. CASE kind = "list"
      <4>1. patch = ListBlock(s, call, fresh)
        BY <1>2, <3>1, Zenon DEF RouteAction, Setters
      <4>2. call.do = "setOrder" => call.args \in Seq(Nat)
        BY DEF CallKnown
      <4>3. QED
        BY <1>6, <2>1, <3>1, <4>1, <4>2, ListHandled
    <3>2. CASE kind = "places"
      <4>1. patch = Places(s, call, fresh)
        BY <1>2, <3>2, Zenon DEF RouteAction, Setters
      <4>2. QED
        BY <1>6, <2>1, <3>2, <4>1, PlacesHandled
    <3>3. CASE kind = "reminder"
      <4>1. patch = Reminder(s, call, fresh)
        BY <1>2, <3>3, Zenon DEF RouteAction, Setters
      <4>2. QED
        BY <1>6, <2>1, <3>3, <4>1, ReminderHandled
    <3>4. QED
      BY <1>7, <3>1, <3>2, <3>3 DEF ListKinds
  <2>4. ItemsFit(kind, Merged(s, patch, "items"), fresh + 1)
    <3>1. CASE patch = NoPatch
      BY <1>7, <2>1, <3>1, NothingMerged, ItemsFitLater
    <3>2. CASE patch = [items |-> patch.items] /\ ItemsFit(kind, patch.items, fresh + 1)
      <4>1. "items" \in DOMAIN patch
        BY <3>2
      <4>2. QED
        BY <3>2, <4>1 DEF Merged
    <3>3. QED
      BY <2>3, <3>1, <3>2 DEF PatchFits
  <2>5. QED
    BY <1>1, <1>5, <1>7, <2>2, <2>4, SlotOfItems
<1>8. CASE kind = "calendar_grid"
  <2>1. CalendarFit(s.ticks)
    <3>1. CASE slot = Null
      BY <1>2, <1>8, <3>1, InitialFits
    <3>2. CASE slot # Null
      BY <1>2, <1>8, <3>2, SlotOfTicks
    <3>3. QED
      BY <3>1, <3>2
  <2>2. "ticks" \in DOMAIN new
    BY <1>1, <1>5, <1>8, SlotOfTicks
  <2>3. patch = CalendarGrid(s, call)
    BY <1>2, <1>8, Zenon DEF RouteAction, Setters
  <2>4. patch = NoPatch \/ (patch = [ticks |-> patch.ticks] /\ CalendarFit(patch.ticks))
    <3>1. call.do \in {"tick", "untick"} => Arg(call) \in Days
      BY DEF CallKnown
    <3>2. QED
      BY <1>6, <1>8, <2>1, <2>3, <3>1, CalendarHandled
  <2>5. CalendarFit(Merged(s, patch, "ticks"))
    <3>1. CASE patch = NoPatch
      BY <2>1, <3>1, NothingMerged
    <3>2. CASE patch = [ticks |-> patch.ticks] /\ CalendarFit(patch.ticks)
      <4>1. "ticks" \in DOMAIN patch
        BY <3>2
      <4>2. QED
        BY <3>2, <4>1 DEF Merged
    <3>3. QED
      BY <2>4, <3>1, <3>2
  <2>6. QED
    BY <1>1, <1>5, <1>8, <2>2, <2>5, SlotOfTicks
<1>9. CASE kind = "tag_filter"
  <2>1. TagsFit(s.tags, s.active)
    <3>1. CASE slot = Null
      BY <1>2, <1>9, <3>1, InitialFits
    <3>2. CASE slot # Null
      BY <1>2, <1>9, <3>2, SlotOfTags
    <3>3. QED
      BY <3>1, <3>2
  <2>2. "tags" \in DOMAIN new /\ "active" \in DOMAIN new
    BY <1>1, <1>5, <1>9, SlotOfTags
  <2>3. patch = TagFilter(s, call)
    BY <1>2, <1>9, Zenon DEF RouteAction, Setters
  <2>4. TagsFit(Merged(s, patch, "tags"), Merged(s, patch, "active"))
    BY <1>6, <1>9, <2>1, <2>3, TagsHandled
  <2>5. QED
    BY <1>1, <1>5, <1>9, <2>2, <2>4, SlotOfTags
<1>10. CASE kind = "workout_split"
  <2>1. WorkoutFit(s.categories, s.active, s.exercises, s.history)
    <3>1. CASE slot = Null
      BY <1>2, <1>10, <3>1, InitialFits
    <3>2. CASE slot # Null
      BY <1>2, <1>10, <3>2, SlotOfWorkout
    <3>3. QED
      BY <3>1, <3>2
  <2>2. WorkoutFields \subseteq DOMAIN new
    BY <1>1, <1>5, <1>10, SlotOfWorkout
  <2>3. patch = WorkoutSplit(s, call, fresh)
    BY <1>2, <1>10, Zenon DEF RouteAction, Setters
  <2>4. /\ new.categories = Merged(s, patch, "categories")
        /\ new.active = Merged(s, patch, "active")
        /\ new.exercises = Merged(s, patch, "exercises")
        /\ new.history = Merged(s, patch, "history")
    BY <1>5, <2>2 DEF WorkoutFields
  <2>5. AddedFits(call)
    BY <1>1, <1>10, <2>3, <2>4, AddedIsValidated
  <2>6. WorkoutFit(Merged(s, patch, "categories"), Merged(s, patch, "active"),
                   Merged(s, patch, "exercises"), Merged(s, patch, "history"))
    BY <1>6, <1>10, <2>1, <2>3, <2>5, WorkoutHandled
  <2>7. QED
    BY <1>1, <1>10, <2>2, <2>4, <2>6, SlotOfWorkout
<1>11. QED
  BY <1>7, <1>8, <1>9, <1>10 DEF Names, ListKinds

\* The other blocks keep nothing that validate does not look at.
LEMMA PlainSlot ==
  ASSUME kind \in Kinds, kind \notin DOMAIN Names, NEW slot, NEW fresh
  PROVE  SlotOK(slot, fresh) <=> Valid(kind, slot)
<1>1. /\ kind \notin DOMAIN Entries /\ kind # "calendar_grid" /\ kind # "tag_filter"
      /\ kind # "workout_split"
  BY DEF Names, Entries
<1>2. Typed(slot, fresh)
  BY <1>1, Zenon DEF Typed
<1>3. QED
  BY <1>2 DEF SlotOK, Valid

LEMMA InitialOK ==
  ASSUME kind \in Kinds, NEW fresh
  PROVE  SlotOK(Initial(kind), fresh)
<1>1. SUFFICES ASSUME Initial(kind) # Null PROVE SlotOK(Initial(kind), fresh)
  BY DEF SlotOK
<1>2. CASE kind \in ListKinds
  BY <1>1, <1>2, InitialFits, SlotOfItems
<1>3. CASE kind = "calendar_grid"
  BY <1>1, <1>3, InitialFits, SlotOfTicks
<1>4. CASE kind = "tag_filter"
  BY <1>1, <1>4, InitialFits, SlotOfTags
<1>5. CASE kind = "workout_split"
  BY <1>1, <1>5, InitialFits, SlotOfWorkout
<1>6. CASE kind \in Kinds \ DOMAIN Names
  <2>1. Valid(kind, Initial(kind))
    <3>1. CASE kind \in Setters
      <4>1. Initial(kind) = [f \in SetBy[kind] \cup Required[kind] |-> 0]
        BY <3>1, Zenon DEF Initial, Setters
      <4>2. Has(Initial(kind), Required[kind])
        BY <4>1 DEF Has
      <4>3. QED
        BY <3>1, <4>2, Zenon DEF Valid, Setters
    <3>2. CASE kind = "counter"
      BY <3>2, ValuesAssumption DEF Valid, Initial, Setters, Has
    <3>3. CASE kind = "progress_ring"
      BY <3>3, ValuesAssumption DEF Valid, Initial, Setters, Has
    <3>4. CASE kind = "stat_card"
      BY <3>4 DEF Valid, Initial, Setters, Has
    <3>5. CASE kind = "timer"
      <4>1. /\ Initial(kind) = [duration |-> MaxValue, status |-> "idle", started |-> Null,
                                paused |-> Null, lastRun |-> Null]
            /\ MaxValue \in 1..MaxValue
        BY <3>5, ValuesAssumption DEF Initial, Setters
      <4>2. ValidTimer(Initial(kind))
        BY <4>1 DEF ValidTimer, Has
      <4>3. QED
        BY <3>5, <4>2 DEF Valid, Setters
    <3>6. QED
      BY <1>6, <3>1, <3>2, <3>3, <3>4, <3>5 DEF Kinds, Names
  <2>2. QED
    BY <1>6, <2>1, PlainSlot
<1>7. QED
  BY <1>2, <1>3, <1>4, <1>5, <1>6 DEF Names, ListKinds

LEMMA EachIs ==
  ASSUME NEW names, NEW args, NEW call \in Each(names, args)
  PROVE  call.do \in names /\ call.args \in args
BY DEF Each, Call

LEMMA CounterConforming ==
  ASSUME NEW slot, slot.value \in -MaxValue..MaxValue, NEW call \in Calls("counter", slot),
         NEW patch, patch = Counter(slot, call), patch # Refused
  PROVE  DOMAIN patch = {"value"} /\ patch.value \in -MaxValue..MaxValue
<1>0. MaxValue \in Nat /\ slot.value \in Int
  BY ValuesAssumption
<1>1. \/ call \in Each({"increment", "decrement"}, {<<1>>, <<2>>})
      \/ call \in Each({"setValue"}, {<<MaxValue>>})
      \/ call = Call("reset", <<>>)
  BY DEF Calls, Setters
<1>2. \/ call.do \in {"increment", "decrement"} /\ Arg(call) \in {1, 2}
      \/ call.do = "setValue" /\ Arg(call) = MaxValue
      \/ call.do = "reset"
  BY <1>1, EachIs DEF Call, Arg
<1>3. CASE call.do = "increment"
  <2>1. patch = [value |-> slot.value + Arg(call)] /\ ~(slot.value + Arg(call) > MaxValue)
    BY <1>3 DEF Counter
  <2>2. slot.value + Arg(call) \in -MaxValue..MaxValue
    BY <1>0, <1>2, <1>3, <2>1
  <2>3. QED
    BY <2>1, <2>2
<1>4. CASE call.do = "decrement"
  <2>1. patch = [value |-> slot.value - Arg(call)] /\ ~(slot.value - Arg(call) < -MaxValue)
    BY <1>4 DEF Counter
  <2>2. slot.value - Arg(call) \in -MaxValue..MaxValue
    BY <1>0, <1>2, <1>4, <2>1
  <2>3. QED
    BY <2>1, <2>2
<1>5. CASE call.do = "setValue"
  <2>1. patch = [value |-> MaxValue]
    BY <1>2, <1>5 DEF Counter
  <2>2. QED
    BY <1>0, <2>1
<1>6. CASE call.do = "reset"
  <2>1. patch = [value |-> 0]
    BY <1>6 DEF Counter
  <2>2. QED
    BY <1>0, <2>1
<1>7. QED
  BY <1>2, <1>3, <1>4, <1>5, <1>6

LEMMA RingConforming ==
  ASSUME NEW slot, slot.value \in 0..MaxValue, NEW call \in Calls("progress_ring", slot),
         Conforms(call), NEW patch, patch = ProgressRing(slot, call)
  PROVE  \/ DOMAIN patch = {"value"} /\ patch.value \in 0..MaxValue
         \/ DOMAIN patch = {"target"} /\ patch.target \in 1..MaxValue
<1>0. MaxValue \in Nat \ {0} /\ slot.value \in Int
  BY ValuesAssumption
<1>1. \/ call \in Each({"increment", "decrement"}, {<<1>>, <<2>>})
      \/ call \in Each({"setValue"}, {<<1>>})
      \/ call \in Each({"setTarget"}, {<<0>>, <<1>>})
      \/ call = Call("reset", <<>>)
  BY DEF Calls, Setters
<1>2. \/ call.do \in {"increment", "decrement"} /\ Arg(call) \in {1, 2}
      \/ call.do = "setValue" /\ Arg(call) = 1
      \/ call.do = "setTarget" /\ Arg(call) \in {0, 1}
      \/ call.do = "reset"
  BY <1>1, EachIs DEF Call, Arg
<1>3. CASE call.do = "increment"
  <2>1. patch = [value |-> Least(MaxValue, slot.value + Arg(call))]
    BY <1>3 DEF ProgressRing
  <2>2. Least(MaxValue, slot.value + Arg(call)) \in 0..MaxValue
    BY <1>0, <1>2, <1>3 DEF Least
  <2>3. QED
    BY <2>1, <2>2
<1>4. CASE call.do = "decrement"
  <2>1. patch = [value |-> Most(0, slot.value - Arg(call))]
    BY <1>4 DEF ProgressRing
  <2>2. Most(0, slot.value - Arg(call)) \in 0..MaxValue
    BY <1>0, <1>2, <1>4 DEF Most
  <2>3. QED
    BY <2>1, <2>2
<1>5. CASE call.do = "setValue"
  <2>1. patch = [value |-> 1]
    BY <1>2, <1>5 DEF ProgressRing
  <2>2. QED
    BY <1>0, <2>1
<1>6. CASE call.do = "setTarget"
  <2>1. Arg(call) >= 1
    BY <1>6 DEF Conforms
  <2>2. Arg(call) = 1
    BY <1>2, <1>6, <2>1
  <2>3. patch = [target |-> 1]
    BY <1>6, <2>2 DEF ProgressRing
  <2>4. QED
    BY <1>0, <2>3
<1>7. CASE call.do = "reset"
  <2>1. patch = [value |-> 0]
    BY <1>7 DEF ProgressRing
  <2>2. QED
    BY <1>0, <2>1
<1>8. QED
  BY <1>2, <1>3, <1>4, <1>5, <1>6, <1>7

\* The timer: what validate asks of a running and of a paused one.
LEMMA TimerConforming ==
  ASSUME NEW slot, slot # Null, ValidTimer(slot), TimerOK(slot, ran),
         NEW call \in Calls("timer", slot), Conforms(call), NEW t \in Nat,
         NEW patch, patch = Timer(slot, call, t), patch # Refused,
         NEW new, new = ApplyPatches(slot, patch)
  PROVE  ValidTimer(new)
<1> DEFINE status == Merged(slot, patch, "status")
<1>1. AllMerged(new, slot, patch) /\ DOMAIN slot \subseteq DOMAIN new
  BY NewFields
<1>2. /\ {"duration", "status", "started", "paused"} \subseteq DOMAIN slot
      /\ slot.duration \in 1..MaxValue /\ MaxValue \in Nat \ {0}
      /\ slot.status = "paused" => slot.paused \in Nat
      /\ slot.status = "running" => slot.started \in Int
  BY ValuesAssumption DEF TimerOK, ValidTimer
<1>3. SUFFICES /\ Merged(slot, patch, "duration") \in 1..MaxValue
               /\ status = "running" => Merged(slot, patch, "started") \in Int
               /\ status = "paused" => Merged(slot, patch, "paused") \in Int
  <2>1. /\ {"duration", "status", "started", "paused"} \subseteq DOMAIN new
        /\ new.duration = Merged(slot, patch, "duration")
        /\ new.status = status /\ new.started = Merged(slot, patch, "started")
        /\ new.paused = Merged(slot, patch, "paused")
    BY <1>1, <1>2 DEF AllMerged
  <2>2. QED
    BY <2>1, ValuesAssumption DEF ValidTimer, Has
<1>4. \/ call \in Each({"start"}, {<<Null>>, <<1>>, <<0>>})
      \/ call \in Each({"setDuration"}, {<<1>>, <<0>>})
      \/ call \in Each({"pause", "resume", "stop", "complete", "reset"}, {<<>>})
  BY DEF Calls, Setters
<1>5. CASE patch = NoPatch
  BY <1>2, <1>5, NothingMerged
<1>6. CASE call.do = "start" /\ patch # NoPatch
  <2> DEFINE duration == IF Arg(call) = Null THEN slot.duration ELSE Arg(call)
  <2>1. /\ patch = [duration |-> duration, status |-> "running", started |-> t, paused |-> Null]
        /\ duration \in 1..MaxValue
    BY <1>6 DEF Timer, StartTimer
  <2> HIDE DEF duration
  <2>2. /\ Merged(slot, patch, "duration") = duration /\ status = "running"
        /\ Merged(slot, patch, "started") = t
    BY <2>1 DEF Merged
  <2>3. QED
    BY <2>1, <2>2
<1>7. CASE call.do = "pause" /\ patch # NoPatch
  <2> DEFINE paused == Most(0, (t - slot.started) \div PerSecond)
  <2>1. /\ patch = [status |-> "paused", paused |-> paused, started |-> Null]
        /\ slot.status = "running"
    BY <1>7 DEF Timer, PauseTimer
  <2>2. paused \in Int
    <3>1. (t - slot.started) \div PerSecond \in Int
      BY <1>2, <2>1, Divided
    <3>2. QED
      BY <3>1 DEF Most
  <2> HIDE DEF paused
  <2>3. /\ Merged(slot, patch, "duration") = slot.duration /\ status = "paused"
        /\ Merged(slot, patch, "paused") = paused
    BY <2>1 DEF Merged
  <2>4. QED
    BY <1>2, <2>2, <2>3
<1>8. CASE call.do = "resume" /\ patch # NoPatch
  <2> DEFINE started == t - slot.paused * PerSecond
  <2>1. /\ patch = [status |-> "running", started |-> started, paused |-> Null]
        /\ slot.status = "paused"
    BY <1>8 DEF Timer, ResumeTimer
  <2>2. started \in Int
    BY <1>2, <2>1, PerSecondAssumption
  <2> HIDE DEF started
  <2>3. /\ Merged(slot, patch, "duration") = slot.duration /\ status = "running"
        /\ Merged(slot, patch, "started") = started
    BY <2>1 DEF Merged
  <2>4. QED
    BY <1>2, <2>2, <2>3
<1>9. CASE call.do \in {"stop", "complete", "reset"} /\ patch # NoPatch
  <2>1. /\ patch.status \in {"idle", "done"} /\ "status" \in DOMAIN patch
        /\ "duration" \notin DOMAIN patch
    BY <1>9 DEF Timer, StopTimer, CompleteTimer, ResetTimer
  <2>2. status \in {"idle", "done"} /\ Merged(slot, patch, "duration") = slot.duration
    BY <2>1 DEF Merged
  <2>3. QED
    BY <1>2, <2>2
<1>10. CASE call.do = "setDuration" /\ patch # NoPatch
  <2>1. call.args \in {<<1>>, <<0>>} /\ Arg(call) >= 1
    <3>1. call.args \in {<<1>>, <<0>>}
      BY <1>4, <1>10, EachIs
    <3>2. Arg(call) >= 1
      BY <1>10 DEF Conforms
    <3>3. QED
      BY <3>1, <3>2
  <2>2. Arg(call) = 1
    BY <2>1 DEF Arg
  <2>3. patch = [duration |-> 1] /\ slot.status # "running"
    BY <1>10, <2>2 DEF Timer, SetDuration
  <2>4. /\ Merged(slot, patch, "duration") = 1 /\ status = slot.status
        /\ Merged(slot, patch, "started") = slot.started
        /\ Merged(slot, patch, "paused") = slot.paused
    BY <2>3 DEF Merged
  <2>5. QED
    BY <1>2, <2>4
<1>11. QED
  BY <1>4, <1>5, <1>6, <1>7, <1>8, <1>9, <1>10, EachIs

\* Of the blocks without lists, an action that keeps to its schema leaves a
\* slot that validate accepts.
LEMMA PlainConforming ==
  ASSUME kind \in Kinds, kind \notin DOMAIN Names, NEW slot, slot # Null, Valid(kind, slot),
         kind = "timer" => TimerOK(slot, ran),
         NEW call \in Calls(kind, slot), Conforms(call), NEW t \in Nat, NEW fresh,
         NEW patch, patch = RouteAction(kind, slot, call, t, fresh), patch # Refused,
         NEW new, new = ApplyPatches(slot, patch)
  PROVE  Valid(kind, new)
<1>1. AllMerged(new, slot, patch) /\ DOMAIN slot \subseteq DOMAIN new
  BY NewFields
<1>2. CASE kind \in Setters
  <2>1. Has(slot, Required[kind])
    BY <1>2, Zenon DEF Valid, Setters
  <2>2. Has(new, Required[kind])
    BY <1>1, <2>1 DEF Has
  <2>3. QED
    BY <1>2, <2>2, Zenon DEF Valid, Setters
<1>3. CASE kind = "counter"
  <2>1. "value" \in DOMAIN slot /\ slot.value \in -MaxValue..MaxValue
    BY <1>3 DEF Valid, Setters, Has
  <2>2. patch = Counter(slot, call)
    BY <1>3, Zenon DEF RouteAction, Setters
  <2>3. DOMAIN patch = {"value"} /\ patch.value \in -MaxValue..MaxValue
    BY <1>3, <2>1, <2>2, CounterConforming
  <2>4. "value" \in DOMAIN new /\ new.value = patch.value
    BY <1>1, <2>1, <2>3 DEF AllMerged, Merged
  <2>5. QED
    BY <1>3, <2>3, <2>4 DEF Valid, Setters, Has
<1>4. CASE kind = "progress_ring"
  <2>1. /\ "value" \in DOMAIN slot /\ slot.value \in 0..MaxValue
        /\ "target" \in DOMAIN slot /\ slot.target \in 1..MaxValue
    BY <1>4 DEF Valid, Setters, Has
  <2>2. patch = ProgressRing(slot, call)
    BY <1>4, Zenon DEF RouteAction, Setters
  <2>3. \/ DOMAIN patch = {"value"} /\ patch.value \in 0..MaxValue
        \/ DOMAIN patch = {"target"} /\ patch.target \in 1..MaxValue
    BY <1>4, <2>1, <2>2, RingConforming
  <2>4. /\ "value" \in DOMAIN new /\ new.value \in 0..MaxValue
        /\ "target" \in DOMAIN new /\ new.target \in 1..MaxValue
    BY <1>1, <2>1, <2>3 DEF AllMerged, Merged
  <2>5. QED
    BY <1>4, <2>4 DEF Valid, Setters, Has
<1>5. CASE kind = "stat_card"
  <2>1. "value" \in DOMAIN slot
    BY <1>5 DEF Valid, Setters, Has
  <2>2. "value" \in DOMAIN new
    BY <1>1, <2>1
  <2>3. QED
    BY <1>5, <2>2 DEF Valid, Setters, Has
<1>6. CASE kind = "timer"
  <2>1. ValidTimer(slot)
    BY <1>6 DEF Valid, Setters
  <2>2. patch = Timer(slot, call, t)
    BY <1>6, Zenon DEF RouteAction, Setters
  <2>3. ValidTimer(new)
    BY <1>6, <2>1, <2>2, TimerConforming
  <2>4. QED
    BY <1>6, <2>3 DEF Valid, Setters
<1>7. QED
  BY <1>2, <1>3, <1>4, <1>5, <1>6 DEF Kinds, Names

\* The orders a client may send are lists of ids.
LEMMA OrdersAre ==
  ASSUME kind = "list", NEW slot, NEW fresh, SlotOK(slot, fresh), NEW order \in Orders(slot)
  PROVE  order \in Seq(Nat)
<1>1. CASE order = <<0>>
  BY <1>1
<1>2. CASE order # <<0>>
  <2> DEFINE ids == Ids(slot.items)
             n == Cardinality(ids)
  <2>1. slot # Null /\ order \in SetToSeqs(ids)
    BY <1>2 DEF Orders
  <2>2. ItemsFit("list", slot.items, fresh) /\ "list" \in ListKinds
    BY <2>1, SlotOfItems DEF ListKinds
  <2> DEFINE S == 1..Len(slot.items)
             f == [i \in S |-> slot.items[i].id]
  <2>3. Len(slot.items) \in Nat /\ DOMAIN slot.items = S /\ \A i \in S : slot.items[i].id \in Nat
    BY <2>2, ItemsTyped
  <2>4. IsFiniteSet(S)
    BY <2>3, FS_Interval
  <2>5. f \in Surjection(S, ids) /\ ids \subseteq Nat
    BY <2>3 DEF Surjection, Ids
  <2>6. n \in Nat
    <3> HIDE DEF f, S, ids
    <3>1. IsFiniteSet(ids)
      BY <2>4, <2>5, FS_Surjection
    <3>2. QED
      BY <3>1, FS_CardinalityType
  <2>7. order \in [1..n -> ids]
    <3> HIDE DEF ids
    <3>1. QED
      BY <2>1 DEF SetToSeqs
  <2>8. order \in [1..n -> Nat]
    <3> HIDE DEF ids, n
    <3>1. QED
      BY <2>5, <2>7
  <2>9. QED
    <3> HIDE DEF n
    <3>1. QED
      BY <2>6, <2>8
<1>3. QED
  BY <1>1, <1>2

LEMMA NewSetsAre ==
  ASSUME NEW ids \in NewSets
  PROVE  ids \in Seq(Int) /\ \A i \in DOMAIN ids : ids[i] <= 0
<1>1. CASE ids = <<>>
  BY <1>1
<1>2. ASSUME NEW a \in {0, -1}, NEW b \in {0, -1}, ids = <<a, b>>
      PROVE  ids \in Seq(Int) /\ \A i \in DOMAIN ids : ids[i] <= 0
  <2>1. /\ ids \in Seq(Int) /\ DOMAIN ids = {1, 2}
        /\ ids[1] = a /\ ids[2] = b /\ a <= 0 /\ b <= 0
    BY <1>2
  <2>2. QED
    BY <2>1
<1>3. CASE ids = [i \in 1..(MaxItems + 1) |-> 0]
  <2>1. MaxItems + 1 \in Nat
    BY ValuesAssumption
  <2>2. ids \in [1..(MaxItems + 1) -> Int] /\ \A i \in DOMAIN ids : ids[i] = 0
    BY <1>3
  <2>3. QED
    BY <2>1, <2>2
<1>4. QED
  BY <1>1, <1>2, <1>3 DEF NewSets

\* Its calls are known to the block.
LEMMA CallsKnown ==
  ASSUME kind \in Kinds, NEW slot, NEW fresh, SlotOK(slot, fresh), NEW call \in Calls(kind, slot)
  PROVE  CallKnown(call)
<1>1. CASE kind \in Setters
  <2>1. Calls(kind, slot) = Each(SetBy[kind], {<<1>>}) \cup
          IF kind = "action_button" THEN {Call("trigger", <<>>)} ELSE {}
    BY <1>1, Zenon DEF Calls, Setters
  <2>2. call.do \in SetBy[kind] \/ call.do = "trigger"
    BY <2>1, EachIs DEF Call
  <2>3. /\ call.do \notin {"setOrder", "tick", "untick", "addExercise"}
        /\ kind \notin DOMAIN Names
    BY <1>1, <2>2 DEF Setters, SetBy, Names
  <2>4. QED
    BY <2>3 DEF CallKnown
<1>2. CASE kind \in {"counter", "progress_ring", "stat_card", "timer"}
  <2>1. \/ call \in Each({"increment", "decrement"}, {<<1>>, <<2>>})
        \/ call \in Each({"setValue"}, {<<MaxValue>>})
        \/ call \in Each({"setValue"}, {<<1>>})
        \/ call \in Each({"setTarget"}, {<<0>>, <<1>>})
        \/ call \in Each({"setValue", "setDelta", "pushSparkline"}, {<<1>>})
        \/ call \in Each({"start"}, {<<Null>>, <<1>>, <<0>>})
        \/ call \in Each({"setDuration"}, {<<1>>, <<0>>})
        \/ call \in Each({"pause", "resume", "stop", "complete", "reset"}, {<<>>})
        \/ call = Call("reset", <<>>)
    BY <1>2 DEF Calls, Setters
  <2>2. call.do \in {"increment", "decrement", "setValue", "setTarget", "setDelta", "pushSparkline",
                     "start", "setDuration", "pause", "resume", "stop", "complete", "reset"}
    BY <2>1, EachIs DEF Call
  <2>3. /\ call.do \notin {"setOrder", "tick", "untick", "addExercise"}
        /\ kind \notin DOMAIN Names
    BY <1>2, <2>2 DEF Names
  <2>4. QED
    BY <2>3 DEF CallKnown
<1>3. CASE kind = "list"
  <2>1. \/ call \in Each({"addItem", "clearDone"}, {<<>>})
        \/ call \in Each({"setOrder"}, Orders(slot))
        \/ call \in Each({"toggleItem", "deleteItem", "setTag"}, {<<id>> : id \in KnownIds(slot)})
    BY <1>3 DEF Calls, Setters
  <2>2. \/ call.do \in {"addItem", "clearDone", "toggleItem", "deleteItem", "setTag"}
        \/ call.do = "setOrder" /\ call.args \in Orders(slot)
    BY <2>1, EachIs
  <2>3. call.do \in Names[kind] /\ call.do \notin {"tick", "untick", "addExercise"}
    BY <1>3, <2>2 DEF Names
  <2>4. call.do = "setOrder" => call.args \in Seq(Nat)
    BY <1>3, <2>2, OrdersAre
  <2>5. QED
    BY <2>3, <2>4 DEF CallKnown
<1>4. CASE kind = "places"
  <2>1. \/ call \in Each({"addPlace", "clearAll"}, {<<>>})
        \/ call \in Each({"updatePlace", "removePlace"}, {<<id>> : id \in KnownIds(slot)})
    BY <1>4 DEF Calls, Setters
  <2>2. call.do \in Names[kind] /\ call.do \notin {"setOrder", "tick", "untick", "addExercise"}
    BY <1>4, <2>1, EachIs DEF Names
  <2>3. QED
    BY <2>2 DEF CallKnown
<1>5. CASE kind = "reminder"
  <2>1. \/ call \in Each({"addEntry"}, {<<0>>, <<1>>})
        \/ call \in Each({"updateEntry", "setEnabled"}, KnownIds(slot) \X {0, 1})
        \/ call \in Each({"removeEntry", "markFired"}, {<<id>> : id \in KnownIds(slot)})
    BY <1>5 DEF Calls, Setters
  <2>2. call.do \in Names[kind] /\ call.do \notin {"setOrder", "tick", "untick", "addExercise"}
    BY <1>5, <2>1, EachIs DEF Names
  <2>3. QED
    BY <2>2 DEF CallKnown
<1>6. CASE kind = "calendar_grid"
  <2>1. \/ call \in Each({"tick", "untick"}, {<<d>> : d \in Days})
        \/ call = Call("clearAll", <<>>)
    BY <1>6 DEF Calls, Setters
  <2>2. \/ call.do \in {"tick", "untick"} /\ call.args \in {<<d>> : d \in Days}
        \/ call.do = "clearAll"
    BY <2>1, EachIs DEF Call
  <2>3. call.do \in Names[kind] /\ call.do \notin {"setOrder", "addExercise"}
    BY <1>6, <2>2 DEF Names
  <2>4. call.do \in {"tick", "untick"} => Arg(call) \in Days
    BY <2>2 DEF Arg
  <2>5. QED
    BY <2>3, <2>4 DEF CallKnown
<1>7. CASE kind = "tag_filter"
  <2>1. \/ call \in Each({"addTag", "removeTag"}, {<<1>>, <<2>>})
        \/ call = Call("clearActive", <<>>)
        \/ call \in Each({"setActive"}, {<<>>, <<1>>, <<2>>, <<1, 2>>})
    BY <1>7 DEF Calls, Setters
  <2>2. call.do \in {"addTag", "removeTag", "clearActive", "setActive"}
    BY <2>1, EachIs DEF Call
  <2>3. call.do \in Names[kind] /\ call.do \notin {"setOrder", "tick", "untick", "addExercise"}
    BY <1>7, <2>2 DEF Names
  <2>4. QED
    BY <2>3 DEF CallKnown
<1>8. CASE kind = "workout_split"
  <2> DEFINE OnSets == UNION {Each({"tickSet", "updateSet", "removeSet"},
                                   {<<e, x>> : x \in SetsOf(slot, e)}) : e \in Exercises(slot)}
  <2>1. Calls(kind, slot) =
          {Call("nextWeek", <<>>)}
          \cup Each({"setActiveCategory"}, {<<0>>, <<2>>})
          \cup Each({"addExercise"}, {0, 2} \X NewIds \X NewSets)
          \cup Each({"addSet"}, Exercises(slot) \X NewIds)
          \cup Each({"removeExercise", "renameExercise"}, {<<e>> : e \in Exercises(slot)})
          \cup Each({"tickAllInExercise"}, Exercises(slot) \X {0, 1})
          \cup OnSets
    BY <1>8 DEF Calls, Setters
  <2>2. call \in OnSets => \E e \in Exercises(slot) :
          call \in Each({"tickSet", "updateSet", "removeSet"}, {<<e, x>> : x \in SetsOf(slot, e)})
    BY Zenon
  <2> HIDE DEF OnSets
  <2> DEFINE others == {"nextWeek", "setActiveCategory", "addSet", "removeExercise",
                        "renameExercise", "tickAllInExercise", "tickSet", "updateSet", "removeSet"}
  <2>3. \/ call.do \in others
        \/ call.do = "addExercise" /\ call.args \in {0, 2} \X NewIds \X NewSets
    <3>1. CASE call \in OnSets
      <4>1. PICK e \in Exercises(slot) :
              call \in Each({"tickSet", "updateSet", "removeSet"}, {<<e, x>> : x \in SetsOf(slot, e)})
        BY <2>2, <3>1
      <4>2. call.do \in {"tickSet", "updateSet", "removeSet"}
        BY <4>1, EachIs
      <4>3. QED
        BY <4>2
    <3>2. CASE call = Call("nextWeek", <<>>)
      BY <3>2 DEF Call
    <3>3. CASE call \in Each({"setActiveCategory"}, {<<0>>, <<2>>})
      BY <3>3, EachIs
    <3>4. CASE call \in Each({"addExercise"}, {0, 2} \X NewIds \X NewSets)
      <4>1. call.do \in {"addExercise"} /\ call.args \in {0, 2} \X NewIds \X NewSets
        BY <3>4, EachIs, Zenon
      <4>2. QED
        BY <4>1
    <3>5. CASE call \in Each({"addSet"}, Exercises(slot) \X NewIds)
      BY <3>5, EachIs
    <3>6. CASE call \in Each({"removeExercise", "renameExercise"}, {<<e>> : e \in Exercises(slot)})
      BY <3>6, EachIs
    <3>7. CASE call \in Each({"tickAllInExercise"}, Exercises(slot) \X {0, 1})
      BY <3>7, EachIs
    <3>8. QED
      BY <2>1, <3>1, <3>2, <3>3, <3>4, <3>5, <3>6, <3>7
  <2>4. call.do \in Names[kind] /\ call.do \notin {"setOrder", "tick", "untick"}
    BY <1>8, <2>3 DEF Names
  <2>5. call.do = "addExercise" =>
          call.args[3] \in Seq(Int) /\ \A i \in DOMAIN call.args[3] : call.args[3][i] <= 0
    <3> SUFFICES ASSUME call.do = "addExercise"
                 PROVE  call.args[3] \in Seq(Int) /\ \A i \in DOMAIN call.args[3] : call.args[3][i] <= 0
      OBVIOUS
    <3>1. call.args[3] \in NewSets
      BY <2>3
    <3>2. QED
      BY <3>1, NewSetsAre
  <2>6. QED
    BY <1>8, <2>4, <2>5 DEF CallKnown
<1>9. QED
  BY <1>1, <1>2, <1>3, <1>4, <1>5, <1>6, <1>7, <1>8 DEF Kinds

-------------------------------------------------------------------------------
(***************************************************************************)
(* The stored slot stays fit, and so do the layouts under way.             *)
(***************************************************************************)
LEMMA InitBlock == Init => BlockInv
<1> SUFFICES ASSUME Init PROVE BlockInv
  OBVIOUS
<1>1. /\ store.slot = Initial(kind) /\ kind \in Kinds /\ \A r \in Requests : req[r] = NoRequest
  BY DEF Init
<1>2. NoRequest.at = "done"
  BY DEF NoRequest
<1>3. TimerInv /\ SlotOK(store.slot, store.version)
  BY <1>1, InitTimer, InitialOK
<1>4. \A r \in Requests : LayoutOK(req[r])
  BY <1>1, <1>2 DEF LayoutOK
<1>5. QED
  BY <1>3, <1>4 DEF BlockInv

\* A step of one call that leaves the stored slot alone.
LEMMA BlockCallStep ==
  ASSUME BlockInv, TimerInv', UNCHANGED <<kind, store>>,
         NEW r \in Requests, NEW record, req' = [req EXCEPT ![r] = record], LayoutOK(record)
  PROVE  BlockInv'
<1>1. /\ req'[r] = record
      /\ \A x \in Requests \ {r} : req'[x] = req[x]
  BY DEF BlockInv, TimerInv, IInv, TypeOK
<1>2. \A x \in Requests : LayoutOK(req'[x])
  BY <1>1 DEF BlockInv
<1>3. \A x \in Requests : LayoutOK(req[x])'
  BY <1>2 DEF LayoutOK, CallKnown, SlotOK, Typed
<1>4. SlotOK(store.slot, store.version)'
  BY DEF BlockInv, SlotOK, Typed
<1>5. QED
  BY <1>3, <1>4 DEF BlockInv

LEMMA BlockEnds ==
  ASSUME BlockInv, TimerInv', UNCHANGED <<kind, store>>,
         NEW r \in Requests, NEW answer, Ends(r, answer)
  PROVE  BlockInv'
<1>1. PICK record : record = [NoRequest EXCEPT !.answer = answer]
  OBVIOUS
<1>2. record.at = "done"
  BY <1>1 DEF NoRequest
<1>3. req' = [req EXCEPT ![r] = record] /\ LayoutOK(record)
  BY <1>1, <1>2 DEF Ends, LayoutOK
<1>4. QED
  BY <1>3, BlockCallStep

LEMMA BlockPrepare ==
  ASSUME BlockInv, TimerInv', UNCHANGED <<kind, store>>, NEW r \in Requests,
         NEW call, call.do # "replace", CallKnown(call), NEW retried, Prepare(r, call, retried)
  PROVE  BlockInv'
<1>1. PICK patch : patch = RouteAction(kind, store.slot, call, clock, store.version)
  OBVIOUS
<1>2. CASE store.deleted \/ patch = Refused
  BY <1>1, <1>2, BlockEnds DEF Prepare
<1>3. CASE ~(store.deleted \/ patch = Refused)
  <2>1. PICK new : new = ApplyPatches(store.slot, patch)
    OBVIOUS
  <2>2. PICK record : record =
          [at |-> "check", call |-> call, version |-> store.version,
           new |-> new, t |-> clock, retried |-> retried, answer |-> "none"]
    OBVIOUS
  <2>3. req' = [req EXCEPT ![r] = record]
    BY <1>1, <1>3, <2>1, <2>2 DEF Prepare
  <2>4. /\ record.at = "check" /\ record.call = call /\ record.new = new
        /\ record.version = store.version
    BY <2>2
  <2>5. /\ SlotOK(store.slot, store.version) /\ store.version \in Nat /\ kind \in Kinds
    BY DEF BlockInv, TimerInv, IInv, TypeOK
  <2>6. Valid(kind, new) => SlotOK(new, store.version + 1)
    <3>1. CASE kind \in DOMAIN Names
      BY <1>1, <1>3, <2>1, <2>5, <3>1, Handled
    <3>2. CASE kind \notin DOMAIN Names
      BY <2>5, <3>2, PlainSlot
    <3>3. QED
      BY <3>1, <3>2
  <2>7. LayoutOK(record)
    BY <2>4, <2>6 DEF LayoutOK
  <2>8. QED
    BY <2>3, <2>7, BlockCallStep
<1>4. QED
  BY <1>2, <1>3

LEMMA BlockMove ==
  ASSUME BlockInv, TimerInv', UNCHANGED <<kind, store>>,
         NEW r \in Requests, NEW at \in {"write", "reread"}, req[r].at \in {"check", "write"},
         at = "write" => Valid(kind, req[r].new), req' = [req EXCEPT ![r].at = at]
  PROVE  BlockInv'
<1>1. PICK record : record = [req[r] EXCEPT !.at = at]
  OBVIOUS
<1>2. RequestTyped(req[r]) /\ LayoutOK(req[r]) /\ r \in DOMAIN req
  BY DEF BlockInv, TimerInv, IInv, TypeOK
<1>3. /\ record.at = at /\ record.call = req[r].call /\ record.version = req[r].version
      /\ record.new = req[r].new
  BY <1>1, <1>2 DEF RequestTyped, NoRequest
<1>4. LayoutOK(record)
  BY <1>2, <1>3 DEF LayoutOK
<1>5. req' = [req EXCEPT ![r] = record]
  BY <1>1, <1>2
<1>6. QED
  BY <1>4, <1>5, BlockCallStep

\* What is written was fit for the version after the one it replaces.
LEMMA BlockWrite ==
  ASSUME BlockInv, TimerInv', NEW r \in Requests, Write(r)
  PROVE  BlockInv'
<1>1. PICK answer : Ends(r, answer)
  BY DEF Write
<1>2. PICK record : record = [NoRequest EXCEPT !.answer = answer]
  OBVIOUS
<1>3. record.at = "done"
  BY <1>2 DEF NoRequest
<1>4. /\ req' = [req EXCEPT ![r] = record] /\ LayoutOK(record) /\ kind' = kind
      /\ req[r].at = "write" /\ store.version = req[r].version
  BY <1>1, <1>2, <1>3 DEF Ends, LayoutOK, Write
<1>5. store'.slot = req[r].new /\ store'.version = store.version + 1
  <2>1. /\ store' = [store EXCEPT !.slot = req[r].new, !.version = @ + 1]
        /\ store = [slot |-> store.slot, version |-> store.version, deleted |-> store.deleted]
    BY DEF Write, BlockInv, TimerInv, IInv, TypeOK
  <2>2. QED
    BY <2>1
<1>6. SlotOK(req[r].new, req[r].version + 1)
  BY <1>4 DEF BlockInv, LayoutOK
<1>7. SlotOK(store.slot, store.version)'
  BY <1>4, <1>5, <1>6 DEF SlotOK, Typed
<1>8. /\ req'[r] = record
      /\ \A x \in Requests \ {r} : req'[x] = req[x]
  BY <1>4 DEF BlockInv, TimerInv, IInv, TypeOK
<1>9. \A x \in Requests : LayoutOK(req'[x])
  BY <1>4, <1>8 DEF BlockInv
<1>10. \A x \in Requests : LayoutOK(req[x])'
  BY <1>4, <1>9 DEF LayoutOK, CallKnown, SlotOK, Typed
<1>11. QED
  BY <1>7, <1>10 DEF BlockInv

LEMMA StepBlock == BlockInv /\ [Next]_vars => BlockInv'
<1> SUFFICES ASSUME BlockInv, [Next]_vars PROVE BlockInv'
  OBVIOUS
<1>1. TimerInv' /\ kind' = kind /\ kind \in Kinds
  <2>1. TimerInv'
    BY StepTimer DEF BlockInv
  <2>2. kind' = kind
    BY DEF Next, vars, ClockTick, DeleteApp, Invoke, Replace, Step, Check, Write, Conflict,
           WriteToDeleted, Retry, Fail
  <2>3. QED
    BY <2>1, <2>2 DEF BlockInv, TimerInv, IInv, TypeOK
<1>2. ASSUME store'.slot = store.slot, store'.version = store.version, req' = req
      PROVE  BlockInv'
  <2>1. SlotOK(store.slot, store.version)'
    BY <1>1, <1>2 DEF BlockInv, SlotOK, Typed
  <2>2. \A r \in Requests : LayoutOK(req[r])'
    BY <1>1, <1>2 DEF BlockInv, LayoutOK, CallKnown, SlotOK, Typed
  <2>3. QED
    BY <1>1, <2>1, <2>2 DEF BlockInv
<1>3. CASE UNCHANGED vars
  BY <1>2, <1>3 DEF vars
<1>4. CASE ClockTick
  BY <1>2, <1>4 DEF ClockTick
<1>5. CASE DeleteApp
  <2>1. /\ store' = [store EXCEPT !.deleted = TRUE] /\ req' = req
        /\ store = [slot |-> store.slot, version |-> store.version, deleted |-> store.deleted]
    BY <1>5 DEF DeleteApp, BlockInv, TimerInv, IInv, TypeOK
  <2>2. store'.slot = store.slot /\ store'.version = store.version
    BY <2>1
  <2>3. QED
    BY <1>2, <2>1, <2>2
<1>6. ASSUME NEW r \in Requests, NEW call \in Calls(kind, store.slot), Invoke(r, call)
      PROVE  BlockInv'
  <2>1. CallKnown(call) /\ call.do # "replace"
    BY <1>1, CallsKnown, InvokedCalls DEF BlockInv
  <2>2. QED
    BY <1>1, <1>6, <2>1, BlockPrepare DEF Invoke
<1>7. ASSUME NEW r \in Requests, NEW new \in {Null, Initial(kind)}, Replace(r, new)
      PROVE  BlockInv'
  <2>1. PICK record : record = [NoRequest EXCEPT
           !.at = "check", !.call = Call("replace", <<new>>), !.version = store.version,
           !.new = new, !.t = clock]
    OBVIOUS
  <2>2. req' = [req EXCEPT ![r] = record] /\ UNCHANGED <<kind, store>>
    BY <1>7, <2>1 DEF Replace
  <2>3. /\ record.at = "check" /\ record.call.do = "replace" /\ record.call.args[1] = new
        /\ record.new = new
    BY <2>1 DEF NoRequest, Call
  <2>4. SlotOK(record.new, record.version + 1)
    <3>1. CASE new = Null
      BY <2>3, <3>1 DEF SlotOK
    <3>2. CASE new = Initial(kind)
      BY <1>1, <2>3, <3>2, InitialOK
    <3>3. QED
      BY <3>1, <3>2
  <2>5. LayoutOK(record)
    BY <2>3, <2>4 DEF LayoutOK
  <2>6. QED
    BY <1>1, <2>2, <2>5, BlockCallStep
<1>8. ASSUME NEW r \in Requests, Step(r) \/ Fail(r)
      PROVE  BlockInv'
  <2>1. CASE Check(r)
    <3>1. CASE store.deleted \/ ~Valid(kind, req[r].new)
      BY <1>1, <2>1, <3>1, BlockEnds DEF Check
    <3>2. CASE ~(store.deleted \/ ~Valid(kind, req[r].new))
      <4>1. /\ req' = [req EXCEPT ![r].at = "write"] /\ req[r].at = "check"
            /\ Valid(kind, req[r].new) /\ UNCHANGED <<kind, store>>
        BY <2>1, <3>2 DEF Check
      <4>2. QED
        BY <1>1, <4>1, BlockMove
    <3>3. QED
      BY <3>1, <3>2
  <2>2. CASE Conflict(r)
    <3>1. CASE Ends(r, "error") \/ Ends(r, "rejected")
      BY <1>1, <2>2, <3>1, BlockEnds DEF Conflict
    <3>2. CASE req' = [req EXCEPT ![r].at = "reread"]
      <4>1. req[r].at = "write" /\ UNCHANGED <<kind, store>>
        BY <2>2 DEF Conflict
      <4>2. QED
        BY <1>1, <3>2, <4>1, BlockMove
    <3>3. QED
      BY <2>2, <3>1, <3>2 DEF Conflict
  <2>3. CASE WriteToDeleted(r) \/ Fail(r)
    BY <1>1, <2>3, BlockEnds DEF WriteToDeleted, Fail
  <2>4. CASE Retry(r)
    <3>1. req[r].call.do # "replace"
      BY <2>4 DEF Retry, BlockInv, TimerInv, IInv, RequestOK
    <3>2. CallKnown(req[r].call)
      BY <2>4, <3>1 DEF Retry, BlockInv, LayoutOK
    <3>3. QED
      BY <1>1, <2>4, <3>1, <3>2, BlockPrepare DEF Retry
  <2>5. CASE Write(r)
    BY <1>1, <2>5, BlockWrite
  <2>6. QED
    BY <1>8, <2>1, <2>2, <2>3, <2>4, <2>5 DEF Step
<1>9. QED
  BY <1>3, <1>4, <1>5, <1>6, <1>7, <1>8 DEF Next

\* Whatever the blocks, the callers and their conflicts: the stored slot is one
\* that validate accepts, with lists of entries whose ids are distinct and
\* older than the version, and so is every layout that passed validation
\* (updateState and validateLayout, apps/api.ts).
THEOREM BlockInvariance == Spec => []BlockInv
BY InitBlock, StepBlock, PTL DEF Spec

\* No action whose payload keeps to its schema is computed into a layout that
\* the validation of updateState then refuses (apps/blocks/*.ts against their
\* own validate), but for an exercise added with one id for two sets, which no
\* schema forbids and whose calls are left out (RepeatsSetId).
THEOREM ConformingIsAccepted == Spec => []ConformingAccepted
<1>1. BlockInv => ConformingAccepted
  <2> SUFFICES ASSUME BlockInv, store.slot # Null, NEW call \in Calls(kind, store.slot),
                      NEW patch, Conforms(call), ~RepeatsSetId(call), patch # Refused,
                      patch = RouteAction(kind, store.slot, call, clock, store.version)
               PROVE  Valid(kind, ApplyPatches(store.slot, patch))
    BY DEF ConformingAccepted
  <2>1. /\ SlotOK(store.slot, store.version) /\ kind \in Kinds /\ store.version \in Nat
        /\ clock \in Nat
        /\ kind = "timer" => TimerOK(store.slot, ran)
    BY DEF BlockInv, TimerInv, IInv, TypeOK
  <2>2. PICK new : new = ApplyPatches(store.slot, patch)
    OBVIOUS
  <2>3. CASE kind \in DOMAIN Names
    <3>1. CallKnown(call)
      BY <2>1, CallsKnown
    <3>2. AddedFits(call)
      BY <3>1, ConformingAdded
    <3>3. SlotOK(new, store.version + 1)
      BY <2>1, <2>2, <2>3, <3>1, <3>2, Handled
    <3>4. QED
      BY <2>2, <3>3 DEF SlotOK, Valid
  <2>4. CASE kind \notin DOMAIN Names
    <3>1. Valid(kind, store.slot)
      BY <2>1 DEF SlotOK
    <3>2. QED
      BY <2>1, <2>2, <2>4, <3>1, PlainConforming
  <2>5. QED
    BY <2>3, <2>4
<1>2. QED
  BY <1>1, BlockInvariance, PTL

\* computeStreaks (apps/blocks/calendar_grid.ts) finds the longest run of days
\* in a row and the run up to the last one, whatever was ticked in what order.
THEOREM StreaksAreRight == Spec => []StreaksRight
<1>1. BlockInv => StreaksRight
  <2> SUFFICES ASSUME BlockInv, kind = "calendar_grid", store.slot # Null PROVE StreaksRight
    BY DEF StreaksRight
  <2>1. CalendarFit(store.slot.ticks)
    BY SlotOfTicks DEF BlockInv
  <2>2. store.slot.ticks \in Seq(Int) /\ Ascending(store.slot.ticks)
    BY <2>1, CalendarInts
  <2>3. FiguresRight(store.slot.ticks)
    BY <2>2, StreaksHold
  <2>4. QED
    BY <2>3, Zenon DEF StreaksRight, FiguresRight
<1>2. QED
  BY <1>1, BlockInvariance, PTL
===============================================================================
