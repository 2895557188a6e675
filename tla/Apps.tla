--------------------------------- MODULE Apps ---------------------------------
(***************************************************************************)
(* Composable apps (apps/api.ts): the layout is one object of the knowledge*)
(* service, written with compare-and-set on its version.  An invocation    *)
(* reads the layout, runs the action on it, validates the new layout after *)
(* a second read and writes it; on a conflict it does all that once more.  *)
(* A client may also replace the layout it has read.                       *)
(*                                                                         *)
(* The layout is the slot of one block, of a kind chosen at the start: a   *)
(* handler sees no other slot and the compare-and-set covers all of them.  *)
(***************************************************************************)
EXTENDS AppBlocks

CONSTANTS
  Requests,     \* HTTP requests and tool calls, one after another in each
  MaxVersion,   \* bound: no call begins at a later version
  MaxRacing,    \* bound: no call begins beside another at a later version
  MaxTime       \* bound: the clock stops here

ASSUME BoundsAssumption == MaxVersion \in Nat /\ MaxRacing \in Nat /\ MaxTime \in Nat

VARIABLES
  kind,    \* the block in question
  store,   \* the object in the knowledge service
  req,     \* the calls in flight
  clock,   \* Date.now(); only the timer asks for it
  ran      \* how long the timer has run, and since when it does (history)

vars == <<kind, store, req, clock, ran>>

\* "rejected": an answer of NOT_FOUND, HANDLER_ERROR, INVALID_STATE or
\* CONCURRENT_UPDATE.
Answers == {"none", "ok", "rejected", "error"}

NoRequest == [at |-> "done", call |-> Null, version |-> 0, new |-> Null, t |-> 0,
              retried |-> FALSE, answer |-> "none"]

RequestTyped(record) ==
  /\ DOMAIN record = DOMAIN NoRequest
  /\ record.at \in {"done", "check", "write", "reread"}
  /\ record.version \in 0..store.version
  /\ record.t \in 0..clock
  /\ record.retried \in BOOLEAN
  /\ record.answer \in Answers

TypeOK ==
  /\ kind \in Kinds
  /\ store = [slot |-> store.slot, version |-> store.version, deleted |-> store.deleted]
  /\ store.version \in Nat /\ store.deleted \in BOOLEAN
  /\ DOMAIN req = Requests
  /\ \A r \in Requests : RequestTyped(req[r])
  /\ clock \in 0..MaxTime

NotRun == [total |-> 0, since |-> 0]

\* createApp: the layout a client gives, else the initial one.
Init ==
  /\ kind \in Kinds
  /\ store = [slot |-> Initial(kind), version |-> 1, deleted |-> FALSE]
  /\ req = [r \in Requests |-> NoRequest]
  /\ clock = 0
  /\ ran = NotRun

ClockTick ==
  /\ kind = "timer" /\ clock < MaxTime
  /\ clock' = clock + 1
  /\ UNCHANGED <<kind, store, req, ran>>

MayBegin(r) ==
  /\ req[r].at = "done"
  /\ store.version < IF \E x \in Requests : req[x].at # "done" THEN MaxRacing ELSE MaxVersion

Ends(r, answer) == req' = [req EXCEPT ![r] = [NoRequest EXCEPT !.answer = answer]]

\* readApp, routeAction and applyPatches: nothing is awaited after the read.
Prepare(r, call, retried) ==
  LET patch == RouteAction(kind, store.slot, call, clock, store.version) IN
  IF store.deleted \/ patch = Refused THEN Ends(r, "rejected")
  ELSE req' = [req EXCEPT ![r] =
         [at |-> "check", call |-> call, version |-> store.version,
          new |-> ApplyPatches(store.slot, patch), t |-> clock,
          retried |-> retried, answer |-> "none"]]

\* AppsServiceImpl.invoke, from the route or from the tool.
Invoke(r, call) ==
  /\ MayBegin(r)
  /\ Prepare(r, call, FALSE)
  /\ UNCHANGED <<kind, store, clock, ran>>

\* updateLayout or updateState of a client that has read the app: it may drop
\* the slot of the block or put the initial one back.
Replace(r, new) ==
  /\ MayBegin(r)
  /\ ~store.deleted
  /\ req' = [req EXCEPT ![r] = [NoRequest EXCEPT
       !.at = "check", !.call = Call("replace", <<new>>), !.version = store.version,
       !.new = new, !.t = clock]]
  /\ UNCHANGED <<kind, store, clock, ran>>

\* updateState: the object is read a second time, for its type and meta only,
\* and the new layout is validated.
Check(r) ==
  /\ req[r].at = "check"
  /\ IF store.deleted \/ ~Valid(kind, req[r].new) THEN Ends(r, "rejected")
     ELSE req' = [req EXCEPT ![r].at = "write"]
  /\ UNCHANGED <<kind, store, clock, ran>>

\* What the write makes of the timer's history.
RanAfter(old, new, call, t) ==
  IF new = Null THEN NotRun
  ELSE IF old # Null /\ new.status = old.status THEN ran
  ELSE
  CASE new.status = "paused" -> [total |-> ran.total + t - ran.since, since |-> 0]
    [] new.status = "running" ->
         [total |-> IF call.do = "resume" THEN ran.total ELSE 0, since |-> t]
    [] OTHER -> NotRun

\* The write finds the version it expects; its answer may get lost.
Write(r) ==
  /\ req[r].at = "write"
  /\ ~store.deleted /\ store.version = req[r].version
  /\ store' = [store EXCEPT !.slot = req[r].new, !.version = @ + 1]
  /\ ran' = IF kind = "timer" THEN RanAfter(store.slot, req[r].new, req[r].call, req[r].t)
            ELSE ran
  /\ Ends(r, "ok") \/ Ends(r, "error")
  /\ UNCHANGED <<kind, clock>>

\* It does not.  invoke tries once more, if the message of the knowledge
\* service lets mapCasConflict recognise the conflict.
Conflict(r) ==
  /\ req[r].at = "write"
  /\ ~store.deleted /\ store.version # req[r].version
  /\ \/ Ends(r, "error")
     \/ /\ req[r].call.do = "replace" \/ req[r].retried
        /\ Ends(r, "rejected")
     \/ /\ req[r].call.do # "replace" /\ ~req[r].retried
        /\ req' = [req EXCEPT ![r].at = "reread"]
  /\ UNCHANGED <<kind, store, clock, ran>>

WriteToDeleted(r) ==
  /\ req[r].at = "write" /\ store.deleted
  /\ Ends(r, "rejected")
  /\ UNCHANGED <<kind, store, clock, ran>>

\* Mutant: the layout computed before the conflict is written over the new one.
RetryStale(r) ==
  /\ req[r].at = "reread"
  /\ req' = [req EXCEPT ![r].at = "check", ![r].version = store.version, ![r].retried = TRUE]
  /\ UNCHANGED <<kind, store, clock, ran>>

Retry(r) ==
  /\ req[r].at = "reread"
  /\ Prepare(r, req[r].call, TRUE)
  /\ UNCHANGED <<kind, store, clock, ran>>

\* deleteApp: the knowledge service hides the object.
DeleteApp ==
  /\ ~store.deleted
  /\ store' = [store EXCEPT !.deleted = TRUE]
  /\ UNCHANGED <<kind, req, clock, ran>>

\* A call to the knowledge service fails or the instance stops.
Fail(r) ==
  /\ req[r].at # "done"
  /\ Ends(r, "error")
  /\ UNCHANGED <<kind, store, clock, ran>>

Step(r) == Check(r) \/ Write(r) \/ Conflict(r) \/ WriteToDeleted(r) \/ Retry(r)

Next ==
  \/ ClockTick
  \/ DeleteApp
  \/ \E r \in Requests :
       \/ \E call \in Calls(kind, store.slot) : Invoke(r, call)
       \/ \E new \in {Null, Initial(kind)} : Replace(r, new)
       \/ Step(r) \/ Fail(r)

Spec == Init /\ [][Next]_vars

-------------------------------------------------------------------------------
(***************************************************************************)
(* Properties                                                              *)
(***************************************************************************)

\* How a call in flight looks from outside.
OpOf(record) ==
  [outcome |-> IF record.at # "done" THEN "open"
               ELSE IF record.answer = "rejected" THEN "no"
               ELSE IF record.answer = "error" THEN "unknown" ELSE record.answer,
   call |-> record.call, t |-> record.t, fresh |-> record.version,
   view |-> IF record.at # "done" /\ record.version = store.version THEN "current" ELSE "stale"]

Serial == INSTANCE SerialApp
            WITH slot <- store.slot, deleted <- store.deleted,
                 op <- [r \in Requests |-> OpOf(req[r])]

\* Every invocation takes effect once, on the state of that instant, or is
\* answered as refused; no conflict, retry, failure or lost answer makes the
\* app lose another client's change or run an action twice; a replacement
\* overwrites only what its author had seen (compare-and-set in updateState).
ImplementsSerial == Serial!SerialSpec

\* An action whose payload keeps to its schema never leads a present slot to
\* one that validate rejects, so that the user is never stuck with it.  The one
\* exception is workout_split's addExercise with the same id for two sets: the
\* schema lets it pass, the handler does not look, and validate rejects it.
ConformingAccepted ==
  \A call \in IF store.slot = Null THEN {} ELSE Calls(kind, store.slot) :
    LET patch == RouteAction(kind, store.slot, call, clock, store.version) IN
    Conforms(call) /\ ~RepeatsSetId(call) /\ patch # Refused =>
      Valid(kind, ApplyPatches(store.slot, patch))

\* The streaks are the length of the longest run of days in a row and of the
\* run that ends on the last ticked day, whatever was ticked in what order.
StreaksRight ==
  kind = "calendar_grid" /\ store.slot # Null =>
    LET ticked == ToSet(store.slot.ticks)
        runs == {p \in ticked \X ticked : p[1] <= p[2] /\ p[1]..p[2] \subseteq ticked}
        length(p) == p[2] - p[1] + 1
        last == {p \in runs : \A d \in ticked : d <= p[2]}
        best(set) == IF set = {} THEN 0
                     ELSE CHOOSE n \in {length(p) : p \in set} : \A p \in set : length(p) <= n
    IN  ComputeStreaks(store.slot.ticks) = [longest |-> best(runs), current |-> best(last)]

\* Pauses, resumptions and retries never add to the time the timer has run:
\* it shows at most the time during which it was running.
TimerNeverGains ==
  kind = "timer" /\ store.slot # Null =>
    /\ store.slot.status = "paused" => store.slot.paused * PerSecond <= ran.total
    /\ store.slot.status = "running" => clock - store.slot.started <= ran.total + clock - ran.since

\* What a call holds: an answered one nothing; one under way the layout its
\* action makes of the version it read, while that is the version there is.
RequestOK(record) ==
  /\ record.at = "done" => \E answer \in Answers : record = [NoRequest EXCEPT !.answer = answer]
  /\ record.at # "done" => record.answer = "none"
  /\ record.at = "reread" => record.call.do # "replace"
  /\ record.at \in {"check", "write"} /\ record.call.do = "replace" =>
       record.new = record.call.args[1]
  /\ /\ record.at \in {"check", "write"} /\ record.call.do # "replace"
     /\ record.version = store.version
     => LET patch == RouteAction(kind, store.slot, record.call, record.t, record.version) IN
        patch # Refused /\ record.new = ApplyPatches(store.slot, patch)

\* The inductive invariant.
IInv == TypeOK /\ \A r \in Requests : RequestOK(req[r])

TimerCalls == {"start", "pause", "resume", "stop", "complete", "reset", "setDuration"}

\* The timer's slot has its fields, and shows no more than the history.
TimerOK(slot, history) ==
  \/ slot = Null
  \/ /\ {"duration", "status", "started", "paused"} \subseteq DOMAIN slot
     /\ slot.status = "paused" =>
          slot.paused \in Nat /\ slot.paused * PerSecond <= history.total
     /\ slot.status = "running" =>
          slot.started \in Int /\ history.since - history.total <= slot.started

\* A call on a timer is one of its actions or a replacement; while the version
\* it read is the one there is, it read it after the timer was last set going.
TimerCallOK(record) ==
  record.at # "done" =>
    /\ record.call.do \in TimerCalls \cup {"replace"}
    /\ record.call.do = "replace" => record.call.args[1] \in {Null, Initial("timer")}
    /\ record.at = "write" => Valid("timer", record.new)
    /\ record.version = store.version /\ record.at # "reread" => ran.since <= record.t

\* The inductive invariant of TimerNeverGains.
TimerInv ==
  /\ IInv
  /\ kind = "timer" =>
       /\ TimerOK(store.slot, ran)
       /\ ran.total \in Nat /\ ran.since \in 0..clock
       /\ \A r \in Requests : TimerCallOK(req[r])

\* What validate does not ask of a slot: what its lists and sets hold, and that
\* the ids were drawn before `fresh`.
Entries ==
  [list |-> [id : Nat, done : BOOLEAN, order : Nat], places |-> [id : Nat],
   reminder |-> [id : Nat, enabled : BOOLEAN]]
Exercise(exercise) ==
  /\ exercise = [category |-> exercise.category, sets |-> exercise.sets,
                 repeats |-> exercise.repeats]
  /\ IsFiniteSet(DOMAIN exercise.sets)
  /\ exercise.sets = [x \in DOMAIN exercise.sets |-> exercise.sets[x]]
Typed(slot, fresh) ==
  CASE kind \in DOMAIN Entries ->
         /\ slot.items \in Seq(Entries[kind])
         /\ \A i \in DOMAIN slot.items : slot.items[i].id < fresh
    [] kind = "calendar_grid" -> slot.ticks \in Seq(Days)
    [] kind = "tag_filter" -> IsFiniteSet(slot.tags)
    [] kind = "workout_split" ->
         /\ slot.categories = Categories /\ slot.history \in Seq(ToSet(slot.history))
         /\ IsFiniteSet(DOMAIN slot.exercises)
         /\ slot.exercises = [e \in DOMAIN slot.exercises |-> slot.exercises[e]]
         /\ \A e \in DOMAIN slot.exercises : Exercise(slot.exercises[e])
    [] OTHER -> TRUE
SlotOK(slot, fresh) == slot = Null \/ (Valid(kind, slot) /\ Typed(slot, fresh))

\* The actions whose blocks keep lists or sets.
Names ==
  [list |-> {"addItem", "toggleItem", "deleteItem", "setTag", "setOrder", "clearDone"},
   places |-> {"addPlace", "updatePlace", "removePlace", "clearAll"},
   reminder |-> {"addEntry", "updateEntry", "removeEntry", "setEnabled", "markFired"},
   calendar_grid |-> {"tick", "untick", "clearAll"},
   tag_filter |-> {"setActive", "addTag", "removeTag", "clearActive"},
   workout_split |-> {"tickSet", "tickAllInExercise", "updateSet", "addSet", "removeSet",
                      "addExercise", "removeExercise", "renameExercise", "setActiveCategory",
                      "nextWeek"}]
CallKnown(call) ==
  /\ kind \in DOMAIN Names => call.do \in Names[kind]
  /\ call.do = "setOrder" => call.args \in Seq(Nat)
  /\ call.do \in {"tick", "untick"} => Arg(call) \in Days
  /\ call.do = "addExercise" =>
       /\ kind = "workout_split"
       /\ call.args[3] \in Seq(Int) /\ \A i \in DOMAIN call.args[3] : call.args[3][i] <= 0

\* A call under way holds a layout that is fit to be stored, if it is valid.
LayoutOK(record) ==
  record.at # "done" =>
    /\ record.call.do # "replace" => CallKnown(record.call)
    /\ record.call.do = "replace" => record.call.args[1] \in {Null, Initial(kind)}
    /\ record.at \in {"check", "write"} /\ Valid(kind, record.new) =>
         SlotOK(record.new, record.version + 1)
    /\ record.at = "write" => Valid(kind, record.new)

\* The inductive invariant of ConformingAccepted and StreaksRight.
BlockInv ==
  /\ TimerInv
  /\ SlotOK(store.slot, store.version)
  /\ \A r \in Requests : LayoutOK(req[r])
===============================================================================
