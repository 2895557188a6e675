------------------------------ MODULE AppBlocks ------------------------------
(***************************************************************************)
(* The blocks of a composable app (apps/blocks/*.ts) and the router that   *)
(* runs an action of one on a layout (apps/action_router.ts).              *)
(*                                                                         *)
(* A layout keeps one slot of state per block: a record whose fields the   *)
(* patches of a handler overwrite.  The slot may be absent; the handler is *)
(* then given the block's initial state, but the patches are laid on       *)
(* nothing, so that fields it did not patch are missing afterwards.        *)
(*                                                                         *)
(* Texts, labels, tags of list items, weights and stamps that nothing      *)
(* reads are left out.  An action that changes only those is here one that *)
(* needs its item to exist and writes the slot back.                       *)
(***************************************************************************)
EXTENDS Integers, Sequences, FiniteSets, SequencesExt

CONSTANTS
  Null,       \* null, a missing value, an absent slot
  Refused,    \* the handler throws
  MaxValue,   \* bound of a counter and of a duration
  MaxItems,   \* the cap a block puts on its list, one for all blocks
  Days,       \* dates, as numbers of days
  PerSecond   \* clock ticks in a second

ASSUME PerSecondAssumption == PerSecond \in Nat \ {0}
ASSUME ValuesAssumption ==
  Null \notin Int /\ MaxValue \in Nat \ {0} /\ MaxItems \in Nat /\ Days \subseteq Int

Setters == {"header", "chart", "form", "text_field", "action_button"}
Kinds == Setters \cup {"counter", "progress_ring", "timer", "list", "calendar_grid",
                       "tag_filter", "workout_split", "reminder", "places", "stat_card"}

Call(do, args) == [do |-> do, args |-> args]
NoPatch == [f \in {} |-> Null]
Arg(call) == call.args[1]
Least(a, b) == IF a < b THEN a ELSE b
Most(a, b) == IF a > b THEN a ELSE b

Ids(items) == {items[i].id : i \in DOMAIN items}

\* filter: what is among `keep`, in its order.
Filtered(list, keep) ==
  LET filtered[i \in 0..Len(list)] ==
        IF i = 0 THEN <<>>
        ELSE IF list[i] \in keep THEN Append(filtered[i - 1], list[i]) ELSE filtered[i - 1]
  IN  filtered[Len(list)]

Without(items, id) == Filtered(items, {it \in ToSet(items) : it.id # id})

-------------------------------------------------------------------------------
\* counter: throws at its limits.
Counter(s, call) ==
  CASE call.do = "increment" ->
         IF s.value + Arg(call) > MaxValue THEN Refused ELSE [value |-> s.value + Arg(call)]
    [] call.do = "decrement" ->
         IF s.value - Arg(call) < -MaxValue THEN Refused ELSE [value |-> s.value - Arg(call)]
    [] call.do = "setValue" -> [value |-> Arg(call)]
    [] call.do = "reset" -> [value |-> 0]

\* Mutant: the ring throws away its lower limit.
ProgressRingUnclamped(s, call) ==
  CASE call.do = "increment" -> [value |-> Least(MaxValue, s.value + Arg(call))]
    [] call.do = "decrement" -> [value |-> s.value - Arg(call)]
    [] call.do = "setValue" -> [value |-> Arg(call)]
    [] call.do = "setTarget" -> [target |-> Arg(call)]
    [] call.do = "reset" -> [value |-> 0]

\* progress_ring: stops at its limits.
ProgressRing(s, call) ==
  CASE call.do = "increment" -> [value |-> Least(MaxValue, s.value + Arg(call))]
    [] call.do = "decrement" -> [value |-> Most(0, s.value - Arg(call))]
    [] call.do = "setValue" -> [value |-> Arg(call)]
    [] call.do = "setTarget" -> [target |-> Arg(call)]
    [] call.do = "reset" -> [value |-> 0]

StatCard(s, call) ==
  CASE call.do = "pushSparkline" ->
         [sparkline |-> Least(MaxItems, 1 + IF "sparkline" \in DOMAIN s THEN s.sparkline ELSE 0)]
    [] call.do = "setValue" -> [value |-> Arg(call)]
    [] call.do = "setDelta" -> [delta |-> Arg(call)]
    [] call.do = "reset" -> [value |-> 0, delta |-> Null, sparkline |-> 0]

-------------------------------------------------------------------------------
\* timer.  `t` is the Date.now() of the handler.
StartTimer(s, call, t) ==
  LET duration == IF Arg(call) = Null THEN s.duration ELSE Arg(call) IN
  IF s.status = "running" \/ duration \notin 1..MaxValue THEN Refused
  ELSE [duration |-> duration, status |-> "running", started |-> t, paused |-> Null]

PauseTimer(s, t) ==
  IF s.status # "running" \/ s.started = Null THEN NoPatch
  ELSE [status |-> "paused", paused |-> Most(0, (t - s.started) \div PerSecond),
        started |-> Null]

\* Mutant: the clock is set back by a second too many.
ResumeTimerFromStart(s, t) ==
  IF s.status # "paused" THEN NoPatch
  ELSE [status |-> "running", started |-> t - (s.paused + 1) * PerSecond, paused |-> Null]

ResumeTimer(s, t) ==
  IF s.status # "paused" THEN NoPatch
  ELSE [status |-> "running", started |-> t - s.paused * PerSecond, paused |-> Null]

StopTimer(s) ==
  IF s.status \notin {"running", "paused"} THEN NoPatch
  ELSE [status |-> "idle", started |-> Null, paused |-> Null]

\* Not running, the timer is taken to have run its whole duration.
CompleteTimer(s, t) ==
  IF s.status = "done" THEN NoPatch
  ELSE [status |-> "done", started |-> Null, paused |-> Null,
        lastRun |-> CASE s.status = "paused" -> s.paused
                      [] s.status = "running" /\ s.started # Null ->
                           Most(1, (t - s.started) \div PerSecond)
                      [] OTHER -> s.duration]

SetDuration(s, call) ==
  IF s.status = "running" THEN Refused ELSE [duration |-> Arg(call)]

ResetTimer == [status |-> "idle", started |-> Null, paused |-> Null]

Timer(s, call, t) ==
  CASE call.do = "start" -> StartTimer(s, call, t)
    [] call.do = "pause" -> PauseTimer(s, t)
    [] call.do = "resume" -> ResumeTimer(s, t)
    [] call.do = "stop" -> StopTimer(s)
    [] call.do = "complete" -> CompleteTimer(s, t)
    [] call.do = "reset" -> ResetTimer
    [] call.do = "setDuration" -> SetDuration(s, call)

-------------------------------------------------------------------------------
\* list.  An item's `order` counts from 0; a removal numbers the rest anew.
Reflowed(items) == [i \in DOMAIN items |-> [items[i] EXCEPT !.order = i - 1]]

AddItem(s, fresh) ==
  IF Len(s.items) >= MaxItems THEN Refused
  ELSE [items |-> Append(s.items, [id |-> fresh, done |-> FALSE, order |-> Len(s.items)])]

ToggleItem(s, id) ==
  IF id \notin Ids(s.items) THEN Refused
  ELSE [items |-> [i \in DOMAIN s.items |->
          IF s.items[i].id = id THEN [s.items[i] EXCEPT !.done = ~@] ELSE s.items[i]]]

DeleteItem(s, id) ==
  IF id \notin Ids(s.items) THEN NoPatch ELSE [items |-> Reflowed(Without(s.items, id))]

SetTag(s, id) == IF id \notin Ids(s.items) THEN Refused ELSE [items |-> s.items]

\* The ids given must be a permutation of those in the list.
SetOrder(s, ids) ==
  IF Len(ids) # Len(s.items) \/ ToSet(ids) # Ids(s.items) THEN Refused
  ELSE [items |-> Reflowed([i \in DOMAIN ids |->
          CHOOSE it \in ToSet(s.items) : it.id = ids[i]])]

ClearDone(s) ==
  LET remaining == Filtered(s.items, {it \in ToSet(s.items) : ~it.done}) IN
  IF remaining = s.items THEN NoPatch ELSE [items |-> Reflowed(remaining)]

ListBlock(s, call, fresh) ==
  CASE call.do = "addItem" -> AddItem(s, fresh)
    [] call.do = "toggleItem" -> ToggleItem(s, Arg(call))
    [] call.do = "deleteItem" -> DeleteItem(s, Arg(call))
    [] call.do = "setTag" -> SetTag(s, Arg(call))
    [] call.do = "setOrder" -> SetOrder(s, call.args)
    [] call.do = "clearDone" -> ClearDone(s)

\* places: a list without an order.
Places(s, call, fresh) ==
  CASE call.do = "addPlace" ->
         IF Len(s.items) >= MaxItems THEN Refused
         ELSE [items |-> Append(s.items, [id |-> fresh])]
    [] call.do = "updatePlace" ->
         IF Arg(call) \notin Ids(s.items) THEN Refused ELSE [items |-> s.items]
    [] call.do = "removePlace" ->
         IF Arg(call) \notin Ids(s.items) THEN Refused
         ELSE [items |-> Without(s.items, Arg(call))]
    [] call.do = "clearAll" -> [items |-> <<>>]

\* reminder.  The cron expression of an entry is valid (1) or not (0).
AddEntry(s, cron, fresh) ==
  IF cron = 0 \/ Len(s.items) >= MaxItems THEN Refused
  ELSE [items |-> Append(s.items, [id |-> fresh, enabled |-> TRUE])]

UpdateEntry(s, id, cron) ==
  IF id \notin Ids(s.items) \/ cron = 0 THEN Refused ELSE [items |-> s.items]

RemoveEntry(s, id) ==
  IF id \notin Ids(s.items) THEN Refused ELSE [items |-> Without(s.items, id)]

SetEnabled(s, id, enabled) ==
  IF id \notin Ids(s.items) THEN Refused
  ELSE [items |-> [i \in DOMAIN s.items |->
          IF s.items[i].id = id THEN [s.items[i] EXCEPT !.enabled = enabled] ELSE s.items[i]]]

MarkFired(s, id) == IF id \notin Ids(s.items) THEN Refused ELSE [items |-> s.items]

Reminder(s, call, fresh) ==
  CASE call.do = "addEntry" -> AddEntry(s, Arg(call), fresh)
    [] call.do = "updateEntry" -> UpdateEntry(s, Arg(call), call.args[2])
    [] call.do = "removeEntry" -> RemoveEntry(s, Arg(call))
    [] call.do = "setEnabled" -> SetEnabled(s, Arg(call), call.args[2] = 1)
    [] call.do = "markFired" -> MarkFired(s, Arg(call))

-------------------------------------------------------------------------------
\* calendar_grid: its ticks are sorted and without doubles.
Sorted(dates) ==
  CHOOSE sorted \in [1..Len(dates) -> ToSet(dates)] :
    /\ ToSet(sorted) = ToSet(dates)
    /\ \A i \in 2..Len(dates) : sorted[i - 1] < sorted[i]

Tick(s, date) ==
  IF date \in ToSet(s.ticks) THEN NoPatch
  ELSE IF Len(s.ticks) >= MaxItems THEN Refused
  ELSE [ticks |-> Sorted(Append(s.ticks, date))]

Untick(s, date) ==
  IF date \notin ToSet(s.ticks) THEN NoPatch
  ELSE [ticks |-> Filtered(s.ticks, ToSet(s.ticks) \ {date})]

CalendarGrid(s, call) ==
  CASE call.do = "tick" -> Tick(s, Arg(call))
    [] call.do = "untick" -> Untick(s, Arg(call))
    [] call.do = "clearAll" -> [ticks |-> <<>>]

\* Mutant: a gap does not end the run.
ComputeStreaksOverGaps(ticks) ==
  [longest |-> Len(ticks), current |-> Len(ticks)]

\* Longest run of consecutive dates, and the run that ends at the last date.
ComputeStreaks(ticks) ==
  LET streaks[i \in 0..Len(ticks)] ==
        IF i = 0 THEN [longest |-> 0, current |-> 0]
        ELSE LET run == IF i > 1 /\ ticks[i] = ticks[i - 1] + 1
                        THEN streaks[i - 1].current + 1 ELSE 1
             IN  [longest |-> Most(streaks[i - 1].longest, run), current |-> run]
  IN  streaks[Len(ticks)]

\* tag_filter: what is active is among the tags.
SetActive(s, active) ==
  IF ~(active \subseteq s.tags) THEN Refused ELSE [active |-> active]

AddTag(s, tag) ==
  CASE tag \in s.tags -> NoPatch
    [] tag \notin s.tags /\ Cardinality(s.tags) >= MaxItems -> Refused
    [] OTHER -> [tags |-> s.tags \cup {tag}]

RemoveTag(s, tag) ==
  IF tag \in s.active THEN [tags |-> s.tags \ {tag}, active |-> s.active \ {tag}]
  ELSE IF tag \in s.tags THEN [tags |-> s.tags \ {tag}] ELSE NoPatch

TagFilter(s, call) ==
  CASE call.do = "setActive" -> SetActive(s, ToSet(call.args))
    [] call.do = "addTag" -> AddTag(s, Arg(call))
    [] call.do = "removeTag" -> RemoveTag(s, Arg(call))
    [] call.do = "clearActive" -> [active |-> {}]

-------------------------------------------------------------------------------
\* workout_split.  Two categories, 1 and 2; `exercises` is a function from ids
\* to exercises.  An exercise has its category, its sets, a function from set ids
\* to whether the set is done, and whether two of its sets have one id.  An id
\* the client chose is negative.  A set that was given none gets one that is new
\* to its exercise: its place in a new exercise, a number above those later.
Categories == {1, 2}

Progress(exercises) ==
  LET all == UNION {{<<e, x>> : x \in DOMAIN exercises[e].sets} : e \in DOMAIN exercises}
  IN  [total |-> Cardinality(all),
       done |-> Cardinality({p \in all : exercises[p[1]].sets[p[2]]})]

WithSets(s, e, sets) == [exercises |-> [s.exercises EXCEPT ![e].sets = sets]]

TickSet(s, e, x) ==
  IF e \notin DOMAIN s.exercises THEN Refused
  ELSE LET sets == s.exercises[e].sets IN
       IF x \notin DOMAIN sets THEN Refused ELSE WithSets(s, e, [sets EXCEPT ![x] = ~@])

TickAllInExercise(s, e, done) ==
  IF e \notin DOMAIN s.exercises THEN Refused
  ELSE WithSets(s, e, [x \in DOMAIN s.exercises[e].sets |-> done])

UpdateSet(s, e, x) ==
  IF e \notin DOMAIN s.exercises THEN Refused
  ELSE IF x \notin DOMAIN s.exercises[e].sets THEN Refused ELSE [exercises |-> s.exercises]

AddSet(s, e, id, fresh) ==
  IF e \notin DOMAIN s.exercises THEN Refused
  ELSE LET sets == s.exercises[e].sets
           new == IF id = 0 THEN MaxItems + fresh ELSE id
       IN  IF Cardinality(DOMAIN sets) >= MaxItems \/ id \in DOMAIN sets THEN Refused
           ELSE WithSets(s, e, [x \in DOMAIN sets \cup {new} |->
                                  IF x = new THEN FALSE ELSE sets[x]])

RemoveSet(s, e, x) ==
  IF e \notin DOMAIN s.exercises THEN Refused
  ELSE LET sets == s.exercises[e].sets IN
       IF x \notin DOMAIN sets THEN Refused
       ELSE WithSets(s, e, [y \in DOMAIN sets \ {x} |-> sets[y]])

\* An exercise of the sets whose ids the client gives (0: none).
SetId(ids, i) == IF ids[i] = 0 THEN i ELSE ids[i]
NewExercise(category, ids) ==
  [category |-> category,
   sets |-> [x \in {SetId(ids, i) : i \in DOMAIN ids} |-> FALSE],
   repeats |-> \E i, j \in DOMAIN ids : i # j /\ SetId(ids, i) = SetId(ids, j)]

\* Only the exercise's own id is compared with those there are.
AddExercise(s, category, id, ids, fresh) ==
  LET new == IF id = 0 THEN fresh ELSE id IN
  IF \/ category \notin Categories \/ Cardinality(DOMAIN s.exercises) >= MaxItems
     \/ id \in DOMAIN s.exercises
  THEN Refused
  ELSE [exercises |-> [e \in DOMAIN s.exercises \cup {new} |->
          IF e = new THEN NewExercise(category, ids) ELSE s.exercises[e]]]

RemoveExercise(s, e) ==
  IF e \notin DOMAIN s.exercises THEN Refused
  ELSE [exercises |-> [d \in DOMAIN s.exercises \ {e} |-> s.exercises[d]]]

RenameExercise(s, e) ==
  IF e \notin DOMAIN s.exercises THEN Refused ELSE [exercises |-> s.exercises]

SetActiveCategory(s, category) ==
  IF category \notin Categories THEN Refused ELSE [active |-> category]

\* The week goes into the history; the exercises are carried over undone.
NextWeek(s) ==
  LET weeks == <<[week |-> s.week] @@ Progress(s.exercises)>> \o s.history IN
  [history |-> SubSeq(weeks, 1, Least(Len(weeks), MaxItems)),
   exercises |-> [e \in DOMAIN s.exercises |->
     [s.exercises[e] EXCEPT !.sets = [x \in DOMAIN @ |-> FALSE]]],
   week |-> s.week + 1]

WorkoutSplit(s, call, fresh) ==
  CASE call.do = "tickSet" -> TickSet(s, Arg(call), call.args[2])
    [] call.do = "tickAllInExercise" -> TickAllInExercise(s, Arg(call), call.args[2] = 1)
    [] call.do = "updateSet" -> UpdateSet(s, Arg(call), call.args[2])
    [] call.do = "addSet" -> AddSet(s, Arg(call), call.args[2], fresh)
    [] call.do = "removeSet" -> RemoveSet(s, Arg(call), call.args[2])
    [] call.do = "addExercise" ->
         AddExercise(s, Arg(call), call.args[2], call.args[3], fresh)
    [] call.do = "removeExercise" -> RemoveExercise(s, Arg(call))
    [] call.do = "renameExercise" -> RenameExercise(s, Arg(call))
    [] call.do = "setActiveCategory" -> SetActiveCategory(s, Arg(call))
    [] call.do = "nextWeek" -> NextWeek(s)

-------------------------------------------------------------------------------
\* header, chart, form, text_field, action_button: an action sets one field.
SetBy == [header |-> {"title", "subtitle"},
          chart |-> {"chartType", "source", "groupBy", "agg"},
          form |-> {"value"}, text_field |-> {"value"}, action_button |-> {"label"}]
Required == [header |-> {"title"}, chart |-> {"chartType", "xField", "groupBy", "agg"},
             form |-> {"schema", "value"}, text_field |-> {"value"},
             action_button |-> {"kind", "payload"}]

Setter(call) ==
  IF call.do = "trigger" THEN NoPatch ELSE [f \in {call.do} |-> Arg(call)]

-------------------------------------------------------------------------------
\* initial_state of a block
Initial(kind) ==
  CASE kind \in Setters -> [f \in SetBy[kind] \cup Required[kind] |-> 0]
    [] kind = "counter" -> [value |-> 0]
    [] kind = "progress_ring" -> [value |-> 0, target |-> MaxValue]
    [] kind = "stat_card" -> [value |-> 0, delta |-> Null, sparkline |-> 0]
    [] kind = "timer" -> [duration |-> MaxValue, status |-> "idle", started |-> Null,
                          paused |-> Null, lastRun |-> Null]
    [] kind \in {"list", "places", "reminder"} -> [items |-> <<>>]
    [] kind = "calendar_grid" -> [ticks |-> <<>>]
    [] kind = "tag_filter" -> [tags |-> {}, active |-> {}]
    [] kind = "workout_split" -> [categories |-> Categories, active |-> 1, week |-> 0,
                                  exercises |-> [e \in {} |-> Null], history |-> <<>>]

Has(slot, fields) == fields \subseteq DOMAIN slot

ValidTimer(slot) ==
  /\ Has(slot, {"duration", "status"})
  /\ slot.duration \in 1..MaxValue
  /\ slot.status = "running" => Has(slot, {"started"}) /\ slot.started # Null
  /\ slot.status = "paused" => Has(slot, {"paused"}) /\ slot.paused # Null

DistinctIds(items) == \A i, j \in DOMAIN items : items[i].id = items[j].id => i = j

ValidCalendar(slot) ==
  /\ Has(slot, {"ticks"})
  /\ Len(slot.ticks) <= MaxItems
  /\ \A i \in 2..Len(slot.ticks) : slot.ticks[i - 1] < slot.ticks[i]

ValidTagFilter(slot) ==
  /\ Has(slot, {"tags", "active"})
  /\ Cardinality(slot.tags) <= MaxItems
  /\ slot.active \subseteq slot.tags

ValidWorkout(slot) ==
  /\ Has(slot, {"categories", "active", "week", "exercises", "history"})
  /\ slot.active \in slot.categories
  /\ Cardinality(DOMAIN slot.exercises) <= MaxItems
  /\ \A e \in DOMAIN slot.exercises :
       /\ slot.exercises[e].category \in slot.categories
       /\ Cardinality(DOMAIN slot.exercises[e].sets) <= MaxItems
       /\ ~slot.exercises[e].repeats
  /\ Len(slot.history) <= MaxItems

\* validate of a block; the validation of a layout passes over an absent slot.
Valid(kind, slot) ==
  \/ slot = Null
  \/ CASE kind \in Setters -> Has(slot, Required[kind])
       [] kind = "counter" -> Has(slot, {"value"}) /\ slot.value \in -MaxValue..MaxValue
       [] kind = "progress_ring" ->
            Has(slot, {"value", "target"}) /\ slot.value \in 0..MaxValue
                                         /\ slot.target \in 1..MaxValue
       [] kind = "stat_card" -> Has(slot, {"value"})
       [] kind = "timer" -> ValidTimer(slot)
       [] kind \in {"list", "places", "reminder"} ->
            Has(slot, {"items"}) /\ Len(slot.items) <= MaxItems /\ DistinctIds(slot.items)
       [] kind = "calendar_grid" -> ValidCalendar(slot)
       [] kind = "tag_filter" -> ValidTagFilter(slot)
       [] kind = "workout_split" -> ValidWorkout(slot)

-------------------------------------------------------------------------------
\* routeAction: the handler's patches.  `fresh` is the id it draws.
RouteAction(kind, slot, call, t, fresh) ==
  LET s == IF slot = Null THEN Initial(kind) ELSE slot IN
  CASE kind \in Setters -> Setter(call)
    [] kind = "counter" -> Counter(s, call)
    [] kind = "progress_ring" -> ProgressRing(s, call)
    [] kind = "stat_card" -> StatCard(s, call)
    [] kind = "timer" -> Timer(s, call, t)
    [] kind = "list" -> ListBlock(s, call, fresh)
    [] kind = "places" -> Places(s, call, fresh)
    [] kind = "reminder" -> Reminder(s, call, fresh)
    [] kind = "calendar_grid" -> CalendarGrid(s, call)
    [] kind = "tag_filter" -> TagFilter(s, call)
    [] kind = "workout_split" -> WorkoutSplit(s, call, fresh)

\* applyPatches: each patch sets a field; without a patch the slot stays as it is.
ApplyPatches(slot, patch) ==
  CASE DOMAIN patch = {} -> slot
    [] DOMAIN patch # {} /\ slot = Null -> patch
    [] OTHER -> [f \in DOMAIN patch \cup DOMAIN slot |->
                   IF f \in DOMAIN patch THEN patch[f] ELSE slot[f]]

-------------------------------------------------------------------------------
\* The calls a client may make on a slot: names of the catalogue, with ids it
\* has seen or one that does not exist (0); what it adds to a workout has an id
\* of its choice or none (0).
KnownIds(slot) == {0} \cup IF slot = Null THEN {} ELSE Ids(slot.items)
Orders(slot) ==
  IF slot = Null THEN {<<0>>} ELSE {<<0>>} \cup SetToSeqs(Ids(slot.items))
Exercises(slot) == {0} \cup IF slot = Null THEN {} ELSE DOMAIN slot.exercises
SetsOf(slot, e) == {0} \cup IF e = 0 THEN {} ELSE DOMAIN slot.exercises[e].sets
NewIds == {0, -1}
NewSets == {<<>>, <<-1, 0>>, <<-1, -1>>, [i \in 1..(MaxItems + 1) |-> 0]}
Each(names, args) == {Call(do, a) : do \in names, a \in args}

Calls(kind, slot) ==
  CASE kind \in Setters ->
         Each(SetBy[kind], {<<1>>}) \cup
           IF kind = "action_button" THEN {Call("trigger", <<>>)} ELSE {}
    [] kind = "counter" ->
         Each({"increment", "decrement"}, {<<1>>, <<2>>}) \cup Each({"setValue"}, {<<MaxValue>>})
           \cup {Call("reset", <<>>)}
    [] kind = "progress_ring" ->
         Each({"increment", "decrement"}, {<<1>>, <<2>>}) \cup Each({"setValue"}, {<<1>>})
           \cup Each({"setTarget"}, {<<0>>, <<1>>}) \cup {Call("reset", <<>>)}
    [] kind = "stat_card" ->
         Each({"setValue", "setDelta", "pushSparkline"}, {<<1>>}) \cup {Call("reset", <<>>)}
    [] kind = "timer" ->
         Each({"start"}, {<<Null>>, <<1>>, <<0>>}) \cup Each({"setDuration"}, {<<1>>, <<0>>})
           \cup Each({"pause", "resume", "stop", "complete", "reset"}, {<<>>})
    [] kind = "list" ->
         Each({"addItem", "clearDone"}, {<<>>}) \cup Each({"setOrder"}, Orders(slot))
           \cup Each({"toggleItem", "deleteItem", "setTag"}, {<<id>> : id \in KnownIds(slot)})
    [] kind = "places" ->
         Each({"addPlace", "clearAll"}, {<<>>})
           \cup Each({"updatePlace", "removePlace"}, {<<id>> : id \in KnownIds(slot)})
    [] kind = "reminder" ->
         Each({"addEntry"}, {<<0>>, <<1>>})
           \cup Each({"updateEntry", "setEnabled"}, KnownIds(slot) \X {0, 1})
           \cup Each({"removeEntry", "markFired"}, {<<id>> : id \in KnownIds(slot)})
    [] kind = "calendar_grid" ->
         Each({"tick", "untick"}, {<<d>> : d \in Days}) \cup {Call("clearAll", <<>>)}
    [] kind = "tag_filter" ->
         Each({"addTag", "removeTag"}, {<<1>>, <<2>>}) \cup {Call("clearActive", <<>>)}
           \cup Each({"setActive"}, {<<>>, <<1>>, <<2>>, <<1, 2>>})
    [] kind = "workout_split" ->
         {Call("nextWeek", <<>>)} \cup Each({"setActiveCategory"}, {<<0>>, <<2>>})
           \cup Each({"addExercise"}, {0, 2} \X NewIds \X NewSets)
           \cup Each({"addSet"}, Exercises(slot) \X NewIds)
           \cup Each({"removeExercise", "renameExercise"}, {<<e>> : e \in Exercises(slot)})
           \cup Each({"tickAllInExercise"}, Exercises(slot) \X {0, 1})
           \cup UNION {Each({"tickSet", "updateSet", "removeSet"}, {<<e, x>> : x \in SetsOf(slot, e)})
                         : e \in Exercises(slot)}

\* The payload keeps to the action's payload_schema.  Nothing enforces it.
Conforms(call) ==
  CASE call.do = "setTarget" -> Arg(call) >= 1
    [] call.do = "setDuration" -> Arg(call) >= 1
    [] call.do = "start" -> Arg(call) = Null \/ Arg(call) >= 1
    [] call.do = "addExercise" -> Len(call.args[3]) <= MaxItems
    [] OTHER -> TRUE

\* addExercise with one id for two sets: no schema forbids that.
RepeatsSetId(call) ==
  /\ call.do = "addExercise"
  /\ \E i, j \in DOMAIN call.args[3] :
       i # j /\ call.args[3][i] # 0 /\ call.args[3][i] = call.args[3][j]
===============================================================================
