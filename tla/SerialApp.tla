------------------------------- MODULE SerialApp -------------------------------
(***************************************************************************)
(* What an app promises its clients, without versions, conflicts, retries  *)
(* or lost answers: every call takes effect at one instant between its     *)
(* arrival and its answer, on the state the app has at that instant, or    *)
(* not at all; and the answer says which, unless it is an error.           *)
(*                                                                         *)
(* The blocks are parameters; Apps puts those of AppBlocks in their place. *)
(***************************************************************************)
CONSTANTS
  Requests,     \* the callers, one call after another in each
  Null,         \* no call
  Refused,      \* an action that throws
  Kinds,        \* the kinds of blocks,
  Initial(_),   \* the state each starts in,
  RouteAction(_, _, _, _, _),   \* the patches of a call on a state of it, and
  ApplyPatches(_, _)            \* the state they make

VARIABLES
  kind,      \* the block in question
  slot,      \* its state
  deleted,   \* the app was deleted
  op         \* the call each request makes, the Date.now() and the source of new
             \* ids it was given when it looked at the app, and what became of it

serialVars == <<kind, slot, deleted, op>>

Ended == {"none", "ok", "no", "unknown"}

Answer(outcome) == [outcome |-> outcome, call |-> Null, t |-> 0, fresh |-> 0, view |-> "stale"]

SerialInit ==
  /\ kind \in Kinds
  /\ slot = Initial(kind)
  /\ deleted = FALSE
  /\ op = [r \in Requests |-> Answer("none")]

\* A call arrives, or looks at the app again.
Look(r, look) ==
  /\ look.outcome = "open" /\ look.view = "current"
  /\ op[r].outcome \in Ended \/ (op[r].outcome = "open" /\ op[r].call = look.call)
  /\ op' = [op EXCEPT ![r] = look]
  /\ UNCHANGED <<kind, slot, deleted>>

\* A call takes effect, and whatever else is open has not seen that.
TakesEffect(r, outcome) ==
  /\ op[r].outcome = "open"
  /\ ~deleted
  /\ op' = [x \in Requests |->
       IF x = r THEN Answer(outcome) ELSE [op[x] EXCEPT !.view = "stale"]]
  /\ UNCHANGED <<kind, deleted>>

Act(r, outcome) ==
  /\ TakesEffect(r, outcome)
  /\ op[r].call.do # "replace"
  /\ LET patch == RouteAction(kind, slot, op[r].call, op[r].t, op[r].fresh) IN
       patch # Refused /\ slot' = ApplyPatches(slot, patch)

\* A client replaces the state only if nothing has changed since it looked.
Replace(r, outcome) ==
  /\ TakesEffect(r, outcome)
  /\ op[r].call.do = "replace"
  /\ op[r].view = "current"
  /\ slot' = op[r].call.args[1]

\* A call is answered without having taken effect.
GiveUp(r, outcome) ==
  /\ op[r].outcome \in Ended \cup {"open"}
  /\ op' = [op EXCEPT ![r] = Answer(outcome)]
  /\ UNCHANGED <<kind, slot, deleted>>

DeleteApp ==
  /\ deleted' = TRUE
  /\ UNCHANGED <<kind, slot, op>>

SerialNext ==
  \/ \E r \in Requests :
       \/ \E outcome \in {"ok", "unknown"} : Act(r, outcome) \/ Replace(r, outcome)
       \/ \E outcome \in {"no", "unknown"} : GiveUp(r, outcome)
  \/ \E r \in Requests : Look(r, op'[r])
  \/ DeleteApp

SerialSpec == SerialInit /\ [][SerialNext]_serialVars
===============================================================================
