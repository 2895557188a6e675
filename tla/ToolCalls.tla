------------------------------- MODULE ToolCalls -------------------------------
(***************************************************************************)
(* tools/call on POST /mcp (mcp/protocol/transport.ts), the gate of the    *)
(* tool registry (mcp/protocol/registry.ts) and the forwarding of a call   *)
(* to a sub-MCP (mcp/gateway/wrapper_tools.ts, forwarder.ts).              *)
(*                                                                         *)
(* One process serves every session.  A call walks from one await to the   *)
(* next; whatever runs between two awaits is one step.  The cancel         *)
(* registry is a map from JSON-RPC request ids, which the clients choose,  *)
(* to abort controllers: calls of different sessions share its keys.       *)
(***************************************************************************)
EXTENDS Naturals

CONSTANTS
  Calls,  \* tools/call requests, numbered as they arrive
  Ids,    \* JSON-RPC request ids, numbered as they are first used
  Tools,  \* the tools of the registry
  None    \* "no call"

ASSUME CallAssumption == Calls \subseteq Nat /\ Ids \subseteq Nat /\ None \notin Calls \cup Ids
ASSUME ToolAssumption ==
  Tools \subseteq [forwarded : BOOLEAN, sensitivity : {"read", "write", "danger"}]

VARIABLES
  call,   \* the handlers of the calls
  entry,  \* CancelRegistry.map: the call whose controller an id leads to
  shared  \* calls whose id some other unfinished call bore (history)

vars == <<call, entry, shared>>

Timed == {"fetch", "probe", "initialize", "retry"}
Forwarded == {"body"} \cup Timed
Running == {"lookup", "defaults", "gate", "native", "subscribe", "enrich"} \cup Forwarded
Unfinished == Running \cup {"enqueue"}

\* `aborted` tells when the controller was aborted: before the call was sent to
\* a sub-MCP, during the exchange the signal covers, or after it.
CallRecords == [at : {"idle", "done"} \cup Unfinished, id : Ids \cup {None},
                tool : Tools \cup {None}, aborted : {"no", "before", "during", "after"},
                answer : {"none", "answered", "failed", "thrown"}]

NewCall == [at |-> "idle", id |-> None, tool |-> None, aborted |-> "no", answer |-> "none"]

TypeOK ==
  /\ call \in [Calls -> CallRecords]
  /\ entry \in [Ids -> Calls \cup {None}]
  /\ shared \subseteq Calls

Init ==
  /\ call = [c \in Calls |-> NewCall]
  /\ entry = [i \in Ids |-> None]
  /\ shared = {}

At(c, stage) == call[c].at = stage
Aborted(c) == call[c].aborted # "no"

Goes(c, stage) == call' = [call EXCEPT ![c].at = stage]

(***************************************************************************)
(* The registry: start replaces what the id led to, finish deletes         *)
(* whatever it leads to.                                                   *)
(***************************************************************************)
\* Mutant: an id in use keeps its controller.
StartKeeping(c, i) ==
  entry' = IF entry[i] = None THEN [entry EXCEPT ![i] = c] ELSE entry

Start(c, i) == entry' = [entry EXCEPT ![i] = c]

Finish(c) == entry' = [entry EXCEPT ![call[c].id] = None]

\* What the handler held is forgotten with its answer.
Answered(c, answer) ==
  /\ call' = [call EXCEPT ![c] = [NewCall EXCEPT !.at = "done", !.answer = answer]]
  /\ shared' = shared \ {c}

\* finish(), then the answer.
Ends(c, answer) == Answered(c, answer) /\ Finish(c)

\* An exception that leaves handleToolsCall before dispatch: nobody calls finish.
Throws(c) == Answered(c, "thrown") /\ UNCHANGED entry

Proceeds(c, stage) == Goes(c, stage) /\ UNCHANGED <<entry, shared>>

(***************************************************************************)
(* handleToolsCall                                                         *)
(***************************************************************************)
Holders(i) == {d \in Calls : call[d].at \in Unfinished /\ call[d].id = i}

\* Well-formed parameters below 32 KB; others are answered before the id is entered.
Arrive(c, i, tool, resumes) ==
  /\ At(c, "idle") /\ \A d \in Calls : d < c => ~At(d, "idle")
  /\ i <= c
  /\ call' = [call EXCEPT ![c] =
       [at |-> IF resumes THEN "lookup" ELSE "defaults",
        id |-> i, tool |-> tool, aborted |-> "no", answer |-> "none"]]
  /\ Start(c, i)
  /\ shared' = IF Holders(i) = {} THEN shared ELSE shared \cup Holders(i) \cup {c}

\* Step 7 of dispatch, after validation and gate.
Execute(c) == Proceeds(c, IF call[c].tool.forwarded THEN "subscribe" ELSE "native")

\* approvals.get: a row that is not approved, not the tool's, already emitted or
\* with other arguments is refused; an approved one bypasses the gate.
Lookup(c) ==
  /\ At(c, "lookup")
  /\ Execute(c) \/ Ends(c, "failed") \/ Throws(c)

\* resolveForTool fails open.  The elicitation hook asks subMcpServerNames, which
\* may throw, for a tool that is not read-only.
Defaults(c) ==
  /\ At(c, "defaults")
  /\ \/ Proceeds(c, "gate")
     \/ call[c].tool.sensitivity # "read" /\ (Ends(c, "answered") \/ Throws(c))

\* Unknown tool or invalid input; the gate: read passes, write passes if write
\* mode is on (a failing check counts as off), anything else needs approval.
Gate(c) ==
  /\ At(c, "gate")
  /\ \/ Ends(c, "failed")
     \/ call[c].tool.sensitivity # "danger" /\ Execute(c)
     \/ /\ call[c].tool.sensitivity # "read"
        /\ Goes(c, "enqueue")
        /\ Finish(c)
        /\ UNCHANGED shared

\* The approval is stored, or that fails; the finally clause finishes a second time.
Enqueue(c) == At(c, "enqueue") /\ (Ends(c, "answered") \/ Ends(c, "failed"))

Native(c) == At(c, "native") /\ (Ends(c, "answered") \/ Ends(c, "failed"))

\* The subscription check fails open.
Subscribe(c) == At(c, "subscribe") /\ (Proceeds(c, "enrich") \/ Ends(c, "failed"))

(***************************************************************************)
(* forwardToolCall                                                         *)
(***************************************************************************)
\* Mutant: only an abort that comes later is listened to.
SendAnyway(c) == At(c, "enrich") /\ (Ends(c, "failed") \/ Proceeds(c, "fetch"))

\* A failing enricher leaves its headers out; a server unknown by now fails the
\* call.  With an aborted signal fetch rejects without sending.
Send(c) ==
  /\ At(c, "enrich")
  /\ Ends(c, "failed") \/ (~Aborted(c) /\ Proceeds(c, "fetch"))

\* The sub-MCP's headers: an HTTP 400 may ask for a session.
Headers(c) ==
  /\ At(c, "fetch") /\ ~Aborted(c)
  /\ Proceeds(c, "body") \/ Proceeds(c, "probe")

Probe(c) ==
  /\ At(c, "probe") /\ ~Aborted(c)
  /\ Proceeds(c, "body") \/ Proceeds(c, "initialize")

\* initializeSession: a refusal, an answer without a session id, or the retry.
Retry(c) ==
  /\ At(c, "initialize") /\ ~Aborted(c)
  /\ Ends(c, "failed") \/ Proceeds(c, "retry")

RetryHeaders(c) == At(c, "retry") /\ ~Aborted(c) /\ Proceeds(c, "body")

\* The timer and the listener are gone: the body is read however long it takes.
Body(c) == At(c, "body") /\ (Ends(c, "answered") \/ Ends(c, "failed"))

\* Mutant: initialize is sent without the signal.
TimesOutNotInitialize(c) ==
  /\ call[c].at \in Timed \ {"initialize"}
  /\ Ends(c, "failed")

\* The 30 s timer aborts the controller, or the aborted fetch rejects, or the
\* connection fails.
TimesOut(c) ==
  /\ call[c].at \in Timed
  /\ Ends(c, "failed")

(***************************************************************************)
(* notifications/cancelled, of whatever session, and the end of a process. *)
(***************************************************************************)
Phase(stage) ==
  IF stage \in Timed THEN "during"
  ELSE IF stage \in {"body", "native", "enqueue"} THEN "after" ELSE "before"

\* A call that ended by an exception is aborted without effect.
Abort(c) ==
  call' = IF call[c].at \in Unfinished
          THEN [call EXCEPT ![c].aborted = Phase(call[c].at)] ELSE call

Cancel(i) ==
  /\ entry[i] # None
  /\ Abort(entry[i])
  /\ entry' = [entry EXCEPT ![i] = None]
  /\ UNCHANGED shared

Restart ==
  /\ \E c \in Calls : call[c].at \in Unfinished
  /\ entry' = [i \in Ids |-> None]
  /\ call' = [c \in Calls |-> IF call[c].at \in Unfinished
                THEN [NewCall EXCEPT !.at = "done", !.answer = "failed"] ELSE call[c]]
  /\ shared' = {}

\* The stages that await HTTP without a timer or a signal: the run of a native
\* tool (discovery reads bodies after its timer is cleared, knowledge is asked
\* without one), the auth enricher with its token endpoints, and the body of a
\* sub-MCP's answer.
Untimed == {"native", "enrich", "body"}

\* What the process and its database end by themselves, the timer included.
Serves(c) ==
  Lookup(c) \/ Defaults(c) \/ Gate(c) \/ Enqueue(c) \/ Subscribe(c) \/ TimesOut(c)

\* What takes an answer from another server, which owes none.
IsAnswered(c) ==
  \/ Native(c) \/ Send(c)
  \/ Headers(c) \/ Probe(c) \/ Retry(c) \/ RetryHeaders(c) \/ Body(c)

Next ==
  \/ \E c \in Calls : Serves(c) \/ IsAnswered(c)
  \/ \E c \in Calls, i \in Ids, tool \in Tools, resumes \in BOOLEAN : Arrive(c, i, tool, resumes)
  \/ \E i \in Ids : Cancel(i)
  \/ Restart

Spec == Init /\ [][Next]_vars

FairSpec == Spec /\ \A c \in Calls : WF_vars(Serves(c))

(***************************************************************************)
(* Properties                                                              *)
(***************************************************************************)
\* A call that shares its id with no other unfinished call is the one its id
\* leads to from its registration to its end, save once it is aborted or only
\* its approval remains to be stored; and an id leads to a call that has ended
\* only if that call ended by an exception nobody caught.
CancelExact ==
  /\ \A c \in Calls :
       call[c].at \in Unfinished /\ c \notin shared =>
         (entry[call[c].id] = c <=> call[c].at \in Running /\ ~Aborted(c))
  /\ \A i \in Ids :
       \/ entry[i] = None
       \/ call[entry[i]].at \in Running /\ call[entry[i]].id = i
       \/ call[entry[i]].answer = "thrown"

\* A call cancelled before it was sent to its sub-MCP is never sent, and one
\* cancelled before the sub-MCP's headers came is not sent again and takes no
\* result, through the session handshake and the retry as well.
AbortIsFinal ==
  \A c \in Calls :
    /\ call[c].aborted = "before" => call[c].at \notin Forwarded
    /\ call[c].aborted = "during" => call[c].at # "body"

\* What a call is before and during its handling.
CallOK(c) ==
  /\ At(c, "idle") => call[c] = NewCall
  /\ call[c].at \in Unfinished =>
       call[c].id \in Ids /\ call[c].tool \in Tools /\ call[c].answer = "none"

\* Of two unfinished calls with one id both are known to share it.
SharersKnown ==
  \A c, d \in Calls :
    /\ c # d /\ call[c].id = call[d].id
    /\ call[c].at \in Unfinished /\ call[d].at \in Unfinished
    => c \in shared

\* The inductive invariant.
IInv ==
  /\ TypeOK
  /\ \A c \in Calls : CallOK(c)
  /\ SharersKnown
  /\ CancelExact
  /\ AbortIsFinal

\* Whatever other servers do or fail to do, a call ends or comes to one of the
\* stages without a timer, where it may hang; once such a stage is over the same
\* holds again, so that the handshake with a sub-MCP never holds a call.
EndsUnlessUntimed ==
  \A c \in Calls : call[c].at \in Unfinished ~> (At(c, "done") \/ call[c].at \in Untimed)
================================================================================
