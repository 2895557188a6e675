-------------------------- MODULE ApprovalLifecycle ---------------------------
(***************************************************************************)
(* What the approval queue promises, without requests, clocks or SQL: an   *)
(* approval is asked for, decided once, run only when it was approved, and *)
(* its result is published at most once.  How often an approved call runs  *)
(* is deliberately left open: see AtMostOneDispatch in ApprovalFlow.       *)
(***************************************************************************)
EXTENDS Naturals

CONSTANTS Approvals

VARIABLES
  phase,      \* what was decided about each approval
  runs,       \* how often the approved tool call was run
  published   \* the result the client can read

lifecycleVars == <<phase, runs, published>>

LifecycleInit ==
  /\ phase = [i \in Approvals |-> "absent"]
  /\ runs = [i \in Approvals |-> 0]
  /\ published = [i \in Approvals |-> "none"]

Ask(i) ==
  /\ phase[i] = "absent"
  /\ phase' = [phase EXCEPT ![i] = "pending"]
  /\ UNCHANGED <<runs, published>>

\* A sweep may expire several overdue approvals at once; a user decides one.
Decide(S, decision) ==
  /\ \A i \in S : phase[i] = "pending"
  /\ phase' = [i \in Approvals |-> IF i \in S THEN decision ELSE phase[i]]
  /\ UNCHANGED <<runs, published>>

Run(i) ==
  /\ phase[i] = "approved"
  /\ runs' = [runs EXCEPT ![i] = @ + 1]
  /\ UNCHANGED <<phase, published>>

Publish(i, result) ==
  /\ phase[i] = "approved"
  /\ published[i] = "none"
  /\ published' = [published EXCEPT ![i] = result]
  /\ UNCHANGED <<phase, runs>>

LifecycleNext ==
  \/ \E i \in Approvals : Ask(i) \/ Run(i)
  \/ \E i \in Approvals, d \in {"approved", "rejected"} : Decide({i}, d)
  \/ \E S \in SUBSET Approvals : Decide(S, "expired")
  \/ \E i \in Approvals, result \in {"ok", "error"} : Publish(i, result)

LifecycleSpec == LifecycleInit /\ [][LifecycleNext]_lifecycleVars
===============================================================================
