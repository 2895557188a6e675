---------------------------- MODULE GatewayRefresh ----------------------------
(***************************************************************************)
(* Live refresh of the forwarded tools of the sub-MCP servers, in one      *)
(* server instance (mcp/gateway/refresh.ts, registry.ts, discovery.ts).    *)
(*                                                                         *)
(* A refresh asks each server for its tools, stores them in the table      *)
(* sub_mcp_servers, then drops the wrappers of the answered servers from   *)
(* the tool registry and registers them anew from the table, which it      *)
(* reads through an in-memory slot with a time to live.  Cron, an admin    *)
(* route, an MCP tool and the end of an OAuth flow start refreshes, and    *)
(* nothing keeps two of them apart: between two awaits of one refresh any  *)
(* other request of the instance may run.                                  *)
(***************************************************************************)
EXTENDS Naturals, FiniteSets

CONSTANTS
  Servers,  \* names of sub-MCP servers
  Tools,    \* names a server gives its tools
  Jobs,     \* refreshes and other requests; each runs once
  None      \* "no server"

ASSUME NoneAssumption == None \notin Servers

VARIABLES
  row,        \* table sub_mcp_servers
  slot,       \* the cached copy of the table in createSubMcpRegistry
  wrapper,    \* ToolRegistry: the forwarded tools, and how each was built
  names,      \* SubMcpWrappersCache: tools tracked as registered per server
  job,        \* the requests under way
  overlapped  \* two refreshes were under way at once (history)

vars == <<row, slot, wrapper, names, job, overlapped>>

Refreshes == {"system", "user"}
Kinds == {"none", "lookup", "manage"} \cup Refreshes
Stages == {"idle", "list", "listing", "fetch", "store", "invalidate", "schema",
           "relist", "relisting", "build", "drop", "done"}

ServerRows == [status: {"absent", "enabled", "disabled", "removed"}, tools: SUBSET Tools]
Snapshots == [Servers -> ServerRows]
NoRows == [s \in Servers |-> [status |-> "absent", tools |-> {}]]

\* A wrapper is built at boot with the auth enricher and the subscription
\* check, by a refresh for a user with the check, or by any other refresh bare.
Builds == {"none", "boot", "checked", "bare"}

JobRecords == [kind: Kinds, at: Stages, todo: SUBSET Servers,
               current: Servers \cup {None}, fetched: SUBSET Tools,
               affected: SUBSET Servers, view: Snapshots]
NewJob == [kind |-> "none", at |-> "idle", todo |-> {}, current |-> None,
           fetched |-> {}, affected |-> {}, view |-> NoRows]
Finished == [NewJob EXCEPT !.at = "done"]

TypeOK ==
  /\ row \in Snapshots
  /\ slot \in [held: BOOLEAN, rows: Snapshots]
  /\ wrapper \in [Servers \X Tools -> Builds]
  /\ names \in [Servers -> SUBSET Tools]
  /\ job \in [Jobs -> JobRecords]
  /\ overlapped \in BOOLEAN

NoSlot == [held |-> FALSE, rows |-> NoRows]
Slot(rows) == [held |-> TRUE, rows |-> rows]

ToolsIn(rows, s) == IF rows[s].status = "enabled" THEN rows[s].tools ELSE {}

\* The wrappers, the tracked names and the slot a start of the instance leaves.
Boot ==
  /\ slot' = Slot(row)
  /\ wrapper' = [w \in Servers \X Tools |->
                   IF w[2] \in ToolsIn(row, w[1]) THEN "boot" ELSE "none"]
  /\ names' = [s \in Servers |-> ToolsIn(row, s)]

Init ==
  /\ row \in [Servers -> [status: {"absent", "enabled", "disabled"},
                          tools: {{}, Tools}]]
  /\ \A s \in Servers : row[s].status = "absent" => row[s].tools = {}
  /\ slot = Slot(row)
  /\ wrapper = [w \in Servers \X Tools |->
                  IF w[2] \in ToolsIn(row, w[1]) THEN "boot" ELSE "none"]
  /\ names = [s \in Servers |-> ToolsIn(row, s)]
  /\ job = [j \in Jobs |-> NewJob]
  /\ overlapped = FALSE

Refreshing(j) == job[j].kind \in Refreshes

(***************************************************************************)
(* Reading the table through the slot (getCache)                           *)
(***************************************************************************)
\* The enabled servers among those asked for are refreshed one after another.
Listed(j, rows) ==
  IF Refreshing(j)
  THEN [job[j] EXCEPT !.at = "fetch", !.view = NoRows,
                      !.todo = {s \in @ : rows[s].status = "enabled"}]
  ELSE Finished

ListFromSlot(j) ==
  /\ job[j].at = "list"
  /\ slot.held
  /\ job' = [job EXCEPT ![j] = Listed(j, slot.rows)]
  /\ UNCHANGED <<row, slot, wrapper, names, overlapped>>

SelectRows(j) ==
  /\ \/ job[j].at = "list" /\ ~slot.held
        /\ job' = [job EXCEPT ![j].at = "listing", ![j].view = row]
     \/ job[j].at = "relist"
        /\ job' = [job EXCEPT ![j].at = "relisting", ![j].view = row]
  /\ UNCHANGED <<row, slot, wrapper, names, overlapped>>

\* The answer replaces the slot, even if the slot was invalidated meanwhile.
FillSlot(j) ==
  /\ job[j].at = "listing"
  /\ slot' = Slot(job[j].view)
  /\ job' = [job EXCEPT ![j] = Listed(j, job[j].view)]
  /\ UNCHANGED <<row, wrapper, names, overlapped>>

SelectFails(j) ==
  /\ job[j].at \in {"list", "listing", "relist", "relisting"}
  /\ job' = [job EXCEPT ![j] = Finished]
  /\ UNCHANGED <<row, slot, wrapper, names, overlapped>>

SlotExpires ==
  /\ slot.held
  /\ slot' = NoSlot
  /\ UNCHANGED <<row, wrapper, names, job, overlapped>>

(***************************************************************************)
(* refreshSubMcpToolCache                                                  *)
(***************************************************************************)
Start(j, kind, only) ==
  /\ job[j].at = "idle"
  /\ job' = [job EXCEPT ![j] = [NewJob EXCEPT !.kind = kind, !.at = "list", !.todo = only]]
  /\ overlapped' = (overlapped \/ \E i \in Jobs : Refreshing(i))
  /\ UNCHANGED <<row, slot, wrapper, names>>

Fetch(j, s, tools) ==
  /\ job[j].at = "fetch"
  /\ s \in job[j].todo
  /\ job' = [job EXCEPT ![j].at = "store", ![j].current = s, ![j].fetched = tools]
  /\ UNCHANGED <<row, slot, wrapper, names, overlapped>>

\* No answer, an error, or a timeout.
FetchFails(j, s) ==
  /\ job[j].at = "fetch"
  /\ s \in job[j].todo
  /\ job' = [job EXCEPT ![j].todo = @ \ {s}]
  /\ UNCHANGED <<row, slot, wrapper, names, overlapped>>

InTable(s) == row[s].status \in {"enabled", "disabled"}

\* UPDATE sub_mcp_servers SET tools_cache ... WHERE id
StoreTools(j) ==
  /\ job[j].at = "store"
  /\ row' = IF InTable(job[j].current)
            THEN [row EXCEPT ![job[j].current].tools = job[j].fetched] ELSE row
  /\ job' = [job EXCEPT ![j].at = "invalidate", ![j].fetched = {}]
  /\ UNCHANGED <<slot, wrapper, names, overlapped>>

Answered(j) ==
  [job[j] EXCEPT !.at = "fetch", !.todo = @ \ {job[j].current}, !.current = None,
                 !.affected = @ \cup {job[j].current}]

\* Some servers send a config schema along, which is stored as well.
Invalidate(j) ==
  /\ job[j].at = "invalidate"
  /\ slot' = NoSlot
  /\ job' \in {[job EXCEPT ![j] = Answered(j)], [job EXCEPT ![j].at = "schema"]}
  /\ UNCHANGED <<row, wrapper, names, overlapped>>

StoreSchema(j) ==
  /\ job[j].at = "schema"
  /\ slot' = NoSlot
  /\ job' = [job EXCEPT ![j] = Answered(j)]
  /\ UNCHANGED <<row, wrapper, names, overlapped>>

\* The server then counts as failed although its tools are stored.
StoreSchemaFails(j) ==
  /\ job[j].at = "schema"
  /\ job' = [job EXCEPT ![j] =
       [job[j] EXCEPT !.at = "fetch", !.todo = @ \ {job[j].current}, !.current = None]]
  /\ UNCHANGED <<row, slot, wrapper, names, overlapped>>

(***************************************************************************)
(* applyGatewayDiscovery, steps 2 and 3.  Dropping the wrappers, a hit in  *)
(* the slot and the registrations up to the next await run without         *)
(* interruption.                                                           *)
(***************************************************************************)
AllAnswered(j) == job[j].at = "fetch" /\ job[j].todo = {}

\* Mutant: the wrappers of every tracked server are dropped.
WithoutTracked(S) ==
  [w \in Servers \X Tools |-> IF w[2] \in names[w[1]] THEN "none" ELSE wrapper[w]]

\* Mutant: the wrappers stay in the registry.
WithoutNone(S) == wrapper

Without(S) ==
  [w \in Servers \X Tools |->
     IF w[1] \in S /\ w[2] \in names[w[1]] THEN "none" ELSE wrapper[w]]

\* Mutant: the tracker keeps the names it has dropped.
UntrackedNot(S) == names

Untracked(S) == [s \in Servers |-> IF s \in S THEN {} ELSE names[s]]

BuiltBy(j) == IF job[j].kind = "user" THEN "checked" ELSE "bare"

\* Registers the tools that `rows` gives for the affected servers, all of them
\* at once, or, for a user, server by server with a write of that user's tool
\* cache in between.  A name already taken is skipped and not tracked.
Rebuild(j, base, tracked, rows) ==
  LET due == {s \in job[j].affected : rows[s].status = "enabled"} IN
  \E S \in SUBSET due :
    /\ S = due \/ (job[j].kind = "user" /\ S # {})
    /\ wrapper' = [w \in Servers \X Tools |->
         IF w[1] \in S /\ w[2] \in rows[w[1]].tools /\ base[w] = "none"
         THEN BuiltBy(j) ELSE base[w]]
    /\ names' = [s \in Servers |->
         IF s \in S THEN {t \in rows[s].tools : base[<<s, t>>] = "none"} ELSE tracked[s]]
    /\ job' = [job EXCEPT ![j] =
         IF S = due THEN Finished
         ELSE [@ EXCEPT !.at = "build", !.view = rows, !.affected = due \ S]]

Deregister(j) ==
  /\ AllAnswered(j)
  /\ ~slot.held
  /\ wrapper' = Without(job[j].affected)
  /\ names' = Untracked(job[j].affected)
  /\ job' = [job EXCEPT ![j].at = "relist"]
  /\ UNCHANGED <<row, slot, overlapped>>

DeregisterAndRebuild(j) ==
  /\ AllAnswered(j)
  /\ slot.held
  /\ Rebuild(j, Without(job[j].affected), Untracked(job[j].affected), slot.rows)
  /\ UNCHANGED <<row, slot, overlapped>>

FillSlotAndRebuild(j) ==
  /\ job[j].at = "relisting"
  /\ slot' = Slot(job[j].view)
  /\ Rebuild(j, wrapper, names, job[j].view)
  /\ UNCHANGED <<row, overlapped>>

RebuildMore(j) ==
  /\ job[j].at = "build"
  /\ Rebuild(j, wrapper, names, job[j].view)
  /\ UNCHANGED <<row, slot, overlapped>>

(***************************************************************************)
(* The other requests that touch the table or the slot                     *)
(***************************************************************************)
Lookup(j) ==
  /\ job[j].at = "idle"
  /\ job' = [job EXCEPT ![j] = [NewJob EXCEPT !.kind = "lookup", !.at = "list"]]
  /\ UNCHANGED <<row, slot, wrapper, names, overlapped>>

\* gateway_server_add, _toggle and _remove write the row, then drop the slot.
\* Bound: a name that was removed is not given out again.
Manage(j, s) ==
  /\ job[j].at = "idle"
  /\ \/ row[s].status = "absent" /\ row' = [row EXCEPT ![s].status = "enabled"]
     \/ row[s].status = "enabled" /\ row' = [row EXCEPT ![s].status = "disabled"]
     \/ row[s].status = "disabled" /\ row' = [row EXCEPT ![s].status = "enabled"]
     \/ InTable(s) /\ row' = [row EXCEPT ![s].status = "removed", ![s].tools = {}]
  /\ job' = [job EXCEPT ![j] = [NewJob EXCEPT !.kind = "manage", !.at = "drop"]]
  /\ UNCHANGED <<slot, wrapper, names, overlapped>>

DropSlot(j) ==
  /\ job[j].at = "drop"
  /\ slot' = NoSlot
  /\ job' = [job EXCEPT ![j] = Finished]
  /\ UNCHANGED <<row, wrapper, names, overlapped>>

\* The instance is restarted; its requests die.
Restart ==
  /\ \E j \in Jobs : job[j].at \notin {"idle", "done"}
  /\ Boot
  /\ job' = [j \in Jobs |-> IF job[j].at = "idle" THEN NewJob ELSE Finished]
  /\ overlapped' = FALSE
  /\ UNCHANGED row

Step(j) ==
  \/ ListFromSlot(j) \/ SelectRows(j) \/ FillSlot(j) \/ SelectFails(j)
  \/ \E s \in Servers : FetchFails(j, s) \/ \E tools \in SUBSET Tools : Fetch(j, s, tools)
  \/ StoreTools(j) \/ Invalidate(j) \/ StoreSchema(j) \/ StoreSchemaFails(j)
  \/ Deregister(j) \/ DeregisterAndRebuild(j) \/ FillSlotAndRebuild(j) \/ RebuildMore(j)
  \/ DropSlot(j)

Arrive(j) ==
  \/ \E kind \in Refreshes, only \in {Servers} \cup {{s} : s \in Servers} : Start(j, kind, only)
  \/ Lookup(j)
  \/ \E s \in Servers : Manage(j, s)

Next ==
  \/ \E j \in Jobs : Arrive(j) \/ Step(j)
  \/ SlotExpires
  \/ Restart

Spec == Init /\ [][Next]_vars

-------------------------------------------------------------------------------
(***************************************************************************)
(* Properties                                                              *)
(***************************************************************************)

Registered(s) == {t \in Tools : wrapper[<<s, t>>] # "none"}

\* The tracker never names a tool that is not registered, in whatever order
\* refreshes drop and register: a refresh never drops what it did not find.
TrackerSound == \A s \in Servers : names[s] \subseteq Registered(s)

\* As long as refreshes do not overlap, the tracker is exact, whatever fails
\* half way: every forwarded tool can be dropped by the next refresh.
ExactUnlessOverlap ==
  ~overlapped => \A s \in Servers : names[s] = Registered(s)

\* The wrappers of a server change only in a refresh that this server has
\* answered: one broken server never costs another one its tools.
OnlyAnsweredServersChange ==
  [][Restart \/ \A w \in Servers \X Tools : wrapper'[w] # wrapper[w] =>
       \E j \in Jobs : job'[j] # job[j] /\ w[1] \in job[j].affected]_vars

\* Only a refresh comes past the list, without an overlap there is only one, and
\* what it stores is a server's.
OneRefresh ==
  /\ \A j \in Jobs : job[j].at \notin {"idle", "list", "listing", "drop", "done"} => Refreshing(j)
  /\ ~overlapped => \A i, j \in Jobs : Refreshing(i) /\ Refreshing(j) => i = j
  /\ \A j \in Jobs : job[j].at \in {"store", "invalidate", "schema"} => job[j].current \in Servers

\* Without an overlap nothing is registered for the servers still to be rebuilt.
DroppedFirst ==
  ~overlapped => \A j \in Jobs : job[j].at \in {"relist", "relisting", "build"} =>
    \A s \in job[j].affected : names[s] = {}

\* The inductive invariant.
IInv == TypeOK /\ OneRefresh /\ DroppedFirst /\ TrackerSound /\ ExactUnlessOverlap
===============================================================================
