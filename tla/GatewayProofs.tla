----------------------------- MODULE GatewayProofs -----------------------------
(***************************************************************************)
(* Proofs about GatewayRefresh, for any sets of servers, tools and jobs,   *)
(* and about SubMcpAuth, for any number of requests, any lifetimes and any *)
(* bounds on the clock and on rotations.  The two share no variable.       *)
(***************************************************************************)
EXTENDS GatewayRefresh, SubMcpAuth, TLAPS

\* The names of a server's tools that the registry `base` holds.
Taken(base, s) == {t \in Tools : base[<<s, t>>] # "none"}

\* The servers a refresh still has to rebuild from `rows`.
Due(rows, affected) == {s \in affected : rows[s].status = "enabled"}

Outside == {"idle", "list", "listing", "drop", "done"}
Rebuilding == {"relist", "relisting", "build"}

LEMMA Records ==
  /\ NoRows \in Snapshots /\ NewJob \in JobRecords /\ Finished \in JobRecords
  /\ NewJob.at = "idle" /\ NewJob.kind = "none"
  /\ Finished.at = "done" /\ Finished.kind = "none"
  /\ NoSlot \in [held: BOOLEAN, rows: Snapshots]
  /\ \A rows \in Snapshots : Slot(rows) \in [held: BOOLEAN, rows: Snapshots]
<1>1. NoRows \in Snapshots
  BY DEF NoRows, Snapshots, ServerRows
<1>2. NewJob \in JobRecords /\ NewJob.at = "idle" /\ NewJob.kind = "none"
  BY <1>1 DEF NewJob, JobRecords, Kinds, Stages
<1>3. Finished \in JobRecords /\ Finished.at = "done" /\ Finished.kind = "none"
  BY <1>1 DEF Finished, NewJob, JobRecords, Kinds, Stages
<1>4. QED
  BY <1>1, <1>2, <1>3 DEF NoSlot, Slot

\* What a start of the instance registers is what it tracks.
Wrapped(rows) ==
  [w \in Servers \X Tools |-> IF w[2] \in ToolsIn(rows, w[1]) THEN "boot" ELSE "none"]
Named(rows) == [s \in Servers |-> ToolsIn(rows, s)]

LEMMA BootExact ==
  ASSUME NEW rows \in Snapshots
  PROVE  /\ Wrapped(rows) \in [Servers \X Tools -> Builds]
         /\ Named(rows) \in [Servers -> SUBSET Tools]
         /\ \A s \in Servers : Named(rows)[s] = {t \in Tools : Wrapped(rows)[<<s, t>>] # "none"}
<1>1. \A s \in Servers : ToolsIn(rows, s) \subseteq Tools
  BY DEF ToolsIn, Snapshots, ServerRows
<1>2. \A s \in Servers, t \in Tools :
        Wrapped(rows)[<<s, t>>] = IF t \in ToolsIn(rows, s) THEN "boot" ELSE "none"
  BY DEF Wrapped
<1>3. Wrapped(rows) \in [Servers \X Tools -> Builds]
  BY DEF Builds, Wrapped
<1>4. \A s \in Servers : Named(rows)[s] = ToolsIn(rows, s)
  BY DEF Named
<1>5. ASSUME NEW s \in Servers
      PROVE  Named(rows)[s] = {t \in Tools : Wrapped(rows)[<<s, t>>] # "none"}
  BY <1>1, <1>2, <1>4
<1>6. Named(rows) \in [Servers -> SUBSET Tools]
  BY <1>1 DEF Named
<1>7. QED
  BY <1>3, <1>5, <1>6

LEMMA InitIInv == Init => IInv
<1> SUFFICES ASSUME Init PROVE IInv
  OBVIOUS
<1>1. row \in Snapshots
  <2>1. [status: {"absent", "enabled", "disabled"}, tools: {{}, Tools}] \subseteq ServerRows
    BY DEF ServerRows
  <2>2. QED
    BY <2>1 DEF Init, Snapshots
<1>2. /\ wrapper \in [Servers \X Tools -> Builds] /\ names \in [Servers -> SUBSET Tools]
      /\ \A s \in Servers : names[s] = Registered(s)
  <2>1. wrapper = Wrapped(row) /\ names = Named(row)
    BY DEF Init, Wrapped, Named
  <2>2. QED
    BY <1>1, <2>1, BootExact DEF Registered
<1>3. \A j \in Jobs : job[j] = NewJob
  BY DEF Init
<1>4. TypeOK
  BY <1>1, <1>2, Records DEF Init, TypeOK
<1>5. OneRefresh /\ DroppedFirst
  BY <1>3, Records DEF OneRefresh, DroppedFirst, Refreshing, Refreshes
<1>6. QED
  BY <1>2, <1>4, <1>5 DEF IInv, TrackerSound, ExactUnlessOverlap

\* A step that leaves the registry alone and starts or re-registers nothing.
LEMMA QuietStep ==
  ASSUME IInv, TypeOK', UNCHANGED <<wrapper, names, overlapped>>,
         \A j \in Jobs : \/ job'[j] = job[j]
                         \/ /\ Refreshing(j)' => Refreshing(j)
                            /\ job'[j].at \notin Outside => Refreshing(j)'
                            /\ job'[j].at \in Rebuilding =>
                                 job[j].at \in Rebuilding /\ job'[j].affected = job[j].affected
                            /\ job'[j].at \in {"store", "invalidate", "schema"} =>
                                 job'[j].current \in Servers
  PROVE  IInv'
<1>1. \A j \in Jobs : Refreshing(j)' => Refreshing(j)
  BY DEF Refreshing
<1>2. OneRefresh'
  BY <1>1 DEF IInv, OneRefresh, Outside, Refreshing
<1>3. DroppedFirst'
  BY DEF IInv, DroppedFirst, Rebuilding
<1>4. TrackerSound' /\ ExactUnlessOverlap'
  BY DEF IInv, TrackerSound, ExactUnlessOverlap, Registered
<1>5. QED
  BY <1>2, <1>3, <1>4 DEF IInv

\* The same for one job whose record is `record` afterwards.
LEMMA JobStep ==
  ASSUME IInv, NEW j \in Jobs, NEW record \in JobRecords, job' = [job EXCEPT ![j] = record],
         row' \in Snapshots, slot' \in [held: BOOLEAN, rows: Snapshots],
         UNCHANGED <<wrapper, names, overlapped>>,
         record.kind \in Refreshes => Refreshing(j),
         record.at \notin Outside => record.kind \in Refreshes,
         record.at \in Rebuilding => job[j].at \in Rebuilding /\ record.affected = job[j].affected,
         record.at \in {"store", "invalidate", "schema"} => record.current \in Servers
  PROVE  IInv'
<1>1. job'[j] = record /\ \A i \in Jobs \ {j} : job'[i] = job[i]
  BY DEF IInv, TypeOK
<1>2. TypeOK'
  BY DEF IInv, TypeOK
<1>3. Refreshing(j)' <=> record.kind \in Refreshes
  BY <1>1 DEF Refreshing
<1>4. QED
  BY <1>1, <1>2, <1>3, QuietStep

LEMMA ListStep ==
  ASSUME IInv, NEW j \in Jobs, ListFromSlot(j) \/ SelectRows(j) \/ FillSlot(j) \/ SelectFails(j)
  PROVE  IInv'
<1> DEFINE J == job[j]
<1>1. /\ J \in JobRecords /\ row \in Snapshots /\ slot \in [held: BOOLEAN, rows: Snapshots]
      /\ J.view \in Snapshots /\ slot.rows \in Snapshots
  BY DEF IInv, TypeOK, JobRecords
<1>2. ASSUME NEW rows \in Snapshots
      PROVE  /\ Listed(j, rows) \in JobRecords
             /\ Listed(j, rows).kind \in Refreshes => Refreshing(j)
             /\ Listed(j, rows).at \notin Outside => Listed(j, rows).kind \in Refreshes
             /\ Listed(j, rows).at \notin Rebuilding \cup {"store", "invalidate", "schema"}
  <2>1. CASE Refreshing(j)
    <3>1. Listed(j, rows) = [J EXCEPT !.at = "fetch", !.view = NoRows,
                                      !.todo = {s \in J.todo : rows[s].status = "enabled"}]
      BY <2>1 DEF Listed
    <3>2. J.todo \subseteq Servers
      BY <1>1 DEF JobRecords
    <3>3. Listed(j, rows) \in JobRecords /\ Listed(j, rows).at = "fetch"
          /\ Listed(j, rows).kind = J.kind
      BY <1>1, <3>1, <3>2, Records DEF JobRecords, Stages
    <3>4. QED
      BY <2>1, <3>3 DEF Refreshing, Rebuilding
  <2>2. CASE ~Refreshing(j)
    BY <2>2, Records DEF Listed, Refreshes, Outside, Rebuilding
  <2>3. QED
    BY <2>1, <2>2
<1>3. CASE ListFromSlot(j)
  BY <1>1, <1>2, <1>3, JobStep DEF ListFromSlot
<1>4. CASE SelectRows(j)
  <2>1. CASE job' = [job EXCEPT ![j].at = "listing", ![j].view = row]
    <3>1. /\ [J EXCEPT !.at = "listing", !.view = row] \in JobRecords
          /\ [J EXCEPT !.at = "listing", !.view = row].at = "listing"
          /\ [J EXCEPT !.at = "listing", !.view = row].kind = J.kind
      BY <1>1 DEF JobRecords, Stages
    <3>2. job' = [job EXCEPT ![j] = [J EXCEPT !.at = "listing", !.view = row]]
      BY <2>1
    <3>3. "listing" \in Outside /\ "listing" \notin Rebuilding
      BY DEF Outside, Rebuilding
    <3>4. UNCHANGED <<row, slot, wrapper, names, overlapped>>
      BY <1>4 DEF SelectRows
    <3>5. QED
      BY <1>1, <3>1, <3>2, <3>3, <3>4, JobStep DEF Refreshing
  <2>2. CASE J.at = "relist" /\ job' = [job EXCEPT ![j].at = "relisting", ![j].view = row]
    <3>1. /\ [J EXCEPT !.at = "relisting", !.view = row] \in JobRecords
          /\ [J EXCEPT !.at = "relisting", !.view = row].kind = J.kind
          /\ [J EXCEPT !.at = "relisting", !.view = row].at = "relisting"
          /\ [J EXCEPT !.at = "relisting", !.view = row].affected = J.affected
      BY <1>1 DEF JobRecords, Stages
    <3>2. job' = [job EXCEPT ![j] = [J EXCEPT !.at = "relisting", !.view = row]]
      BY <2>2
    <3>3. J.kind \in Refreshes /\ J.at \in Rebuilding
      BY <2>2 DEF IInv, OneRefresh, Refreshing, Rebuilding
    <3>4. UNCHANGED <<row, slot, wrapper, names, overlapped>>
      BY <1>4 DEF SelectRows
    <3>5. QED
      BY <1>1, <3>1, <3>2, <3>3, <3>4, JobStep DEF Refreshing
  <2>3. QED
    BY <1>4, <2>1, <2>2 DEF SelectRows
<1>5. CASE FillSlot(j)
  BY <1>1, <1>2, <1>5, JobStep, Records DEF FillSlot
<1>6. CASE SelectFails(j)
  BY <1>1, <1>6, JobStep, Records DEF SelectFails, Refreshes, Outside, Rebuilding
<1>7. QED
  BY <1>3, <1>4, <1>5, <1>6

LEMMA FetchStep ==
  ASSUME IInv, NEW j \in Jobs, NEW s \in Servers, NEW tools \in SUBSET Tools,
         Fetch(j, s, tools) \/ FetchFails(j, s)
  PROVE  IInv'
<1> DEFINE J == job[j]
<1>1. J \in JobRecords /\ row \in Snapshots /\ slot \in [held: BOOLEAN, rows: Snapshots]
  BY DEF IInv, TypeOK
<1>2. J.at = "fetch" /\ J.kind \in Refreshes
  BY DEF Fetch, FetchFails, IInv, OneRefresh, Refreshing
<1>3. UNCHANGED <<row, slot, wrapper, names, overlapped>>
  BY DEF Fetch, FetchFails
<1>4. CASE Fetch(j, s, tools)
  <2> DEFINE record == [J EXCEPT !.at = "store", !.current = s, !.fetched = tools]
  <2>1. record \in JobRecords /\ record.kind = J.kind /\ record.at = "store" /\ record.current = s
    BY <1>1 DEF JobRecords, Stages
  <2>2. job' = [job EXCEPT ![j] = record]
    BY <1>4 DEF Fetch
  <2>3. QED
    BY <1>1, <1>2, <1>3, <2>1, <2>2, JobStep DEF Refreshing, Rebuilding
<1>5. CASE FetchFails(j, s)
  <2> DEFINE record == [J EXCEPT !.todo = J.todo \ {s}]
  <2>1. record \in JobRecords /\ record.kind = J.kind /\ record.at = J.at
    BY <1>1 DEF JobRecords
  <2>2. job' = [job EXCEPT ![j] = record]
    BY <1>5 DEF FetchFails
  <2>3. QED
    BY <1>1, <1>2, <1>3, <2>1, <2>2, JobStep DEF Refreshing, Rebuilding
<1>6. QED
  BY <1>4, <1>5

LEMMA StoreStep ==
  ASSUME IInv, NEW j \in Jobs,
         StoreTools(j) \/ Invalidate(j) \/ StoreSchema(j) \/ StoreSchemaFails(j)
  PROVE  IInv'
<1> DEFINE J == job[j]
<1>1. /\ J \in JobRecords /\ row \in Snapshots /\ slot \in [held: BOOLEAN, rows: Snapshots]
      /\ J.fetched \subseteq Tools
  BY DEF IInv, TypeOK, JobRecords
<1>2. J.at \in {"store", "invalidate", "schema"} /\ J.kind \in Refreshes /\ J.current \in Servers
  BY DEF StoreTools, Invalidate, StoreSchema, StoreSchemaFails, IInv, OneRefresh, Refreshing
<1>3. UNCHANGED <<wrapper, names, overlapped>>
  BY DEF StoreTools, Invalidate, StoreSchema, StoreSchemaFails
<1>4. ASSUME NEW record \in JobRecords, job' = [job EXCEPT ![j] = record],
             record.kind = J.kind, record.at \notin Rebuilding,
             record.at \in {"store", "invalidate", "schema"} => record.current = J.current,
             row' \in Snapshots, slot' \in [held: BOOLEAN, rows: Snapshots]
      PROVE  IInv'
  BY <1>2, <1>3, <1>4, JobStep DEF Refreshing
<1>5. CASE StoreTools(j)
  <2> DEFINE record == [J EXCEPT !.at = "invalidate", !.fetched = {}]
  <2>1. record \in JobRecords /\ record.kind = J.kind /\ record.at = "invalidate"
        /\ record.current = J.current
    BY <1>1 DEF JobRecords, Stages
  <2>2. job' = [job EXCEPT ![j] = record]
    BY <1>5 DEF StoreTools
  <2>3. row' \in Snapshots
    <3>1. [row[J.current] EXCEPT !.tools = J.fetched] \in ServerRows
      BY <1>1, <1>2 DEF Snapshots, ServerRows
    <3>2. QED
      BY <1>1, <1>5, <3>1 DEF StoreTools, Snapshots
  <2>4. QED
    BY <1>1, <1>4, <1>5, <2>1, <2>2, <2>3 DEF StoreTools, Rebuilding
<1>6. /\ Answered(j) \in JobRecords /\ Answered(j).kind = J.kind /\ Answered(j).at = "fetch"
  BY <1>1, <1>2 DEF Answered, JobRecords, Stages
<1>7. CASE Invalidate(j)
  <2> DEFINE record == [J EXCEPT !.at = "schema"]
  <2>1. record \in JobRecords /\ record.kind = J.kind /\ record.at = "schema"
        /\ record.current = J.current
    BY <1>1 DEF JobRecords, Stages
  <2>2. job' = [job EXCEPT ![j] = record] \/ job' = [job EXCEPT ![j] = Answered(j)]
    BY <1>7 DEF Invalidate
  <2>3. row' \in Snapshots /\ slot' \in [held: BOOLEAN, rows: Snapshots]
    BY <1>1, <1>7, Records DEF Invalidate
  <2>4. QED
    BY <1>4, <1>6, <2>1, <2>2, <2>3 DEF Rebuilding
<1>8. CASE StoreSchema(j)
  BY <1>1, <1>4, <1>6, <1>8, Records DEF StoreSchema, Rebuilding
<1>9. CASE StoreSchemaFails(j)
  <2> DEFINE record == [J EXCEPT !.at = "fetch", !.todo = J.todo \ {J.current}, !.current = None]
  <2>1. record \in JobRecords /\ record.kind = J.kind /\ record.at = "fetch"
    BY <1>1 DEF JobRecords, Stages
  <2>2. job' = [job EXCEPT ![j] = record]
    BY <1>1, <1>9 DEF StoreSchemaFails, IInv, TypeOK
  <2>3. QED
    BY <1>1, <1>4, <1>9, <2>1, <2>2 DEF StoreSchemaFails, Rebuilding
<1>10. QED
  BY <1>5, <1>7, <1>8, <1>9

\* A start finds either no other refresh, or an overlap.
LEMMA ArriveStep ==
  ASSUME IInv, NEW j \in Jobs, Arrive(j)
  PROVE  IInv'
<1>1. job[j].at = "idle" /\ row \in Snapshots /\ slot \in [held: BOOLEAN, rows: Snapshots]
  BY DEF Arrive, Start, Lookup, Manage, IInv, TypeOK
<1>2. ASSUME NEW kind \in Refreshes, NEW only \in {Servers} \cup {{s} : s \in Servers},
             Start(j, kind, only)
      PROVE  IInv'
  <2> DEFINE record == [NewJob EXCEPT !.kind = kind, !.at = "list", !.todo = only]
  <2>1. record \in JobRecords /\ record.kind = kind /\ record.at = "list"
    BY Records DEF NewJob, JobRecords, Kinds, Stages, Refreshes
  <2>2. /\ job' = [job EXCEPT ![j] = record] /\ UNCHANGED <<row, slot, wrapper, names>>
        /\ overlapped' = (overlapped \/ \E i \in Jobs : Refreshing(i))
    BY <1>2 DEF Start
  <2> HIDE DEF record
  <2>3. job'[j] = record /\ \A i \in Jobs \ {j} : job'[i] = job[i]
    BY <2>2 DEF IInv, TypeOK
  <2>4. TypeOK'
    BY <2>1, <2>2 DEF IInv, TypeOK
  <2>5. OneRefresh'
    <3>1. \A i \in Jobs : job'[i].at \notin Outside => Refreshing(i)'
      BY <2>1, <2>3 DEF IInv, OneRefresh, Outside, Refreshing
    <3>2. ~overlapped' => \A i \in Jobs \ {j} : ~Refreshing(i)'
      BY <2>2, <2>3 DEF Refreshing
    <3>3. \A i \in Jobs : job'[i].at \in {"store", "invalidate", "schema"} => job'[i].current \in Servers
      BY <2>1, <2>3 DEF IInv, OneRefresh
    <3>4. QED
      BY <3>1, <3>2, <3>3 DEF OneRefresh, Outside
  <2>6. DroppedFirst'
    BY <2>1, <2>2, <2>3 DEF IInv, DroppedFirst
  <2>7. TrackerSound' /\ ExactUnlessOverlap'
    BY <2>2 DEF IInv, TrackerSound, ExactUnlessOverlap, Registered
  <2>8. QED
    BY <2>4, <2>5, <2>6, <2>7 DEF IInv
<1>3. CASE Lookup(j)
  <2> DEFINE record == [NewJob EXCEPT !.kind = "lookup", !.at = "list"]
  <2>1. record \in JobRecords /\ record.kind = "lookup" /\ record.at = "list"
    BY Records DEF NewJob, JobRecords, Kinds, Stages
  <2>2. job' = [job EXCEPT ![j] = record] /\ UNCHANGED <<row, slot, wrapper, names, overlapped>>
    BY <1>3 DEF Lookup
  <2>3. QED
    BY <1>1, <2>1, <2>2, JobStep DEF Refreshes, Outside, Rebuilding
<1>4. ASSUME NEW s \in Servers, Manage(j, s) PROVE IInv'
  <2> DEFINE record == [NewJob EXCEPT !.kind = "manage", !.at = "drop"]
  <2>1. record \in JobRecords /\ record.kind = "manage" /\ record.at = "drop"
    BY Records DEF NewJob, JobRecords, Kinds, Stages
  <2>2. job' = [job EXCEPT ![j] = record] /\ UNCHANGED <<slot, wrapper, names, overlapped>>
    BY <1>4 DEF Manage
  <2>3. \E status \in {"enabled", "disabled", "removed"} :
          \/ row' = [row EXCEPT ![s] = [row[s] EXCEPT !.status = status]]
          \/ row' = [row EXCEPT ![s] = [row[s] EXCEPT !.status = status, !.tools = {}]]
    BY <1>4 DEF Manage
  <2>4. row' \in Snapshots
    <3>1. ASSUME NEW status \in {"enabled", "disabled", "removed"}
          PROVE  /\ [row[s] EXCEPT !.status = status] \in ServerRows
                 /\ [row[s] EXCEPT !.status = status, !.tools = {}] \in ServerRows
      BY <1>1 DEF Snapshots, ServerRows
    <3>2. QED
      BY <1>1, <2>3, <3>1 DEF Snapshots
  <2>5. QED
    BY <1>1, <2>1, <2>2, <2>4, JobStep DEF Refreshes, Outside, Rebuilding
<1>5. QED
  BY <1>2, <1>3, <1>4 DEF Arrive

\* What registering the tools of `rows` on top of `base` and `tracked` does: the
\* tracker is sound, and exact if `tracked` is and names nothing of the affected.
Rebuilt(j, base, tracked, rows) ==
  /\ wrapper' \in [Servers \X Tools -> Builds] /\ names' \in [Servers -> SUBSET Tools]
  /\ TrackerSound'
  /\ (/\ \A s \in Servers : tracked[s] = Taken(base, s)
      /\ \A s \in job[j].affected : tracked[s] = {})
     => \A s \in Servers : names'[s] = Registered(s)'
  /\ \E S \in SUBSET job[j].affected :
       /\ \A s \in Servers \ S : names'[s] = tracked[s]
       /\ \/ job' = [job EXCEPT ![j] = Finished]
          \/ job' = [job EXCEPT ![j] = [job[j] EXCEPT !.at = "build", !.view = rows,
                                          !.affected = Due(rows, job[j].affected) \ S]]
  /\ \A w \in Servers \X Tools : wrapper'[w] # base[w] => w[1] \in job[j].affected
  /\ job'[j] # job[j]

\* Registering leaves the tracker sound, and exact if it started from nothing.
LEMMA RebuildEffect ==
  ASSUME TypeOK, NEW j \in Jobs, job[j].at # "done", NEW base \in [Servers \X Tools -> Builds],
         NEW tracked \in [Servers -> SUBSET Tools], NEW rows \in Snapshots,
         Rebuild(j, base, tracked, rows),
         \A s \in Servers : tracked[s] \subseteq Taken(base, s)
  PROVE  Rebuilt(j, base, tracked, rows)
<1> DEFINE due == Due(rows, job[j].affected)
<1>1. PICK S \in SUBSET due :
        /\ S = due \/ S # {}
        /\ wrapper' = [w \in Servers \X Tools |->
             IF w[1] \in S /\ w[2] \in rows[w[1]].tools /\ base[w] = "none"
             THEN BuiltBy(j) ELSE base[w]]
        /\ names' = [s \in Servers |->
             IF s \in S THEN {t \in rows[s].tools : base[<<s, t>>] = "none"} ELSE tracked[s]]
        /\ job' = [job EXCEPT ![j] =
             IF S = due THEN Finished
             ELSE [job[j] EXCEPT !.at = "build", !.view = rows, !.affected = due \ S]]
  BY DEF Rebuild, Due
<1>2. due \subseteq job[j].affected /\ job[j].affected \subseteq Servers
  BY DEF TypeOK, JobRecords, Due
<1>3. BuiltBy(j) \in Builds /\ BuiltBy(j) # "none"
  BY DEF BuiltBy, Builds
<1>4. \A s \in Servers : rows[s].tools \subseteq Tools
  BY DEF Snapshots, ServerRows
<1>5. \A s \in Servers, t \in Tools :
        wrapper'[<<s, t>>] = IF s \in S /\ t \in rows[s].tools /\ base[<<s, t>>] = "none"
                             THEN BuiltBy(j) ELSE base[<<s, t>>]
  BY <1>1
<1>6. \A s \in Servers : names'[s] = IF s \in S THEN {t \in rows[s].tools : base[<<s, t>>] = "none"}
                                     ELSE tracked[s]
  BY <1>1
<1>7. wrapper' \in [Servers \X Tools -> Builds]
  BY <1>1, <1>3
<1>8. names' \in [Servers -> SUBSET Tools]
  BY <1>1, <1>4
<1>9. TrackerSound'
  BY <1>3, <1>4, <1>5, <1>6 DEF TrackerSound, Registered, Taken
<1>10. ASSUME \A s \in Servers : tracked[s] = Taken(base, s),
              \A s \in job[j].affected : tracked[s] = {}
       PROVE  \A s \in Servers : names'[s] = Registered(s)'
  <2>1. ASSUME NEW s \in S PROVE \A t \in Tools : base[<<s, t>>] = "none"
    BY <1>2, <1>10 DEF Taken
  <2>2. ASSUME NEW s \in Servers, NEW t \in Tools
        PROVE  t \in names'[s] <=> wrapper'[<<s, t>>] # "none"
    <3>1. CASE s \in S
      <4>1. base[<<s, t>>] = "none" /\ names'[s] = {u \in rows[s].tools : base[<<s, u>>] = "none"}
        BY <1>6, <2>1, <3>1
      <4>2. wrapper'[<<s, t>>] = IF t \in rows[s].tools THEN BuiltBy(j) ELSE "none"
        BY <1>5, <3>1, <4>1
      <4>3. QED
        BY <1>3, <4>1, <4>2
    <3>2. CASE s \notin S
      <4>1. names'[s] = {u \in Tools : base[<<s, u>>] # "none"}
        BY <1>6, <1>10, <3>2 DEF Taken
      <4>2. wrapper'[<<s, t>>] = base[<<s, t>>]
        BY <1>5, <3>2
      <4>3. QED
        BY <4>1, <4>2
    <3>3. QED
      BY <3>1, <3>2
  <2>3. QED
    BY <1>8, <2>2 DEF Registered
<1>11. \E T \in SUBSET job[j].affected :
         /\ \A s \in Servers \ T : names'[s] = tracked[s]
         /\ \/ job' = [job EXCEPT ![j] = Finished]
            \/ job' = [job EXCEPT ![j] = [job[j] EXCEPT !.at = "build", !.view = rows,
                                            !.affected = due \ T]]
  BY <1>1, <1>2, <1>6
<1>12. \A w \in Servers \X Tools : wrapper'[w] # base[w] => w[1] \in job[j].affected
  BY <1>1, <1>2
<1>13. job'[j] # job[j]
  <2>1. CASE S = due
    <3>1. job'[j] = Finished
      BY <1>1, <2>1 DEF TypeOK
    <3>2. QED
      BY <3>1, Records
  <2>2. CASE S # due
    <3>1. S # {} /\ job'[j] = [job[j] EXCEPT !.at = "build", !.view = rows, !.affected = due \ S]
      BY <1>1, <2>2 DEF TypeOK
    <3>2. job'[j].affected = due \ S
      BY <3>1 DEF TypeOK, JobRecords
    <3>3. QED
      BY <1>2, <3>1, <3>2
  <2>3. QED
    BY <2>1, <2>2
<1>14. QED
  BY <1>7, <1>8, <1>9, <1>10, <1>11, <1>12, <1>13 DEF Rebuilt

\* A refresh that registers keeps the invariant.
LEMMA RebuildStep ==
  ASSUME IInv, NEW j \in Jobs, job[j].at \notin Outside,
         NEW base \in [Servers \X Tools -> Builds],
         NEW tracked \in [Servers -> SUBSET Tools], NEW rows \in Snapshots,
         Rebuild(j, base, tracked, rows), UNCHANGED <<row, overlapped>>,
         slot' \in [held: BOOLEAN, rows: Snapshots],
         \A s \in Servers : tracked[s] \subseteq Taken(base, s),
         ~overlapped => /\ \A s \in Servers : tracked[s] = Taken(base, s)
                        /\ \A s \in job[j].affected : tracked[s] = {}
  PROVE  IInv'
<1> DEFINE J == job[j]
           due == Due(rows, J.affected)
<1>a. TypeOK /\ job[j].at # "done"
  BY DEF IInv, Outside
<1>1. J \in JobRecords /\ Refreshing(j) /\ J.affected \subseteq Servers
  BY DEF IInv, TypeOK, JobRecords, OneRefresh, Outside
<1>2. Rebuilt(j, base, tracked, rows)
  BY <1>a, RebuildEffect
<1>c. wrapper' \in [Servers \X Tools -> Builds] /\ names' \in [Servers -> SUBSET Tools] /\ TrackerSound'
  BY <1>2 DEF Rebuilt
<1>b. ~overlapped => \A s \in Servers : names'[s] = Registered(s)'
  BY <1>2 DEF Rebuilt
<1>3. PICK S \in SUBSET J.affected :
        /\ \A s \in Servers \ S : names'[s] = tracked[s]
        /\ \/ job' = [job EXCEPT ![j] = Finished]
           \/ job' = [job EXCEPT ![j] = [J EXCEPT !.at = "build", !.view = rows,
                                           !.affected = due \ S]]
  BY <1>2 DEF Rebuilt
<1>4. PICK record \in JobRecords :
        /\ job' = [job EXCEPT ![j] = record]
        /\ \/ record.at = "done" /\ record.kind = "none"
           \/ record.at = "build" /\ record.kind = J.kind /\ record.affected = due \ S
  <2>a. due \ S \in SUBSET Servers
    BY <1>1 DEF Due
  <2>1. [J EXCEPT !.at = "build", !.view = rows, !.affected = due \ S] \in JobRecords
    BY <1>1, <2>a DEF JobRecords, Stages
  <2>2. /\ [J EXCEPT !.at = "build", !.view = rows, !.affected = due \ S].at = "build"
        /\ [J EXCEPT !.at = "build", !.view = rows, !.affected = due \ S].kind = J.kind
        /\ [J EXCEPT !.at = "build", !.view = rows, !.affected = due \ S].affected = due \ S
    BY <1>1 DEF JobRecords
  <2>3. QED
    BY <1>3, <2>1, <2>2, Records
<1>5. job'[j] = record /\ \A i \in Jobs \ {j} : job'[i] = job[i]
  BY <1>4 DEF IInv, TypeOK
<1>6. TypeOK'
  BY <1>c, <1>4 DEF IInv, TypeOK
<1>7. OneRefresh'
  <2>1. \A i \in Jobs : Refreshing(i)' => Refreshing(i)
    BY <1>1, <1>5 DEF Refreshing
  <2>2. \A i \in Jobs : job'[i].at \notin Outside => Refreshing(i)'
    BY <1>1, <1>4, <1>5 DEF IInv, OneRefresh, Refreshing, Outside
  <2>3. \A i \in Jobs : job'[i].at \in {"store", "invalidate", "schema"} => job'[i].current \in Servers
    BY <1>4, <1>5 DEF IInv, OneRefresh
  <2>4. QED
    BY <2>1, <2>2, <2>3 DEF IInv, OneRefresh, Outside
<1>8. DroppedFirst'
  <2>1. ASSUME ~overlapped, NEW i \in Jobs, job'[i].at \in Rebuilding
        PROVE  i = j
    <3>1. Refreshing(i)'
      BY <1>7, <2>1 DEF OneRefresh, Rebuilding
    <3>2. Refreshing(i)
      BY <1>1, <1>5, <3>1 DEF Refreshing
    <3>3. QED
      BY <1>1, <2>1, <3>2 DEF IInv, OneRefresh
  <2>2. ASSUME ~overlapped, job'[j].at \in Rebuilding, NEW s \in job'[j].affected
        PROVE  names'[s] = {}
    <3>1. s \in due \ S
      BY <1>4, <1>5, <2>2 DEF Rebuilding
    <3>2. s \in J.affected /\ s \in Servers \ S
      BY <1>1, <3>1 DEF Due
    <3>3. QED
      BY <1>3, <2>2, <3>2
  <2>3. QED
    BY <2>1, <2>2 DEF DroppedFirst, Rebuilding
<1>9. ExactUnlessOverlap'
  BY <1>b DEF ExactUnlessOverlap
<1>10. QED
  BY <1>c, <1>6, <1>7, <1>8, <1>9 DEF IInv

\* What dropping the wrappers of some servers leaves.
LEMMA DropEffect ==
  ASSUME IInv, NEW S \in SUBSET Servers
  PROVE  /\ Without(S) \in [Servers \X Tools -> Builds]
         /\ Untracked(S) \in [Servers -> SUBSET Tools]
         /\ \A s \in S : Untracked(S)[s] = {}
         /\ \A s \in Servers : Untracked(S)[s] \subseteq Taken(Without(S), s)
         /\ ~overlapped => \A s \in Servers :
              Untracked(S)[s] = Taken(Without(S), s)
         /\ \A w \in Servers \X Tools : Without(S)[w] # wrapper[w] => w[1] \in S
<1>1. /\ wrapper \in [Servers \X Tools -> Builds] /\ names \in [Servers -> SUBSET Tools]
      /\ \A s \in Servers : names[s] \subseteq Taken(wrapper, s)
      /\ ~overlapped => \A s \in Servers : names[s] = Taken(wrapper, s)
  BY DEF IInv, TypeOK, TrackerSound, ExactUnlessOverlap, Registered, Taken
<1>2. Without(S) \in [Servers \X Tools -> Builds] /\ Untracked(S) \in [Servers -> SUBSET Tools]
  BY <1>1 DEF Without, Untracked, Builds
<1>3. \A s \in Servers, t \in Tools :
        Without(S)[<<s, t>>] = IF s \in S /\ t \in names[s] THEN "none" ELSE wrapper[<<s, t>>]
  BY DEF Without
<1>4. \A s \in Servers : Untracked(S)[s] = IF s \in S THEN {} ELSE names[s]
  BY DEF Untracked
<1>5. \A w \in Servers \X Tools : Without(S)[w] # wrapper[w] => w[1] \in S
  BY DEF Without
<1>6. ~overlapped => \A s \in Servers :
        Untracked(S)[s] = Taken(Without(S), s)
  <2>1. ASSUME ~overlapped, NEW s \in Servers, NEW t \in Tools
        PROVE  t \in Untracked(S)[s] <=> Without(S)[<<s, t>>] # "none"
    BY <1>1, <1>3, <1>4, <2>1 DEF Taken
  <2>2. QED
    BY <1>2, <2>1 DEF Taken
<1>7. \A s \in Servers : Untracked(S)[s] \subseteq Taken(Without(S), s)
  BY <1>1, <1>3, <1>4 DEF Taken
<1>8. QED
  BY <1>2, <1>4, <1>5, <1>6, <1>7

\* The refresh drops the wrappers of the servers that answered.
LEMMA DeregisterStep ==
  ASSUME IInv, NEW j \in Jobs, Deregister(j)
  PROVE  IInv'
<1> DEFINE J == job[j]
           record == [J EXCEPT !.at = "relist"]
<1>1. J \in JobRecords /\ J.affected \in SUBSET Servers /\ J.at = "fetch" /\ J.kind \in Refreshes
  BY DEF IInv, TypeOK, JobRecords, OneRefresh, Deregister, AllAnswered, Refreshing
<1>2. record \in JobRecords /\ record.kind = J.kind /\ record.at = "relist"
      /\ record.affected = J.affected
  BY <1>1 DEF JobRecords, Stages
<1>3. /\ job' = [job EXCEPT ![j] = record] /\ UNCHANGED <<row, slot, overlapped>>
      /\ wrapper' = Without(J.affected) /\ names' = Untracked(J.affected)
  BY DEF Deregister
<1> HIDE DEF record
<1>4. job'[j] = record /\ \A i \in Jobs \ {j} : job'[i] = job[i]
  BY <1>3 DEF IInv, TypeOK
<1>5. /\ wrapper' \in [Servers \X Tools -> Builds] /\ names' \in [Servers -> SUBSET Tools]
      /\ \A s \in J.affected : names'[s] = {}
      /\ TrackerSound' /\ ExactUnlessOverlap'
  <2>1. PICK S \in SUBSET Servers : S = J.affected
    BY <1>1
  <2>2. wrapper' = Without(S) /\ names' = Untracked(S) /\ overlapped' = overlapped
    BY <1>3, <2>1
  <2>3. QED
    <3>1. /\ Without(S) \in [Servers \X Tools -> Builds]
          /\ Untracked(S) \in [Servers -> SUBSET Tools]
          /\ \A s \in S : Untracked(S)[s] = {}
          /\ \A s \in Servers : Untracked(S)[s] \subseteq Taken(Without(S), s)
          /\ ~overlapped => \A s \in Servers : Untracked(S)[s] = Taken(Without(S), s)
      BY DropEffect
    <3>2. \A s \in Servers : Taken(Without(S), s) = Registered(s)'
      BY <2>2 DEF Taken, Registered
    <3>3. QED
      BY <2>1, <2>2, <3>1, <3>2 DEF TrackerSound, ExactUnlessOverlap
<1>6. TypeOK'
  BY <1>2, <1>3, <1>5 DEF IInv, TypeOK
<1>7. \A i \in Jobs : Refreshing(i)' <=> Refreshing(i)
  BY <1>2, <1>4 DEF Refreshing
<1>8. OneRefresh'
  BY <1>1, <1>2, <1>3, <1>4, <1>7 DEF IInv, OneRefresh, Refreshing
<1>9. DroppedFirst'
  <2>1. ASSUME ~overlapped, NEW i \in Jobs, job'[i].at \in Rebuilding PROVE i = j
    BY <1>1, <1>7, <1>8, <2>1 DEF IInv, OneRefresh, Rebuilding, Refreshing
  <2>2. QED
    BY <1>2, <1>3, <1>4, <1>5, <2>1 DEF DroppedFirst, Rebuilding
<1>10. QED
  BY <1>5, <1>6, <1>8, <1>9 DEF IInv

LEMMA RegisterStep ==
  ASSUME IInv, NEW j \in Jobs,
         DeregisterAndRebuild(j) \/ FillSlotAndRebuild(j) \/ RebuildMore(j)
  PROVE  IInv'
<1>1. /\ job[j].view \in Snapshots /\ slot.rows \in Snapshots
      /\ slot \in [held: BOOLEAN, rows: Snapshots] /\ job[j].affected \in SUBSET Servers
      /\ wrapper \in [Servers \X Tools -> Builds] /\ names \in [Servers -> SUBSET Tools]
  BY DEF IInv, TypeOK, JobRecords
<1>2. /\ \A s \in Servers : names[s] \subseteq Taken(wrapper, s)
      /\ ~overlapped => \A s \in Servers : names[s] = Taken(wrapper, s)
  BY DEF IInv, TrackerSound, ExactUnlessOverlap, Registered, Taken
<1>3. CASE DeregisterAndRebuild(j)
  <2>1. /\ job[j].at \notin Outside
        /\ Rebuild(j, Without(job[j].affected), Untracked(job[j].affected), slot.rows)
        /\ UNCHANGED <<row, slot, overlapped>>
    BY <1>3 DEF DeregisterAndRebuild, AllAnswered, Outside
  <2>2. PICK S \in SUBSET Servers : S = job[j].affected
    BY <1>1
  <2>3. /\ Without(S) \in [Servers \X Tools -> Builds]
        /\ Untracked(S) \in [Servers -> SUBSET Tools]
        /\ \A s \in S : Untracked(S)[s] = {}
        /\ \A s \in Servers : Untracked(S)[s] \subseteq Taken(Without(S), s)
        /\ ~overlapped => \A s \in Servers :
             Untracked(S)[s] = Taken(Without(S), s)
    BY DropEffect
  <2>4. slot' \in [held: BOOLEAN, rows: Snapshots]
    BY <1>1, <2>1
  <2>5. QED
    BY <1>1, <2>1, <2>2, <2>3, <2>4, RebuildStep
<1>4. CASE FillSlotAndRebuild(j) \/ RebuildMore(j)
  <2>1. /\ job[j].at \notin Outside /\ job[j].at \in Rebuilding
        /\ Rebuild(j, wrapper, names, job[j].view)
        /\ UNCHANGED <<row, overlapped>> /\ slot' \in [held: BOOLEAN, rows: Snapshots]
    BY <1>1, <1>4, Records DEF FillSlotAndRebuild, RebuildMore, Outside, Rebuilding
  <2>2. ~overlapped => \A s \in job[j].affected : names[s] = {}
    BY <2>1 DEF IInv, DroppedFirst, Rebuilding
  <2>3. QED
    BY <1>1, <1>2, <2>1, <2>2, RebuildStep
<1>5. QED
  BY <1>3, <1>4

LEMMA RestartStep ==
  ASSUME IInv, Restart
  PROVE  IInv'
<1>1. row \in Snapshots /\ row' = row /\ slot' = Slot(row)
  BY DEF Restart, Boot, IInv, TypeOK
<1>2. /\ wrapper' \in [Servers \X Tools -> Builds] /\ names' \in [Servers -> SUBSET Tools]
      /\ \A s \in Servers : names'[s] = Registered(s)'
  <2>1. wrapper' = Wrapped(row) /\ names' = Named(row)
    BY DEF Restart, Boot, Wrapped, Named
  <2>2. QED
    BY <1>1, <2>1, BootExact DEF Registered
<1>3. job' \in [Jobs -> JobRecords] /\ \A j \in Jobs : job'[j] \in {NewJob, Finished}
  BY Records DEF Restart
<1>4. TypeOK'
  BY <1>1, <1>2, <1>3, Records DEF Restart, TypeOK
<1>5. \A j \in Jobs : job'[j].at \in {"idle", "done"} /\ ~Refreshing(j)'
  BY <1>3, Records DEF Refreshing, Refreshes
<1>6. QED
  BY <1>2, <1>4, <1>5 DEF IInv, OneRefresh, DroppedFirst, TrackerSound, ExactUnlessOverlap

LEMMA StepIInv == IInv /\ [Next]_vars => IInv'
<1> SUFFICES ASSUME IInv, [Next]_vars PROVE IInv'
  OBVIOUS
<1>1. row \in Snapshots /\ slot \in [held: BOOLEAN, rows: Snapshots]
  BY DEF IInv, TypeOK
<1>2. ASSUME NEW j \in Jobs, DropSlot(j) PROVE IInv'
  BY <1>1, <1>2, JobStep, Records DEF DropSlot, Refreshes, Outside, Rebuilding
<1>3. ASSUME NEW j \in Jobs, Step(j) PROVE IInv'
  BY <1>2, <1>3, ListStep, FetchStep, StoreStep, DeregisterStep, RegisterStep DEF Step
<1>4. CASE SlotExpires
  <2>1. TypeOK'
    BY <1>4, Records DEF SlotExpires, IInv, TypeOK
  <2>2. QED
    BY <1>4, <2>1, QuietStep DEF SlotExpires
<1>5. CASE UNCHANGED vars
  <2>1. TypeOK'
    BY <1>5 DEF vars, IInv, TypeOK
  <2>2. QED
    BY <1>5, <2>1, QuietStep DEF vars
<1>6. QED
  BY <1>3, <1>4, <1>5, ArriveStep, RestartStep DEF Next

\* The inductive invariant of the refreshes of one instance (refresh.ts,
\* discovery.ts, registry.ts) holds in every state.
THEOREM Invariance == Spec => []IInv
BY InitIInv, StepIInv, PTL DEF Spec

\* The table, the slot, the registry and the requests stay what they are declared
\* to be.
THEOREM TypeCorrect == Spec => []TypeOK
<1>1. IInv => TypeOK
  BY DEF IInv
<1>2. QED
  BY <1>1, Invariance, PTL

\* The tracker never names a tool that is not registered (SubMcpWrappersCache).
THEOREM TrackerIsSound == Spec => []TrackerSound
<1>1. IInv => TrackerSound
  BY DEF IInv
<1>2. QED
  BY <1>1, Invariance, PTL

\* While no two refreshes overlap, the tracker names every forwarded tool.
THEOREM TrackerIsExact == Spec => []ExactUnlessOverlap
<1>1. IInv => ExactUnlessOverlap
  BY DEF IInv
<1>2. QED
  BY <1>1, Invariance, PTL

\* A refresh that registers touches the wrappers of the servers that answered it.
LEMMA RegisterEffect ==
  ASSUME IInv, NEW j \in Jobs,
         DeregisterAndRebuild(j) \/ FillSlotAndRebuild(j) \/ RebuildMore(j)
  PROVE  /\ \A w \in Servers \X Tools : wrapper'[w] # wrapper[w] => w[1] \in job[j].affected
         /\ job'[j] # job[j]
<1>1. /\ job[j].view \in Snapshots /\ slot.rows \in Snapshots
      /\ job[j].affected \in SUBSET Servers /\ TypeOK
      /\ wrapper \in [Servers \X Tools -> Builds] /\ names \in [Servers -> SUBSET Tools]
      /\ \A s \in Servers : names[s] \subseteq Taken(wrapper, s)
  BY DEF IInv, TypeOK, JobRecords, TrackerSound, Registered, Taken
<1>2. CASE DeregisterAndRebuild(j)
  <2>1. PICK S \in SUBSET Servers : S = job[j].affected
    BY <1>1
  <2>2. job[j].at # "done" /\ Rebuild(j, Without(S), Untracked(S), slot.rows)
    BY <1>2, <2>1 DEF DeregisterAndRebuild, AllAnswered
  <2>3. /\ Without(S) \in [Servers \X Tools -> Builds]
        /\ Untracked(S) \in [Servers -> SUBSET Tools]
        /\ \A s \in Servers : Untracked(S)[s] \subseteq Taken(Without(S), s)
        /\ \A w \in Servers \X Tools : Without(S)[w] # wrapper[w] => w[1] \in S
    BY DropEffect
  <2>4. /\ \A w \in Servers \X Tools : wrapper'[w] # Without(S)[w] => w[1] \in job[j].affected
        /\ job'[j] # job[j]
    BY <1>1, <2>2, <2>3, RebuildEffect DEF Rebuilt
  <2>5. QED
    BY <2>1, <2>3, <2>4
<1>3. CASE FillSlotAndRebuild(j) \/ RebuildMore(j)
  <2>1. job[j].at # "done" /\ Rebuild(j, wrapper, names, job[j].view)
    BY <1>3 DEF FillSlotAndRebuild, RebuildMore
  <2>2. QED
    BY <1>1, <2>1, RebuildEffect DEF Rebuilt
<1>4. QED
  BY <1>2, <1>3

\* A server's wrappers change only in a refresh it has answered
\* (applyGatewayDiscovery), or in a restart.
THEOREM OnlyAnswered == Spec => OnlyAnsweredServersChange
<1> DEFINE Answers == Restart \/ \A w \in Servers \X Tools : wrapper'[w] # wrapper[w] =>
                        \E j \in Jobs : job'[j] # job[j] /\ w[1] \in job[j].affected
<1>1. ASSUME IInv, [Next]_vars PROVE [Answers]_vars
  <2>1. CASE UNCHANGED wrapper \/ Restart
    BY <2>1
  <2>2. ASSUME NEW j \in Jobs, Deregister(j) PROVE Answers
    <3>1. PICK S \in SUBSET Servers : S = job[j].affected
      BY <1>1 DEF IInv, TypeOK, JobRecords
    <3>2. wrapper' = Without(S) /\ job'[j].at = "relist" /\ job[j].at = "fetch"
      BY <1>1, <2>2, <3>1 DEF Deregister, AllAnswered, IInv, TypeOK, JobRecords
    <3>3. \A w \in Servers \X Tools : Without(S)[w] # wrapper[w] => w[1] \in S
      BY <1>1, DropEffect
    <3>4. QED
      BY <3>1, <3>2, <3>3
  <2>3. ASSUME NEW j \in Jobs,
               DeregisterAndRebuild(j) \/ FillSlotAndRebuild(j) \/ RebuildMore(j)
        PROVE  Answers
    BY <1>1, <2>3, RegisterEffect
  <2>4. ASSUME NEW j \in Jobs, Arrive(j) PROVE UNCHANGED wrapper
    BY <2>4 DEF Arrive, Start, Lookup, Manage
  <2>5. ASSUME NEW j \in Jobs, Step(j) PROVE Answers
    <3>1. CASE \/ Deregister(j) \/ DeregisterAndRebuild(j)
               \/ FillSlotAndRebuild(j) \/ RebuildMore(j)
      BY <2>2, <2>3, <3>1
    <3>2. CASE ~(\/ Deregister(j) \/ DeregisterAndRebuild(j)
                 \/ FillSlotAndRebuild(j) \/ RebuildMore(j))
      <4>1. UNCHANGED wrapper
        BY <2>5, <3>2 DEF Step, ListFromSlot, SelectRows, FillSlot, SelectFails, Fetch, FetchFails,
           StoreTools, Invalidate, StoreSchema, StoreSchemaFails, DropSlot
      <4>2. QED
        BY <4>1
    <3>3. QED
      BY <3>1, <3>2
  <2>6. CASE SlotExpires \/ UNCHANGED vars
    BY <2>1, <2>6 DEF SlotExpires, vars
  <2>7. QED
    BY <1>1, <2>1, <2>4, <2>5, <2>6 DEF Next
<1>2. QED
  BY <1>1, Invariance, PTL DEF Spec, OnlyAnsweredServersChange

(***************************************************************************)
(* SubMcpAuth.                                                             *)
(***************************************************************************)
LEMMA AuthRecords ==
  /\ NoToken \in Tokens /\ NoRefresh \in RefreshTokens /\ NoConfig \in Configs
  /\ Absent \in RequestRecords /\ Closed \in RequestRecords
  /\ Closed = [Absent EXCEPT !.pc = "done"]
  /\ 0 \in Identities /\ 0 \in Instants /\ 0 \in Time
<1>1. 0 \in Identities /\ 0 \in Instants /\ 0 \in Time /\ 0 \in 0..MaxRotations
  BY SubMcpAuthAssumption DEF Identities, Instants, Time
<1>2. NoToken \in Tokens /\ NoRefresh \in RefreshTokens
  BY <1>1 DEF NoToken, Tokens, NoRefresh, RefreshTokens
<1>3. NoConfig \in Configs
  BY <1>1, <1>2 DEF NoConfig, Configs
<1>4. Absent \in RequestRecords
  BY <1>1, <1>2, <1>3 DEF Absent, RequestRecords, RequestKinds, Steps
<1>5. Closed \in RequestRecords
  BY <1>4 DEF Closed, RequestRecords, Steps
<1>6. QED
  BY <1>1, <1>2, <1>3, <1>4, <1>5 DEF Closed

LEMMA ClosedIs ==
  /\ Closed.kind = "none" /\ Closed.pc = "done" /\ Closed.flow = 0 /\ Closed.code = 0
  /\ Closed.read = NoConfig /\ Closed.refresh = NoRefresh /\ Closed.token = NoToken
  /\ Closed.ts = 0
BY DEF Closed, Absent

LEMMA NoteType ==
  ASSUME AuthTypeOK, NEW causes, causes \subseteq Mishaps, Note(causes)
  PROVE  since' \in Time /\ mishaps' \subseteq Mishaps
<1>1. Overlaps' \subseteq {"starts", "writers", "readers"}
  BY DEF Overlaps, If
<1>2. since' = since \/ since' = now
  BY DEF Note
<1>3. QED
  BY <1>1, <1>2 DEF Note, Mishaps, AuthTypeOK

LEMMA NoteKeeps ==
  ASSUME NEW causes, Note(causes)
  PROVE  mishaps \subseteq mishaps' /\ causes \subseteq mishaps'
BY DEF Note

LEMMA NoteOne ==
  ASSUME NEW causes, Note(causes)
  PROVE  OneByOne'
<1> DEFINE S == Starters' W == Writers' R == Readers'
<1>1. Overlaps' = If(AreMany(S), "starts") \cup If(AreMany(W), "writers")
                    \cup If(AreMany(R), "readers")
  BY DEF Overlaps, Starters, Writers, Readers
<1> HIDE DEF S, W, R
<1>2. Overlaps' \subseteq mishaps'
  BY DEF Note
<1>3. "starts" \in mishaps' \/ AtMostOne(S)
  BY <1>1, <1>2 DEF AtMostOne, AreMany, If
<1>4. "writers" \in mishaps' \/ AtMostOne(W)
  BY <1>1, <1>2 DEF AtMostOne, AreMany, If
<1>5. "readers" \in mishaps' \/ AtMostOne(R)
  BY <1>1, <1>2 DEF AtMostOne, AreMany, If
<1>6. QED
  BY <1>3, <1>4, <1>5 DEF OneByOne, S, W, R

LEMMA NoteSince ==
  ASSUME NEW causes, Note(causes)
  PROVE  since' = IF Identity(config') # Identity(config) THEN now ELSE since
BY DEF Note

LEMMA GotoType ==
  ASSUME AuthTypeOK, NEW i \in Requests, NEW pc \in Steps, Goto(i, pc)
  PROVE  req' \in [Requests -> RequestRecords]
BY DEF AuthTypeOK, Goto, RequestRecords

LEMMA FinishType ==
  ASSUME AuthTypeOK, NEW i \in Requests, Finish(i)
  PROVE  req' \in [Requests -> RequestRecords]
BY AuthRecords DEF AuthTypeOK, Finish

LEMMA SetType ==
  ASSUME AuthTypeOK, NEW i \in Requests, NEW key, NEW value, NEW pc \in Steps,
         [config EXCEPT ![key] = value] \in Configs, Set(i, key, value, pc)
  PROVE  /\ config' \in Configs /\ req' \in [Requests -> RequestRecords]
         /\ since' \in Time /\ mishaps' \subseteq Mishaps
<1>1. PICK causes : Note(causes) /\ causes \subseteq {"starts", "lost"}
  BY DEF Set
<1>2. since' \in Time /\ mishaps' \subseteq Mishaps
  BY <1>1, NoteType DEF Mishaps
<1>3. CASE config' = [config EXCEPT ![key] = value] /\ Goto(i, pc)
  BY <1>2, <1>3, GotoType
<1>4. CASE Finish(i) /\ UNCHANGED config
  BY <1>2, <1>4, FinishType DEF AuthTypeOK
<1>5. QED
  BY <1>3, <1>4 DEF Set

LEMMA AnswerType ==
  ASSUME AuthTypeOK, NEW i \in Requests, NEW refresh \in RefreshTokens, NEW token \in Tokens,
         req' = [req EXCEPT ![i].pc = "answered", ![i].refresh = refresh, ![i].token = token]
  PROVE  req' \in [Requests -> RequestRecords]
<1>1. "answered" \in Steps
  BY DEF Steps
<1>2. [req[i] EXCEPT !.pc = "answered", !.refresh = refresh, !.token = token] \in RequestRecords
  BY <1>1 DEF AuthTypeOK, RequestRecords
<1>3. QED
  BY <1>2 DEF AuthTypeOK

LEMMA AuthTypeInit == AuthInit => AuthTypeOK
<1> SUFFICES ASSUME AuthInit PROVE AuthTypeOK
  OBVIOUS
<1>1. 0 \in 0..NumRequests /\ 0 \in 0..MaxRotations
  BY SubMcpAuthAssumption
<1>2. QED
  BY <1>1, AuthRecords DEF AuthInit, AuthTypeOK

LEMMA StartTypes ==
  ASSUME AuthTypeOK, NEW i \in Requests, StartSteps(i)
  PROVE  AuthTypeOK'
<1> USE DEF Requests
<1>0. i \in Identities /\ i \in 0..NumRequests
  BY SubMcpAuthAssumption DEF Identities
<1>1. CASE StartBegin(i)
  <2>1. since' \in Time /\ mishaps' \subseteq Mishaps
    BY <1>1, NoteType DEF StartBegin
  <2>2. req' \in [Requests -> RequestRecords]
    BY <1>1 DEF StartBegin, AuthTypeOK, RequestRecords, RequestKinds, Steps, Configs
  <2>3. QED
    BY <1>0, <1>1, <2>1, <2>2 DEF StartBegin, AuthTypeOK
<1>2. CASE Register(i)
  <2>1. since' \in Time /\ mishaps' \subseteq Mishaps
    BY <1>2, NoteType DEF Register
  <2>2. req' \in [Requests -> RequestRecords]
    BY <1>0, <1>2, FinishType DEF Register, AuthTypeOK, RequestRecords, Steps, Configs
  <2>3. QED
    BY <1>2, <2>1, <2>2 DEF Register, AuthTypeOK
<1>3. CASE SetClient(i)
  <2>1. [config EXCEPT !["client"] = i] \in Configs
    BY <1>0 DEF AuthTypeOK, Configs
  <2>2. (IF Confidential THEN "setSecret" ELSE "insert") \in Steps
    BY DEF Steps
  <2>3. /\ config' \in Configs /\ req' \in [Requests -> RequestRecords]
        /\ since' \in Time /\ mishaps' \subseteq Mishaps
    BY <1>3, <2>1, <2>2, SetType DEF SetClient
  <2>4. QED
    BY <1>3, <2>3 DEF SetClient, AuthTypeOK
<1>4. CASE SetSecret(i)
  <2>1. [config EXCEPT !["secret"] = i] \in Configs
    BY <1>0 DEF AuthTypeOK, Configs
  <2>2. /\ config' \in Configs /\ req' \in [Requests -> RequestRecords]
        /\ since' \in Time /\ mishaps' \subseteq Mishaps
    BY <1>4, <2>1, SetType DEF SetSecret, Steps
  <2>3. QED
    BY <1>4, <2>2 DEF SetSecret, AuthTypeOK
<1>5. CASE InsertState(i)
  <2>1. since' \in Time /\ mishaps' \subseteq Mishaps
    BY <1>5, NoteType DEF InsertState
  <2>2. req' \in [Requests -> RequestRecords]
    BY <1>5, FinishType DEF InsertState
  <2>3. req[i].read.client \in Identities
    BY DEF AuthTypeOK, RequestRecords, Configs
  <2>4. QED
    BY <1>5, <2>1, <2>2, <2>3 DEF InsertState, AuthTypeOK
<1>6. QED
  BY <1>1, <1>2, <1>3, <1>4, <1>5 DEF StartSteps

LEMMA LaterTypes ==
  ASSUME AuthTypeOK
  PROVE  /\ now + Life \in Instants /\ now + CacheLife \in Instants
         /\ \A d \in Instants : Lesser(d, now + CacheLife) \in Instants
         /\ \A t \in Time : t + Lesser(Life, CacheLife) \in Instants
         /\ NoToken.id = 0 /\ NoToken.until = 0
BY SubMcpAuthAssumption DEF AuthTypeOK, Time, Instants, Lesser, NoToken

LEMMA CallbackTypes ==
  ASSUME AuthTypeOK, NEW i \in Requests, CallbackSteps(i)
  PROVE  AuthTypeOK'
<1> USE DEF Requests
<1>0. i \in Identities /\ i \in 0..NumRequests
  BY SubMcpAuthAssumption DEF Identities
<1>1. CASE ReadClient(i)
  <2>1. since' \in Time /\ mishaps' \subseteq Mishaps
    BY <1>1, NoteType DEF ReadClient, If, Mishaps
  <2>2. req' \in [Requests -> RequestRecords]
    BY <1>1, FinishType DEF ReadClient, AuthTypeOK, RequestRecords, Steps, Configs
  <2>3. QED
    BY <1>1, <2>1, <2>2 DEF ReadClient, AuthTypeOK
<1>2. CASE Exchange(i)
  <2>1. since' \in Time /\ mishaps' \subseteq Mishaps
    BY <1>2, NoteType DEF Exchange
  <2>2. 1 \in 0..MaxRotations
    BY SubMcpAuthAssumption
  <2>3. /\ [grant |-> i, seq |-> 1] \in RefreshTokens
        /\ [id |-> i, until |-> now + Life] \in Tokens
    BY <1>0, <2>2, LaterTypes DEF RefreshTokens, Tokens
  <2>4. CASE Finish(i) /\ UNCHANGED grants
    <3>1. <<req[i].flow, req[i].code>> \in Identities \X ({0} \cup Codes)
      BY DEF AuthTypeOK, RequestRecords
    <3>2. req' \in [Requests -> RequestRecords]
      BY <2>4, FinishType
    <3>3. spent' \subseteq Identities \X ({0} \cup Codes)
      BY <1>2, <3>1 DEF Exchange, AuthTypeOK
    <3>4. QED
      BY <1>2, <2>1, <2>4, <3>2, <3>3 DEF Exchange, AuthTypeOK
  <2>5. CASE /\ grants' = [grants EXCEPT ![i] = [client |-> req[i].read.client, newest |-> 1]]
             /\ req' = [req EXCEPT ![i].pc = "answered",
                              ![i].refresh = [grant |-> i, seq |-> 1],
                              ![i].token = [id |-> i, until |-> now + Life]]
    <3>1. req' \in [Requests -> RequestRecords]
      BY <2>3, <2>5, AnswerType
    <3>2. req[i].read.client \in Identities
      BY DEF AuthTypeOK, RequestRecords, Configs
    <3>3. grants' \in [Requests -> [client : Identities, newest : 0..MaxRotations]]
      BY <2>2, <2>5, <3>2 DEF AuthTypeOK
    <3>4. <<req[i].flow, req[i].code>> \in Identities \X ({0} \cup Codes)
      BY DEF AuthTypeOK, RequestRecords
    <3>5. spent' \subseteq Identities \X ({0} \cup Codes)
      BY <1>2, <3>4 DEF Exchange, AuthTypeOK
    <3>6. QED
      BY <1>2, <2>1, <3>1, <3>3, <3>5 DEF Exchange, AuthTypeOK
  <2>6. QED
    BY <1>2, <2>4, <2>5 DEF Exchange
<1>3. CASE SetRefresh(i)
  <2>1. [config EXCEPT !["refresh"] = req[i].refresh] \in Configs
    BY DEF AuthTypeOK, Configs, RequestRecords
  <2>2. /\ config' \in Configs /\ req' \in [Requests -> RequestRecords]
        /\ since' \in Time /\ mishaps' \subseteq Mishaps
    BY <1>3, <2>1, SetType DEF SetRefresh, Steps
  <2>3. QED
    BY <1>3, <2>2 DEF SetRefresh, AuthTypeOK
<1>4. CASE SetAccess(i)
  <2>1. [config EXCEPT !["access"] = req[i].token] \in Configs
    BY DEF AuthTypeOK, Configs, RequestRecords
  <2>2. /\ config' \in Configs /\ req' \in [Requests -> RequestRecords]
        /\ since' \in Time /\ mishaps' \subseteq Mishaps
    BY <1>4, <2>1, SetType DEF SetAccess, Steps
  <2>3. QED
    BY <1>4, <2>2 DEF SetAccess, AuthTypeOK
<1>5. CASE SetExpires(i)
  <2>1. PICK causes : Note(causes) /\ causes \subseteq {"late", "lost"}
    BY <1>5 DEF SetExpires, If
  <2>2. since' \in Time /\ mishaps' \subseteq Mishaps
    BY <2>1, NoteType DEF Mishaps
  <2>3. config' \in Configs
    BY <1>5, LaterTypes DEF SetExpires, AuthTypeOK, Configs
  <2>4. req' \in [Requests -> RequestRecords]
    BY <1>5, GotoType, FinishType DEF SetExpires, Steps
  <2>5. QED
    BY <1>5, <2>2, <2>3, <2>4 DEF SetExpires, AuthTypeOK
<1>6. CASE DropState(i)
  <2>1. since' \in Time /\ mishaps' \subseteq Mishaps
    BY <1>6, NoteType DEF DropState
  <2>2. req' \in [Requests -> RequestRecords]
    BY <1>6, FinishType DEF DropState
  <2>3. flows' \in [Requests -> [client : Identities, row : {"none", "open", "gone"}]]
    BY <1>6 DEF DropState, AuthTypeOK
  <2>4. QED
    BY <1>6, <2>1, <2>2, <2>3 DEF DropState, AuthTypeOK
<1>7. QED
  BY <1>1, <1>2, <1>3, <1>4, <1>5, <1>6 DEF CallbackSteps

LEMMA EnrichTypes ==
  ASSUME AuthTypeOK, NEW i \in Requests, EnrichSteps(i)
  PROVE  AuthTypeOK'
<1> USE DEF Requests
<1>0. i \in Identities /\ i \in 0..NumRequests
  BY SubMcpAuthAssumption DEF Identities
<1>1. CASE EnrichRead(i)
  <2>1. since' \in Time /\ mishaps' \subseteq Mishaps
    BY <1>1, NoteType DEF EnrichRead
  <2>2. req' \in [Requests -> RequestRecords]
    BY <1>1 DEF EnrichRead, AuthTypeOK, RequestRecords, RequestKinds, Steps
  <2>3. QED
    BY <1>0, <1>1, <2>1, <2>2 DEF EnrichRead, AuthTypeOK
<1>2. CASE Decide(i)
  <2>1. since' \in Time /\ mishaps' \subseteq Mishaps
    BY <1>2, NoteType DEF Decide
  <2>2. req' \in [Requests -> RequestRecords]
    <3>1. CASE Finish(i)
      BY <3>1, FinishType
    <3>2. CASE req' = [req EXCEPT ![i].pc = "asked", ![i].ts = now,
                              ![i].read.access = NoToken, ![i].read.expires = 0]
      <4>1. [req[i].read EXCEPT !.access = NoToken, !.expires = 0] \in Configs
        BY AuthRecords DEF AuthTypeOK, RequestRecords, Configs
      <4>2. "asked" \in Steps /\ now \in Time
        BY DEF Steps, AuthTypeOK
      <4>3. ASSUME NEW c \in Configs
            PROVE  [req[i] EXCEPT !.pc = "asked", !.ts = now, !.read = c] \in RequestRecords
        BY <4>2 DEF AuthTypeOK, RequestRecords
      <4>4. [req[i] EXCEPT !.pc = "asked", !.ts = now, !.read.access = NoToken,
                           !.read.expires = 0] \in RequestRecords
        BY <4>1, <4>3 DEF AuthTypeOK, RequestRecords
      <4>5. QED
        BY <3>2, <4>4 DEF AuthTypeOK
    <3>3. QED
      BY <1>2, <3>1, <3>2 DEF Decide
  <2>3. req[i].read.access \in Tokens /\ req[i].read.expires \in Instants
    BY DEF AuthTypeOK, RequestRecords, Configs
  <2>4. cache' \in [token : Tokens, expires : Instants]
    BY <1>2, <2>3, LaterTypes DEF Decide, AuthTypeOK
  <2>5. QED
    BY <1>2, <2>1, <2>2, <2>4 DEF Decide, AuthTypeOK
<1>3. CASE SignGrant(i)
  <2>1. since' \in Time /\ mishaps' \subseteq Mishaps
    BY <1>3, NoteType DEF SignGrant
  <2>2. req[i].read.sa \in Identities /\ req[i].read.refresh \in RefreshTokens
    BY DEF AuthTypeOK, RequestRecords, Configs
  <2>3. [id |-> req[i].read.sa, until |-> now + Life] \in Tokens
    BY <2>2, LaterTypes DEF Tokens
  <2>4. req' \in [Requests -> RequestRecords]
    BY <1>3, <2>2, <2>3, FinishType, AnswerType DEF SignGrant
  <2>5. QED
    BY <1>3, <2>1, <2>4 DEF SignGrant, AuthTypeOK
<1>4. CASE Refresh(i)
  <2>1. since' \in Time /\ mishaps' \subseteq Mishaps
    BY <1>4, NoteType DEF Refresh
  <2>2. req[i].read.refresh \in RefreshTokens /\ req[i].read.refresh.grant \in Identities
    BY DEF AuthTypeOK, RequestRecords, Configs, RefreshTokens
  <2>3. [id |-> req[i].read.refresh.grant, until |-> now + Life] \in Tokens
    BY <2>2, LaterTypes DEF Tokens
  <2>4. req' \in [Requests -> RequestRecords]
    BY <1>4, <2>2, <2>3, AnswerType DEF Refresh
  <2>5. QED
    BY <1>4, <2>1, <2>4 DEF Refresh, AuthTypeOK
<1>5. CASE RefreshRotating(i)
  <2> DEFINE r == req[i].read.refresh
             next == grants[r.grant].newest + 1
  <2>1. since' \in Time /\ mishaps' \subseteq Mishaps
    BY <1>5, NoteType DEF RefreshRotating, If, Mishaps
  <2>2. r \in RefreshTokens /\ r.grant \in Identities /\ r.grant # 0
    BY <1>5 DEF RefreshRotating, AuthTypeOK, RequestRecords, Configs, RefreshTokens
  <2>3. r.grant \in Requests /\ next \in 0..MaxRotations
    <3>1. r.grant \in Requests
      BY <2>2, SubMcpAuthAssumption DEF Identities
    <3>2. grants[r.grant].newest \in 0..MaxRotations
      BY <3>1 DEF AuthTypeOK
    <3>3. next <= MaxRotations
      BY <1>5 DEF RefreshRotating
    <3>4. QED
      BY <3>1, <3>2, <3>3, SubMcpAuthAssumption
  <2>4. /\ [id |-> r.grant, until |-> now + Life] \in Tokens
        /\ [grant |-> r.grant, seq |-> next] \in RefreshTokens
    BY <2>2, <2>3, LaterTypes DEF Tokens, RefreshTokens
  <2>5. /\ grants' = [grants EXCEPT ![r.grant].newest = next]
        /\ \/ req' = [req EXCEPT ![i].pc = "answered",
                              ![i].refresh = [grant |-> r.grant, seq |-> next],
                              ![i].token = [id |-> r.grant, until |-> now + Life]]
           \/ Finish(i)
    BY <1>5 DEF RefreshRotating
  <2> HIDE DEF r, next
  <2>6. req' \in [Requests -> RequestRecords]
    BY <2>4, <2>5, FinishType, AnswerType
  <2>7. grants' \in [Requests -> [client : Identities, newest : 0..MaxRotations]]
    BY <2>3, <2>5 DEF AuthTypeOK
  <2>8. QED
    BY <1>5, <2>1, <2>6, <2>7 DEF RefreshRotating, AuthTypeOK
<1>6. CASE RefreshFails(i)
  <2>1. since' \in Time /\ mishaps' \subseteq Mishaps
    BY <1>6, NoteType DEF RefreshFails
  <2>2. QED
    BY <1>6, <2>1, FinishType DEF RefreshFails, AuthTypeOK
<1>7. CASE Persist(i)
  <2>1. PICK causes : Note(causes) /\ causes \subseteq {"lost"}
    BY <1>7 DEF Persist
  <2>2. since' \in Time /\ mishaps' \subseteq Mishaps
    BY <2>1, NoteType DEF Mishaps
  <2>3. config' \in Configs
    BY <1>7 DEF Persist, AuthTypeOK, Configs, RequestRecords
  <2>4. req' \in [Requests -> RequestRecords]
    BY <1>7, GotoType DEF Persist, Steps
  <2>5. QED
    BY <1>7, <2>2, <2>3, <2>4 DEF Persist, AuthTypeOK
<1>8. CASE Remember(i)
  <2>1. since' \in Time /\ mishaps' \subseteq Mishaps
    BY <1>8, NoteType DEF Remember
  <2>2. req[i].token \in Tokens /\ req[i].ts \in Time
    BY DEF AuthTypeOK, RequestRecords
  <2>3. cache' \in [token : Tokens, expires : Instants]
    BY <1>8, <2>2, LaterTypes DEF Remember
  <2>4. QED
    BY <1>8, <2>1, <2>3, FinishType DEF Remember, AuthTypeOK
<1>9. QED
  BY <1>1, <1>2, <1>3, <1>4, <1>5, <1>6, <1>7, <1>8 DEF EnrichSteps

LEMMA OtherTypes ==
  ASSUME AuthTypeOK,
         \/ Tick \/ Put \/ ProcessRestart
         \/ \E key \in Deletable : Delete(key)
         \/ \E i, f \in Requests :
              ReadStateExpired(i, f) \/ \E c \in Codes : ReadState(i, f, c)
  PROVE  AuthTypeOK'
<1>1. CASE Tick
  <2>1. now' \in Time
    BY <1>1, SubMcpAuthAssumption DEF Tick, AuthTypeOK, Time
  <2>2. QED
    BY <1>1, <2>1 DEF Tick, AuthTypeOK
<1>2. CASE Put
  <2>1. since' \in Time /\ mishaps' \subseteq Mishaps
    BY <1>2, NoteType DEF Put, ByHand, If, Mishaps
  <2>2. arrived + 1 \in Requests /\ arrived + 1 \in Identities /\ arrived + 1 \in 0..NumRequests
    BY <1>2, SubMcpAuthAssumption DEF Put, AuthTypeOK, Requests, Identities
  <2>3. QED
    BY <1>2, <2>1, <2>2, AuthRecords DEF Put, AuthTypeOK, Configs
<1>3. CASE ProcessRestart
  <2>1. since' \in Time /\ mishaps' \subseteq Mishaps
    BY <1>3, NoteType DEF ProcessRestart, If, Mishaps
  <2>2. QED
    BY <1>3, <2>1, AuthRecords DEF ProcessRestart, AuthTypeOK
<1>4. ASSUME NEW key \in Deletable, Delete(key)
      PROVE  AuthTypeOK'
  <2>1. since' \in Time /\ mishaps' \subseteq Mishaps
    BY <1>4, NoteType DEF Delete, ByHand, If, Mishaps
  <2>2. arrived + 1 \in Requests /\ arrived + 1 \in 0..NumRequests
    BY <1>4, SubMcpAuthAssumption DEF Delete, AuthTypeOK, Requests
  <2>3. key \in {"client", "secret", "refresh", "access", "expires", "sa"}
    BY SubMcpAuthAssumption
  <2>4. config' \in Configs
    BY <1>4, <2>3, AuthRecords DEF Delete, AuthTypeOK, Configs, NoConfig
  <2>5. QED
    BY <1>4, <2>1, <2>2, <2>4, AuthRecords DEF Delete, AuthTypeOK
<1>5. ASSUME NEW i \in Requests, NEW f \in Requests, ReadStateExpired(i, f)
      PROVE  AuthTypeOK'
  <2>1. since' \in Time /\ mishaps' \subseteq Mishaps
    BY <1>5, NoteType DEF ReadStateExpired
  <2>2. i \in 0..NumRequests
    BY SubMcpAuthAssumption DEF Requests
  <2>3. QED
    BY <1>5, <2>1, <2>2, AuthRecords DEF ReadStateExpired, AuthTypeOK
<1>6. ASSUME NEW i \in Requests, NEW f \in Requests, NEW c \in Codes, ReadState(i, f, c)
      PROVE  AuthTypeOK'
  <2>1. since' \in Time /\ mishaps' \subseteq Mishaps
    BY <1>6, NoteType DEF ReadState
  <2>2. i \in 0..NumRequests /\ f \in Identities
    BY SubMcpAuthAssumption DEF Requests, Identities
  <2>3. req' \in [Requests -> RequestRecords]
    <3>1. CASE Finish(i)
      BY <3>1, FinishType
    <3>2. CASE req' = [req EXCEPT ![i].kind = "callback", ![i].pc = "stated",
                                  ![i].flow = f, ![i].code = c]
      <4>1. [req[i] EXCEPT !.kind = "callback", !.pc = "stated", !.flow = f, !.code = c]
               \in RequestRecords
        BY <2>2 DEF AuthTypeOK, RequestRecords, RequestKinds, Steps
      <4>2. QED
        BY <3>2, <4>1 DEF AuthTypeOK
    <3>3. QED
      BY <1>6, <3>1, <3>2 DEF ReadState
  <2>4. QED
    BY <1>6, <2>1, <2>2, <2>3 DEF ReadState, AuthTypeOK
<1>7. QED
  BY <1>1, <1>2, <1>3, <1>4, <1>5, <1>6

LEMMA AuthTypeStep == AuthTypeOK /\ [AuthNext]_authVars => AuthTypeOK'
<1> SUFFICES ASSUME AuthTypeOK, [AuthNext]_authVars PROVE AuthTypeOK'
  OBVIOUS
<1>1. CASE UNCHANGED authVars
  BY <1>1 DEF authVars, AuthTypeOK
<1>2. CASE AuthNext
  BY <1>2, StartTypes, CallbackTypes, EnrichTypes, OtherTypes DEF AuthNext
<1>3. QED
  BY <1>1, <1>2

\* The steps of request i, and whom they leave alone.
Acts(i) ==
  \/ StartSteps(i) \/ CallbackSteps(i) \/ EnrichSteps(i)
  \/ \E f \in Requests : ReadStateExpired(i, f) \/ \E c \in Codes : ReadState(i, f, c)

LEMMA OthersRest ==
  ASSUME AuthTypeOK, NEW i \in Requests, Acts(i), NEW j \in Requests, j # i
  PROVE  req'[j] = req[j]
<1>1. CASE StartSteps(i)
  BY <1>1 DEF AuthTypeOK, StartSteps, StartBegin, Register, SetClient, SetSecret, InsertState,
              Set, Goto, Finish
<1>2. CASE CallbackSteps(i)
  BY <1>2 DEF AuthTypeOK, CallbackSteps, ReadClient, Exchange, SetRefresh, SetAccess,
              SetExpires, DropState, Set, Goto, Finish
<1>3. CASE EnrichSteps(i)
  BY <1>3 DEF AuthTypeOK, EnrichSteps, EnrichRead, Decide, SignGrant, Refresh,
              RefreshRotating, RefreshFails, Persist, Remember, Goto, Finish
<1>4. CASE \E f \in Requests : ReadStateExpired(i, f) \/ \E c \in Codes : ReadState(i, f, c)
  BY <1>4 DEF AuthTypeOK, ReadStateExpired, ReadState, Finish
<1>5. QED
  BY <1>1, <1>2, <1>3, <1>4 DEF Acts

LEMMA WhoActs ==
  ASSUME NEW i \in Requests, Acts(i)
  PROVE  \/ arrived' = arrived /\ req[i].kind # "none"
         \/ arrived' = arrived + 1 /\ i = arrived + 1
<1>1. CASE StartSteps(i)
  BY <1>1 DEF StartSteps, StartBegin, Register, SetClient, SetSecret, InsertState, At
<1>2. CASE CallbackSteps(i)
  BY <1>2 DEF CallbackSteps, ReadClient, Exchange, SetRefresh, SetAccess,
              SetExpires, DropState, At
<1>3. CASE EnrichSteps(i)
  BY <1>3 DEF EnrichSteps, EnrichRead, Decide, SignGrant, Refresh,
              RefreshRotating, RefreshFails, Persist, Remember, At
<1>4. CASE \E f \in Requests : ReadStateExpired(i, f) \/ \E c \in Codes : ReadState(i, f, c)
  BY <1>4 DEF ReadStateExpired, ReadState
<1>5. QED
  BY <1>1, <1>2, <1>3, <1>4 DEF Acts

LEMMA UnarrivedStep ==
  ASSUME AuthTypeOK, Unarrived, AuthNext
  PROVE  Unarrived'
<1> USE DEF Requests
<1>1. CASE Tick
  BY <1>1 DEF Tick, Unarrived
<1>2. CASE Put \/ \E key \in Deletable : Delete(key)
  <2>1. arrived' = arrived + 1 /\ req' = [req EXCEPT ![arrived + 1] = Closed]
    BY <1>2 DEF Put, Delete
  <2>2. ASSUME NEW j \in Requests, j > arrived'
        PROVE  j > arrived /\ j # arrived + 1
    BY <2>1, <2>2 DEF AuthTypeOK
  <2>3. QED
    BY <2>1, <2>2 DEF Unarrived, AuthTypeOK
<1>3. CASE ProcessRestart
  BY <1>3 DEF ProcessRestart, Unarrived, Absent, AuthTypeOK
<1>4. ASSUME NEW i \in Requests, Acts(i)
      PROVE  Unarrived'
  <2>1. ASSUME NEW j \in Requests, j > arrived'
        PROVE  j # i /\ j > arrived
    BY <1>4, <2>1, WhoActs DEF Unarrived, Absent, AuthTypeOK
  <2>2. QED
    BY <1>4, <2>1, OthersRest DEF Unarrived
<1>5. QED
  BY <1>1, <1>2, <1>3, <1>4 DEF AuthNext, Acts

\* Every step but the clock's is noted.
LEMMA NotedStep == AuthNext => Tick \/ \E causes : Note(causes)
BY DEF AuthNext, Put, ProcessRestart, Delete, ReadStateExpired, ReadState, StartSteps,
       StartBegin, Register, SetClient, SetSecret, InsertState, CallbackSteps, ReadClient,
       Exchange, SetRefresh, SetAccess, SetExpires, DropState, EnrichSteps, EnrichRead,
       Decide, SignGrant, Refresh, RefreshRotating, RefreshFails, Persist, Remember, Set

LEMMA OneByOneStep ==
  ASSUME OneByOne, AuthNext
  PROVE  OneByOne'
<1>1. CASE Tick
  <2>1. req' = req /\ mishaps' = mishaps
    BY <1>1 DEF Tick
  <2>2. \A i \in Requests :
          (Starting(i) <=> Starting(i)') /\ (Holding(i) <=> Holding(i)') /\ (Using(i) <=> Using(i)')
    BY <2>1 DEF Starting, Holding, Using, At
  <2>3. Starters' = Starters /\ Writers' = Writers /\ Readers' = Readers
    BY <2>2 DEF Starters, Writers, Readers
  <2>4. QED
    BY <2>1, <2>3 DEF OneByOne, AtMostOne
<1>2. CASE \E causes : Note(causes)
  BY <1>2, NoteOne
<1>3. QED
  BY <1>1, <1>2, NotedStep

LEMMA MishapsStay ==
  ASSUME AuthNext
  PROVE  mishaps \subseteq mishaps'
BY NotedStep, NoteKeeps DEF Tick

\* Where what a request has read comes from.
ReadFrom(j) ==
  /\ req'[j].read.sa \in {req[j].read.sa, config.sa, 0}
  /\ req'[j].read.refresh \in {req[j].read.refresh, config.refresh, NoRefresh}

LEMMA ReadsComeFrom ==
  ASSUME AuthTypeOK, AuthNext, NEW j \in Requests
  PROVE  ReadFrom(j)
<1>0. /\ Closed.read.sa = 0 /\ Closed.read.refresh = NoRefresh
      /\ req'[j] = req[j] => ReadFrom(j)
      /\ req'[j] = Closed => ReadFrom(j)
  BY ClosedIs DEF NoConfig, ReadFrom
<1>1. CASE Tick
  BY <1>0, <1>1 DEF Tick
<1>2. CASE Put \/ \E key \in Deletable : Delete(key)
  BY <1>0, <1>2 DEF Put, Delete, AuthTypeOK
<1>3. CASE ProcessRestart
  BY <1>0, <1>3 DEF ProcessRestart
<1>4. ASSUME NEW i \in Requests, Acts(i), j # i
      PROVE  ReadFrom(j)
  BY <1>0, <1>4, OthersRest
<1>5. CASE StartSteps(j)
  <2>1. CASE StartBegin(j)
    BY <2>1 DEF StartBegin, AuthTypeOK, RequestRecords, Configs, ReadFrom
  <2>2. CASE Register(j)
    BY <1>0, <2>2 DEF Register, Finish, AuthTypeOK, RequestRecords, Configs, ReadFrom
  <2>3. CASE SetClient(j) \/ SetSecret(j) \/ InsertState(j)
    <3>1. Finish(j) \/ \E pc : Goto(j, pc)
      BY <2>3 DEF SetClient, SetSecret, InsertState, Set
    <3>2. QED
      BY <1>0, <3>1 DEF Finish, Goto, AuthTypeOK, RequestRecords, ReadFrom
  <2>4. QED
    BY <1>5, <2>1, <2>2, <2>3 DEF StartSteps
<1>6. CASE CallbackSteps(j)
  <2>1. CASE ReadClient(j)
    BY <1>0, <2>1 DEF ReadClient, Finish, AuthTypeOK, RequestRecords, Configs, ReadFrom
  <2>2. CASE Exchange(j)
    BY <1>0, <2>2 DEF Exchange, Finish, AuthTypeOK, RequestRecords, ReadFrom
  <2>3. CASE SetRefresh(j) \/ SetAccess(j) \/ SetExpires(j) \/ DropState(j)
    <3>1. Finish(j) \/ \E pc : Goto(j, pc)
      BY <2>3 DEF SetRefresh, SetAccess, SetExpires, DropState, Set
    <3>2. QED
      BY <1>0, <3>1 DEF Finish, Goto, AuthTypeOK, RequestRecords, ReadFrom
  <2>4. QED
    BY <1>6, <2>1, <2>2, <2>3 DEF CallbackSteps
<1>7. CASE EnrichSteps(j)
  <2>1. CASE EnrichRead(j)
    BY <2>1 DEF EnrichRead, AuthTypeOK, RequestRecords, ReadFrom
  <2>2. CASE Decide(j)
    BY <1>0, <2>2 DEF Decide, Finish, AuthTypeOK, RequestRecords, Configs, ReadFrom
  <2>3. CASE SignGrant(j) \/ Refresh(j)
    BY <1>0, <2>3 DEF SignGrant, Refresh, Finish, AuthTypeOK, RequestRecords, ReadFrom
  <2>4. CASE RefreshRotating(j)
    BY <1>0, <2>4 DEF RefreshRotating, Finish, AuthTypeOK, RequestRecords, ReadFrom
  <2>5. CASE RefreshFails(j) \/ Persist(j) \/ Remember(j)
    BY <1>0, <2>5 DEF RefreshFails, Persist, Remember, Goto, Finish, AuthTypeOK,
       RequestRecords, ReadFrom
  <2>6. QED
    BY <1>7, <2>1, <2>2, <2>3, <2>4, <2>5 DEF EnrichSteps
<1>8. CASE \E f \in Requests : ReadStateExpired(j, f) \/ \E c \in Codes : ReadState(j, f, c)
  BY <1>0, <1>8 DEF ReadStateExpired, ReadState, Finish, AuthTypeOK, RequestRecords, Configs,
     ReadFrom
<1>9. QED
  BY <1>1, <1>2, <1>3, <1>4, <1>5, <1>6, <1>7, <1>8 DEF AuthNext, Acts

\* Who writes the configuration, and what.
LEMMA Writes ==
  ASSUME NEW i \in Requests, Acts(i), config' # config
  PROVE  \/ SetClient(i) /\ config' = [config EXCEPT !["client"] = i]
         \/ SetSecret(i) /\ config' = [config EXCEPT !["secret"] = i]
         \/ SetRefresh(i) /\ config' = [config EXCEPT !["refresh"] = req[i].refresh]
         \/ SetAccess(i) /\ config' = [config EXCEPT !["access"] = req[i].token]
         \/ SetExpires(i) /\ config' = [config EXCEPT !.expires = now + Life]
         \/ Persist(i) /\ config' = [config EXCEPT !.refresh = req[i].refresh]
<1>1. CASE StartSteps(i)
  BY <1>1 DEF StartSteps, StartBegin, Register, SetClient, SetSecret, InsertState, Set
<1>2. CASE CallbackSteps(i)
  BY <1>2 DEF CallbackSteps, ReadClient, Exchange, SetRefresh, SetAccess, SetExpires,
              DropState, Set
<1>3. CASE EnrichSteps(i)
  BY <1>3 DEF EnrichSteps, EnrichRead, Decide, SignGrant, Refresh, RefreshRotating,
              RefreshFails, Persist, Remember
<1>4. CASE \E f \in Requests : ReadStateExpired(i, f) \/ \E c \in Codes : ReadState(i, f, c)
  BY <1>4 DEF ReadStateExpired, ReadState
<1>5. QED
  BY <1>1, <1>2, <1>3, <1>4 DEF Acts

LEMMA NoServiceAccountStep ==
  ASSUME AuthTypeOK, NoServiceAccount, AuthNext
  PROVE  NoServiceAccount'
<1>1. strategy' = strategy
  BY DEF AuthNext, Tick, Put, ProcessRestart, Delete, ReadStateExpired, ReadState, StartSteps,
         StartBegin, Register, SetClient, SetSecret, InsertState, CallbackSteps, ReadClient,
         Exchange, SetRefresh, SetAccess, SetExpires, DropState, EnrichSteps, EnrichRead,
         Decide, SignGrant, Refresh, RefreshRotating, RefreshFails, Persist, Remember
<1>2. strategy = "oauth-bearer" => config'.sa \in {config.sa, 0}
  <2>1. CASE UNCHANGED config
    BY <2>1
  <2>2. CASE Put
    BY <2>2 DEF Put
  <2>3. ASSUME NEW key \in Deletable, Delete(key)
        PROVE  config'.sa \in {config.sa, 0}
    <3>1. key \in {"client", "secret", "refresh", "access", "expires", "sa"}
      BY SubMcpAuthAssumption
    <3>2. QED
      BY <2>3, <3>1 DEF Delete, AuthTypeOK, Configs, NoConfig
  <2>4. CASE config' # config /\ \E i \in Requests : Acts(i)
    BY <2>4, Writes DEF AuthTypeOK, Configs
  <2>5. QED
    BY <2>1, <2>2, <2>3, <2>4 DEF AuthNext, Acts, Tick, ProcessRestart
<1>3. QED
  BY <1>1, <1>2, ReadsComeFrom DEF NoServiceAccount, ReadFrom

\* The types of what a request holds.
LEMMA FieldTypes ==
  ASSUME AuthTypeOK, NEW i \in Requests
  PROVE  /\ req[i].read \in Configs
         /\ req[i].read.refresh \in RefreshTokens /\ req[i].refresh \in RefreshTokens
         /\ req[i].read.refresh.grant \in Identities /\ req[i].refresh.grant \in Identities
         /\ req[i].read.refresh.seq \in Nat /\ req[i].refresh.seq \in Nat
         /\ req[i].token \in Tokens /\ req[i].ts \in Time
<1>1. req[i] \in RequestRecords
  BY DEF AuthTypeOK
<1>2. /\ req[i].read \in Configs /\ req[i].refresh \in RefreshTokens
      /\ req[i].token \in Tokens /\ req[i].ts \in Time
  BY <1>1 DEF RequestRecords
<1>3. req[i].read.refresh \in RefreshTokens
  BY <1>2 DEF Configs
<1>4. \A r \in RefreshTokens : r.grant \in Identities /\ r.seq \in Nat
  BY SubMcpAuthAssumption DEF RefreshTokens
<1>5. QED
  BY <1>2, <1>3, <1>4

LEMMA FinishIs ==
  ASSUME AuthTypeOK, NEW i \in Requests, Finish(i)
  PROVE  req'[i] = Closed
BY DEF Finish, AuthTypeOK

\* Who changes the provider's refresh tokens, and how.
Exchanged(i) ==
  /\ At(i, "callback", "asked")
  /\ ClientAccepted(i, flows[req[i].flow].client)
  /\ grants' = [grants EXCEPT ![i] = [client |-> req[i].read.client, newest |-> 1]]
  /\ req' = [req EXCEPT ![i].pc = "answered",
                        ![i].refresh = [grant |-> i, seq |-> 1],
                        ![i].token = [id |-> i, until |-> now + Life]]
  /\ UNCHANGED <<strategy, now, config, flows, cache, arrived>> /\ Note({})

LEMMA Grants ==
  ASSUME AuthNext, grants' # grants
  PROVE  \E i \in Requests : Exchanged(i) \/ RefreshRotating(i)
<1>1. PICK i \in Requests : CallbackSteps(i) \/ EnrichSteps(i)
  BY DEF AuthNext, Tick, Put, ProcessRestart, Delete, ReadStateExpired, ReadState, StartSteps,
         StartBegin, Register, SetClient, SetSecret, InsertState
<1>2. CASE CallbackSteps(i)
  BY <1>2 DEF CallbackSteps, ReadClient, Exchange, SetRefresh, SetAccess, SetExpires,
              DropState, Exchanged
<1>3. CASE EnrichSteps(i)
  BY <1>3 DEF EnrichSteps, EnrichRead, Decide, SignGrant, Refresh, RefreshFails, Persist,
              Remember
<1>4. QED
  BY <1>1, <1>2, <1>3

\* The grant and the number a rotation issues.
LEMMA RotationOf ==
  ASSUME AuthTypeOK, NEW i \in Requests, RefreshRotating(i)
  PROVE  \E g \in Requests, n \in 1..MaxRotations :
           /\ g = req[i].read.refresh.grant /\ n = grants[g].newest + 1
           /\ grants' = [grants EXCEPT ![g].newest = n]
           /\ \/ req' = [req EXCEPT ![i].pc = "answered",
                                    ![i].refresh = [grant |-> g, seq |-> n],
                                    ![i].token = [id |-> g, until |-> now + Life]]
              \/ Finish(i) /\ "lost" \in mishaps'
<1> DEFINE g == req[i].read.refresh.grant
           n == grants[g].newest + 1
<1>1. g \in Requests
  <2>1. g \in Identities
    BY FieldTypes
  <2>2. g # 0
    BY DEF RefreshRotating
  <2>3. QED
    BY <2>1, <2>2, SubMcpAuthAssumption DEF Identities, Requests
<1>2. grants[g].newest \in 0..MaxRotations
  BY <1>1 DEF AuthTypeOK
<1>3. n \in 1..MaxRotations
  <2>1. n <= MaxRotations
    BY DEF RefreshRotating
  <2>2. QED
    BY <1>2, <2>1, SubMcpAuthAssumption
<1>4. Finish(i) => req'[i].pc = "done"
  BY ClosedIs, FinishIs
<1>5. Note(If(req'[i].pc = "done", "lost"))
  BY DEF RefreshRotating
<1>6. Finish(i) => "lost" \in mishaps'
  BY <1>4, <1>5 DEF Note, If
<1>7. /\ grants' = [grants EXCEPT ![g].newest = n]
      /\ \/ req' = [req EXCEPT ![i].pc = "answered",
                               ![i].refresh = [grant |-> g, seq |-> n],
                               ![i].token = [id |-> g, until |-> now + Life]]
         \/ Finish(i)
  BY DEF RefreshRotating
<1> HIDE DEF g, n
<1>8. QED
  BY <1>1, <1>3, <1>6, <1>7 DEF g, n

LEMMA NewestGrows ==
  ASSUME AuthTypeOK, AllIssued, AuthNext, NEW g \in Requests
  PROVE  grants[g].newest <= grants'[g].newest
<1>1. grants[g].newest \in Nat
  BY SubMcpAuthAssumption DEF AuthTypeOK
<1>2. CASE grants' = grants
  BY <1>1, <1>2
<1>3. ASSUME NEW i \in Requests, Exchanged(i)
      PROVE  grants[g].newest <= grants'[g].newest
  <2>1. grants[i].newest = 0
    BY <1>3 DEF Exchanged, At, AllIssued
  <2>2. QED
    BY <1>1, <1>3, <2>1 DEF Exchanged, AuthTypeOK
<1>4. ASSUME NEW i \in Requests, RefreshRotating(i)
      PROVE  grants[g].newest <= grants'[g].newest
  <2>1. PICK h \in Requests, n \in 1..MaxRotations :
          n = grants[h].newest + 1 /\ grants' = [grants EXCEPT ![h].newest = n]
    BY <1>4, RotationOf
  <2>2. QED
    BY <1>1, <2>1, SubMcpAuthAssumption DEF AuthTypeOK
<1>5. QED
  BY <1>2, <1>3, <1>4, Grants

LEMMA IssuedStays ==
  ASSUME AuthTypeOK, AllIssued, AuthNext, NEW r \in RefreshTokens, Issued(r)
  PROVE  Issued(r)'
<1>1. CASE r = NoRefresh
  BY <1>1 DEF Issued
<1>2. CASE r # NoRefresh
  <2>1. r.grant \in Requests /\ r.seq \in Nat
    BY <1>2, SubMcpAuthAssumption DEF Issued, RefreshTokens, Identities, Requests
  <2>2. grants[r.grant].newest \in Nat /\ grants'[r.grant].newest \in Nat
    BY <2>1, SubMcpAuthAssumption, AuthTypeStep DEF AuthTypeOK
  <2>3. grants[r.grant].newest <= grants'[r.grant].newest
    BY <2>1, NewestGrows
  <2>4. QED
    BY <1>2, <2>1, <2>2, <2>3 DEF Issued
<1>3. QED
  BY <1>1, <1>2

\* A callback that is past its exchange stays so.
Past(r) ==
  \/ r.pc = "done"
  \/ r.kind = "callback" /\ r.pc \in {"answered", "setAccess", "setExpires", "drop"}

LEMMA PastStays ==
  ASSUME AuthTypeOK, Unarrived, AuthNext, NEW g \in Requests, Past(req[g])
  PROVE  Past(req'[g])
<1>0. Past(Closed) /\ ~Past(Absent)
  BY ClosedIs DEF Past, Absent
<1>1. g # arrived + 1
  <2>1. arrived + 1 > arrived
    BY DEF AuthTypeOK
  <2>2. QED
    BY <1>0, <2>1 DEF Unarrived
<1>2. CASE Tick
  BY <1>2 DEF Tick
<1>3. CASE Put \/ \E key \in Deletable : Delete(key)
  BY <1>1, <1>3 DEF Put, Delete, AuthTypeOK
<1>4. CASE ProcessRestart
  BY <1>0, <1>4 DEF ProcessRestart
<1>5. ASSUME NEW i \in Requests, Acts(i), i # g
      PROVE  Past(req'[g])
  BY <1>5, OthersRest
<1>6. CASE StartSteps(g)
  BY <1>1, <1>6 DEF StartSteps, StartBegin, Register, SetClient, SetSecret, InsertState, At, Past
<1>7. CASE CallbackSteps(g)
  <2>1. CASE ReadClient(g) \/ Exchange(g)
    BY <2>1 DEF ReadClient, Exchange, At, Past
  <2>2. CASE SetRefresh(g) \/ SetAccess(g) \/ SetExpires(g) \/ DropState(g)
    <3>1. \/ Finish(g)
          \/ req[g].kind = "callback" /\ \E pc \in {"setAccess", "setExpires", "drop"} : Goto(g, pc)
      BY <2>2 DEF SetRefresh, SetAccess, SetExpires, DropState, Set, At
    <3>2. QED
      BY <1>0, <3>1, FinishIs DEF Goto, AuthTypeOK, RequestRecords, Past
  <2>3. QED
    BY <1>7, <2>1, <2>2 DEF CallbackSteps
<1>8. CASE EnrichSteps(g)
  BY <1>1, <1>8 DEF EnrichSteps, EnrichRead, Decide, SignGrant, Refresh, RefreshRotating,
     RefreshFails, Persist, Remember, At, Past
<1>9. CASE \E f \in Requests : ReadStateExpired(g, f) \/ \E c \in Codes : ReadState(g, f, c)
  BY <1>1, <1>9 DEF ReadStateExpired, ReadState
<1>10. QED
  BY <1>2, <1>3, <1>4, <1>5, <1>6, <1>7, <1>8, <1>9 DEF AuthNext, Acts

\* Where the refresh token of a request and of the configuration come from.
LEMMA CarriedFrom ==
  ASSUME AuthTypeOK, AuthNext, NEW j \in Requests
  PROVE  \/ req'[j].refresh \in {req[j].refresh, req[j].read.refresh, NoRefresh}
         \/ Exchanged(j) \/ RefreshRotating(j)
<1> DEFINE From == req'[j].refresh \in {req[j].refresh, req[j].read.refresh, NoRefresh}
<1>0. (req'[j] = Closed => From) /\ (req'[j] = req[j] => From)
  BY ClosedIs
<1>1. CASE Tick
  BY <1>0, <1>1 DEF Tick
<1>2. CASE Put \/ \E key \in Deletable : Delete(key)
  BY <1>0, <1>2 DEF Put, Delete, AuthTypeOK
<1>3. CASE ProcessRestart
  BY <1>0, <1>3 DEF ProcessRestart
<1>4. ASSUME NEW i \in Requests, Acts(i), j # i
      PROVE  From
  BY <1>0, <1>4, OthersRest
<1>5. CASE StartSteps(j)
  BY <1>0, <1>5, FinishIs DEF StartSteps, StartBegin, Register, SetClient, SetSecret, InsertState,
     Set, Goto, AuthTypeOK, RequestRecords
<1>6. CASE CallbackSteps(j)
  <2>1. CASE ReadClient(j)
    BY <1>0, <2>1, FinishIs DEF ReadClient, AuthTypeOK, RequestRecords
  <2>2. CASE Exchange(j)
    BY <1>0, <2>2, FinishIs DEF Exchange, Exchanged
  <2>3. CASE SetRefresh(j) \/ SetAccess(j) \/ SetExpires(j) \/ DropState(j)
    <3>1. Finish(j) \/ \E pc : Goto(j, pc)
      BY <2>3 DEF SetRefresh, SetAccess, SetExpires, DropState, Set
    <3>2. QED
      BY <1>0, <3>1, FinishIs DEF Goto, AuthTypeOK, RequestRecords
  <2>4. QED
    BY <1>6, <2>1, <2>2, <2>3 DEF CallbackSteps
<1>7. CASE EnrichSteps(j)
  <2>1. CASE EnrichRead(j)
    BY <2>1 DEF EnrichRead, AuthTypeOK, RequestRecords
  <2>2. CASE Decide(j)
    BY <1>0, <2>2, FinishIs DEF Decide, AuthTypeOK, RequestRecords
  <2>3. CASE SignGrant(j) \/ Refresh(j)
    BY <1>0, <2>3, FinishIs DEF SignGrant, Refresh, AuthTypeOK, RequestRecords
  <2>4. CASE RefreshFails(j) \/ Persist(j) \/ Remember(j)
    BY <1>0, <2>4, FinishIs DEF RefreshFails, Persist, Remember, Goto, AuthTypeOK,
       RequestRecords
  <2>5. QED
    BY <1>7, <2>1, <2>2, <2>3, <2>4 DEF EnrichSteps
<1>8. CASE \E f \in Requests : ReadStateExpired(j, f) \/ \E c \in Codes : ReadState(j, f, c)
  BY <1>0, <1>8, FinishIs DEF ReadStateExpired, ReadState, AuthTypeOK, RequestRecords
<1>9. QED
  BY <1>1, <1>2, <1>3, <1>4, <1>5, <1>6, <1>7, <1>8 DEF AuthNext, Acts

LEMMA StoredFrom ==
  ASSUME AuthTypeOK, AuthNext
  PROVE  \/ config'.refresh \in {config.refresh, NoRefresh}
         \/ \E i \in Requests : config'.refresh = req[i].refresh
<1>1. CASE config' = config
  BY <1>1
<1>2. CASE Put
  BY <1>2 DEF Put, AuthTypeOK, Configs
<1>3. ASSUME NEW key \in Deletable, Delete(key)
      PROVE  config'.refresh \in {config.refresh, NoRefresh}
  <2>1. key \in {"client", "secret", "refresh", "access", "expires", "sa"}
    BY SubMcpAuthAssumption
  <2>2. QED
    BY <1>3, <2>1 DEF Delete, AuthTypeOK, Configs, NoConfig
<1>4. CASE config' # config /\ \E i \in Requests : Acts(i)
  BY <1>4, Writes DEF AuthTypeOK, Configs
<1>5. QED
  BY <1>1, <1>2, <1>3, <1>4 DEF AuthNext, Acts, Tick, ProcessRestart

LEMMA AllIssuedStep ==
  ASSUME AuthTypeOK, Unarrived, AllIssued, AuthNext
  PROVE  AllIssued'
<1>1. \A r \in RefreshTokens : Issued(r) => Issued(r)'
  BY IssuedStays
<1>2. config.refresh \in RefreshTokens /\ NoRefresh \in RefreshTokens
  BY AuthRecords DEF AuthTypeOK, Configs
<1>3. Issued(NoRefresh) /\ Issued(config.refresh)
  BY DEF Issued, AllIssued
<1>4. \A i \in Requests : Issued(req[i].refresh) /\ Issued(req[i].read.refresh)
  BY DEF AllIssued
<1>5. Issued(config.refresh)'
  <2>1. PICK r \in RefreshTokens : r = config'.refresh /\ Issued(r)
    BY <1>2, <1>3, <1>4, StoredFrom, FieldTypes
  <2>2. Issued(r)'
    BY <1>1, <2>1
  <2>3. QED
    BY <2>1, <2>2 DEF Issued
<1>6. ASSUME NEW i \in Requests
      PROVE  Issued(req[i].read.refresh)'
  <2>1. PICK r \in RefreshTokens : r = req'[i].read.refresh /\ Issued(r)
    BY <1>2, <1>3, <1>4, ReadsComeFrom, FieldTypes DEF ReadFrom
  <2>2. Issued(r)'
    BY <1>1, <2>1
  <2>3. QED
    BY <2>1, <2>2 DEF Issued
<1>7. ASSUME NEW i \in Requests
      PROVE  Issued(req[i].refresh)'
  <2>1. CASE req'[i].refresh \in {req[i].refresh, req[i].read.refresh, NoRefresh}
    <3>1. PICK r \in RefreshTokens : r = req'[i].refresh /\ Issued(r)
      BY <1>2, <1>3, <1>4, <2>1, FieldTypes
    <3>2. Issued(r)'
      BY <1>1, <3>1
    <3>3. QED
      BY <3>1, <3>2 DEF Issued
  <2>2. CASE Exchanged(i)
    <3>1. req'[i].refresh = [grant |-> i, seq |-> 1] /\ grants'[i].newest = 1
      BY <2>2 DEF Exchanged, AuthTypeOK, RequestRecords
    <3>2. QED
      BY <3>1 DEF Issued, Requests
  <2>3. CASE RefreshRotating(i)
    <3>1. PICK g \in Requests, n \in 1..MaxRotations :
            /\ grants' = [grants EXCEPT ![g].newest = n]
            /\ \/ req' = [req EXCEPT ![i].pc = "answered",
                                     ![i].refresh = [grant |-> g, seq |-> n],
                                     ![i].token = [id |-> g, until |-> now + Life]]
               \/ Finish(i)
      BY <2>3, RotationOf
    <3>2. CASE Finish(i)
      BY <3>2, FinishIs, ClosedIs DEF Issued
    <3>3. CASE req' = [req EXCEPT ![i].pc = "answered",
                                  ![i].refresh = [grant |-> g, seq |-> n],
                                  ![i].token = [id |-> g, until |-> now + Life]]
      <4>1. req'[i].refresh = [grant |-> g, seq |-> n] /\ grants'[g].newest = n
        BY <3>1, <3>3 DEF AuthTypeOK, RequestRecords
      <4>2. QED
        BY <4>1, SubMcpAuthAssumption DEF Issued, Requests
    <3>4. QED
      BY <3>1, <3>2, <3>3
  <2>4. QED
    BY <2>1, <2>2, <2>3, CarriedFrom
<1>8. ASSUME NEW g \in Requests, grants'[g].newest # 0
      PROVE  Past(req'[g])
  <2>1. CASE grants[g].newest # 0
    BY <2>1, PastStays DEF AllIssued, Past
  <2>2. CASE grants[g].newest = 0
    <3>1. ASSUME NEW i \in Requests, Exchanged(i)
          PROVE  Past(req'[g])
      <4>1. i = g
        BY <1>8, <2>2, <3>1 DEF Exchanged, AuthTypeOK
      <4>2. QED
        BY <3>1, <4>1 DEF Exchanged, At, AuthTypeOK, RequestRecords, Past
    <3>2. ASSUME NEW i \in Requests, RefreshRotating(i)
          PROVE  Past(req'[g])
      <4>1. PICK h \in Requests : h = req[i].read.refresh.grant
                                  /\ \E n : grants' = [grants EXCEPT ![h].newest = n]
        BY <3>2, RotationOf
      <4>2. h = g
        BY <1>8, <2>2, <4>1 DEF AuthTypeOK
      <4>3. req[i].read.refresh # NoRefresh
        BY <4>1, SubMcpAuthAssumption DEF NoRefresh, Requests
      <4>4. grants[g].newest # 0
        <5>1. Issued(req[i].read.refresh) /\ req[i].read.refresh.seq \in Nat
          BY <1>4, FieldTypes
        <5>2. 1 <= req[i].read.refresh.seq /\ req[i].read.refresh.seq <= grants[g].newest
          BY <4>1, <4>2, <4>3, <5>1 DEF Issued
        <5>3. QED
          BY <5>1, <5>2
      <4>5. QED
        BY <2>2, <4>4
    <3>3. QED
      BY <1>8, <2>2, <3>1, <3>2, Grants
  <2>3. QED
    BY <2>1, <2>2
<1>9. QED
  BY <1>5, <1>6, <1>7, <1>8 DEF AllIssued, Past

LEMMA FlowTypes ==
  ASSUME AuthTypeOK, NEW f \in Requests
  PROVE  flows[f].client \in Identities /\ config.client \in Identities /\ config.secret \in Identities
BY DEF AuthTypeOK, Configs

\* What a request that is not at a start's work, or at the reading of the
\* client, may do.
SameRole(j) ==
  \/ req'[j] = req[j]
  \/ req'[j].kind \in {"none", "enrich"} /\ ~At(j, "start", "setSecret")
  \/ /\ req'[j].kind = "callback" /\ req[j].kind = "callback"
     /\ req'[j].flow = req[j].flow /\ req'[j].pc # "asked"

LEMMA ClientsFrame ==
  ASSUME AuthTypeOK, ClientsAgree, "starts" \notin mishaps, strategy' = strategy,
         config'.client = config.client, config'.secret = config.secret,
         \A f \in Requests : /\ flows'[f].client = flows[f].client
                             /\ flows'[f].row = "none" <=> flows[f].row = "none",
         \A j \in Requests : SameRole(j)
  PROVE  ClientsAgree'
<1>1. ClientKnown' <=> ClientKnown
  BY DEF ClientKnown
<1>2. ASSUME NEW j \in Requests
      PROVE  StartAgrees(j)'
  <2>1. StartAgrees(j) /\ SameRole(j)
    BY DEF ClientsAgree
  <2>2. QED
    BY <1>1, <2>1 DEF StartAgrees, Starting, SameRole, At
<1>3. ASSUME NEW j \in Requests
      PROVE  CallbackAgrees(j)'
  <2>1. CallbackAgrees(j) /\ SameRole(j)
    BY DEF ClientsAgree
  <2>2. QED
    BY <2>1 DEF CallbackAgrees, SameRole, At, ClientAccepted
<1>4. (\A j \in Requests : ~At(j, "start", "setSecret"))' => config'.secret = Secret(config'.client)
  <2>1. ASSUME NEW j \in Requests, At(j, "start", "setSecret")
        PROVE  At(j, "start", "setSecret")'
    BY <2>1 DEF SameRole, At
  <2>2. QED
    BY <2>1 DEF ClientsAgree
<1>5. ASSUME NEW f \in Requests, flows'[f].row # "none"
      PROVE  flows'[f].client = config'.client /\ ClientKnown'
  BY <1>1, <1>5 DEF ClientsAgree
<1>6. QED
  BY <1>2, <1>3, <1>4, <1>5 DEF ClientsAgree

\* The steps of the frame.
LEMMA EnrichRole ==
  ASSUME AuthTypeOK, Unarrived, NEW i \in Requests, EnrichSteps(i)
  PROVE  SameRole(i) /\ UNCHANGED <<strategy, flows>>
<1>1. UNCHANGED <<strategy, flows>>
  BY DEF EnrichSteps, EnrichRead, Decide, SignGrant, Refresh, RefreshRotating, RefreshFails,
         Persist, Remember
<1>2. ~At(i, "start", "setSecret")
  <2>1. CASE i = arrived + 1
    BY <2>1 DEF Unarrived, Absent, At, AuthTypeOK
  <2>2. CASE req[i].kind = "enrich"
    BY <2>2 DEF At
  <2>3. QED
    BY <2>1, <2>2 DEF EnrichSteps, EnrichRead, Decide, SignGrant, Refresh, RefreshRotating,
                      RefreshFails, Persist, Remember, At
<1>3. req'[i].kind \in {"none", "enrich"}
  <2>1. CASE Finish(i)
    BY <2>1, FinishIs, ClosedIs
  <2>2. CASE EnrichRead(i)
    BY <2>2 DEF EnrichRead, AuthTypeOK, RequestRecords
  <2>3. CASE req[i].kind = "enrich" /\ ~Finish(i)
    BY <2>3 DEF EnrichSteps, EnrichRead, Decide, SignGrant, Refresh, RefreshRotating,
                RefreshFails, Persist, Remember, Goto, AuthTypeOK, RequestRecords
  <2>4. QED
    BY <2>1, <2>2, <2>3 DEF EnrichSteps, Decide, SignGrant, Refresh, RefreshRotating,
                            RefreshFails, Persist, Remember, At
<1>4. QED
  BY <1>1, <1>2, <1>3 DEF SameRole

LEMMA CallbackRole ==
  ASSUME AuthTypeOK, NEW i \in Requests, CallbackSteps(i), ~ReadClient(i)
  PROVE  SameRole(i) /\ UNCHANGED strategy
<1>1. UNCHANGED strategy
  BY DEF CallbackSteps, Exchange, SetRefresh, SetAccess, SetExpires, DropState
<1>2. req[i].kind = "callback"
  BY DEF CallbackSteps, Exchange, SetRefresh, SetAccess, SetExpires, DropState, At
<1>3. ASSUME Finish(i)
      PROVE  SameRole(i)
  <2>1. req'[i].kind = "none"
    BY <1>3, FinishIs, ClosedIs
  <2>2. QED
    BY <1>2, <2>1 DEF SameRole, At
<1>4. ASSUME Exchange(i), ~Finish(i)
      PROVE  SameRole(i)
  BY <1>2, <1>4 DEF Exchange, AuthTypeOK, RequestRecords, SameRole
<1>5. ASSUME ~Exchange(i), ~Finish(i)
      PROVE  SameRole(i)
  <2>1. \E pc \in {"setAccess", "setExpires", "drop"} : Goto(i, pc)
    BY <1>5 DEF CallbackSteps, SetRefresh, SetAccess, SetExpires, DropState, Set
  <2>2. QED
    BY <1>2, <2>1 DEF Goto, AuthTypeOK, RequestRecords, SameRole, At
<1>6. QED
  BY <1>1, <1>3, <1>4, <1>5

LEMMA RestartRole ==
  ASSUME AuthTypeOK, ProcessRestart, "starts" \notin mishaps', NEW j \in Requests
  PROVE  SameRole(j)
<1>1. ~Starting(j)
  BY DEF ProcessRestart, Note, If
<1>2. ~At(j, "start", "setSecret")
  BY <1>1 DEF Starting, At
<1>3. req'[j] = req[j] \/ req'[j] = Closed
  BY DEF ProcessRestart
<1>4. QED
  BY <1>2, <1>3, ClosedIs DEF SameRole

LEMMA ArrivalRole ==
  ASSUME AuthTypeOK, Unarrived, req' = [req EXCEPT ![arrived + 1] = Closed], NEW j \in Requests
  PROVE  SameRole(j)
<1>1. CASE j = arrived + 1
  <2>1. req[j] = Absent /\ req'[j] = Closed
    BY <1>1 DEF Unarrived, AuthTypeOK
  <2>2. QED
    BY <2>1, ClosedIs DEF SameRole, At, Absent
<1>2. CASE j # arrived + 1
  BY <1>2 DEF SameRole, AuthTypeOK
<1>3. QED
  BY <1>1, <1>2

\* Everything but the work of a start and the readings of a callback.
LEMMA ClientsQuiet ==
  ASSUME AuthTypeOK, Unarrived, ClientsAgree, "starts" \notin mishaps', "starts" \notin mishaps,
         \/ Tick \/ Put \/ ProcessRestart
         \/ \E key \in Deletable : Delete(key)
         \/ \E i, f \in Requests : ReadStateExpired(i, f)
         \/ \E i \in Requests : CallbackSteps(i) /\ ~ReadClient(i)
         \/ \E i \in Requests : EnrichSteps(i)
  PROVE  ClientsAgree'
<1> DEFINE Rows == \A f \in Requests : /\ flows'[f].client = flows[f].client
                                       /\ flows'[f].row = "none" <=> flows[f].row = "none"
           Kept == config'.client = config.client /\ config'.secret = config.secret
<1>0. (flows' = flows => Rows) /\ (config' = config => Kept)
  OBVIOUS
<1>1. CASE Tick
  BY <1>0, <1>1, ClientsFrame DEF Tick, SameRole
<1>2. CASE Put
  <2>1. Kept
    BY <1>2 DEF Put, AuthTypeOK, Configs
  <2>2. QED
    BY <1>0, <1>2, <2>1, ArrivalRole, ClientsFrame DEF Put
<1>3. ASSUME NEW key \in Deletable, Delete(key)
      PROVE  ClientsAgree'
  <2>1. key \in {"refresh", "access", "expires", "sa"}
    BY <1>3, SubMcpAuthAssumption DEF Delete, Note, If
  <2>2. Kept
    BY <1>3, <2>1 DEF Delete, AuthTypeOK, Configs, NoConfig
  <2>3. QED
    BY <1>0, <1>3, <2>2, ArrivalRole, ClientsFrame DEF Delete
<1>4. CASE ProcessRestart
  BY <1>0, <1>4, RestartRole, ClientsFrame DEF ProcessRestart
<1>5. ASSUME NEW i \in Requests, NEW f \in Requests, ReadStateExpired(i, f)
      PROVE  ClientsAgree'
  <2>1. Rows
    BY <1>5 DEF ReadStateExpired, AuthTypeOK
  <2>2. QED
    BY <1>0, <1>5, <2>1, ArrivalRole, ClientsFrame DEF ReadStateExpired
<1>6. ASSUME NEW i \in Requests, CallbackSteps(i), ~ReadClient(i)
      PROVE  ClientsAgree'
  <2>1. Acts(i)
    BY <1>6 DEF Acts
  <2>2. \A j \in Requests : SameRole(j)
    BY <1>6, <2>1, OthersRest, CallbackRole DEF SameRole
  <2>3. Rows
    <3>1. CASE flows' = flows
      BY <1>0, <3>1
    <3>2. CASE DropState(i)
      <4>1. req[i].flow \in Requests /\ flows[req[i].flow].row # "none"
        BY <3>2 DEF DropState, At, ClientsAgree, CallbackAgrees
      <4>2. flows' = flows \/ flows' = [flows EXCEPT ![req[i].flow].row = "gone"]
        BY <3>2 DEF DropState
      <4>3. QED
        BY <1>0, <4>1, <4>2 DEF AuthTypeOK
    <3>3. QED
      BY <1>6, <3>1, <3>2 DEF CallbackSteps, Exchange, SetRefresh, SetAccess, SetExpires
  <2>4. Kept
    <3>1. req[i].kind = "callback"
      BY <1>6 DEF CallbackSteps, Exchange, SetRefresh, SetAccess, SetExpires, DropState, At
    <3>2. ~SetClient(i) /\ ~SetSecret(i)
      BY <3>1 DEF SetClient, SetSecret, At
    <3>3. QED
      BY <1>0, <2>1, <3>2, Writes DEF AuthTypeOK, Configs
  <2>5. QED
    BY <1>6, <2>2, <2>3, <2>4, CallbackRole, ClientsFrame
<1>7. ASSUME NEW i \in Requests, EnrichSteps(i)
      PROVE  ClientsAgree'
  <2>1. Acts(i)
    BY <1>7 DEF Acts
  <2>2. \A j \in Requests : SameRole(j)
    BY <1>7, <2>1, OthersRest, EnrichRole DEF SameRole
  <2>3. Kept
    <3>1. CASE config' = config
      BY <1>0, <3>1
    <3>2. CASE Persist(i)
      BY <3>2 DEF Persist, AuthTypeOK, Configs
    <3>3. QED
      BY <1>7, <3>1, <3>2 DEF EnrichSteps, EnrichRead, Decide, SignGrant, Refresh,
                              RefreshRotating, RefreshFails, Remember
  <2>4. QED
    BY <1>0, <1>7, <2>2, <2>3, EnrichRole, ClientsFrame
<1>8. QED
  BY <1>1, <1>2, <1>3, <1>4, <1>5, <1>6, <1>7

\* A step of request i alone, which leaves the client as it is.
LEMMA ClientsBut ==
  ASSUME AuthTypeOK, ClientsAgree, "starts" \notin mishaps, strategy' = strategy,
         config'.client = config.client, NEW i \in Requests,
         \A j \in Requests : j # i => req'[j] = req[j],
         \A f \in Requests : flows[f].row # "none" => flows'[f].row # "none",
         \A f \in Requests : flows'[f].row # "none" =>
                              flows'[f].client = config.client /\ ClientKnown,
         StartAgrees(i)', CallbackAgrees(i)',
         (\A j \in Requests : ~At(j, "start", "setSecret"))' => config'.secret = Secret(config'.client)
  PROVE  ClientsAgree'
<1>1. ClientKnown' <=> ClientKnown
  BY DEF ClientKnown
<1>2. ASSUME NEW j \in Requests, j # i
      PROVE  StartAgrees(j)' /\ CallbackAgrees(j)'
  <2>1. StartAgrees(j) /\ CallbackAgrees(j) /\ req'[j] = req[j]
    BY <1>2 DEF ClientsAgree
  <2>2. StartAgrees(j)'
    BY <1>1, <2>1 DEF StartAgrees, Starting, At
  <2>3. CallbackAgrees(j)'
    BY <2>1 DEF CallbackAgrees, At, ClientAccepted
  <2>4. QED
    BY <2>2, <2>3
<1>3. QED
  BY <1>1, <1>2 DEF ClientsAgree

LEMMA ClosedAgrees ==
  ASSUME NEW i \in Requests, req'[i] = Closed
  PROVE  StartAgrees(i)' /\ CallbackAgrees(i)' /\ ~At(i, "start", "setSecret")'
BY ClosedIs DEF StartAgrees, Starting, CallbackAgrees, At

\* The end of a request that does not hold a secret back.
LEMMA ClientsEnd ==
  ASSUME AuthTypeOK, ClientsAgree, "starts" \notin mishaps, NEW i \in Requests,
         UNCHANGED <<strategy, config, flows>>, Finish(i), ~At(i, "start", "setSecret")
  PROVE  ClientsAgree'
<1>1. req'[i] = Closed /\ \A j \in Requests : j # i => req'[j] = req[j]
  BY FinishIs DEF Finish, AuthTypeOK
<1>2. ASSUME NEW j \in Requests
      PROVE  SameRole(j)
  BY <1>1, ClosedIs DEF SameRole
<1>3. QED
  BY <1>2, ClientsFrame

LEMMA ClientsStart ==
  ASSUME AuthTypeOK, Unarrived, OneByOne, ClientsAgree, "starts" \notin mishaps',
         "starts" \notin mishaps, NEW i \in Requests, StartSteps(i)
  PROVE  ClientsAgree'
<1> DEFINE r == req'[i]
<1>0. /\ \A j \in Requests : j # i => req'[j] = req[j]
      /\ StartAgrees(i) /\ CallbackAgrees(i) /\ i # 0
  BY OthersRest DEF Acts, ClientsAgree, Requests
<1>1. CASE StartBegin(i)
  <2>1. req[i] = Absent
    BY <1>1 DEF StartBegin, Unarrived, AuthTypeOK
  <2>2. /\ r.kind = "start" /\ r.read.client = config.client
        /\ r.pc = IF strategy = "oauth-bearer" /\ config.client = 0 THEN "register" ELSE "insert"
    BY <1>1 DEF StartBegin, AuthTypeOK, RequestRecords, Configs
  <2>3. UNCHANGED <<strategy, config, flows>>
    BY <1>1 DEF StartBegin
  <2>4. StartAgrees(i)' /\ CallbackAgrees(i)'
    BY <2>2, <2>3 DEF StartAgrees, Starting, CallbackAgrees, At, ClientKnown
  <2>5. (\A j \in Requests : ~At(j, "start", "setSecret"))' =>
           \A j \in Requests : ~At(j, "start", "setSecret")
    BY <1>0, <2>1 DEF At, Absent
  <2>6. QED
    BY <1>0, <2>3, <2>4, <2>5, ClientsBut DEF ClientsAgree
<1>2. CASE Register(i)
  <2>1. UNCHANGED <<strategy, config, flows>> /\ At(i, "start", "register")
    BY <1>2 DEF Register
  <2>2. CASE Finish(i)
    BY <2>1, <2>2, ClientsEnd DEF At
  <2>3. CASE ~Finish(i)
    <3>1. r.kind = "start" /\ r.pc = "setClient" /\ r.read.client = i
      BY <1>2, <2>1, <2>3 DEF Register, At, AuthTypeOK, RequestRecords, Configs
    <3>2. config.client = 0 /\ strategy = "oauth-bearer"
      BY <1>0, <2>1 DEF StartAgrees, Starting, At
    <3>3. StartAgrees(i)' /\ CallbackAgrees(i)'
      BY <2>1, <3>1, <3>2 DEF StartAgrees, Starting, CallbackAgrees, At
    <3>4. (\A j \in Requests : ~At(j, "start", "setSecret"))' =>
             \A j \in Requests : ~At(j, "start", "setSecret")
      BY <1>0, <2>1 DEF At
    <3>5. QED
      BY <1>0, <2>1, <3>3, <3>4, ClientsBut DEF ClientsAgree
  <2>4. QED
    BY <2>2, <2>3
<1>3. CASE SetClient(i)
  <2>1. At(i, "start", "setClient") /\ UNCHANGED <<strategy, flows>>
    BY <1>3 DEF SetClient
  <2>2. config.client = 0 /\ strategy = "oauth-bearer" /\ req[i].read.client = i
    BY <1>0, <2>1 DEF StartAgrees, Starting, At
  <2>3. ASSUME NEW j \in Requests, j # i
        PROVE  ~Starting(j)
    BY <2>1, <2>3 DEF OneByOne, AtMostOne, Starters, Starting, At
  <2>4. ~ClientKnown
    BY <2>2 DEF ClientKnown
  <2>5. config.secret = 0
    <3>1. \A j \in Requests : ~At(j, "start", "setSecret")
      BY <2>1, <2>3 DEF Starting, At
    <3>2. QED
      BY <2>2, <3>1 DEF ClientsAgree, Secret
  <2>6. /\ config' = [config EXCEPT !["client"] = i]
        /\ Goto(i, IF Confidential THEN "setSecret" ELSE "insert")
    BY <1>3, <2>1 DEF SetClient, Set, Note, At
  <2>7. config'.client = i /\ config'.secret = 0
    BY <2>5, <2>6 DEF AuthTypeOK, Configs
  <2>8. /\ r.kind = "start" /\ r.read.client = i
        /\ r.pc = IF Confidential THEN "setSecret" ELSE "insert"
    BY <2>1, <2>2, <2>6 DEF Goto, At, AuthTypeOK, RequestRecords
  <2>9. ClientKnown'
    BY <1>0, <2>7 DEF ClientKnown
  <2>10. StartAgrees(i)' /\ CallbackAgrees(i)'
    BY <2>1, <2>2, <2>7, <2>8, <2>9 DEF StartAgrees, CallbackAgrees, At
  <2>11. ASSUME NEW j \in Requests, j # i
         PROVE  StartAgrees(j)' /\ CallbackAgrees(j)'
    <3>1. req'[j] = req[j] /\ StartAgrees(j) /\ CallbackAgrees(j)
      BY <1>0, <2>11 DEF ClientsAgree
    <3>2. ~At(j, "start", "insert") /\ ~Starting(j)
      BY <2>3, <2>4, <2>11, <3>1 DEF StartAgrees
    <3>3. req[j].kind # "callback"
      BY <2>4, <3>1 DEF CallbackAgrees, ClientsAgree
    <3>4. QED
      BY <3>1, <3>2, <3>3 DEF StartAgrees, CallbackAgrees, Starting, At
  <2>12. (\A j \in Requests : ~At(j, "start", "setSecret"))' => config'.secret = Secret(config'.client)
    BY <2>7, <2>8 DEF At, Secret
  <2>13. \A f \in Requests : flows'[f].row = "none"
    BY <2>1, <2>4 DEF ClientsAgree
  <2>14. QED
    BY <2>10, <2>11, <2>12, <2>13 DEF ClientsAgree
<1>4. CASE SetSecret(i)
  <2>1. At(i, "start", "setSecret") /\ UNCHANGED <<strategy, flows>>
    BY <1>4 DEF SetSecret
  <2>2. /\ Confidential /\ config.client = i /\ strategy = "oauth-bearer"
        /\ req[i].read.client = i
    BY <1>0, <2>1 DEF StartAgrees, Starting, At
  <2>3. config' = [config EXCEPT !["secret"] = i] /\ Goto(i, "insert")
    BY <1>4, <2>1 DEF SetSecret, Set, Note, At
  <2>4. config'.client = i /\ config'.secret = Secret(i)
    BY <2>2, <2>3 DEF Secret, AuthTypeOK, Configs
  <2>5. r.kind = "start" /\ r.pc = "insert" /\ r.read.client = i
    BY <2>1, <2>2, <2>3 DEF Goto, At, AuthTypeOK, RequestRecords
  <2>6. StartAgrees(i)' /\ CallbackAgrees(i)'
    BY <1>0, <2>1, <2>4, <2>5 DEF StartAgrees, Starting, CallbackAgrees, At, ClientKnown
  <2>7. QED
    BY <1>0, <2>1, <2>2, <2>4, <2>6, ClientsBut DEF ClientsAgree
<1>5. CASE InsertState(i)
  <2>1. At(i, "start", "insert") /\ UNCHANGED <<strategy, config>> /\ Finish(i)
    BY <1>5 DEF InsertState
  <2>2. req[i].read.client = config.client /\ ClientKnown
    BY <1>0, <2>1 DEF StartAgrees
  <2>3. /\ flows'[i].client = config.client /\ flows'[i].row = "open"
        /\ \A f \in Requests : f # i => flows'[f] = flows[f]
    BY <1>5, <2>2 DEF InsertState, AuthTypeOK
  <2>4. req'[i] = Closed
    BY <2>1, FinishIs
  <2>5. (\A j \in Requests : ~At(j, "start", "setSecret"))' =>
           \A j \in Requests : ~At(j, "start", "setSecret")
    BY <1>0, <2>1 DEF At
  <2>6. \A f \in Requests : flows'[f].row # "none" =>
                             flows'[f].client = config.client /\ ClientKnown
    BY <2>2, <2>3 DEF ClientsAgree
  <2>7. QED
    BY <1>0, <2>1, <2>3, <2>4, <2>5, <2>6, ClosedAgrees, ClientsBut DEF ClientsAgree
<1>6. QED
  BY <1>1, <1>2, <1>3, <1>4, <1>5 DEF StartSteps

LEMMA ClientsRead ==
  ASSUME AuthTypeOK, Unarrived, ClientsAgree, "starts" \notin mishaps', "starts" \notin mishaps,
         NEW i \in Requests,
         ReadClient(i) \/ \E f \in Requests, c \in Codes : ReadState(i, f, c)
  PROVE  ClientsAgree'
<1> DEFINE r == req'[i]
<1>0. /\ UNCHANGED <<strategy, config, flows>>
      /\ \A j \in Requests : j # i => req'[j] = req[j]
      /\ CallbackAgrees(i)
  BY OthersRest DEF ReadClient, ReadState, Acts, CallbackSteps, ClientsAgree
<1>1. ~At(i, "start", "setSecret")
  <2>1. ReadClient(i) => req[i].kind = "callback"
    BY DEF ReadClient, At
  <2>2. ~ReadClient(i) => req[i] = Absent
    <3>1. ~ReadClient(i) => i = arrived + 1
      BY DEF ReadState
    <3>2. QED
      BY <3>1 DEF Unarrived, AuthTypeOK
  <2>3. QED
    BY <2>1, <2>2 DEF At, Absent
<1>2. CASE Finish(i)
  BY <1>0, <1>1, <1>2, ClientsEnd
<1>3. ASSUME NEW f \in Requests, NEW c \in Codes, ReadState(i, f, c), ~Finish(i)
      PROVE  ClientsAgree'
  <2>1. r.kind = "callback" /\ r.pc = "stated" /\ r.flow = f /\ flows[f].row # "none"
    <3>1. /\ req' = [req EXCEPT ![i].kind = "callback", ![i].pc = "stated",
                                ![i].flow = f, ![i].code = c]
          /\ flows[f].row # "none"
      BY <1>3 DEF ReadState
    <3>2. QED
      BY <3>1 DEF AuthTypeOK, RequestRecords
  <2>2. StartAgrees(i)' /\ CallbackAgrees(i)'
    BY <1>0, <2>1 DEF StartAgrees, Starting, CallbackAgrees, At
  <2>3. (\A j \in Requests : ~At(j, "start", "setSecret"))' =>
           \A j \in Requests : ~At(j, "start", "setSecret")
    BY <1>0, <1>1 DEF At
  <2>4. QED
    BY <1>0, <2>2, <2>3, ClientsBut DEF ClientsAgree
<1>4. CASE ReadClient(i) /\ ~Finish(i)
  <2>1. ASSUME NEW j \in Requests
        PROVE  ~Starting(j)
    BY <1>4 DEF ReadClient, Note, If
  <2>2. config.secret = Secret(config.client)
    BY <2>1 DEF ClientsAgree, Starting, At
  <2>3. /\ r.kind = "callback" /\ r.pc = "asked" /\ r.flow = req[i].flow
        /\ r.read.client = config.client /\ r.read.secret = config.secret
    BY <1>4 DEF ReadClient, At, AuthTypeOK, RequestRecords, Configs
  <2>4. req[i].kind = "callback"
    BY <1>4 DEF ReadClient, At
  <2>5. StartAgrees(i)' /\ CallbackAgrees(i)'
    BY <1>0, <2>2, <2>3, <2>4
       DEF StartAgrees, Starting, CallbackAgrees, At, ClientAccepted
  <2>6. QED
    BY <1>0, <2>2, <2>5, ClientsBut DEF ClientsAgree
<1>5. QED
  BY <1>2, <1>3, <1>4

LEMMA ClientsStep ==
  ASSUME AuthTypeOK, Unarrived, OneByOne, ClientsAgree, AuthNext
  PROVE  ClientsAgree'
<1>1. CASE "starts" \in mishaps'
  BY <1>1 DEF ClientsAgree
<1>2. CASE "starts" \notin mishaps'
  <2>1. "starts" \notin mishaps
    BY <1>2, MishapsStay
  <2>2. QED
    BY <1>2, <2>1, ClientsQuiet, ClientsStart, ClientsRead DEF AuthNext
<1>3. QED
  BY <1>1, <1>2

\* A request carries the same refresh token before and after a step.
CarriesOn(j) ==
  /\ Carrying(j)' <=> Carrying(j)
  /\ Carrying(j) => req'[j].refresh = req[j].refresh

LEMMA CarryingIs ==
  ASSUME NEW i \in Requests
  PROVE  /\ Carrying(i) <=>
              \/ req[i].kind = "callback" /\ req[i].pc = "answered"
              \/ /\ req[i].kind = "enrich" /\ req[i].pc = "answered"
                 /\ req[i].refresh # req[i].read.refresh
         /\ Carrying(i)' <=>
              \/ req'[i].kind = "callback" /\ req'[i].pc = "answered"
              \/ /\ req'[i].kind = "enrich" /\ req'[i].pc = "answered"
                 /\ req'[i].refresh # req'[i].read.refresh
BY DEF Carrying, Holding, At

LEMMA NewestFrame ==
  ASSUME AuthTypeOK, NewestKept, mishaps \cap {"writers", "lost"} = {}, grants' = grants,
         config'.refresh \in {config.refresh, NoRefresh},
         \A j \in Requests : CarriesOn(j)
  PROVE  NewestKept'
<1>1. \A r : Newest(r)' <=> Newest(r)
  BY DEF Newest
<1>2. ASSUME NEW i \in Requests, Carrying(i)'
      PROVE  Newest(req[i].refresh)'
  <2>1. Carrying(i) /\ req'[i].refresh = req[i].refresh
    BY <1>2 DEF CarriesOn
  <2>2. QED
    BY <2>1 DEF NewestKept, Newest
<1>3. ASSUME \A i \in Requests : ~Carrying(i)'
      PROVE  config'.refresh = NoRefresh \/ Newest(config.refresh)'
  <2>1. \A i \in Requests : ~Carrying(i)
    BY <1>3 DEF CarriesOn
  <2>2. QED
    BY <2>1 DEF NewestKept, Newest
<1>4. QED
  BY <1>2, <1>3 DEF NewestKept

\* Who carries on: everybody, but for the four steps that obtain or store a
\* refresh token.
LEMMA CarriersKeep ==
  ASSUME AuthTypeOK, Unarrived, AuthNext, mishaps' \cap {"writers", "lost"} = {},
         NEW j \in Requests, ~Exchanged(j), ~RefreshRotating(j), ~SetRefresh(j), ~Persist(j)
  PROVE  CarriesOn(j)
<1>0. /\ req'[j] = req[j] => CarriesOn(j)
      /\ ~Carrying(j) /\ ~Carrying(j)' => CarriesOn(j)
      /\ req'[j] = Closed => ~Carrying(j)'
      /\ req[j] = Absent => ~Carrying(j)
  BY CarryingIs, ClosedIs DEF CarriesOn, Absent
<1>1. CASE Tick
  BY <1>0, <1>1 DEF Tick
<1>2. CASE Put \/ \E key \in Deletable : Delete(key)
  <2>1. req' = [req EXCEPT ![arrived + 1] = Closed]
    BY <1>2 DEF Put, Delete
  <2>2. j = arrived + 1 => req[j] = Absent /\ req'[j] = Closed
    BY <2>1 DEF Unarrived, AuthTypeOK
  <2>3. j # arrived + 1 => req'[j] = req[j]
    BY <2>1 DEF AuthTypeOK
  <2>4. QED
    BY <1>0, <2>2, <2>3
<1>3. CASE ProcessRestart
  <2>1. ~Holding(j)
    BY <1>3 DEF ProcessRestart, Note, If
  <2>2. req'[j] = req[j] \/ req'[j] = Closed
    BY <1>3 DEF ProcessRestart
  <2>3. QED
    BY <1>0, <2>1, <2>2 DEF Carrying
<1>4. ASSUME NEW i \in Requests, Acts(i), i # j
      PROVE  CarriesOn(j)
  BY <1>0, <1>4, OthersRest
<1>5. CASE StartSteps(j)
  <2>1. ~Carrying(j)
    BY <1>0, <1>5, CarryingIs DEF StartSteps, StartBegin, Register, SetClient, SetSecret, InsertState,
                         At, Unarrived, AuthTypeOK
  <2>2. CASE Finish(j)
    BY <1>0, <2>1, <2>2, FinishIs
  <2>3. CASE ~Finish(j)
    <3>1. req'[j].kind = "start"
      <4>1. CASE StartBegin(j)
        BY <4>1 DEF StartBegin, AuthTypeOK, RequestRecords
      <4>2. CASE req[j].kind = "start"
        BY <1>5, <2>3, <4>2 DEF StartSteps, StartBegin, Register, SetClient, SetSecret,
           InsertState, Set, Goto, AuthTypeOK, RequestRecords
      <4>3. QED
        BY <1>5, <4>1, <4>2 DEF StartSteps, Register, SetClient, SetSecret, InsertState, At
    <3>2. QED
      BY <1>0, <2>1, <3>1, CarryingIs
  <2>4. QED
    BY <2>2, <2>3
<1>6. CASE CallbackSteps(j)
  <2>1. CASE Finish(j) /\ ~Carrying(j)
    BY <1>0, <2>1, FinishIs
  <2>2. CASE ReadClient(j)
    BY <1>0, <2>1, <2>2, CarryingIs DEF ReadClient, At, AuthTypeOK, RequestRecords
  <2>3. CASE Exchange(j)
    <3>1. Finish(j)
      BY <2>3 DEF Exchange, Exchanged
    <3>2. ~Carrying(j)
      BY <2>3, CarryingIs DEF Exchange, At
    <3>3. QED
      BY <2>1, <3>1, <3>2
  <2>4. CASE SetAccess(j) \/ SetExpires(j) \/ DropState(j)
    <3>1. ~Carrying(j)
      BY <2>4, CarryingIs DEF SetAccess, SetExpires, DropState, At
    <3>2. Finish(j) \/ \E pc \in {"setExpires", "drop"} : Goto(j, pc)
      BY <2>4 DEF SetAccess, SetExpires, DropState, Set
    <3>3. Goto(j, "setExpires") \/ Goto(j, "drop") => ~Carrying(j)'
      BY CarryingIs DEF Goto, AuthTypeOK, RequestRecords
    <3>4. QED
      BY <1>0, <2>1, <3>1, <3>2, <3>3
  <2>5. QED
    BY <1>6, <2>2, <2>3, <2>4 DEF CallbackSteps
<1>7. CASE EnrichSteps(j)
  <2>1. CASE EnrichRead(j)
    <3>1. ~Carrying(j)
      BY <1>0, <2>1 DEF EnrichRead, Unarrived, AuthTypeOK
    <3>2. ~Carrying(j)'
      BY <2>1, CarryingIs DEF EnrichRead, AuthTypeOK, RequestRecords
    <3>3. QED
      BY <1>0, <3>1, <3>2
  <2>2. CASE Decide(j) \/ RefreshFails(j)
    <3>1. ~Carrying(j)
      BY <2>2, CarryingIs DEF Decide, RefreshFails, At
    <3>2. Finish(j) \/ req'[j].pc = "asked"
      BY <2>2 DEF Decide, RefreshFails, AuthTypeOK, RequestRecords
    <3>3. QED
      BY <1>0, <3>1, <3>2, FinishIs, CarryingIs
  <2>3. CASE SignGrant(j) \/ Refresh(j)
    <3>1. ~Carrying(j)
      BY <2>3, CarryingIs DEF SignGrant, Refresh, At
    <3>2. \/ Finish(j)
          \/ req'[j].kind = "enrich" /\ req'[j].refresh = req'[j].read.refresh
      BY <2>3 DEF SignGrant, Refresh, At, AuthTypeOK, RequestRecords
    <3>3. QED
      BY <1>0, <3>1, <3>2, FinishIs, CarryingIs
  <2>4. CASE Remember(j)
    <3>1. ~Carrying(j)
      BY <2>4, CarryingIs DEF Remember, At, Rotated
    <3>2. QED
      BY <1>0, <2>4, <3>1, FinishIs DEF Remember
  <2>5. QED
    BY <1>7, <2>1, <2>2, <2>3, <2>4 DEF EnrichSteps
<1>8. CASE \E f \in Requests : ReadStateExpired(j, f) \/ \E c \in Codes : ReadState(j, f, c)
  <2>1. ~Carrying(j)
    BY <1>0, <1>8 DEF ReadStateExpired, ReadState, Unarrived, AuthTypeOK
  <2>2. req'[j] = Closed \/ req'[j].pc = "stated"
    BY <1>8, FinishIs DEF ReadStateExpired, ReadState, AuthTypeOK, RequestRecords
  <2>3. QED
    BY <1>0, <2>1, <2>2, CarryingIs
<1>9. QED
  BY <1>1, <1>2, <1>3, <1>4, <1>5, <1>6, <1>7, <1>8 DEF AuthNext, Acts

LEMMA SoleWriter ==
  ASSUME OneByOne, "writers" \notin mishaps, NEW i \in Requests, NEW j \in Requests,
         Holding(i), Holding(j)
  PROVE  i = j
BY DEF OneByOne, AtMostOne, Writers

LEMMA SoleWriterNext ==
  ASSUME OneByOne', "writers" \notin mishaps', NEW i \in Requests, NEW j \in Requests,
         Holding(i)', Holding(j)'
  PROVE  i = j
<1> DEFINE W == Writers'
<1>1. i \in W /\ j \in W
  BY DEF Writers
<1>2. AtMostOne(W)
  BY DEF OneByOne
<1>3. QED
  BY <1>1, <1>2 DEF AtMostOne

\* Whoever has just got a new refresh token is the only one to carry one.
LEMMA NewestIssued ==
  ASSUME AuthTypeOK, OneByOne', "writers" \notin mishaps', NEW i \in Requests,
         Carrying(i)', Newest(req[i].refresh)'
  PROVE  NewestKept'
<1>1. \A j \in Requests : Carrying(j)' => j = i
  BY SoleWriterNext DEF Carrying
<1>2. QED
  BY <1>1 DEF NewestKept

\* Whoever stores the one it carries leaves nobody who carries one.
LEMMA NewestStored ==
  ASSUME AuthTypeOK, OneByOne, NewestKept, mishaps \cap {"writers", "lost"} = {},
         NEW i \in Requests, Carrying(i), grants' = grants,
         config'.refresh = req[i].refresh, req'[i].pc # "answered",
         \A j \in Requests : j # i => req'[j] = req[j]
  PROVE  NewestKept'
<1>1. ASSUME NEW j \in Requests
      PROVE  ~Carrying(j)'
  <2>1. CASE j = i
    BY <2>1, CarryingIs
  <2>2. CASE j # i
    <3>1. ~Carrying(j)
      BY <2>2, SoleWriter DEF Carrying
    <3>2. QED
      BY <2>2, <3>1, CarryingIs
  <2>3. QED
    BY <2>1, <2>2
<1>2. Newest(config.refresh)'
  BY DEF NewestKept, Newest
<1>3. QED
  BY <1>1, <1>2 DEF NewestKept

LEMMA NewestStep ==
  ASSUME AuthTypeOK, Unarrived, AllIssued, OneByOne, NewestKept, AuthNext
  PROVE  NewestKept'
<1>1. CASE mishaps' \cap {"writers", "lost"} # {}
  BY <1>1 DEF NewestKept
<1>2. CASE mishaps' \cap {"writers", "lost"} = {}
  <2>1. mishaps \cap {"writers", "lost"} = {}
    BY <1>2, MishapsStay
  <2>2. OneByOne'
    BY OneByOneStep
  <2>3. ASSUME NEW i \in Requests, Exchanged(i)
        PROVE  NewestKept'
    <3>1. /\ req'[i].kind = "callback" /\ req'[i].pc = "answered"
          /\ req'[i].refresh = [grant |-> i, seq |-> 1] /\ grants'[i].newest = 1
      BY <2>3 DEF Exchanged, At, AuthTypeOK, RequestRecords
    <3>2. Newest(req[i].refresh)'
      BY <3>1 DEF Newest, Requests
    <3>3. QED
      BY <1>2, <2>2, <3>1, <3>2, CarryingIs, NewestIssued
  <2>4. ASSUME NEW i \in Requests, RefreshRotating(i)
        PROVE  NewestKept'
    <3>1. PICK g \in Requests, n \in 1..MaxRotations :
            /\ g = req[i].read.refresh.grant /\ n = grants[g].newest + 1
            /\ grants' = [grants EXCEPT ![g].newest = n]
            /\ \/ req' = [req EXCEPT ![i].pc = "answered",
                                     ![i].refresh = [grant |-> g, seq |-> n],
                                     ![i].token = [id |-> g, until |-> now + Life]]
               \/ Finish(i) /\ "lost" \in mishaps'
      BY <2>4, RotationOf
    <3>2. /\ req'[i].kind = "enrich" /\ req'[i].pc = "answered"
          /\ req'[i].refresh = [grant |-> g, seq |-> n]
          /\ req'[i].read = req[i].read /\ grants'[g].newest = n
      <4>1. req' = [req EXCEPT ![i].pc = "answered",
                              ![i].refresh = [grant |-> g, seq |-> n],
                              ![i].token = [id |-> g, until |-> now + Life]]
        BY <1>2, <3>1
      <4>2. req[i].kind = "enrich" /\ req[i] \in RequestRecords
        BY <2>4 DEF RefreshRotating, At, AuthTypeOK
      <4>3. /\ req'[i].kind = "enrich" /\ req'[i].pc = "answered"
            /\ req'[i].refresh = [grant |-> g, seq |-> n] /\ req'[i].read = req[i].read
        BY <4>1, <4>2 DEF AuthTypeOK, RequestRecords
      <4>4. grants'[g].newest = n
        BY <3>1 DEF AuthTypeOK
      <4>5. QED
        BY <4>3, <4>4
    <3>3. req[i].read.refresh.seq <= grants[g].newest /\ req[i].read.refresh.seq \in Nat
      <4>1. Issued(req[i].read.refresh) /\ req[i].read.refresh # NoRefresh
        BY <3>1, SubMcpAuthAssumption DEF AllIssued, NoRefresh, Requests
      <4>2. QED
        BY <3>1, <4>1, FieldTypes DEF Issued
    <3>4. grants[g].newest \in Nat
      BY SubMcpAuthAssumption DEF AuthTypeOK
    <3>5. req[i].read.refresh.seq # n
      BY <3>1, <3>3, <3>4
    <3>6. Carrying(i)'
      BY <3>2, <3>5, CarryingIs
    <3>7. Newest(req[i].refresh)'
      BY <3>2, SubMcpAuthAssumption DEF Newest, Requests
    <3>8. QED
      BY <1>2, <2>2, <3>6, <3>7, NewestIssued
  <2>5. ASSUME NEW i \in Requests, SetRefresh(i)
        PROVE  NewestKept'
    <3>1. Carrying(i) /\ grants' = grants /\ Acts(i)
      BY <2>5, CarryingIs DEF SetRefresh, At, Acts, CallbackSteps
    <3>2. /\ config' = [config EXCEPT !["refresh"] = req[i].refresh]
          /\ Goto(i, "setAccess")
      BY <1>2, <2>5 DEF SetRefresh, Set, Note, At
    <3>3. config'.refresh = req[i].refresh /\ req'[i].pc = "setAccess"
      BY <3>2 DEF Goto, AuthTypeOK, Configs, RequestRecords
    <3>4. QED
      BY <2>1, <3>1, <3>3, OthersRest, NewestStored
  <2>6. ASSUME NEW i \in Requests, Persist(i)
        PROVE  NewestKept'
    <3>1. Carrying(i) /\ grants' = grants /\ Acts(i)
      BY <2>6, CarryingIs DEF Persist, Rotated, At, Acts, EnrichSteps
    <3>2. config' = [config EXCEPT !.refresh = req[i].refresh] /\ Goto(i, "persisted")
      BY <1>2, <2>6 DEF Persist, Note
    <3>3. config'.refresh = req[i].refresh /\ req'[i].pc = "persisted"
      BY <3>2 DEF Goto, AuthTypeOK, Configs, RequestRecords
    <3>4. QED
      BY <2>1, <3>1, <3>3, OthersRest, NewestStored
  <2>7. CASE \A i \in Requests :
               ~Exchanged(i) /\ ~RefreshRotating(i) /\ ~SetRefresh(i) /\ ~Persist(i)
    <3>1. grants' = grants
      BY <2>7, Grants
    <3>2. \A j \in Requests : CarriesOn(j)
      BY <1>2, <2>7, CarriersKeep
    <3>3. config'.refresh \in {config.refresh, NoRefresh}
      <4>1. CASE config' = config
        BY <4>1
      <4>2. CASE Put
        BY <4>2 DEF Put, AuthTypeOK, Configs
      <4>3. ASSUME NEW key \in Deletable, Delete(key)
            PROVE  config'.refresh \in {config.refresh, NoRefresh}
        <5>1. key \in {"client", "secret", "refresh", "access", "expires", "sa"}
          BY SubMcpAuthAssumption
        <5>2. QED
          BY <4>3, <5>1 DEF Delete, AuthTypeOK, Configs, NoConfig
      <4>4. CASE config' # config /\ \E i \in Requests : Acts(i)
        BY <2>7, <4>4, Writes DEF AuthTypeOK, Configs
      <4>5. QED
        BY <4>1, <4>2, <4>3, <4>4 DEF AuthNext, Acts, Tick, ProcessRestart
    <3>4. QED
      BY <2>1, <3>1, <3>2, <3>3, NewestFrame
  <2>8. QED
    BY <2>3, <2>4, <2>5, <2>6, <2>7
<1>3. QED
  BY <1>1, <1>2

\* What a step makes of a request: it waits, it rests where it holds nothing
\* and has read nothing, or it does one of the things that matter.
Rests(j) ==
  /\ req'[j].kind \in {"none", "start"} \/ req'[j].pc \in {"stated", "asked", "drop"}
  /\ req'[j].ts \in {req[j].ts, now, 0}
  /\ req'[j].kind = "enrich" =>
       /\ At(j, "enrich", "read") /\ req'[j].pc = "asked" /\ UNCHANGED config
       /\ req'[j].read.sa = req[j].read.sa /\ req'[j].read.refresh = req[j].read.refresh
Reading(j) ==
  /\ req'[j].kind = "enrich" /\ req'[j].pc = "read" /\ req'[j].read = config
  /\ req'[j].ts = 0 /\ UNCHANGED <<now, config, cache>>
Storing(j) ==
  /\ At(j, "callback", "answered") /\ config' = [config EXCEPT !["refresh"] = req[j].refresh]
  /\ Goto(j, "setAccess") /\ UNCHANGED <<now, cache>>
Granting(j) ==
  /\ At(j, "callback", "setAccess") /\ config' = [config EXCEPT !["access"] = req[j].token]
  /\ Goto(j, "setExpires") /\ UNCHANGED <<now, cache>>
Answering(j) ==
  /\ At(j, "enrich", "asked") /\ req'[j].kind = "enrich" /\ req'[j].pc = "answered"
  /\ req'[j].read = req[j].read /\ req'[j].ts = req[j].ts
  /\ req'[j].token.until = now + Life /\ req'[j].token.id = Identity(req[j].read)
  /\ req'[j].refresh.grant = req[j].read.refresh.grant
  /\ UNCHANGED <<now, config, cache>>
Writing(j) ==
  /\ At(j, "enrich", "answered") /\ Goto(j, "persisted")
  /\ config' = [config EXCEPT !.refresh = req[j].refresh] \/ UNCHANGED config
  /\ UNCHANGED <<now, cache>>
Moves(j) ==
  \/ req'[j] = req[j]
  \/ Rests(j)
  \/ Reading(j) \/ Exchanged(j) \/ Storing(j) \/ Granting(j) \/ Answering(j) \/ Writing(j)

LEMMA ClosedRests ==
  ASSUME NEW j \in Requests, req'[j] = Closed
  PROVE  Rests(j)
BY ClosedIs DEF Rests

LEMMA EnrichMoves ==
  ASSUME AuthTypeOK, Unarrived, NoServiceAccount, NEW j \in Requests, EnrichSteps(j)
  PROVE  Moves(j)
<1>0. req[j] \in RequestRecords
  BY DEF AuthTypeOK
<1>1. CASE Finish(j)
  BY <1>1, FinishIs, ClosedRests DEF Moves
<1>2. CASE EnrichRead(j)
  <2>1. req[j] = Absent
    BY <1>2 DEF EnrichRead, Unarrived, AuthTypeOK
  <2>2. Reading(j)
    BY <1>2, <2>1 DEF EnrichRead, Reading, Absent, AuthTypeOK
  <2>3. QED
    BY <2>2 DEF Moves
<1>3. CASE Decide(j) /\ ~Finish(j)
  <2>1. /\ req' = [req EXCEPT ![j].pc = "asked", ![j].ts = now,
                              ![j].read.access = NoToken, ![j].read.expires = 0]
        /\ At(j, "enrich", "read") /\ UNCHANGED config
    BY <1>3 DEF Decide
  <2>2. /\ req'[j].pc = "asked" /\ req'[j].ts = now
        /\ req'[j].read.sa = req[j].read.sa /\ req'[j].read.refresh = req[j].read.refresh
    BY <1>0, <2>1 DEF AuthTypeOK, RequestRecords, Configs
  <2>3. QED
    BY <2>1, <2>2 DEF Moves, Rests
<1>4. CASE SignGrant(j) /\ ~Finish(j)
  <2>1. /\ At(j, "enrich", "asked") /\ req[j].read.sa # 0 /\ UNCHANGED <<now, config, cache>>
        /\ req' = [req EXCEPT ![j].pc = "answered", ![j].refresh = req[j].read.refresh,
                           ![j].token = [id |-> req[j].read.sa, until |-> now + Life]]
    BY <1>4 DEF SignGrant
  <2>2. Answering(j)
    BY <1>0, <2>1 DEF Answering, Identity, At, AuthTypeOK, RequestRecords
  <2>3. QED
    BY <2>2 DEF Moves
<1>5. CASE Refresh(j)
  <2>1. /\ At(j, "enrich", "asked") /\ req[j].read.sa = 0 /\ UNCHANGED <<now, config, cache>>
        /\ req' = [req EXCEPT ![j].pc = "answered", ![j].refresh = req[j].read.refresh,
                           ![j].token = [id |-> req[j].read.refresh.grant, until |-> now + Life]]
    BY <1>5 DEF Refresh
  <2>2. Answering(j)
    BY <1>0, <2>1 DEF Answering, Identity, At, AuthTypeOK, RequestRecords
  <2>3. QED
    BY <2>2 DEF Moves
<1>6. CASE RefreshRotating(j) /\ ~Finish(j)
  <2>1. /\ At(j, "enrich", "asked") /\ strategy = "oauth-bearer" /\ UNCHANGED <<now, config, cache>>
    BY <1>6 DEF RefreshRotating
  <2>2. req[j].read.sa = 0
    BY <2>1 DEF NoServiceAccount
  <2>3. PICK g \in Requests, n \in 1..MaxRotations :
          /\ g = req[j].read.refresh.grant
          /\ req' = [req EXCEPT ![j].pc = "answered",
                                ![j].refresh = [grant |-> g, seq |-> n],
                                ![j].token = [id |-> g, until |-> now + Life]]
    BY <1>6, RotationOf
  <2>4. Answering(j)
    BY <1>0, <2>1, <2>2, <2>3 DEF Answering, Identity, At, AuthTypeOK, RequestRecords
  <2>5. QED
    BY <2>4 DEF Moves
<1>7. CASE Persist(j)
  BY <1>7 DEF Persist, Writing, Moves
<1>8. QED
  BY <1>1, <1>2, <1>3, <1>4, <1>5, <1>6, <1>7 DEF EnrichSteps, RefreshFails, Remember

LEMMA CallbackMoves ==
  ASSUME AuthTypeOK, NEW j \in Requests, CallbackSteps(j)
  PROVE  Moves(j)
<1>0. req[j] \in RequestRecords
  BY DEF AuthTypeOK
<1>1. CASE Finish(j)
  BY <1>1, FinishIs, ClosedRests DEF Moves
<1>2. CASE ReadClient(j) /\ ~Finish(j)
  <2>1. /\ req' = [req EXCEPT ![j].pc = "asked", ![j].read.client = config.client,
                              ![j].read.secret = config.secret]
        /\ req[j].kind = "callback"
    BY <1>2 DEF ReadClient, At
  <2>2. req'[j].pc = "asked" /\ req'[j].ts = req[j].ts /\ req'[j].kind = "callback"
    BY <1>0, <2>1 DEF AuthTypeOK, RequestRecords
  <2>3. QED
    BY <2>2 DEF Moves, Rests
<1>3. CASE Exchange(j) /\ ~Finish(j)
  BY <1>3 DEF Exchange, Exchanged, Moves
<1>4. CASE SetRefresh(j) /\ ~Finish(j)
  BY <1>4 DEF SetRefresh, Set, Storing, Moves
<1>5. CASE SetAccess(j) /\ ~Finish(j)
  BY <1>5 DEF SetAccess, Set, Granting, Moves
<1>6. CASE SetExpires(j) /\ ~Finish(j)
  <2>1. Goto(j, "drop") /\ req[j].kind = "callback"
    BY <1>6 DEF SetExpires, At
  <2>2. req'[j].pc = "drop" /\ req'[j].ts = req[j].ts /\ req'[j].kind = "callback"
    BY <1>0, <2>1 DEF Goto, AuthTypeOK, RequestRecords
  <2>3. QED
    BY <2>2 DEF Moves, Rests
<1>7. QED
  BY <1>1, <1>2, <1>3, <1>4, <1>5, <1>6 DEF CallbackSteps, DropState

LEMMA StartMoves ==
  ASSUME AuthTypeOK, NEW j \in Requests, StartSteps(j)
  PROVE  Moves(j)
<1>0. req[j] \in RequestRecords
  BY DEF AuthTypeOK
<1>1. CASE Finish(j)
  BY <1>1, FinishIs, ClosedRests DEF Moves
<1>2. CASE ~Finish(j)
  <2>1. CASE StartBegin(j)
    <3>1. req'[j].kind = "start" /\ req'[j].ts = req[j].ts
      BY <1>0, <2>1 DEF StartBegin, AuthTypeOK, RequestRecords
    <3>2. QED
      BY <3>1 DEF Moves, Rests
  <2>2. CASE ~StartBegin(j)
    <3>1. req[j].kind = "start"
      BY <2>2 DEF StartSteps, Register, SetClient, SetSecret, InsertState, At
    <3>2. CASE Register(j)
      <4>1. req'[j].kind = "start" /\ req'[j].ts = req[j].ts
        BY <1>0, <1>2, <3>1, <3>2 DEF Register, AuthTypeOK, RequestRecords
      <4>2. QED
        BY <4>1 DEF Moves, Rests
    <3>3. CASE ~Register(j)
      <4>1. \E pc : Goto(j, pc)
        BY <1>2, <2>2, <3>3 DEF StartSteps, SetClient, SetSecret, InsertState, Set
      <4>2. req'[j].kind = "start" /\ req'[j].ts = req[j].ts
        BY <1>0, <3>1, <4>1 DEF Goto, AuthTypeOK, RequestRecords
      <4>3. QED
        BY <4>2 DEF Moves, Rests
    <3>4. QED
      BY <3>2, <3>3
  <2>3. QED
    BY <2>1, <2>2
<1>3. QED
  BY <1>1, <1>2

LEMMA MovesOf ==
  ASSUME AuthTypeOK, Unarrived, NoServiceAccount, AuthNext, NEW j \in Requests
  PROVE  Moves(j)
<1>1. CASE Tick
  BY <1>1 DEF Tick, Moves
<1>2. CASE Put \/ \E key \in Deletable : Delete(key)
  <2>1. req' = [req EXCEPT ![arrived + 1] = Closed]
    BY <1>2 DEF Put, Delete
  <2>2. req'[j] = req[j] \/ req'[j] = Closed
    BY <2>1 DEF AuthTypeOK
  <2>3. QED
    BY <2>2, ClosedRests DEF Moves
<1>3. CASE ProcessRestart
  <2>1. req'[j] = req[j] \/ req'[j] = Closed
    BY <1>3 DEF ProcessRestart
  <2>2. QED
    BY <2>1, ClosedRests DEF Moves
<1>4. ASSUME NEW i \in Requests, Acts(i), i # j
      PROVE  Moves(j)
  BY <1>4, OthersRest DEF Moves
<1>5. CASE \E f \in Requests : ReadStateExpired(j, f) \/ \E c \in Codes : ReadState(j, f, c)
  <2>1. \/ req'[j] = Closed
        \/ req'[j].pc = "stated" /\ req'[j].ts = req[j].ts /\ req'[j].kind = "callback"
    BY <1>5, FinishIs DEF ReadStateExpired, ReadState, AuthTypeOK, RequestRecords
  <2>2. QED
    BY <2>1, ClosedRests DEF Moves, Rests
<1>6. QED
  BY <1>1, <1>2, <1>3, <1>4, <1>5, StartMoves, CallbackMoves, EnrichMoves DEF AuthNext, Acts

\* The numbers as numbers.
LEMMA Numbers ==
  ASSUME AuthTypeOK
  PROVE  /\ now \in Int /\ since \in Int /\ Life \in Nat /\ CacheLife \in Nat /\ Margin \in Nat
         /\ config.expires \in Int /\ config.expires >= 0
         /\ config.access.until \in Int /\ config.access.until >= 0
         /\ cache.expires \in Int /\ cache.token.until \in Int
         /\ \A i \in Requests :
              /\ req[i].ts \in Int /\ req[i].ts >= 0 /\ req[i].token.until \in Int
              /\ req[i].read.expires \in Int /\ req[i].read.access.until \in Int
<1>1. Time \subseteq Nat /\ Instants \subseteq Nat
  BY SubMcpAuthAssumption DEF Time, Instants
<1>2. now \in Nat /\ since \in Nat
  BY <1>1 DEF AuthTypeOK
<1>3. \A t \in Tokens : t.until \in Nat
  BY <1>1 DEF Tokens
<1>4. \A c \in Configs : c.expires \in Nat /\ c.access \in Tokens
  BY <1>1 DEF Configs
<1>5. cache.expires \in Nat /\ cache.token \in Tokens /\ config \in Configs
  BY <1>1 DEF AuthTypeOK
<1>6. ASSUME NEW i \in Requests
      PROVE  req[i].ts \in Nat /\ req[i].token \in Tokens /\ req[i].read \in Configs
  BY <1>1, FieldTypes
<1>7. QED
  BY <1>2, <1>3, <1>4, <1>5, <1>6, SubMcpAuthAssumption

LEMMA ClockForward ==
  ASSUME AuthTypeOK, AuthNext
  PROVE  now <= now' /\ now' \in Int
<1>1. now' = now \/ now' = now + 1
  BY DEF AuthNext, Tick, Put, ProcessRestart, Delete, ReadStateExpired, ReadState, StartSteps,
         StartBegin, Register, SetClient, SetSecret, InsertState, CallbackSteps, ReadClient,
         Exchange, SetRefresh, SetAccess, SetExpires, DropState, EnrichSteps, EnrichRead,
         Decide, SignGrant, Refresh, RefreshRotating, RefreshFails, Persist, Remember
<1>2. QED
  BY <1>1, Numbers

\* Where the stored token and its expiry come from.
LEMMA ExpiryFrom ==
  ASSUME AuthTypeOK, AuthNext
  PROVE  /\ \/ config'.expires \in {config.expires, 0}
            \/ \E i \in Requests :
                 SetExpires(i) /\ config' = [config EXCEPT !.expires = now + Life]
         /\ \/ config'.access \in {config.access, NoToken}
            \/ \E i \in Requests : Granting(i)
<1>1. CASE config' = config
  BY <1>1
<1>2. CASE Put
  BY <1>2 DEF Put, AuthTypeOK, Configs
<1>3. ASSUME NEW key \in Deletable, Delete(key)
      PROVE  config'.expires \in {config.expires, 0} /\ config'.access \in {config.access, NoToken}
  <2>1. key \in {"client", "secret", "refresh", "access", "expires", "sa"}
    BY SubMcpAuthAssumption
  <2>2. QED
    BY <1>3, <2>1 DEF Delete, AuthTypeOK, Configs, NoConfig
<1>4. ASSUME NEW i \in Requests, Acts(i), config' # config
      PROVE  /\ \/ config'.expires \in {config.expires, 0}
                \/ SetExpires(i) /\ config' = [config EXCEPT !.expires = now + Life]
             /\ \/ config'.access \in {config.access, NoToken}
                \/ Granting(i)
  <2>1. CASE SetExpires(i) /\ config' = [config EXCEPT !.expires = now + Life]
    BY <2>1 DEF AuthTypeOK, Configs
  <2>2. CASE SetAccess(i) /\ config' = [config EXCEPT !["access"] = req[i].token]
    <3>1. Granting(i)
      BY <1>4, <2>2 DEF SetAccess, Set, Granting
    <3>2. config'.expires = config.expires
      BY <2>2 DEF AuthTypeOK, Configs
    <3>3. QED
      BY <3>1, <3>2
  <2>3. CASE \/ config' = [config EXCEPT !["client"] = i]
             \/ config' = [config EXCEPT !["secret"] = i]
             \/ config' = [config EXCEPT !["refresh"] = req[i].refresh]
             \/ config' = [config EXCEPT !.refresh = req[i].refresh]
    BY <2>3 DEF AuthTypeOK, Configs
  <2>4. QED
    BY <1>4, <2>1, <2>2, <2>3, Writes
<1>5. QED
  BY <1>1, <1>2, <1>3, <1>4 DEF AuthNext, Acts, Tick, ProcessRestart

\* Where the cache comes from.
LEMMA CacheFrom ==
  ASSUME AuthNext
  PROVE  \/ cache' = cache
         \/ cache' = [token |-> NoToken, expires |-> 0]
         \/ \E i \in Requests : Decide(i) \/ Remember(i)
BY DEF AuthNext, Tick, Put, ProcessRestart, Delete, ReadStateExpired, ReadState, StartSteps,
       StartBegin, Register, SetClient, SetSecret, InsertState, CallbackSteps, ReadClient,
       Exchange, SetRefresh, SetAccess, SetExpires, DropState, EnrichSteps, EnrichRead,
       SignGrant, Refresh, RefreshRotating, RefreshFails, Persist

LEMMA TimesStep ==
  ASSUME AuthTypeOK, Unarrived, NoServiceAccount, TimesPast, AuthNext
  PROVE  TimesPast'
<1>0. now <= now' /\ now \in Int /\ now' \in Int /\ Life \in Nat /\ CacheLife \in Nat
  BY ClockForward, Numbers
<1>1. config'.expires <= now' + Life
  <2>1. config'.expires \in {config.expires, 0, now + Life}
    BY ExpiryFrom DEF AuthTypeOK, Configs
  <2>2. config.expires <= now + Life /\ config.expires \in Int /\ now >= 0
    BY Numbers, SubMcpAuthAssumption DEF TimesPast, AuthTypeOK, Time
  <2>3. QED
    BY <1>0, <2>1, <2>2
<1>2. cache'.expires <= now' + CacheLife
  <2>1. cache.expires <= now + CacheLife /\ cache.expires \in Int /\ now >= 0
    BY Numbers, SubMcpAuthAssumption DEF TimesPast, AuthTypeOK, Time
  <2>2. CASE cache' = cache \/ cache' = [token |-> NoToken, expires |-> 0]
    BY <1>0, <2>1, <2>2
  <2>3. ASSUME NEW i \in Requests, Decide(i), cache' # cache
        PROVE  cache'.expires <= now' + CacheLife
    <3>1. cache'.expires = Lesser(req[i].read.expires, now + CacheLife)
      BY <2>3 DEF Decide
    <3>2. req[i].read.expires \in Int
      BY Numbers
    <3>3. QED
      BY <1>0, <3>1, <3>2 DEF Lesser
  <2>4. ASSUME NEW i \in Requests, Remember(i)
        PROVE  cache'.expires <= now' + CacheLife
    <3>1. cache'.expires = req[i].ts + Lesser(Life, CacheLife)
      BY <2>4 DEF Remember
    <3>2. req[i].ts \in Int /\ req[i].ts <= now
      BY Numbers DEF TimesPast
    <3>3. Lesser(Life, CacheLife) \in Int /\ Lesser(Life, CacheLife) <= CacheLife
      BY <1>0 DEF Lesser
    <3>4. QED
      BY <1>0, <3>1, <3>2, <3>3
  <2>5. QED
    BY <2>2, <2>3, <2>4, CacheFrom
<1>3. ASSUME NEW j \in Requests
      PROVE  /\ req'[j].ts <= now'
             /\ req'[j].kind = "enrich" /\ req'[j].pc \in {"answered", "persisted"}
                  => req'[j].ts + Life <= req'[j].token.until
  <2>0. /\ req[j].ts \in Int /\ req[j].ts <= now /\ now >= 0
        /\ req[j].kind = "enrich" /\ req[j].pc \in {"answered", "persisted"}
                  => req[j].ts + Life <= req[j].token.until
    BY Numbers, SubMcpAuthAssumption DEF TimesPast, AuthTypeOK, Time
  <2>1. CASE req'[j] = req[j]
    BY <1>0, <2>0, <2>1
  <2>2. CASE Rests(j)
    BY <1>0, <2>0, <2>2 DEF Rests
  <2>3. CASE Reading(j)
    BY <1>0, <2>0, <2>3 DEF Reading
  <2>4. CASE Exchanged(j)
    <3>1. req'[j].ts = req[j].ts /\ req'[j].kind = "callback"
      BY <2>4 DEF Exchanged, At, AuthTypeOK, RequestRecords
    <3>2. QED
      BY <1>0, <2>0, <3>1
  <2>5. CASE Storing(j) \/ Granting(j)
    <3>1. req'[j].ts = req[j].ts /\ req'[j].kind = "callback"
      BY <2>5 DEF Storing, Granting, Goto, At, AuthTypeOK, RequestRecords
    <3>2. QED
      BY <1>0, <2>0, <3>1
  <2>6. CASE Answering(j)
    BY <1>0, <2>0, <2>6 DEF Answering
  <2>7. CASE Writing(j)
    <3>1. /\ req'[j].ts = req[j].ts /\ req'[j].token = req[j].token
          /\ req[j].kind = "enrich" /\ req[j].pc = "answered"
      BY <2>7 DEF Writing, Goto, At, AuthTypeOK, RequestRecords
    <3>2. QED
      BY <1>0, <2>0, <3>1
  <2>8. QED
    BY <2>1, <2>2, <2>3, <2>4, <2>5, <2>6, <2>7, MovesOf DEF Moves
<1>4. QED
  BY <1>1, <1>2, <1>3 DEF TimesPast

\* Who writes the expiry holds the token it is the expiry of, in time.
LEMMA ExpiryInTime ==
  ASSUME AuthTypeOK, NEW i \in Requests, SetExpires(i), config' # config, "late" \notin mishaps'
  PROVE  /\ At(i, "callback", "setExpires") /\ Holding(i)
         /\ config' = [config EXCEPT !.expires = now + Life]
         /\ now + Life <= req[i].token.until + Margin
<1>1. /\ config' = [config EXCEPT !.expires = now + Life]
      /\ Note(If(now + Life > req[i].token.until + Margin, "late"))
      /\ At(i, "callback", "setExpires")
  BY DEF SetExpires
<1>2. ~(now + Life > req[i].token.until + Margin)
  BY <1>1 DEF Note, If
<1>3. Holding(i)
  BY <1>1 DEF Holding, At
<1>4. QED
  BY <1>1, <1>2, <1>3, Numbers

LEMMA ExpiriesStep ==
  ASSUME AuthTypeOK, Unarrived, NoServiceAccount, OneByOne, TimesPast, ExpiriesAgree, AuthNext
  PROVE  ExpiriesAgree'
<1>1. CASE mishaps' \cap {"writers", "late"} # {}
  BY <1>1 DEF ExpiriesAgree
<1>2. CASE mishaps' \cap {"writers", "late"} = {}
  <2>1. mishaps \cap {"writers", "late"} = {}
    BY <1>2, MishapsStay
  <2>2. /\ Truthful(config) /\ cache.expires <= cache.token.until + Margin
        /\ \A i \in Requests : ExpiryAgrees(i)
    BY <2>1 DEF ExpiriesAgree
  <2>3. Truthful(config)'
    <3>1. CASE config' = config
      BY <2>2, <3>1 DEF Truthful
    <3>2. ASSUME NEW i \in Requests, Granting(i)
          PROVE  Truthful(config)'
      <4>1. config'.access = req[i].token /\ config'.expires = config.expires
        BY <3>2 DEF Granting, AuthTypeOK, Configs
      <4>2. config.expires <= req[i].token.until + Margin
        BY <2>2, <3>2 DEF Granting, At, ExpiryAgrees
      <4>3. QED
        BY <4>1, <4>2 DEF Truthful
    <3>3. ASSUME NEW i \in Requests, SetExpires(i), config' # config
          PROVE  Truthful(config)'
      <4>1. /\ At(i, "callback", "setExpires") /\ now + Life <= req[i].token.until + Margin
            /\ config' = [config EXCEPT !.expires = now + Life]
        BY <1>2, <3>3, ExpiryInTime
      <4>2. config'.expires = now + Life /\ config'.access = config.access
        BY <4>1 DEF AuthTypeOK, Configs
      <4>3. config.access \in {NoToken, req[i].token}
        BY <2>2, <4>1 DEF ExpiryAgrees
      <4>4. QED
        BY <4>1, <4>2, <4>3 DEF Truthful
    <3>4. CASE config'.expires \in {config.expires, 0} /\ config'.access \in {config.access, NoToken}
      BY <2>2, <3>4, Numbers DEF Truthful
    <3>5. QED
      BY <3>1, <3>2, <3>3, <3>4, ExpiryFrom
  <2>4. cache'.expires <= cache'.token.until + Margin
    <3>1. CASE cache' = cache
      BY <2>2, <3>1
    <3>2. CASE cache' = [token |-> NoToken, expires |-> 0]
      BY <3>2, Numbers, LaterTypes
    <3>3. ASSUME NEW i \in Requests, Decide(i), cache' # cache
          PROVE  cache'.expires <= cache'.token.until + Margin
      <4>1. /\ At(i, "enrich", "read") /\ Serves(req[i].read) /\ ~Fresh(cache.expires)
            /\ cache' = [token |-> req[i].read.access,
                        expires |-> Lesser(req[i].read.expires, now + CacheLife)]
        BY <3>3 DEF Decide
      <4>2. req[i].read.access # NoToken
        BY <4>1 DEF Serves, StoredFresh
      <4>3. req[i].read.expires <= req[i].read.access.until + Margin
        BY <2>2, <4>1, <4>2 DEF ExpiryAgrees, Truthful
      <4>4. Lesser(req[i].read.expires, now + CacheLife) <= req[i].read.expires
        BY Numbers DEF Lesser
      <4>5. Lesser(req[i].read.expires, now + CacheLife) \in Int
        BY Numbers DEF Lesser
      <4>6. /\ cache'.expires = Lesser(req[i].read.expires, now + CacheLife)
            /\ cache'.token.until = req[i].read.access.until
        BY <4>1
      <4>7. QED
        BY <4>3, <4>4, <4>5, <4>6, Numbers
    <3>4. ASSUME NEW i \in Requests, Remember(i)
          PROVE  cache'.expires <= cache'.token.until + Margin
      <4>1. cache' = [token |-> req[i].token, expires |-> req[i].ts + Lesser(Life, CacheLife)]
        BY <3>4 DEF Remember
      <4>2. req[i].ts + Life <= req[i].token.until
        BY <3>4 DEF Remember, At, TimesPast
      <4>3. Lesser(Life, CacheLife) <= Life /\ Lesser(Life, CacheLife) \in Int
        BY Numbers DEF Lesser
      <4>4. cache'.expires = req[i].ts + Lesser(Life, CacheLife) /\ cache'.token.until = req[i].token.until
        BY <4>1
      <4>5. QED
        BY <4>2, <4>3, <4>4, Numbers
    <3>5. QED
      BY <3>1, <3>2, <3>3, <3>4, CacheFrom
  <2>5. ASSUME NEW j \in Requests
        PROVE  ExpiryAgrees(j)'
    <3>0. ExpiryAgrees(j)
      BY <2>2
    <3>1. CASE req'[j] = req[j]
      <4>1. At(j, "enrich", "read") => Truthful(req'[j].read)
        BY <3>0, <3>1 DEF ExpiryAgrees
      <4>2. ASSUME req[j].kind = "callback", req[j].pc \in {"answered", "setAccess"}
            PROVE  config'.expires <= req[j].token.until + Margin
        <5>1. config.expires <= req[j].token.until + Margin
          BY <3>0, <4>2 DEF ExpiryAgrees
        <5>2. config'.expires \in {config.expires, 0}
          <6>1. ASSUME NEW i \in Requests, SetExpires(i), config' # config
                PROVE  FALSE
            <7>1. At(i, "callback", "setExpires") /\ Holding(i)
              BY <1>2, <6>1, ExpiryInTime
            <7>2. i = j
              BY <2>1, <4>2, <7>1, SoleWriter DEF Holding
            <7>3. QED
              BY <4>2, <7>1, <7>2 DEF At
          <6>2. QED
            BY <6>1, ExpiryFrom
        <5>3. QED
          BY <5>1, <5>2, Numbers
      <4>3. ASSUME At(j, "callback", "setExpires")
            PROVE  config'.access \in {NoToken, req[j].token}
        <5>1. config.access \in {NoToken, req[j].token}
          BY <3>0, <4>3 DEF ExpiryAgrees
        <5>2. config'.access \in {config.access, NoToken}
          <6>1. ASSUME NEW i \in Requests, Granting(i)
                PROVE  FALSE
            <7>1. i = j
              BY <2>1, <4>3, <6>1, SoleWriter DEF Holding, Granting, At
            <7>2. QED
              BY <4>3, <6>1, <7>1 DEF Granting, At
          <6>2. QED
            BY <6>1, ExpiryFrom
        <5>3. QED
          BY <5>1, <5>2
      <4>4. QED
        BY <3>1, <4>1, <4>2, <4>3 DEF ExpiryAgrees, At, Truthful
    <3>2. CASE Rests(j)
      BY <3>2 DEF Rests, ExpiryAgrees, At
    <3>3. CASE Reading(j)
      BY <2>2, <3>3 DEF Reading, ExpiryAgrees, At, Truthful
    <3>4. CASE Exchanged(j)
      <4>1. /\ req'[j].kind = "callback" /\ req'[j].pc = "answered"
            /\ req'[j].token.until = now + Life /\ config' = config
        BY <3>4 DEF Exchanged, At, AuthTypeOK, RequestRecords
      <4>2. config.expires <= now + Life + Margin
        BY Numbers DEF TimesPast
      <4>3. QED
        BY <4>1, <4>2 DEF ExpiryAgrees, At
    <3>5. CASE Storing(j)
      <4>1. /\ req[j].kind = "callback" /\ req[j].pc = "answered"
            /\ req'[j].pc = "setAccess" /\ req'[j].token = req[j].token
            /\ req'[j].kind = "callback"
            /\ config'.expires = config.expires
        BY <3>5 DEF Storing, Goto, At, AuthTypeOK, RequestRecords, Configs
      <4>2. QED
        BY <3>0, <4>1 DEF ExpiryAgrees, At
    <3>6. CASE Granting(j)
      <4>1. /\ req'[j].pc = "setExpires" /\ req'[j].token = req[j].token
            /\ config'.access = req[j].token
        BY <3>6 DEF Granting, Goto, At, AuthTypeOK, RequestRecords, Configs
      <4>2. QED
        BY <4>1 DEF ExpiryAgrees, At
    <3>7. CASE Answering(j)
      BY <3>7 DEF Answering, ExpiryAgrees, At
    <3>8. CASE Writing(j)
      <4>1. req'[j].pc = "persisted"
        BY <3>8 DEF Writing, Goto, AuthTypeOK, RequestRecords
      <4>2. QED
        BY <4>1 DEF ExpiryAgrees, At
    <3>9. QED
      BY <3>1, <3>2, <3>3, <3>4, <3>5, <3>6, <3>7, <3>8, MovesOf DEF Moves
  <2>6. QED
    BY <2>3, <2>4, <2>5 DEF ExpiriesAgree
<1>3. QED
  BY <1>1, <1>2

\* What the identities are made of.
SameIds ==
  /\ config'.sa = config.sa /\ config'.refresh.grant = config.refresh.grant
  /\ config'.access = config.access
IdentityOf(sa, grant) == IF sa # 0 THEN sa ELSE grant

LEMMA IdentityIs ==
  /\ Identity(config) = IdentityOf(config.sa, config.refresh.grant)
  /\ Identity(config') = IdentityOf(config'.sa, config'.refresh.grant)
  /\ Identity(config)' = IdentityOf(config'.sa, config'.refresh.grant)
  /\ \A i \in Requests :
       Identity(req[i].read) = IdentityOf(req[i].read.sa, req[i].read.refresh.grant)
BY DEF Identity, IdentityOf

LEMMA ConfigIs ==
  ASSUME AuthTypeOK
  PROVE  /\ config \in Configs /\ NoConfig.refresh.grant = 0 /\ NoConfig.access = NoToken
         /\ config.refresh \in RefreshTokens
BY DEF AuthTypeOK, Configs, NoConfig, NoRefresh

LEMMA SinceIs ==
  ASSUME AuthNext
  PROVE  since' = IF Identity(config') # Identity(config) THEN now ELSE since
<1>1. CASE Tick
  BY <1>1 DEF Tick
<1>2. ASSUME NEW causes, Note(causes)
      PROVE  since' = IF Identity(config') # Identity(config) THEN now ELSE since
  BY <1>2, NoteSince
<1>3. QED
  BY <1>1, <1>2, NotedStep

\* A change by hand happens when nobody is using or writing the
\* configuration.
LEMMA HandsFree ==
  ASSUME "user" \notin mishaps', Put \/ \E key \in Deletable : Delete(key)
  PROVE  \A i \in Requests : ~Using(i) /\ ~Holding(i)
<1>1. "user" \notin ByHand
  BY DEF Put, Delete, Note
<1>2. QED
  BY <1>1 DEF ByHand, If

LEMMA ByHandKeeps ==
  ASSUME AuthTypeOK, Put \/ \E key \in Deletable : Delete(key)
  PROVE  /\ config'.refresh.grant \in {config.refresh.grant, 0}
         /\ config'.access \in {config.access, NoToken}
<1>1. CASE Put
  BY <1>1 DEF Put, AuthTypeOK, Configs
<1>2. ASSUME NEW key \in Deletable, Delete(key)
      PROVE  /\ config'.refresh.grant \in {config.refresh.grant, 0}
             /\ config'.access \in {config.access, NoToken}
  <2>1. key \in {"client", "secret", "refresh", "access", "expires", "sa"}
    BY SubMcpAuthAssumption
  <2>2. config' = [config EXCEPT ![key] = NoConfig[key]]
    BY <1>2 DEF Delete
  <2>3. CASE key = "refresh"
    <3>1. config'.refresh = NoConfig.refresh /\ config'.access = config.access
      BY <2>2, <2>3, ConfigIs DEF Configs
    <3>2. QED
      BY <3>1, ConfigIs
  <2>4. CASE key = "access"
    <3>1. config'.refresh = config.refresh /\ config'.access = NoConfig.access
      BY <2>2, <2>4, ConfigIs DEF Configs
    <3>2. QED
      BY <3>1, ConfigIs
  <2>5. CASE key \notin {"refresh", "access"}
    <3>1. config'.refresh = config.refresh /\ config'.access = config.access
      BY <2>1, <2>2, <2>5, ConfigIs DEF Configs
    <3>2. QED
      BY <3>1
  <2>6. QED
    BY <2>3, <2>4, <2>5
<1>3. QED
  BY <1>1, <1>2

\* Who else changes what the identities are made of.
LEMMA IdsFrom ==
  ASSUME AuthTypeOK, AuthNext
  PROVE  \/ SameIds
         \/ Put \/ \E key \in Deletable : Delete(key)
         \/ \E i \in Requests : Storing(i) \/ Granting(i) \/ Persist(i)
<1>1. CASE config' = config
  BY <1>1 DEF SameIds
<1>2. ASSUME NEW i \in Requests, Acts(i), config' # config
      PROVE  \/ SameIds
             \/ Storing(i) \/ Granting(i) \/ Persist(i)
  <2>1. CASE SetRefresh(i) /\ config' = [config EXCEPT !["refresh"] = req[i].refresh]
    BY <1>2, <2>1 DEF SetRefresh, Set, Storing
  <2>2. CASE SetAccess(i) /\ config' = [config EXCEPT !["access"] = req[i].token]
    BY <1>2, <2>2 DEF SetAccess, Set, Granting
  <2>3. CASE \/ config' = [config EXCEPT !["client"] = i]
             \/ config' = [config EXCEPT !["secret"] = i]
             \/ config' = [config EXCEPT !.expires = now + Life]
    BY <2>3 DEF SameIds, AuthTypeOK, Configs
  <2>4. QED
    BY <1>2, <2>1, <2>2, <2>3, Writes
<1>3. \/ config' = config
      \/ Put \/ \E key \in Deletable : Delete(key)
      \/ \E i \in Requests : Acts(i)
  BY DEF AuthNext, Acts, Tick, ProcessRestart
<1>4. QED
  BY <1>1, <1>2, <1>3

LEMMA SoleReader ==
  ASSUME OneByOne, "readers" \notin mishaps, NEW i \in Requests, NEW j \in Requests,
         Using(i) \/ Holding(i), Using(j) \/ Holding(j)
  PROVE  i = j
BY DEF OneByOne, AtMostOne, Readers, Writers

LEMMA SoleReaderNext ==
  ASSUME OneByOne', "readers" \notin mishaps', NEW i \in Requests, NEW j \in Requests,
         Using(i)' \/ Holding(i)', Using(j)' \/ Holding(j)'
  PROVE  i = j
<1> DEFINE R == Readers'
<1>1. i \in R /\ j \in R
  BY DEF Readers, Writers
<1>2. AtMostOne(R)
  BY DEF OneByOne
<1>3. QED
  BY <1>1, <1>2 DEF AtMostOne

LEMMA MidwayStays ==
  ASSUME AuthTypeOK, Unarrived, AuthNext, "lost" \notin mishaps', NEW i \in Requests, Midway(i)
  PROVE  Midway(i)' \/ Granting(i)
<1>0. /\ Holding(i) /\ req[i].kind = "callback" /\ req[i].pc \in {"answered", "setAccess"}
      /\ req'[i] = req[i] => Midway(i)'
  BY DEF Midway, Holding
<1>1. CASE Tick
  BY <1>0, <1>1 DEF Tick
<1>2. CASE Put \/ \E key \in Deletable : Delete(key)
  <2>1. req' = [req EXCEPT ![arrived + 1] = Closed]
    BY <1>2 DEF Put, Delete
  <2>2. i # arrived + 1
    BY <1>0 DEF Unarrived, Absent, AuthTypeOK
  <2>3. QED
    BY <1>0, <2>1, <2>2 DEF AuthTypeOK
<1>3. CASE ProcessRestart
  BY <1>0, <1>3 DEF ProcessRestart, Note, If
<1>4. ASSUME NEW j \in Requests, Acts(j), j # i
      PROVE  Midway(i)'
  BY <1>0, <1>4, OthersRest
<1>5. CASE Acts(i)
  <2>1. i # arrived + 1
    BY <1>0 DEF Unarrived, Absent, AuthTypeOK
  <2>2. SetRefresh(i) \/ SetAccess(i)
    <3>1. ~StartSteps(i)
      BY <1>0, <2>1 DEF StartSteps, StartBegin, Register, SetClient, SetSecret, InsertState, At
    <3>2. ~EnrichSteps(i)
      BY <1>0, <2>1 DEF EnrichSteps, EnrichRead, Decide, SignGrant, Refresh, RefreshRotating,
                        RefreshFails, Persist, Remember, At
    <3>3. CallbackSteps(i)
      BY <1>5, <2>1, <3>1, <3>2 DEF Acts, ReadStateExpired, ReadState
    <3>4. QED
      BY <1>0, <3>3 DEF CallbackSteps, ReadClient, Exchange, SetExpires, DropState, At
  <2>3. CASE SetRefresh(i)
    <3>1. Goto(i, "setAccess")
      BY <2>3 DEF SetRefresh, Set, Note, At
    <3>2. req'[i].kind = "callback" /\ req'[i].pc = "setAccess"
      BY <1>0, <3>1 DEF Goto, AuthTypeOK, RequestRecords
    <3>3. QED
      BY <3>2 DEF Midway
  <2>4. CASE SetAccess(i)
    <3>1. config' = [config EXCEPT !["access"] = req[i].token] /\ Goto(i, "setExpires")
      BY <2>4 DEF SetAccess, Set, Note, At
    <3>2. QED
      BY <2>4, <3>1 DEF SetAccess, Granting
  <2>5. QED
    BY <2>2, <2>3, <2>4
<1>6. QED
  BY <1>1, <1>2, <1>3, <1>4, <1>5 DEF AuthNext, Acts

\* The parts of the step: what is stored, who is using it, what is cached.
IdentityStepHolds ==
  /\ AuthTypeOK /\ Unarrived /\ NoServiceAccount /\ OneByOne /\ OneByOne' /\ TimesPast
  /\ AllIssued /\ IdentitiesAgree /\ AuthNext
  /\ mishaps \cap {"readers", "lost", "user"} = {} /\ mishaps' \cap {"readers", "lost", "user"} = {}

LEMMA WritingKeeps ==
  ASSUME AuthTypeOK, NEW i \in Requests, IdentityAgrees(i), Persist(i)
  PROVE  SameIds
<1>1. /\ config' = config \/ config' = [config EXCEPT !.refresh = req[i].refresh]
      /\ req[i].kind = "enrich" /\ req[i].pc = "answered"
  BY DEF Persist, At
<1>2. req[i].refresh.grant = config.refresh.grant
  BY <1>1 DEF IdentityAgrees
<1>3. CASE config' = config
  BY <1>3 DEF SameIds
<1>4. CASE config' = [config EXCEPT !.refresh = req[i].refresh]
  <2>1. config'.refresh = req[i].refresh /\ config'.sa = config.sa /\ config'.access = config.access
    BY <1>4, ConfigIs DEF Configs
  <2>2. QED
    BY <1>2, <2>1 DEF SameIds
<1>5. QED
  BY <1>1, <1>3, <1>4

LEMMA StoredBelongs ==
  ASSUME IdentityStepHolds
  PROVE  (\A i \in Requests : ~Midway(i)') => Belongs(config)'
<1> USE DEF IdentityStepHolds
<1>0. /\ (\A i \in Requests : ~Midway(i)) => Belongs(config)
      /\ \A i \in Requests : IdentityAgrees(i)
  BY DEF IdentitiesAgree
<1> SUFFICES ASSUME \A i \in Requests : ~Midway(i)'
             PROVE  Belongs(config)'
  OBVIOUS
<1>1. ASSUME NEW i \in Requests, Granting(i)
      PROVE  Belongs(config)'
  <2>1. config'.access = req[i].token /\ config'.refresh = config.refresh
    BY <1>1, ConfigIs DEF Granting, Configs
  <2>2. config.refresh.grant = req[i].token.id
    BY <1>0, <1>1 DEF IdentityAgrees, Granting
  <2>3. QED
    BY <2>1, <2>2 DEF Belongs
<1>2. ASSUME \A i \in Requests : ~Granting(i)
      PROVE  Belongs(config)'
  <2>1. \A i \in Requests : ~Midway(i)
    BY <1>2, MidwayStays
  <2>2. Belongs(config)
    BY <1>0, <2>1
  <2>3. CASE SameIds
    BY <2>2, <2>3 DEF SameIds, Belongs
  <2>4. CASE Put \/ \E key \in Deletable : Delete(key)
    BY <2>2, <2>4, ByHandKeeps DEF Belongs
  <2>5. ASSUME NEW i \in Requests, Storing(i)
        PROVE  FALSE
    BY <2>1, <2>5 DEF Storing, At, Midway
  <2>6. ASSUME NEW i \in Requests, Persist(i)
        PROVE  SameIds
    BY <1>0, <2>6, WritingKeeps
  <2>7. QED
    BY <1>2, <2>3, <2>4, <2>5, <2>6, IdsFrom
<1>3. QED
  BY <1>1, <1>2

\* Who is using the configuration, or midway, sees nobody else change it.
LEMMA NobodyElse ==
  ASSUME IdentityStepHolds, NEW j \in Requests, Using(j) \/ Holding(j), ~Storing(j), ~Granting(j)
  PROVE  SameIds
<1> USE DEF IdentityStepHolds
<1>1. ~Put /\ ~\E key \in Deletable : Delete(key)
  BY HandsFree
<1>2. ASSUME NEW i \in Requests, Storing(i) \/ Granting(i)
      PROVE  FALSE
  <2>1. Holding(i)
    BY <1>2 DEF Storing, Granting, Holding, At
  <2>2. i = j
    BY <2>1, SoleReader
  <2>3. QED
    BY <1>2, <2>2
<1>3. ASSUME NEW i \in Requests, Persist(i)
      PROVE  SameIds
  BY <1>3, WritingKeeps DEF IdentitiesAgree
<1>4. QED
  BY <1>1, <1>2, <1>3, IdsFrom

LEMMA UserAgrees ==
  ASSUME IdentityStepHolds, NEW j \in Requests
  PROVE  IdentityAgrees(j)'
<1> USE DEF IdentityStepHolds
<1>0. IdentityAgrees(j) /\ Moves(j)
  BY MovesOf DEF IdentitiesAgree
<1>1. CASE req'[j] = req[j]
  <2>1. CASE ~Using(j) /\ ~Midway(j)
    BY <1>1, <2>1 DEF IdentityAgrees, Using, Midway, At
  <2>2. CASE Using(j) \/ Midway(j)
    <3>1. ~Storing(j) /\ ~Granting(j)
      BY <1>1 DEF Storing, Granting, Goto, At, AuthTypeOK, RequestRecords
    <3>2. SameIds
      BY <2>2, <3>1, NobodyElse DEF Midway, Holding
    <3>3. Identity(config)' = Identity(config)
      BY <3>2, IdentityIs DEF SameIds
    <3>4. QED
      BY <1>0, <1>1, <3>2, <3>3 DEF IdentityAgrees, Using, At, SameIds, Belongs
  <2>3. QED
    BY <2>1, <2>2
<1>2. CASE Rests(j)
  <2>1. CASE req'[j].kind = "enrich"
    <3>1. /\ At(j, "enrich", "read") /\ req'[j].pc = "asked" /\ config' = config
          /\ req'[j].read.sa = req[j].read.sa /\ req'[j].read.refresh = req[j].read.refresh
      BY <1>2, <2>1 DEF Rests
    <3>2. req[j].read.sa = config.sa /\ req[j].read.refresh.grant = config.refresh.grant
      BY <1>0, <3>1 DEF IdentityAgrees, Using, At
    <3>3. QED
      BY <2>1, <3>1, <3>2 DEF IdentityAgrees, Using, At
  <2>2. CASE req'[j].kind # "enrich"
    BY <1>2, <2>2 DEF Rests, IdentityAgrees, Using, At
  <2>3. QED
    BY <2>1, <2>2
<1>3. CASE Reading(j)
  <2>1. /\ req'[j].kind = "enrich" /\ req'[j].pc = "read" /\ req'[j].read = config
        /\ config' = config
    BY <1>3 DEF Reading
  <2>2. Using(j)'
    BY <2>1 DEF Using
  <2>3. ASSUME NEW i \in Requests
        PROVE  ~Midway(i)'
    <3>1. Midway(i)' => i = j
      BY <2>2, SoleReaderNext DEF Midway, Holding
    <3>2. QED
      BY <2>1, <3>1 DEF Midway
  <2>4. Belongs(config)'
    BY <2>3, StoredBelongs
  <2>5. QED
    BY <2>1, <2>4 DEF IdentityAgrees, Using, At, Belongs
<1>4. CASE Exchanged(j)
  <2>1. /\ req'[j].kind = "callback" /\ req'[j].pc = "answered"
        /\ req'[j].refresh.grant = j /\ req'[j].token.id = j
    BY <1>4 DEF Exchanged, At, AuthTypeOK, RequestRecords
  <2>2. QED
    BY <2>1 DEF IdentityAgrees, Using, At
<1>5. CASE Storing(j)
  <2>1. /\ req'[j].kind = "callback" /\ req'[j].pc = "setAccess"
        /\ req'[j].token = req[j].token /\ At(j, "callback", "answered")
    BY <1>5 DEF Storing, Goto, At, AuthTypeOK, RequestRecords
  <2>2. config'.refresh = req[j].refresh
    BY <1>5, ConfigIs DEF Storing, Configs
  <2>3. config'.refresh.grant = req'[j].token.id
    BY <1>0, <2>1, <2>2 DEF IdentityAgrees
  <2>4. QED
    BY <2>1, <2>3 DEF IdentityAgrees, Using, At
<1>6. CASE Granting(j)
  <2>1. req'[j].kind = "callback" /\ req'[j].pc = "setExpires"
    BY <1>6 DEF Granting, Goto, At, AuthTypeOK, RequestRecords
  <2>2. QED
    BY <2>1 DEF IdentityAgrees, Using, At
<1>7. CASE Answering(j)
  <2>1. /\ req[j].kind = "enrich" /\ req[j].pc = "asked" /\ req'[j].kind = "enrich"
        /\ req'[j].pc = "answered" /\ req'[j].read = req[j].read /\ config' = config
        /\ req'[j].token.id = Identity(req[j].read)
        /\ req'[j].refresh.grant = req[j].read.refresh.grant
    BY <1>7 DEF Answering, At
  <2>2. req[j].read.sa = config.sa /\ req[j].read.refresh.grant = config.refresh.grant
    BY <1>0, <2>1 DEF IdentityAgrees, Using
  <2>3. Identity(req[j].read) = Identity(config) /\ Identity(config)' = Identity(config)
    BY <2>1, <2>2, IdentityIs
  <2>4. QED
    BY <2>1, <2>2, <2>3 DEF IdentityAgrees, Using, At
<1>8. CASE Writing(j)
  <2>1. /\ req[j].kind = "enrich" /\ req[j].pc = "answered" /\ req'[j].kind = "enrich"
        /\ req'[j].pc = "persisted" /\ req'[j].read = req[j].read
        /\ req'[j].token = req[j].token /\ req'[j].refresh = req[j].refresh
    BY <1>8 DEF Writing, Goto, At, AuthTypeOK, RequestRecords
  <2>2. SameIds
    BY <2>1, NobodyElse DEF Using, Storing, Granting, At
  <2>3. Identity(config)' = Identity(config)
    BY <2>2, IdentityIs DEF SameIds
  <2>4. QED
    BY <1>0, <2>1, <2>2, <2>3 DEF IdentityAgrees, Using, At, SameIds
<1>9. QED
  BY <1>0, <1>1, <1>2, <1>3, <1>4, <1>5, <1>6, <1>7, <1>8 DEF Moves

LEMMA SumIsNatural == ASSUME NEW m \in Nat, NEW n \in Nat PROVE 0 <= m + n
OBVIOUS

\* An emptied cache has long expired.
LEMMA EmptyExpired ==
  ASSUME AuthTypeOK, AuthNext
  PROVE  0 <= since' + CacheLife
<1>1. AuthTypeOK'
  BY AuthTypeStep
<1>2. since' \in Nat /\ CacheLife \in Nat
  BY <1>1, SubMcpAuthAssumption DEF AuthTypeOK, Time
<1>3. QED
  BY <1>2, SumIsNatural

LEMMA CachedAgrees ==
  ASSUME IdentityStepHolds
  PROVE  cache'.token.id = Identity(config)' \/ cache'.expires <= since' + CacheLife
<1> USE DEF IdentityStepHolds
<1>0. /\ cache.token.id = Identity(config) \/ cache.expires <= since + CacheLife
      /\ cache.expires <= now + CacheLife
      /\ \A i \in Requests : IdentityAgrees(i)
      /\ Identity(config)' = Identity(config')
  BY IdentityIs DEF IdentitiesAgree, TimesPast
<1>1. CASE cache' = cache
  BY <1>0, <1>1, SinceIs
<1>2. CASE cache' = [token |-> NoToken, expires |-> 0]
  <2>1. cache'.expires = 0
    BY <1>2
  <2>2. QED
    BY <2>1, EmptyExpired
<1>3. ASSUME NEW i \in Requests, Decide(i), cache' # cache
      PROVE  cache'.token.id = Identity(config)'
  <2>1. /\ At(i, "enrich", "read") /\ Serves(req[i].read) /\ ~Fresh(cache.expires)
        /\ cache'.token = req[i].read.access /\ config' = config
    BY <1>3 DEF Decide
  <2>2. /\ strategy = "oauth-bearer" /\ req[i].read.access # NoToken /\ Complete(req[i].read)
    BY <2>1 DEF Serves, StoredFresh
  <2>3. req[i].read.sa = 0 /\ config.sa = 0
    BY <2>2 DEF NoServiceAccount
  <2>4. req[i].read.refresh.grant # 0
    BY <2>2, <2>3 DEF Complete, AllIssued, Issued
  <2>5. /\ req[i].read.refresh.grant = config.refresh.grant
        /\ req[i].read.access.id = req[i].read.refresh.grant
    BY <1>0, <2>1, <2>2, <2>4 DEF IdentityAgrees, Using, At, Belongs
  <2>6. Identity(config) = config.refresh.grant
    BY <2>3 DEF Identity
  <2>7. QED
    BY <1>0, <2>1, <2>5, <2>6
<1>4. ASSUME NEW i \in Requests, Remember(i)
      PROVE  cache'.token.id = Identity(config)'
  <2>1. /\ req[i].kind = "enrich" /\ req[i].pc \in {"answered", "persisted"}
        /\ cache'.token = req[i].token /\ config' = config
    BY <1>4 DEF Remember, At
  <2>2. req[i].token.id = Identity(config)
    BY <1>0, <2>1 DEF IdentityAgrees
  <2>3. QED
    BY <1>0, <2>1, <2>2
<1>5. QED
  BY <1>1, <1>2, <1>3, <1>4, CacheFrom

LEMMA IdentitiesStep ==
  ASSUME AuthTypeOK, Unarrived, NoServiceAccount, AllIssued, OneByOne, TimesPast,
         IdentitiesAgree, AuthNext
  PROVE  IdentitiesAgree'
<1>1. CASE mishaps' \cap {"readers", "lost", "user"} # {}
  BY <1>1 DEF IdentitiesAgree
<1>2. CASE mishaps' \cap {"readers", "lost", "user"} = {}
  <2>1. mishaps \cap {"readers", "lost", "user"} = {}
    BY <1>2, MishapsStay
  <2>2. IdentityStepHolds
    BY <1>2, <2>1, OneByOneStep DEF IdentityStepHolds
  <2>3. QED
    BY <2>2, StoredBelongs, UserAgrees, CachedAgrees DEF IdentitiesAgree
<1>3. QED
  BY <1>1, <1>2

-----------------------------------------------------------------------------
LEMMA AuthInvInit == AuthInit => AuthInv
<1> SUFFICES ASSUME AuthInit PROVE AuthInv
  OBVIOUS
<1>1. AuthTypeOK
  BY AuthTypeInit
<1>2. \A i \in Requests : req[i] = Absent
  BY DEF AuthInit
<1>3. ASSUME NEW i \in Requests
      PROVE  ~Starting(i) /\ ~Holding(i) /\ ~Using(i) /\ ~Carrying(i) /\ ~Midway(i)
             /\ \A pc : ~At(i, "start", pc) /\ ~At(i, "callback", pc) /\ ~At(i, "enrich", pc)
  BY <1>2 DEF Absent, Starting, Holding, Using, Carrying, Midway, At
<1>4. OneByOne
  BY <1>3 DEF OneByOne, AtMostOne, Starters, Writers, Readers
<1>5. Unarrived
  BY <1>2 DEF Unarrived
<1>6. /\ config.sa = 0 /\ config.client = 0 /\ config.secret = 0 /\ config.refresh = NoRefresh
      /\ config.access = NoToken /\ config.expires = 0
  BY DEF AuthInit, NoConfig
<1>7. NoServiceAccount
  BY <1>2, <1>6 DEF NoServiceAccount, Absent, NoConfig
<1>8. AllIssued
  BY <1>2, <1>6 DEF AllIssued, Issued, Absent, NoConfig, AuthInit
<1>9. ClientsAgree
  <2>1. \A i \in Requests : StartAgrees(i) /\ CallbackAgrees(i)
    BY <1>2, <1>3 DEF StartAgrees, CallbackAgrees, Absent
  <2>2. config.secret = Secret(config.client)
    BY <1>6 DEF Secret
  <2>3. \A f \in Requests : flows[f].row = "none"
    BY DEF AuthInit
  <2>4. QED
    BY <2>1, <2>2, <2>3 DEF ClientsAgree
<1>10. NewestKept
  BY <1>3, <1>6 DEF NewestKept
<1>11. /\ cache.expires = 0 /\ cache.token.id = 0 /\ cache.token.until = 0 /\ now = 0 /\ since = 0
       /\ Life \in Nat /\ CacheLife \in Nat /\ Margin \in Nat
  BY SubMcpAuthAssumption DEF AuthInit, NoToken
<1>12. TimesPast
  BY <1>2, <1>6, <1>11 DEF TimesPast, Absent
<1>13. ExpiriesAgree
  BY <1>2, <1>3, <1>6, <1>11 DEF ExpiriesAgree, ExpiryAgrees, Truthful, Absent
<1>14. IdentitiesAgree
  <2>1. \A i \in Requests : IdentityAgrees(i)
    BY <1>2, <1>3 DEF IdentityAgrees, Absent
  <2>2. Belongs(config)
    BY <1>6 DEF Belongs
  <2>3. QED
    BY <1>11, <2>1, <2>2 DEF IdentitiesAgree
<1>15. QED
  BY <1>1, <1>4, <1>5, <1>7, <1>8, <1>9, <1>10, <1>12, <1>13, <1>14 DEF AuthInv

LEMMA AuthInvStep == AuthInv /\ [AuthNext]_authVars => AuthInv'
<1> SUFFICES ASSUME AuthInv, [AuthNext]_authVars PROVE AuthInv'
  OBVIOUS
<1>1. CASE AuthNext
  BY <1>1, AuthTypeStep, OneByOneStep, UnarrivedStep, NoServiceAccountStep, AllIssuedStep,
     ClientsStep, NewestStep, TimesStep, ExpiriesStep, IdentitiesStep DEF AuthInv
<1>2. CASE UNCHANGED authVars
  <2>1. UNCHANGED <<strategy, now, config, flows, spent, grants, cache, req, arrived, since, mishaps>>
    BY <1>2 DEF authVars
  <2>2. ASSUME NEW i \in Requests
        PROVE  /\ Starting(i)' <=> Starting(i)
               /\ Holding(i)' <=> Holding(i)
               /\ Using(i)' <=> Using(i)
    BY <2>1 DEF Starting, Holding, Using, At
  <2>3. OneByOne'
    <3>1. Starters' = Starters /\ Writers' = Writers /\ Readers' = Readers
      BY <2>2 DEF Starters, Writers, Readers
    <3>2. QED
      BY <2>1, <3>1 DEF AuthInv, OneByOne, AtMostOne
  <2>4. AuthTypeOK' /\ Unarrived' /\ NoServiceAccount' /\ AllIssued' /\ TimesPast'
    BY <2>1 DEF AuthInv, AuthTypeOK, Unarrived, NoServiceAccount, AllIssued, Issued, TimesPast
  <2>5. ClientsAgree'
    <3>1. \A j \in Requests : SameRole(j)
      BY <2>1 DEF SameRole
    <3>2. QED
      BY <2>1, <3>1, ClientsFrame DEF AuthInv, ClientsAgree
  <2>6. NewestKept'
    <3>1. \A j \in Requests : CarriesOn(j)
      BY <2>1, CarryingIs DEF CarriesOn
    <3>2. QED
      BY <2>1, <3>1, NewestFrame DEF AuthInv, NewestKept
  <2>7. ExpiriesAgree'
    BY <2>1 DEF AuthInv, ExpiriesAgree, ExpiryAgrees, Truthful, At
  <2>8. IdentitiesAgree'
    BY <2>1, <2>2 DEF AuthInv, IdentitiesAgree, IdentityAgrees, Midway, Belongs, At, Identity
  <2>9. QED
    BY <2>3, <2>4, <2>5, <2>6, <2>7, <2>8 DEF AuthInv
<1>3. QED
  BY <1>1, <1>2

\* The invariant of the user's authorisations and of the enricher holds in
\* every reachable state.
THEOREM AuthInvariance == AuthSpec => []AuthInv
BY AuthInvInit, AuthInvStep, PTL DEF AuthSpec

\* Every variable has its type, the refresh token a rotation issues and the
\* instants of the cache included.
THEOREM AuthTypeCorrect == AuthSpec => []AuthTypeOK
<1>1. AuthInv => AuthTypeOK
  BY DEF AuthInv
<1>2. QED
  BY <1>1, AuthInvariance, PTL

\* However calls and consents overlap, the refresh token of the configuration
\* has no successor, unless two requests held new tokens at once or one was
\* lost (sub-mcp-auth-enricher.ts:439-463).
THEOREM RefreshTokenStaysAccepted == AuthSpec => []RefreshTokenAccepted
<1>1. AuthInv => RefreshTokenAccepted
  BY DEF AuthInv, NewestKept, RefreshTokenAccepted, Carrying
<1>2. QED
  BY <1>1, AuthInvariance, PTL

\* A code is presented with the client the authorisation URL named, and with
\* its secret, although callback reads the configuration again
\* (user-server-oauth.ts:404-427).
THEOREM CodesGoToTheirClients == AuthSpec => []CodeGoesToItsClient
<1>1. AuthInv => CodeGoesToItsClient
  BY DEF AuthInv, ClientsAgree, CallbackAgrees, CodeGoesToItsClient, ClientAccepted, At
<1>2. QED
  BY <1>1, AuthInvariance, PTL

\* What the cache or the configuration serves has not expired at the provider
\* (sub-mcp-auth-enricher.ts:363-382), for any lifetimes and any margin.
THEOREM ServedTokensAlive == AuthSpec => []ServedTokenAlive
<1>1. ASSUME AuthInv, Serves(config), mishaps \cap {"writers", "late"} = {}
      PROVE  Served(config).until > now
  <2>1. Truthful(config) /\ cache.expires <= cache.token.until + Margin
    BY <1>1 DEF AuthInv, ExpiriesAgree
  <2>2. AuthTypeOK
    BY <1>1 DEF AuthInv
  <2>3. CASE Fresh(cache.expires)
    BY <2>1, <2>2, <2>3, Numbers DEF Fresh, Served
  <2>4. CASE ~Fresh(cache.expires)
    <3>1. config.access # NoToken /\ Fresh(config.expires)
      BY <1>1, <2>4 DEF Serves, StoredFresh
    <3>2. QED
      BY <2>1, <2>2, <2>4, <3>1, Numbers DEF Fresh, Served, Truthful
  <2>5. QED
    BY <2>3, <2>4
<1>2. AuthInv => ServedTokenAlive
  BY <1>1 DEF ServedTokenAlive
<1>3. QED
  BY <1>2, AuthInvariance, PTL

\* What is served belongs to the account that is configured, or is less than
\* the lifetime of a cache entry younger than the change
\* (sub-mcp-auth-enricher.ts:240-249, 470-473).
THEOREM ServedTokensAreTheUsers == AuthSpec => []ServedIdentity
<1>1. ASSUME AuthInv, Serves(config), mishaps \cap {"readers", "lost", "user"} = {},
             \A i \in Requests : ~Holding(i)
      PROVE  Served(config).id = Identity(config) \/ now + Margin < since + CacheLife
  <2>1. \A i \in Requests : ~Midway(i)
    BY <1>1 DEF Midway, Holding
  <2>2. /\ Belongs(config)
        /\ cache.token.id = Identity(config) \/ cache.expires <= since + CacheLife
    BY <1>1, <2>1 DEF AuthInv, IdentitiesAgree
  <2>3. AuthTypeOK
    BY <1>1 DEF AuthInv
  <2>4. CASE Fresh(cache.expires)
    BY <2>2, <2>3, <2>4, Numbers DEF Fresh, Served
  <2>5. CASE ~Fresh(cache.expires)
    <3>1. config.access # NoToken /\ strategy = "oauth-bearer" /\ Complete(config)
      BY <1>1, <2>5 DEF Serves, StoredFresh
    <3>2. config.sa = 0 /\ config.refresh.grant # 0
      BY <1>1, <3>1 DEF AuthInv, NoServiceAccount, Complete, AllIssued, Issued
    <3>3. QED
      BY <2>2, <2>5, <3>1, <3>2 DEF Belongs, Served, Identity
  <2>6. QED
    BY <2>4, <2>5
<1>2. AuthInv => ServedIdentity
  BY <1>1 DEF ServedIdentity
<1>3. QED
  BY <1>2, AuthInvariance, PTL
===============================================================================
